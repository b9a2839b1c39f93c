------------------------------- MODULE Pusher -------------------------------
(***************************************************************************)
(* One bal-pusher process (bin/bal-pusher.rs), the rows of tbl_tx of its   *)
(* network, and the Bitcoin node it broadcasts to.  main() waits for       *)
(* hashblock notifications; for each, and once when it starts, it runs     *)
(* main_result, whose RPC calls and SQL statements are the steps below:    *)
(* between any two of them the node moves on, the web server stores        *)
(* transactions, a call fails or the process dies.                         *)
(*                                                                         *)
(* A definition whose comment begins with "Bug:" is a plausible mistake in *)
(* the definition after it.  No action uses it: it is there to show which  *)
(* property would catch the mistake.                                       *)
(***************************************************************************)
EXTENDS BitcoinNode, Integers

CONSTANTS
  MaxPending,  \* ZMQ's queue: notifications beyond it are dropped
  NoTx         \* no transaction

ASSUME PendingAssumption == MaxPending \in Nat \ {0}
ASSUME NoTxAssumption    == NoTx \notin Txs

(* tbl_tx.status *)
Waiting == 0
Sent    == 1
Failed  == 2

Rejections == {"known", "spent", "premature", "refused"}
\* tbl_tx.push_err: what the node said, that it said nothing, or "evicted" for
\* "double-spent: tx evicted from mempool".
Errors   == Rejections \cup {"none", "unreachable", "evicted"}
Verdicts == Rejections \cup {"none", "unreachable", "accepted"}
Phases   == {"down", "client", "select", "send", "store", "list", "track",
             "probe", "report", "recount", "idle"}

VARIABLES
  stored,     \* the transactions that have a row in tbl_tx
  status,     \* their columns status, confirmations and push_err
  confs,
  pushErr,
  stats,      \* the network's row of tbl_stats, {} when there is none
  tipFile,    \* the height in block-status.json
  accepted,   \* history: what the node has accepted from this executor
  pc,         \* the step of main_result that comes next
  pending,    \* hashblock messages in the socket's queue
  tip,        \* bcinfo: the tip getblockchaininfo returned in this pass
  todo,       \* rows selected and not sent yet
  verdict,    \* pushed_txs and invalid_txs: what the node said of each
  tracked,    \* conf_txids still to be looked up
  probed      \* the one getrawtransaction did not find

tableVars == <<stored, status, confs, pushErr, stats, tipFile>>
passVars  == <<tip, todo, verdict, tracked, probed>>
pusherVars == <<pc, pending, tip, todo, verdict, tracked, probed>>
vars == <<nodeVars, tableVars, accepted, pusherVars>>

NoStats == {}
\* Bug: the constants of two COUNTs are swapped.
StatsOfSwapped == [waiting |-> {t \in stored : status[t] = Sent},
                   sent    |-> {t \in stored : status[t] = Waiting},
                   failed  |-> {t \in stored : status[t] = Failed}]

\* Each COUNT of the stats row is kept as the set of rows it counts.
StatsOf == [waiting |-> {t \in stored : status[t] = Waiting},
            sent    |-> {t \in stored : status[t] = Sent},
            failed  |-> {t \in stored : status[t] = Failed}]

Init ==
  /\ NodeInit
  /\ stored = {}
  /\ status = [t \in Txs |-> Waiting]
  /\ confs = [t \in Txs |-> 0]
  /\ pushErr = [t \in Txs |-> "none"]
  /\ stats = NoStats
  /\ tipFile = 0
  /\ accepted = {}
  /\ pc = "down"
  /\ pending = 0
  /\ tip = [height |-> 0, mtp |-> 0]
  /\ todo = {}
  /\ verdict = [t \in Txs |-> "none"]
  /\ tracked = {}
  /\ probed = NoTx

-----------------------------------------------------------------------------
(* The surroundings: the web server and the node *)

\* bal-server stores a pushed transaction (execute_insert): a row of status 0.
Arrive(t) ==
  /\ t \notin stored
  /\ stored' = stored \cup {t}
  /\ UNCHANGED <<nodeVars, status, confs, pushErr, stats, tipFile, accepted,
                 pusherVars>>

\* Bug: main listens only while it has nothing to do.
QueuedWhenIdle == IF pc = "idle" THEN Bump(pending, MaxPending) ELSE pending

\* The socket's queue after one more message, which is dropped if it is full.
Queued == Bump(pending, MaxPending)

\* The hashblock message reaches the subscribed socket.
HeardBlock ==
  /\ pc # "down"
  /\ MineBlock
  /\ pending' = Queued
  /\ UNCHANGED <<faults, tableVars, accepted, pc, passVars>>

\* Nobody is subscribed, or the connection is broken and the message is lost.
UnheardBlock ==
  /\ MineBlock
  /\ IF pc = "down" THEN UNCHANGED faults ELSE Fault("unheard")
  /\ UNCHANGED <<tableVars, accepted, pusherVars>>

NodeFails ==
  /\ (\E t \in Txs : Evict(t) \/ Relay(t)) \/ NodeStop
  /\ UNCHANGED <<tableVars, accepted, pusherVars>>

NodeReturns ==
  /\ NodeStart
  /\ UNCHANGED <<tableVars, accepted, pusherVars>>

-----------------------------------------------------------------------------
(* main: start, wait for a block, die *)

\* main subscribes before its first pass (restart: unless-stopped).
Start ==
  /\ pc = "down"
  /\ pc' = "client"
  /\ UNCHANGED <<nodeVars, tableVars, accepted, pending, passVars>>

\* Bug: recv_multipart's timeout is taken for a message.
ReceiveTimeout ==
  /\ pc = "idle"
  /\ pending' = pending - 1
  /\ pc' = "client"
  /\ UNCHANGED <<nodeVars, tableVars, accepted, passVars>>

Receive ==
  /\ pc = "idle"
  /\ pending > 0
  /\ pending' = pending - 1
  /\ pc' = "client"
  /\ UNCHANGED <<nodeVars, tableVars, accepted, passVars>>

ClearPass ==
  /\ tip' = [height |-> 0, mtp |-> 0]
  /\ todo' = {}
  /\ verdict' = [t \in Txs |-> "none"]
  /\ tracked' = {}
  /\ probed' = NoTx

\* The process ends: locals and the queue are gone, the tables stay.
Die ==
  /\ pc' = "down"
  /\ pending' = 0
  /\ ClearPass
  /\ UNCHANGED <<height, mtp, mempool, minedAt, rivals, up, tableVars,
                 accepted>>

\* A kill, or exit(1).
Crash ==
  /\ Fault("crash")
  /\ pc # "down"
  /\ Die

-----------------------------------------------------------------------------
(* main_result: choose what has matured and send it *)

\* get_client: connect, getblockchaininfo, then publish the tip's height.
Connect ==
  /\ pc = "client"
  /\ up
  /\ tip' = [height |-> height, mtp |-> mtp]
  /\ tipFile' = height
  /\ pc' = "select"
  /\ UNCHANGED <<nodeVars, stored, status, confs, pushErr, stats, accepted,
                 pending, todo, verdict, tracked, probed>>

\* "retrying on next block": the notification has been consumed all the same.
ConnectFails ==
  /\ pc = "client"
  /\ ~up
  /\ pc' = "idle"
  /\ UNCHANGED <<nodeVars, tableVars, accepted, pending, passVars>>

\* Bug: the report is sent as soon as the pass is connected.
PanicFirst ==
  /\ pc = "select"
  /\ "badKey" \in Faults
  /\ Die
  /\ UNCHANGED faults

\* Bug: the report is sent before the outcomes of the broadcasts are stored.
PanicBeforeStore ==
  /\ pc = "store"
  /\ "badKey" \in Faults
  /\ Die
  /\ UNCHANGED faults

\* send_stats_report changes nothing here and its errors are only logged, but
\* when its private key cannot be read sign_message panics: this pass has no
\* statistics, and the next, which main runs as it starts, may end likewise.
Panic ==
  /\ pc = "report"
  /\ "badKey" \in Faults
  /\ Die
  /\ UNCHANGED faults

\* Bug: heights are compared with the median time as well.
MatureAnyTime(lt, now) == lt < now.height \/ lt < now.mtp

\* The WHERE clause on locktime.
Mature(lt, now) ==
  \/ lt < now.height
  \/ lt > Threshold /\ lt < now.mtp

\* Bug: the WHERE clause loses its condition on status.
MaturedAnyStatus == {t \in stored : Mature(Locktime[t], tip)}

\* The rows the WHERE clause holds of.
Matured == {t \in stored : status[t] = Waiting /\ Mature(Locktime[t], tip)}

\* A SELECT may fail at any of its rows, which are left out then.
Reads(rows, read) ==
  /\ read \subseteq rows
  /\ IF read = rows THEN UNCHANGED faults ELSE Fault("busy")

Select ==
  /\ pc = "select"
  /\ \E read \in SUBSET Matured : Reads(Matured, read) /\ todo' = read
  /\ pc' = "send"
  /\ UNCHANGED <<height, mtp, mempool, minedAt, rivals, up, tableVars,
                 accepted, pending, tip, verdict, tracked, probed>>

\* The SELECT cannot be prepared, as while the server has not created tbl_tx, or
\* not be bound: the pass ends.
SelectFails ==
  /\ pc = "select"
  /\ IF stored = {} /\ stats = NoStats THEN UNCHANGED faults ELSE Fault("busy")
  /\ pc' = "idle"
  /\ UNCHANGED <<height, mtp, mempool, minedAt, rivals, up, tableVars,
                 accepted, pending, passVars>>

\* The node takes t and answers, be it yes or no.
NodeTakes(t, answer) ==
  IF answer = "accepted"
  THEN mempool' = mempool \cup {t} /\ accepted' = accepted \cup {t}
  ELSE UNCHANGED <<mempool, accepted>>

\* Bug: pushed_txs.push comes before the match on the result.
LearnAlwaysPushed(t, v) ==
  /\ verdict' = [verdict EXCEPT ![t] =
                    IF v = "unreachable" THEN "accepted" ELSE v]
  /\ todo' = todo \ {t}

\* t goes to pushed_txs or to invalid_txs.
Learn(t, v) ==
  /\ verdict' = [verdict EXCEPT ![t] = v]
  /\ todo' = todo \ {t}

Send(t) ==
  /\ pc = "send"
  /\ t \in todo
  /\ up
  /\ \E answer \in Answers(t) :
       /\ NodeTakes(t, answer)
       /\ IF answer = "refused" THEN Fault("refuse") ELSE UNCHANGED faults
       /\ Learn(t, answer)
  /\ UNCHANGED <<height, mtp, minedAt, rivals, up, tableVars, pc, pending,
                 tip, tracked, probed>>

\* Any other error goes to invalid_txs too: the node is away ...
SendUnanswered(t) ==
  /\ pc = "send"
  /\ t \in todo
  /\ ~up
  /\ Learn(t, "unreachable")
  /\ UNCHANGED <<nodeVars, tableVars, accepted, pc, pending, tip, tracked,
                 probed>>

\* ... or it got the transaction and its answer was lost.
SendReplyLost(t) ==
  /\ pc = "send"
  /\ t \in todo
  /\ up
  /\ Fault("lostReply")
  /\ \E answer \in Answers(t) \ {"refused"} : NodeTakes(t, answer)
  /\ Learn(t, "unreachable")
  /\ UNCHANGED <<height, mtp, minedAt, rivals, up, tableVars, pc, pending,
                 tip, tracked, probed>>

SendDone ==
  /\ pc = "send"
  /\ todo = {}
  /\ pc' = "store"
  /\ UNCHANGED <<nodeVars, tableVars, accepted, pending, passVars>>

-----------------------------------------------------------------------------
(* main_result: record the outcome *)

\* One UPDATE; an error (SQLITE_BUSY after the busy_timeout) is ignored.
Update(st, cf, err) ==
  \/ /\ status' = st /\ confs' = cf /\ pushErr' = err
     /\ UNCHANGED faults
  \/ /\ Fault("busy")
     /\ UNCHANGED <<status, confs, pushErr>>

\* The UPDATE of every transaction the node took ...
StoreSent(t) ==
  /\ pc = "store"
  /\ verdict[t] = "accepted"
  /\ Update([status EXCEPT ![t] = Sent], confs, pushErr)
  /\ verdict' = [verdict EXCEPT ![t] = "none"]
  /\ UNCHANGED <<height, mtp, mempool, minedAt, rivals, up, stored, stats,
                 tipFile, accepted, pc, pending, tip, todo, tracked, probed>>

\* ... then that of every other one.
StoreFailed(t) ==
  /\ pc = "store"
  /\ \A s \in Txs : verdict[s] # "accepted"
  /\ verdict[t] # "none"
  /\ Update([status EXCEPT ![t] = Failed], confs,
            [pushErr EXCEPT ![t] = verdict[t]])
  /\ verdict' = [verdict EXCEPT ![t] = "none"]
  /\ UNCHANGED <<height, mtp, mempool, minedAt, rivals, up, stored, stats,
                 tipFile, accepted, pc, pending, tip, todo, tracked, probed>>

StoreDone ==
  /\ pc = "store"
  /\ \A t \in Txs : verdict[t] = "none"
  /\ pc' = "list"
  /\ UNCHANGED <<nodeVars, tableVars, accepted, pending, passVars>>

-----------------------------------------------------------------------------
(* main_result: confirmation tracking *)

\* Bug: the SELECT loses its condition on status.
SentRowsAnyStatus == stored

SentRows == {t \in stored : status[t] = Sent}

\* conf_txids; a SELECT that cannot be prepared, or fails at a row, leaves it
\* with what it has.
List ==
  /\ pc = "list"
  /\ \E read \in SUBSET SentRows : Reads(SentRows, read) /\ tracked' = read
  /\ pc' = "track"
  /\ UNCHANGED <<height, mtp, mempool, minedAt, rivals, up, tableVars,
                 accepted, pending, tip, todo, verdict, probed>>

\* Bug: confirmations is read with unwrap_or(1).
ConfirmationsOrOne(t) == IF Mined(t) THEN Confirmations(t) ELSE 1

\* Bug: the mempool's answer, which has no confirmations, is used throughout.
ConfirmationsOfNone(t) == 0

\* rawinfo.confirmations.unwrap_or(0)
RawConfirmations(t) == IF Mined(t) THEN Confirmations(t) ELSE 0

Track(t) ==
  /\ pc = "track"
  /\ t \in tracked
  /\ HasRaw(t)
  /\ Update(status, [confs EXCEPT ![t] = RawConfirmations(t)], pushErr)
  /\ tracked' = tracked \ {t}
  /\ UNCHANGED <<height, mtp, mempool, minedAt, rivals, up, stored, stats,
                 tipFile, accepted, pc, pending, tip, todo, verdict, probed>>

\* getrawtransaction failed, for whatever reason.
TrackMiss(t) ==
  /\ pc = "track"
  /\ t \in tracked
  /\ ~HasRaw(t)
  /\ probed' = t
  /\ tracked' = tracked \ {t}
  /\ pc' = "probe"
  /\ UNCHANGED <<nodeVars, tableVars, accepted, pending, tip, todo, verdict>>

ProbeFinds ==
  /\ pc = "probe"
  /\ HasMempoolEntry(probed)
  /\ probed' = NoTx
  /\ pc' = "track"
  /\ UNCHANGED <<nodeVars, tableVars, accepted, pending, tip, todo, verdict,
                 tracked>>

\* getmempoolentry failed as well, for whatever reason: done elsewhere.
ProbeMisses ==
  /\ pc = "probe"
  /\ ~HasMempoolEntry(probed)
  /\ Update([status EXCEPT ![probed] = Failed],
            [confs EXCEPT ![probed] = -1],
            [pushErr EXCEPT ![probed] = "evicted"])
  /\ probed' = NoTx
  /\ pc' = "track"
  /\ UNCHANGED <<height, mtp, mempool, minedAt, rivals, up, stored, stats,
                 tipFile, accepted, pending, tip, todo, verdict, tracked>>

TrackDone ==
  /\ pc = "track"
  /\ tracked = {}
  /\ pc' = "report"
  /\ UNCHANGED <<nodeVars, tableVars, accepted, pending, passVars>>

-----------------------------------------------------------------------------
(* main_result: the statistics, two statements in autocommit mode *)

DeleteStats ==
  /\ pc = "report"
  /\ \/ stats' = NoStats /\ UNCHANGED faults
     \/ UNCHANGED stats /\ Fault("busy")
  /\ pc' = "recount"
  /\ UNCHANGED <<height, mtp, mempool, minedAt, rivals, up, stored, status,
                 confs, pushErr, tipFile, accepted, pending, passVars>>

\* The counts and the upsert are one statement, then the pass is over.
InsertStats ==
  /\ pc = "recount"
  /\ \/ stats' = {StatsOf} /\ UNCHANGED faults
     \/ UNCHANGED stats /\ Fault("busy")
  /\ pc' = "idle"
  /\ ClearPass
  /\ UNCHANGED <<height, mtp, mempool, minedAt, rivals, up, stored, status,
                 confs, pushErr, tipFile, accepted, pending>>

-----------------------------------------------------------------------------
SendStep   == \E t \in Txs : Send(t) \/ SendUnanswered(t) \/ SendReplyLost(t)
StoreStep  == \E t \in Txs : StoreSent(t) \/ StoreFailed(t)
TrackStep  == (\E t \in Txs : Track(t) \/ TrackMiss(t))
              \/ ProbeFinds \/ ProbeMisses

\* What a running pusher does of its own accord.
PusherStep ==
  \/ Start \/ Receive
  \/ Connect \/ ConnectFails \/ Select \/ SelectFails
  \/ SendStep \/ SendDone
  \/ StoreStep \/ StoreDone
  \/ List \/ TrackStep \/ TrackDone
  \/ Panic \/ DeleteStats \/ InsertStats

Next ==
  \/ \E t \in Txs : Arrive(t)
  \/ HeardBlock \/ UnheardBlock \/ NodeFails \/ NodeReturns
  \/ PusherStep \/ Crash

Spec == Init /\ [][Next]_vars

\* The process is scheduled and restarted, the node comes back, and blocks
\* that move the median time on keep being found, whether the pusher is there
\* to hear of them or not.
Fairness ==
  /\ WF_vars(PusherStep)
  /\ WF_vars(NodeReturns)
  /\ WF_vars((HeardBlock \/ UnheardBlock) /\ mtp' = Bump(mtp, MaxTime))

FairSpec == Spec /\ Fairness

-----------------------------------------------------------------------------
(* What the owner and the heirs see *)

\* resolveState of the dashboard, over one row of tbl_tx.
ResolveState(st, cf) ==
  CASE st = Waiting -> "waiting"
    [] st = Sent    -> IF cf > 0 THEN "confirmed" ELSE "mempool"
    [] OTHER        -> "elsewhere"

Fate(t) == IF t \in stored THEN ResolveState(status[t], confs[t])
                           ELSE "unknown"

\* Nothing makes the confirmation tracking fail to see a confirmed transaction.
Durable == TxIndex /\ "outage" \notin Faults

Will == INSTANCE WillLifecycle WITH
          now <- [height |-> height, mtp |-> mtp],
          fate <- [t \in Txs |-> Fate(t)]

-----------------------------------------------------------------------------
(* Safety *)

\* Every variable keeps to its type, and the locals of a pass are empty in the
\* phases in which main_result is not running or has not filled them.
TypeOK ==
  /\ height \in Nat /\ mtp \in Nat
  /\ mempool \subseteq Txs /\ rivals \subseteq Txs
  /\ minedAt \in [Txs -> Nat]
  /\ up \in BOOLEAN /\ faults \in Nat
  /\ stored \subseteq Txs /\ accepted \subseteq Txs
  /\ status \in [Txs -> {Waiting, Sent, Failed}]
  /\ confs \in [Txs -> Int]
  /\ pushErr \in [Txs -> Errors]
  /\ tipFile \in Nat
  /\ pc \in Phases /\ pending \in Nat
  /\ tip \in [height : Nat, mtp : Nat]
  /\ todo \subseteq Txs /\ tracked \subseteq Txs
  /\ verdict \in [Txs -> Verdicts]
  /\ IF pc = "probe" THEN probed \in Txs ELSE probed = NoTx
  /\ stats \subseteq [waiting : SUBSET Txs, sent : SUBSET Txs,
                      failed : SUBSET Txs]

\* A row says "sent" only of a transaction the node has accepted, whatever
\* failed, however the pass was cut short (bal-pusher.rs 300-327).
SentWasAccepted ==
  \A t \in stored : status[t] = Sent => t \in accepted

\* The node never turns a transaction down for coming before its locktime: the
\* WHERE clause, evaluated on a tip read earlier, never runs ahead of the
\* node's own rule.  Such a row would be marked failed for good (257, 306).
NeverPremature ==
  \A t \in Txs : verdict[t] # "premature" /\ pushErr[t] # "premature"

\* The confirmations shown of a sent transaction are never more than it has.
ConfsNeverOverstated ==
  \A t \in stored : status[t] = Sent /\ confs[t] > 0 =>
    Mined(t) /\ confs[t] <= Confirmations(t)

\* The statistics lag behind the rows and never run ahead of them: what they
\* count as sent has left "waiting", what they count as failed has failed.
StatsNeverAhead ==
  \A s \in stats :
    /\ s.sent \subseteq {t \in stored : status[t] # Waiting}
    /\ s.failed \subseteq {t \in stored : status[t] = Failed}

\* When the node neither fails, nor drops transactions, nor lacks its index:
\* "evicted ... another executor won the race" (348-351) is then true.
DoneElsewhereMeansRival ==
  \A t \in stored : status[t] = Failed /\ confs[t] = -1 => t \in rivals

\* When every outcome reaches the row (no kill, no busy database, no RPC
\* failure; a panic comes too late to matter) and nobody else broadcasts it: a
\* transaction that is in the chain is not shown as failed.
FailedNeverMined ==
  \A t \in stored : status[t] = Failed => ~Mined(t)

\* Subscribing before the first pass and queueing what arrives during a pass,
\* main misses no block: with no notification waiting, the last tip published
\* is the node's.  (For a node that is always up and a link that loses none.)
TipIsCurrent ==
  pc = "idle" /\ pending = 0 => tipFile = height

\* What the node has taken is not handed to it again, in the same pass or a later
\* one, whatever the node answered and whenever it is asked to confirm it: only
\* a kill or a lost UPDATE make the pusher repeat a broadcast (274-346).
NeverSentTwice == todo \cap accepted = {}

\* Every step moves each transaction along the lifecycle it is promised.
ImplementsWill == Will!Spec

\* What the dashboard says of a failed row (index.html 1331-1332): unless it
\* was evicted, "a genuine broadcast rejection".
FailureIsARejection ==
  \A t \in stored : status[t] = Failed /\ confs[t] # -1 =>
    pushErr[t] \in Rejections

-----------------------------------------------------------------------------
(* The inductive invariant behind them *)

\* A transaction matures at the node's tip.
Ripe(t) == Mature(Locktime[t], [height |-> height, mtp |-> mtp])

NodeInv ==
  /\ height <= MaxHeight
  /\ \A t \in mempool : ~Mined(t)
  /\ "outage" \notin Faults => up

\* The tip a pass works with may be old, and is never ahead of the node's.
TipInv == tip.height <= height /\ tip.mtp <= mtp

\* The locals of a pass are in use in its phases only.
PhaseInv ==
  /\ todo # {} => pc = "send"
  /\ (\E t \in Txs : verdict[t] # "none") => pc \in {"send", "store"}
  /\ \A t \in todo : verdict[t] = "none"
  /\ tracked # {} => pc \in {"track", "probe"}
  /\ probed \notin tracked

\* What a pass has read of a row is still true when it writes to the row.
RowInv ==
  /\ \A t \in todo : t \in stored /\ status[t] = Waiting /\ Ripe(t)
  /\ \A t \in Txs : verdict[t] # "none" =>
       t \in stored /\ status[t] = Waiting /\ Ripe(t)
  /\ \A t \in tracked : t \in stored /\ status[t] = Sent
  /\ pc = "probe" => probed \in stored /\ status[probed] = Sent
  /\ \A t \in Txs \ stored : status[t] = Waiting
  /\ \A t \in Txs : status[t] = Waiting => confs[t] = 0

AcceptedInv ==
  \A t \in Txs : verdict[t] = "accepted" \/ status[t] = Sent =>
    t \in accepted

ConfsInv ==
  \A t \in Txs : confs[t] > 0 => Mined(t) /\ confs[t] <= Confirmations(t)

\* A transaction on its way to "elsewhere" has not been shown as confirmed.
ProbeInv == Durable /\ pc = "probe" => ~(confs[probed] > 0)

\* Whatever a pass has read or been told still holds when the pass acts on it,
\* although the node and the server have moved on in between.
Inv ==
  /\ TypeOK
  /\ NodeInv /\ TipInv /\ PhaseInv /\ RowInv
  /\ AcceptedInv /\ NeverPremature /\ ConfsInv /\ ProbeInv /\ StatsNeverAhead

-----------------------------------------------------------------------------
(* Liveness *)

MustSettle(t) == t \in stored /\ status[t] = Waiting /\ Final(t)

\* README step 4: "When the locktime is reached, the server broadcasts your
\* transaction": it does not wait any more, unless the heights of the model
\* end at its locktime.  Of every locktime but LOCKTIME_THRESHOLD itself.
MatureSettles ==
  \A t \in Txs :
    Locktime[t] \notin {Threshold, MaxHeight} =>
      (MustSettle(t) ~> status[t] # Waiting)

\* The same of the locktime LOCKTIME_THRESHOLD, which the comment at 28-29
\* makes a UNIX timestamp like those above it.
ThresholdSettles ==
  \A t \in Txs :
    Locktime[t] = Threshold => (MustSettle(t) ~> status[t] # Waiting)

\* A sent transaction in a block is shown as confirmed, unless it was given up.
ConfirmationNoticed ==
  \A t \in Txs :
    (t \in stored /\ status[t] = Sent /\ Mined(t))
      ~> (status[t] = Failed \/ confs[t] > 0)
=============================================================================
