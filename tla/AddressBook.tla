----------------------------- MODULE AddressBook -----------------------------
(***************************************************************************)
(* GET /{network}/info (echo_info in bin/bal-server.rs) on a network that  *)
(* is configured with an xpub: every client, known by its IP address, is   *)
(* to have an address of its own.  A request takes the mutex around the    *)
(* database twice, to look for the client's address or else to claim the   *)
(* next derivation index, and to save the address derived from it; in      *)
(* between other requests run and the process may die.  An address is the  *)
(* index it is derived from (m/0/index).                                   *)
(*                                                                         *)
(* The dashboard's handlers in the same process use connections of their   *)
(* own and no mutex: one merges the tables of an uploaded snapshot, an     *)
(* earlier installation's with the same xpub or another server's, whose    *)
(* addresses are foreign.                                                  *)
(*                                                                         *)
(* A definition whose comment begins with "Bug:" is a plausible mistake in *)
(* the definition after it; no action uses it.                             *)
(***************************************************************************)
EXTENDS Integers

CONSTANTS
  Calls,      \* the requests of a behaviour
  Clients,    \* the clients they may come from
  NoClient,   \* no client
  MaxSecond,  \* the clock of tbl_address.date_create stops there
  MaxFaults,  \* database and derivation errors, and crashes
  Uploads     \* the tbl_address of each snapshot that may be merged

ASSUME ClientsAssumption == NoClient \notin Clients
ASSUME BoundsAssumption  == MaxSecond \in Nat /\ MaxFaults \in Nat

VARIABLES
  up,          \* the server runs
  registered,  \* tbl_xpub has the row of the xpub (its id is 1) ...
  pathIdx,     \* ... and this is its path_idx
  book,        \* tbl_address
  second,      \* CURRENT_TIMESTAMP
  pc,          \* where each request is
  client,      \* remote_addr
  claim,       \* next_idx: [id, index]
  reply,       \* the address answered, or one of NoReply and Error
  faults,
  \* of the past, for the properties alone
  brought,     \* the rows merges brought
  raced,       \* the clients that had two requests in progress at once
  lost         \* the indexes that were claimed without a commit

history == <<brought, raced, lost>>
vars == <<up, registered, pathIdx, book, second, pc, client, claim, reply,
          faults, history>>

NoReply == -1
Error   == -2
OwnId   == 1

\* What get_next_address_index returns for want of anything better.
NoClaim == [id |-> 0, index |-> 0]

\* An address of another xpub.
Foreign == {a \in Int : a < Error}
Row   == [address : Nat \cup Foreign, xpub : {0, OwnId}, client : Clients,
          date : Nat]
Claim == [id : {0, OwnId}, index : Nat]

ASSUME UploadsAssumption == \A rows \in Uploads : rows \subseteq Row

Fault == faults < MaxFaults /\ faults' = faults + 1

Init ==
  /\ up = FALSE
  /\ registered = FALSE
  /\ pathIdx = -1
  /\ book = {}
  /\ second = 0
  /\ pc = [c \in Calls |-> "ready"]
  /\ client = [c \in Calls |-> NoClient]
  /\ claim = [c \in Calls |-> NoClaim]
  /\ reply = [c \in Calls |-> NoReply]
  /\ faults = 0
  /\ brought = {}
  /\ raced = {}
  /\ lost = {}

-----------------------------------------------------------------------------
(* The process *)

\* main: init_network inserts the xpub unless it is there; an error is logged.
Start ==
  /\ ~up
  /\ up' = TRUE
  /\ \/ registered' = TRUE /\ UNCHANGED faults
     \/ ~registered /\ Fault /\ UNCHANGED registered
  /\ UNCHANGED <<pathIdx, book, second, pc, client, claim, reply, history>>

\* The server dies; its requests are cut off.
Crash ==
  /\ up
  /\ Fault
  /\ up' = FALSE
  /\ pc' = [c \in Calls |-> IF pc[c] = "ready" THEN "ready" ELSE "done"]
  /\ UNCHANGED <<registered, pathIdx, book, second, client, claim, reply,
                 history>>

Tick ==
  /\ second < MaxSecond
  /\ second' = second + 1
  /\ UNCHANGED <<up, registered, pathIdx, book, pc, client, claim, reply,
                 faults, history>>

-----------------------------------------------------------------------------
(* The dashboard *)

\* Bug: the uploaded table takes the place of the live one.
MergeReplaces(rows) ==
  /\ up /\ registered
  /\ book' = rows
  /\ brought' = brought \cup rows
  /\ UNCHANGED <<up, registered, pathIdx, second, pc, client, claim, reply,
                 faults, raced, lost>>

\* merge_from_db copies the rows of tbl_address as they are, with the number
\* their database gave the xpub, which is 1 here for another xpub there; of
\* tbl_xpub it copies neither that number nor path_idx.  tbl_address has no
\* key, so rows of the live table never stop a row.  (A server that
\* could not insert its xpub may get it by a merge, which is left out.)
Merge(rows) ==
  /\ up /\ registered
  /\ book' = book \cup rows
  /\ brought' = brought \cup rows
  /\ UNCHANGED <<up, registered, pathIdx, second, pc, client, claim, reply,
                 faults, raced, lost>>

-----------------------------------------------------------------------------
(* The handler *)

\* The requests of client p under way.
InProgress(p) == {c \in Calls : pc[c] \in {"lookup", "save"} /\ client[c] = p}

\* A request of client p for an enabled network.
Info(c, p) ==
  /\ up
  /\ pc[c] = "ready"
  /\ client' = [client EXCEPT ![c] = p]
  /\ pc' = [pc EXCEPT ![c] = "lookup"]
  /\ raced' = IF InProgress(p) = {} THEN raced ELSE raced \cup {p}
  /\ UNCHANGED <<up, registered, pathIdx, book, second, claim, reply, faults,
                 brought, lost>>

Answer(c, address) ==
  /\ reply' = [reply EXCEPT ![c] = address]
  /\ pc' = [pc EXCEPT ![c] = "done"]

\* Bug: WHERE loses its condition on remote_address.
RowsOfAnyone(p) == {r \in book : registered /\ r.xpub = OwnId}

\* The rows the join of tbl_xpub and tbl_address has for a client.
RowsOf(p) == {r \in book : registered /\ r.xpub = OwnId /\ r.client = p}

\* ORDER BY date_create DESC LIMIT 1: any of the last second will do.
LastOf(rows) == {r \in rows : \A s \in rows : s.date <= r.date}

\* Bug: the old value of path_idx is returned.
NextIndexOld ==
  IF registered THEN [id |-> OwnId, index |-> pathIdx] ELSE NoClaim

\* UPDATE ... RETURNING, which has no row to return before the xpub has one.
NextIndex ==
  IF registered THEN [id |-> OwnId, index |-> pathIdx + 1] ELSE NoClaim

\* path_idx as the UPDATE leaves it.
Advanced == IF registered THEN pathIdx + 1 ELSE pathIdx

\* get_next_address_index ...
ClaimIndex(c) ==
  /\ claim' = [claim EXCEPT ![c] = NextIndex]
  /\ pathIdx' = Advanced
  /\ UNCHANGED lost

\* ... which answers an error like a missing row, be it an error of the UPDATE
\* or of reading what that returned ...
ClaimFails(c) ==
  /\ claim' = [claim EXCEPT ![c] = NoClaim]
  /\ pathIdx' \in {pathIdx, Advanced}
  /\ UNCHANGED lost

\* ... and does not hear of it when the commit fails: the UPDATE is committed
\* when the statement is dropped, after its row was read.
ClaimLost(c) ==
  /\ registered
  /\ claim' = [claim EXCEPT ![c] = NextIndex]
  /\ lost' = lost \cup {NextIndex.index}
  /\ UNCHANGED pathIdx

\* Bug: the next index is claimed before the client's address is looked for.
FoundTooLate(c) ==
  /\ pc[c] = "lookup"
  /\ \E r \in LastOf(RowsOf(client[c])) : Answer(c, r.address)
  /\ pathIdx' = pathIdx + 1
  /\ UNCHANGED <<up, registered, book, second, client, claim, faults, history>>

\* Lock #1, the client has an address ...
Found(c) ==
  /\ pc[c] = "lookup"
  /\ \E r \in LastOf(RowsOf(client[c])) : Answer(c, r.address)
  /\ UNCHANGED <<up, registered, pathIdx, book, second, client, claim, faults,
                 history>>

\* ... or it has none and the next index is its own ...
Claimed(c) ==
  /\ pc[c] = "lookup"
  /\ RowsOf(client[c]) = {}
  /\ \/ ClaimIndex(c) /\ UNCHANGED faults
     \/ Fault /\ (ClaimFails(c) \/ ClaimLost(c))
  /\ pc' = [pc EXCEPT ![c] = "save"]
  /\ UNCHANGED <<up, registered, book, second, client, reply, brought, raced>>

\* ... or the query failed, which get_last_used_address_by_ip makes a None; what
\* it failed for may be there still.
LookupFails(c) ==
  /\ pc[c] = "lookup"
  /\ Fault
  /\ ClaimIndex(c) \/ ClaimFails(c) \/ ClaimLost(c)
  /\ pc' = [pc EXCEPT ![c] = "save"]
  /\ UNCHANGED <<up, registered, book, second, client, reply, brought, raced>>

\* The xpub yields no address at this index, which stays claimed.
DeriveFails(c) ==
  /\ pc[c] = "save"
  /\ Fault
  /\ Answer(c, Error)
  /\ UNCHANGED <<up, registered, pathIdx, book, second, client, claim,
                 history>>

\* Bug: the two numbers of next_idx are swapped, and the id is not ours.
NewRowSwapped(c) ==
  [address |-> claim[c].index, xpub |-> 0, client |-> client[c],
   date |-> second]

NewRow(c) ==
  [address |-> claim[c].index, xpub |-> claim[c].id, client |-> client[c],
   date |-> second]

\* Lock #2: the row is saved, or save_new_address logs why not; the address is
\* answered in both cases.
Save(c) ==
  /\ pc[c] = "save"
  /\ \/ book' = book \cup {NewRow(c)} /\ UNCHANGED faults
     \/ Fault /\ UNCHANGED book
  /\ Answer(c, claim[c].index)
  /\ UNCHANGED <<up, registered, pathIdx, second, client, claim, history>>

-----------------------------------------------------------------------------
Step(c) ==
  Found(c) \/ Claimed(c) \/ LookupFails(c) \/ DeriveFails(c) \/ Save(c)

Next ==
  \/ Start \/ Crash \/ Tick
  \/ \E rows \in Uploads : Merge(rows)
  \/ \E c \in Calls : Step(c) \/ \E p \in Clients : Info(c, p)

Spec == Init /\ [][Next]_vars

-----------------------------------------------------------------------------
(* Properties *)

\* Every variable keeps to its type.  A derivation index is never negative.
TypeOK ==
  /\ up \in BOOLEAN /\ registered \in BOOLEAN
  /\ pathIdx \in Nat \cup {-1}
  /\ book \subseteq Row
  /\ second \in Nat
  /\ pc \in [Calls -> {"ready", "lookup", "save", "done"}]
  /\ client \in [Calls -> Clients \cup {NoClient}]
  /\ \A c \in Calls : pc[c] # "ready" => client[c] \in Clients
  /\ claim \in [Calls -> Claim]
  /\ reply \in [Calls -> Nat \cup Foreign \cup {NoReply, Error}]
  /\ faults \in Nat
  /\ brought \subseteq Row
  /\ raced \subseteq Clients
  /\ lost \subseteq Nat

\* The addresses and the clients merges brought rows of.
BroughtAddresses == {r.address : r \in brought}
BroughtClients   == {r.client : r \in brought}

\* Those that nothing ties to one client: addresses a merge brought without the
\* path_idx they were counted with, and indexes claimed without a commit.
Unowned == BroughtAddresses \cup lost

\* Two clients are given the same address in three cases only, whatever else
\* fails and whenever the process dies: it is the first one (index 0 is also what
\* get_next_address_index returns for an error, db.rs 250-281), a merge
\* brought it, or the UPDATE that claimed it could not be committed, which
\* nobody notices (db.rs 263).
OneOwner ==
  \A c, d \in Calls :
    /\ reply[c] > 0
    /\ reply[c] = reply[d]
    /\ reply[c] \notin Unowned
    => client[c] = client[d]

\* When nothing fails, an address that was answered is in tbl_address under
\* the xpub, where get_all_addresses_by_xpub finds it for /pushtxs.
AnswerIsKnown ==
  faults = 0 =>
    \A c \in Calls : reply[c] \notin {NoReply, Error} =>
      \E r \in RowsOf(client[c]) : r.address = reply[c]

\* Every index but those lost to a fault is saved or about to be, so the
\* wallet of the xpub meets no gap among the addresses it scans.
NoGap ==
  faults = 0 =>
    \A i \in 0..pathIdx :
      \/ \E r \in book : r.address = i /\ r.xpub = OwnId
      \/ \E c \in Calls : pc[c] = "save" /\ claim[c] = [id |-> OwnId, index |-> i]

\* A client that asks again is given the same address, as long as it never
\* asked twice at once (then it may have two addresses), nothing failed and
\* no merge brought rows of it.
StableAddress ==
  faults = 0 =>
    \A c, d \in Calls :
      /\ reply[c] # NoReply /\ reply[d] # NoReply
      /\ client[c] = client[d]
      /\ client[c] \notin raced \cup BroughtClients
      => reply[c] = reply[d]

(* The inductive invariant behind OneOwner *)

Holds(c) == pc[c] = "save" /\ claim[c].id = OwnId

\* The indexes handed out lie below path_idx, those of merged rows anywhere and
\* those of a claim that was lost just above it, at that time.
IndexInv ==
  /\ ~registered => pathIdx = -1
  /\ \A r \in book \ brought :
       IF r.xpub = OwnId THEN r.address <= pathIdx \/ r.address \in lost
                         ELSE r.address = 0
  /\ \A c \in Calls : pc[c] = "save" =>
       IF claim[c].id = OwnId
       THEN claim[c].index <= pathIdx \/ claim[c].index \in lost
       ELSE claim[c].index = 0
  /\ \A c \in Calls : reply[c] > 0 =>
       reply[c] <= pathIdx \/ reply[c] \in Unowned

\* An index has one owner: the client of its row, of the request that holds
\* it, and of the answers that name it, unless it is Unowned.
OwnerInv ==
  /\ \A c, d \in Calls :
       /\ Holds(c) /\ Holds(d)
       /\ claim[c].index = claim[d].index /\ claim[c].index \notin lost
       => c = d
  /\ \A c \in Calls : Holds(c) /\ claim[c].index \notin lost =>
       \A r \in book \ brought : r.xpub = OwnId => r.address # claim[c].index
  /\ \A r, s \in book :
       /\ r.xpub = OwnId /\ s.xpub = OwnId
       /\ r.address = s.address /\ r.address \notin Unowned
       => r.client = s.client
  /\ \A c, d \in Calls :
       Holds(c) /\ reply[d] > 0 /\ reply[d] \notin Unowned =>
         reply[d] # claim[c].index
  /\ \A c \in Calls : \A r \in book :
       /\ reply[c] > 0 /\ reply[c] \notin Unowned
       /\ r.xpub = OwnId /\ r.address = reply[c]
       => client[c] = r.client
  /\ \A c \in Calls : reply[c] # NoReply => pc[c] = "done"

BookInv == TypeOK /\ IndexInv /\ OwnerInv /\ OneOwner

(* The inductive invariant behind the properties of a day without faults *)

\* Requests run only in a server that has registered the xpub, so what they
\* claim is the xpub's; before that there is no row.
ServedInv ==
  /\ lost = {}
  /\ up => registered
  /\ ~registered => book = {}
  /\ \A c \in Calls : pc[c] \in {"lookup", "save"} => up
  /\ \A c \in Calls : reply[c] # NoReply => registered
  /\ \A c \in Calls : pc[c] = "save" => claim[c].id = OwnId
  /\ \A c \in Calls : reply[c] # Error
  /\ \A c \in Calls : pc[c] = "done" => reply[c] # NoReply

\* A client that never raced with itself has one request in progress and one
\* address, and a request of it that claims an index found none.
OneAddressInv ==
  \A p \in Clients \ (raced \cup BroughtClients) :
    /\ \A c, d \in InProgress(p) : c = d
    /\ \A r, s \in RowsOf(p) : r.address = s.address
    /\ \A c \in InProgress(p) : pc[c] = "save" => RowsOf(p) = {}

CalmInv ==
  faults = 0 => ServedInv /\ AnswerIsKnown /\ NoGap /\ OneAddressInv
=============================================================================
