------------------------------- MODULE Server -------------------------------
(***************************************************************************)
(* bal-server on a network with an xpub: POST /pushtxs (PushTxs) and       *)
(* GET /info (AddressBook) in one process, on one database connection and  *)
(* one mutex (AppState.db in bin/bal-server.rs).  An address that /info    *)
(* saves is one that /pushtxs accepts payments to: what PushTxs has as     *)
(* SaveAddress is here the second lock of an info request.                 *)
(*                                                                         *)
(* The variables of PushTxs keep their names; faults and infoFaults count  *)
(* what fails in the one handler and in the other, and a crash is both.    *)
(***************************************************************************)
EXTENDS PushTxs

CONSTANTS
  Infos,     \* the info requests of a behaviour
  Clients, NoClient, MaxSecond   \* of AddressBook

ASSUME XPubAssumption  == XPub
ASSUME InfosAssumption == NoClient \notin Clients /\ MaxSecond \in Nat

VARIABLES
  up, registered, pathIdx, book, second, infoPc, client, claim, infoReply,
  infoFaults, brought, raced, lost,   \* of AddressBook
  offered    \* of the past: the addresses that were answered to anyone before
             \* each pushtxs request arrived

Book == INSTANCE AddressBook
          WITH Calls <- Infos, Uploads <- {}, pc <- infoPc,
               reply <- infoReply, faults <- infoFaults

pushTables == <<db, work, lock, pc, body, addrs, parsed, dups, reply, faults>>
bookVars   == <<up, registered, pathIdx, book, second, infoPc, client, claim,
                infoReply, infoFaults, brought, raced, lost>>
serverVars == <<vars, bookVars, offered>>

\* Bug: the addresses are loaded once, when the server starts and has none.
KnownAtStart == {}

\* get_all_addresses_by_xpub, as far as transactions pay to them.
Known == {a \in Addresses :
            \E r \in book : r.address = a /\ r.xpub = Book!OwnId}

ServerInit ==
  /\ Init
  /\ Book!Init
  /\ offered = [c \in Calls |-> {}]

-----------------------------------------------------------------------------
\* main starts, and the clock of the database goes on.
Surroundings ==
  /\ Book!Start \/ Book!Tick
  /\ UNCHANGED <<vars, offered>>

ServerCrash ==
  /\ Book!Crash
  /\ Crash
  /\ UNCHANGED offered

\* An info request arrives, and one goes on: both its locked parts wait for
\* the mutex, which a pushtxs request holds through execute_insert.
InfoArrives(c, p) ==
  /\ Book!Info(c, p)
  /\ UNCHANGED <<vars, offered>>

InfoStep(c) ==
  /\ lock = NoCall
  /\ Book!Step(c)
  /\ known' = Known'
  /\ UNCHANGED <<pushTables, offered>>

\* The addresses that have been answered.
Answers == {infoReply[c] : c \in Infos} \ {Book!NoReply, Book!Error}

\* A pushtxs request arrives, from a client that may have seen any answer.
PushArrives(c, b) ==
  /\ up
  /\ Push(c, b)
  /\ offered' = [offered EXCEPT ![c] = Answers]
  /\ UNCHANGED bookVars

PushStep(c) ==
  /\ Step(c)
  /\ UNCHANGED <<bookVars, offered>>

ServerNext ==
  \/ Surroundings \/ ServerCrash
  \/ \E c \in Infos : InfoStep(c) \/ \E p \in Clients : InfoArrives(c, p)
  \/ \E c \in Calls : PushStep(c) \/ \E b \in Bodies : PushArrives(c, b)

ServerSpec == ServerInit /\ [][ServerNext]_serverVars

\* Each worker goes on with its pushtxs request.  Requests are finitely many,
\* and an info request holds the mutex in no state of this model.
FairServer == ServerSpec /\ \A c \in Calls : WF_vars(Step(c))

-----------------------------------------------------------------------------
(* Properties *)

\* The lines of a request that pay an address it could know, and enough.
Due(c) == {i \in DOMAIN body[c] :
             /\ body[c][i] \in Txs
             /\ Pays[body[c][i]] \in offered[c]
             /\ Fee[body[c][i]] >= FixedFee}

\* What /info offers /pushtxs takes: a transaction that pays the fee to an
\* address answered to any client before the request came is not turned down,
\* although three locks lie between the answer and the check, as long as nothing
\* fails and the server does not die (bal-server.rs 276-340, 588-612, 681-706).
AnsweredIsAccepted ==
  faults = 0 /\ infoFaults = 0 =>
    \A c \in Calls :
      pc[c] \notin {"ready", "load", "parse"} => Due(c) \subseteq parsed[c]

(* The inductive invariant behind it *)

\* PushTxs knows what tbl_address has.
KnownInv == known = Known

\* What was offered is known, and a request has loaded what it was offered.
OfferInv ==
  /\ KnownInv
  /\ offered \in [Calls -> SUBSET Int]
  /\ infoFaults = 0 => \A c \in Calls :
       /\ offered[c] \cap Addresses \subseteq known
       /\ faults = 0 /\ pc[c] \notin {"ready", "load"} =>
            offered[c] \cap Addresses \subseteq addrs[c]

ServerInv == OfferInv /\ AnsweredIsAccepted
=============================================================================
