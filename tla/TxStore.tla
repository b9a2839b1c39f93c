------------------------------- MODULE TxStore -------------------------------
(***************************************************************************)
(* What POST /{network}/pushtxs promises, with no mutex and no tables: a   *)
(* request that wants transactions stored has all of them stored in one    *)
(* step or none, and is told to have been stored without being so only if  *)
(* something failed, it brought a transaction twice, or another request    *)
(* was faster with one of them.                                            *)
(***************************************************************************)
CONSTANTS
  Calls, Txs

VARIABLES
  stored,    \* the transactions stored, with all their rows
  request,   \* how far each request is
  wanted,    \* the transactions it has had accepted and not found stored
  twice,     \* the requests that bring a transaction more than once
  answer,
  failed     \* something has failed: the server died, or SQLite gave an error

vars == <<stored, request, wanted, twice, answer, failed>>

Init ==
  /\ stored = {}
  /\ request = [c \in Calls |-> "new"]
  /\ wanted = [c \in Calls |-> {}]
  /\ twice = {}
  /\ answer = [c \in Calls |-> "none"]
  /\ failed = FALSE

\* Failures may come with the steps that need one, and are not forgotten.
MayFail == failed => failed'

End(c, text) ==
  /\ request[c] = "open"
  /\ request' = [request EXCEPT ![c] = "ended"]
  /\ answer' = [answer EXCEPT ![c] = text]

Arrive(c) ==
  /\ request[c] = "new"
  /\ request' = [request EXCEPT ![c] = "open"]
  /\ UNCHANGED <<stored, wanted, twice, answer, failed>>

Accept(c, S) ==
  /\ request[c] = "open"
  /\ wanted[c] = {} /\ S # {}
  /\ wanted' = [wanted EXCEPT ![c] = S]
  /\ twice' = twice \/ twice' = twice \cup {c}
  /\ UNCHANGED <<stored, request, answer, failed>>

\* What is found stored already is not wanted any more; something is.  All that
\* is stored is found, unless the look fails.
Look(c) ==
  /\ request[c] = "open"
  /\ \E found \in SUBSET (wanted[c] \cap stored) :
       /\ found # wanted[c]
       /\ IF found = wanted[c] \cap stored THEN UNCHANGED failed ELSE failed'
       /\ wanted' = [wanted EXCEPT ![c] = @ \ found]
  /\ UNCHANGED <<stored, request, twice, answer>>

AlreadyPresent(c) ==
  /\ wanted[c] # {} /\ wanted[c] \subseteq stored
  /\ End(c, "already present")
  /\ wanted' = [wanted EXCEPT ![c] = {}]
  /\ UNCHANGED <<stored, twice, failed>>

Store(c) ==
  /\ wanted[c] # {} /\ wanted[c] \cap stored = {}
  /\ End(c, "thx")
  /\ stored' = stored \cup wanted[c]
  /\ UNCHANGED <<wanted, twice, failed>>

\* Told "thx" and not stored.
Drop(c) ==
  /\ wanted[c] # {}
  /\ failed' \/ c \in twice \/ wanted[c] \cap stored # {}
  /\ End(c, "thx")
  /\ MayFail
  /\ UNCHANGED <<stored, wanted, twice>>

TurnDown(c) ==
  /\ End(c, "error")
  /\ MayFail
  /\ UNCHANGED <<stored, wanted, twice>>

\* Something fails, and the request it happens to goes on.
GoOn ==
  /\ failed'
  /\ UNCHANGED <<stored, request, wanted, twice, answer>>

\* The server dies: no open request is ever answered.
CutOff ==
  /\ request' = [c \in Calls |-> IF request[c] = "new" THEN "new" ELSE "ended"]
  /\ failed'
  /\ UNCHANGED <<stored, wanted, twice, answer>>

Next ==
  \/ CutOff \/ GoOn
  \/ \E c \in Calls :
       \/ Arrive(c) \/ Look(c) \/ AlreadyPresent(c) \/ Store(c) \/ Drop(c)
       \/ TurnDown(c) \/ \E S \in SUBSET Txs : Accept(c, S)

Spec == Init /\ [][Next]_vars
=============================================================================
