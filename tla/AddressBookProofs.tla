-------------------------- MODULE AddressBookProofs --------------------------
(***************************************************************************)
(* For any number of requests and clients, and whatever fails: an index is *)
(* claimed under the mutex and belongs to one client from then on, be it   *)
(* in the request that holds it, in its row or in its answer (OwnerInv),   *)
(* but for the 0 of an error, those a merge brought and those whose claim  *)
(* was not committed.  Without faults every index ends in a row, and a     *)
(* client that asks once at a time has one (CalmInv).                      *)
(***************************************************************************)
EXTENDS AddressBook, TLAPS

\* Foreign addresses lie below all the others.
LEMMA ForeignAddresses ==
  \A a \in Foreign : a \in Int /\ a < Error /\ a # NoReply /\ a # Error
BY DEF Foreign, Error, NoReply

LEMMA Numbers ==
  ASSUME BookInv
  PROVE  /\ \A c \in Calls : reply[c] \in Int /\ client[c] \in Clients \cup {NoClient}
         /\ \A r \in book : r.address \in Int /\ r.client \in Clients
         /\ pathIdx \in Int /\ faults \in Nat /\ second \in Nat
         /\ \A c \in Calls : claim[c].index \in Nat /\ claim[c].id \in {0, OwnId}
<1>1. \A c \in Calls : reply[c] \in Int /\ client[c] \in Clients \cup {NoClient}
  <2>1. NoReply \in Int /\ Error \in Int
    BY DEF NoReply, Error
  <2>2. \A c \in Calls : reply[c] \in Nat \cup Foreign \cup {NoReply, Error}
    BY DEF BookInv, TypeOK
  <2>3. \A c \in Calls : client[c] \in Clients \cup {NoClient}
    BY DEF BookInv, TypeOK
  <2>4. Nat \cup Foreign \cup {NoReply, Error} \subseteq Int
    BY <2>1, ForeignAddresses
  <2>. QED
    BY <2>2, <2>3, <2>4, Zenon
<1>2. \A r \in book : r.address \in Int /\ r.client \in Clients
  BY ForeignAddresses DEF BookInv, TypeOK, Row
<1>3. \A c \in Calls : claim[c].index \in Nat /\ claim[c].id \in {0, OwnId}
  BY DEF BookInv, TypeOK, Claim
<1>. QED
  BY <1>1, <1>2, <1>3 DEF BookInv, TypeOK

LEMMA SameHistory ==
  ASSUME UNCHANGED history
  PROVE  /\ brought' = brought /\ raced' = raced /\ lost' = lost
         /\ BroughtAddresses' = BroughtAddresses
         /\ BroughtClients' = BroughtClients
         /\ Unowned' = Unowned
BY DEF history, BroughtAddresses, BroughtClients, Unowned

LEMMA InitBook == Init => BookInv
<1>. SUFFICES ASSUME Init PROVE BookInv
  OBVIOUS
<1>1. TypeOK
  BY DEF Init, TypeOK, NoClaim, Claim, NoReply, Error
<1>2. IndexInv
  BY DEF Init, IndexInv, NoReply, BroughtAddresses, Unowned
<1>3. OwnerInv /\ OneOwner
  BY DEF Init, OwnerInv, OneOwner, Holds, NoReply
<1>. QED
  BY <1>1, <1>2, <1>3 DEF BookInv

-----------------------------------------------------------------------------
(* A claim *)

\* The next index lies above all the others that have an owner, or is the 0 of
\* an error; a claim that is not committed makes it Unowned.
LEMMA ClaimTypes ==
  ASSUME BookInv, NEW c \in Calls, Claimed(c) \/ LookupFails(c)
  PROVE  /\ pathIdx' \in Nat \cup {-1} /\ faults' \in Nat
         /\ lost \subseteq lost' /\ lost' \subseteq Nat
         /\ pathIdx' = pathIdx \/ (registered /\ pathIdx' = pathIdx + 1)
         /\ \E n \in Claim :
              /\ claim' = [claim EXCEPT ![c] = n]
              /\ \/ n = NoClaim
                 \/ /\ registered /\ n = [id |-> OwnId, index |-> pathIdx + 1]
                    /\ pathIdx' = pathIdx + 1 \/ pathIdx + 1 \in lost'
<1>1. pathIdx \in Nat \cup {-1} /\ faults \in Nat /\ lost \subseteq Nat
  BY DEF BookInv, TypeOK
<1>2. faults' \in Nat
  BY <1>1 DEF Claimed, LookupFails, Fault
<1>3. pathIdx + 1 \in Nat /\ [id |-> OwnId, index |-> pathIdx + 1] \in Claim
  BY <1>1 DEF Claim, OwnId
<1>4. NoClaim \in Claim
  BY DEF NoClaim, Claim
<1>5. ClaimIndex(c) \/ ClaimFails(c) \/ ClaimLost(c)
  BY DEF Claimed, LookupFails
<1>6. CASE ClaimIndex(c)
  <2>1. CASE registered
    BY <1>1, <1>2, <1>3, <1>6, <2>1 DEF ClaimIndex, NextIndex, Advanced
  <2>2. CASE ~registered
    BY <1>1, <1>2, <1>4, <1>6, <2>2 DEF ClaimIndex, NextIndex, Advanced
  <2>. QED
    BY <2>1, <2>2
<1>7. CASE ClaimFails(c)
  BY <1>1, <1>2, <1>3, <1>4, <1>7 DEF ClaimFails, Advanced
<1>8. CASE ClaimLost(c)
  <2>1. NextIndex = [id |-> OwnId, index |-> pathIdx + 1]
    BY <1>8 DEF ClaimLost, NextIndex
  <2>2. /\ registered /\ pathIdx' = pathIdx
        /\ claim' = [claim EXCEPT ![c] = [id |-> OwnId, index |-> pathIdx + 1]]
        /\ lost' = lost \cup {pathIdx + 1}
    BY <1>8, <2>1 DEF ClaimLost
  <2>. QED
    BY <1>1, <1>2, <1>3, <2>2
<1>. QED
  BY <1>5, <1>6, <1>7, <1>8

LEMMA ClaimStep ==
  ASSUME BookInv, NEW c \in Calls, Claimed(c) \/ LookupFails(c)
  PROVE  BookInv'
<1>1. PICK n \in Claim :
        /\ claim' = [claim EXCEPT ![c] = n]
        /\ \/ n = NoClaim
           \/ /\ registered /\ n = [id |-> OwnId, index |-> pathIdx + 1]
              /\ pathIdx' = pathIdx + 1 \/ pathIdx + 1 \in lost'
  BY ClaimTypes
<1>2. /\ pc[c] = "lookup" /\ pc' = [pc EXCEPT ![c] = "save"]
      /\ UNCHANGED <<up, registered, book, second, client, reply>>
      /\ brought' = brought /\ raced' = raced
      /\ BroughtAddresses' = BroughtAddresses
  BY DEF Claimed, LookupFails, BroughtAddresses
<1>3. /\ lost \subseteq lost' /\ lost' \subseteq Nat
      /\ pathIdx' = pathIdx \/ (registered /\ pathIdx' = pathIdx + 1)
      /\ pathIdx' \in Nat \cup {-1} /\ faults' \in Nat
  BY ClaimTypes
<1>4. /\ \A i : i \notin Unowned' => i \notin Unowned
      /\ \A i : i \notin lost' => i \notin lost
      /\ \A i \in lost' : i \in Unowned'
  BY <1>2, <1>3 DEF Unowned
<1>5. TypeOK'
  BY <1>1, <1>2, <1>3 DEF BookInv, TypeOK
<1>. /\ pathIdx \in Int /\ pathIdx' \in Int
     /\ \A d \in Calls : reply[d] \in Int
     /\ \A r \in book : r.address \in Int
  BY Numbers, <1>3
<1>6. IndexInv'
  <2>1. pathIdx <= pathIdx' /\ (~registered' => pathIdx' = -1)
    BY <1>2, <1>3 DEF BookInv, IndexInv
  <2>2. IF n.id = OwnId THEN n.index <= pathIdx' \/ n.index \in lost'
                        ELSE n.index = 0
    BY <1>1, <1>3 DEF NoClaim, OwnId
  <2>3. \A d \in Calls : pc'[d] = "save" =>
          IF claim'[d].id = OwnId
          THEN claim'[d].index <= pathIdx' \/ claim'[d].index \in lost'
          ELSE claim'[d].index = 0
    <3>. SUFFICES ASSUME NEW d \in Calls, pc'[d] = "save"
                  PROVE  IF claim'[d].id = OwnId
                         THEN \/ claim'[d].index <= pathIdx'
                              \/ claim'[d].index \in lost'
                         ELSE claim'[d].index = 0
      OBVIOUS
    <3>1. CASE d = c
      BY <1>1, <2>2, <3>1 DEF BookInv, TypeOK
    <3>2. CASE d # c
      <4>1. claim'[d] = claim[d] /\ pc[d] = "save" /\ claim[d].index \in Nat
        BY <1>1, <1>2, <3>2, Numbers DEF BookInv, TypeOK
      <4>. QED
        BY <1>3, <2>1, <4>1 DEF BookInv, IndexInv
    <3>. QED
      BY <3>1, <3>2
  <2>4. \A r \in book' \ brought' :
          IF r.xpub = OwnId THEN r.address <= pathIdx' \/ r.address \in lost'
                            ELSE r.address = 0
    BY <1>2, <1>3, <2>1 DEF BookInv, IndexInv
  <2>5. \A d \in Calls : reply'[d] > 0 =>
          reply'[d] <= pathIdx' \/ reply'[d] \in Unowned'
    BY <1>2, <1>4, <2>1 DEF BookInv, IndexInv
  <2>. QED
    BY <2>1, <2>3, <2>4, <2>5 DEF IndexInv
<1>7. OwnerInv'
  <2>1. \A d \in Calls \ {c} :
          /\ Holds(d)' <=> Holds(d)
          /\ claim'[d] = claim[d]
    BY <1>1, <1>2 DEF BookInv, TypeOK, Holds
  <2>2. claim'[c] = n
    BY <1>1 DEF BookInv, TypeOK
  <2>3. CASE n = NoClaim
    <3>1. ~Holds(c)'
      BY <2>2, <2>3 DEF Holds, NoClaim, OwnId
    <3>. QED
      BY <1>2, <1>3, <1>4, <2>1, <3>1
         DEF BookInv, OwnerInv, TypeOK, NoReply
  <2>4. CASE n = [id |-> OwnId, index |-> pathIdx + 1] /\ pathIdx + 1 \in lost'
    <3>1. claim'[c].index \in lost'
      BY <2>2, <2>4
    <3>. QED
      BY <1>2, <1>3, <1>4, <2>1, <3>1
         DEF BookInv, OwnerInv, TypeOK, NoReply
  <2>5. CASE /\ n = [id |-> OwnId, index |-> pathIdx + 1]
             /\ pathIdx + 1 \notin lost'
    <3>1. claim'[c].index = pathIdx + 1 /\ pathIdx + 1 \notin lost
      BY <1>3, <2>2, <2>5
    <3>2. \A d \in Calls \ {c} : Holds(d) => claim[d].index # pathIdx + 1
      BY <3>1 DEF BookInv, IndexInv, Holds
    <3>3. \A r \in book \ brought : r.xpub = OwnId => r.address # pathIdx + 1
      BY <3>1 DEF BookInv, IndexInv
    <3>4. \A d \in Calls : reply[d] > 0 /\ reply[d] \notin Unowned =>
            reply[d] # pathIdx + 1
      BY DEF BookInv, IndexInv
    <3>. QED
      BY <1>2, <1>3, <1>4, <2>1, <3>1, <3>2, <3>3, <3>4
         DEF BookInv, OwnerInv, TypeOK, NoReply
  <2>. QED
    BY <1>1, <2>3, <2>4, <2>5
<1>8. OneOwner'
  BY <1>2, <1>4 DEF BookInv, OneOwner
<1>. QED
  BY <1>5, <1>6, <1>7, <1>8 DEF BookInv

-----------------------------------------------------------------------------
(* The answers *)

LEMMA FoundStep ==
  ASSUME BookInv, NEW c \in Calls, Found(c)
  PROVE  BookInv'
<1>1. PICK r \in book :
        /\ r.xpub = OwnId /\ r.client = client[c]
        /\ reply' = [reply EXCEPT ![c] = r.address]
  BY DEF Found, LastOf, RowsOf, Answer
<1>2. /\ pc[c] = "lookup" /\ pc' = [pc EXCEPT ![c] = "done"]
      /\ UNCHANGED <<up, registered, pathIdx, book, second, client, claim,
                     faults>>
      /\ brought' = brought /\ raced' = raced
      /\ lost' = lost /\ Unowned' = Unowned
  BY SameHistory DEF Found, Answer
<1>3. /\ r \notin brought \/ r.address \in Unowned
      /\ \A i \in lost : i \in Unowned
  BY DEF BroughtAddresses, Unowned
<1>. \A d \in Calls : reply[d] \in Int
  BY Numbers
<1>4. r.address \in Int /\ r.address \in Nat \cup Foreign
  BY <1>1, Numbers DEF BookInv, TypeOK, Row
<1>5. TypeOK'
  BY <1>1, <1>2, <1>4 DEF BookInv, TypeOK
<1>6. IndexInv'
  BY <1>1, <1>2, <1>3, <1>4 DEF BookInv, IndexInv, TypeOK
<1>7. OwnerInv'
  BY <1>1, <1>2, <1>3, <1>4 DEF BookInv, OwnerInv, TypeOK, Holds, NoReply
<1>8. OneOwner'
  BY <1>1, <1>2, <1>4 DEF BookInv, OneOwner, OwnerInv, TypeOK
<1>. QED
  BY <1>5, <1>6, <1>7, <1>8 DEF BookInv

LEMMA DeriveFailsStep ==
  ASSUME BookInv, NEW c \in Calls, DeriveFails(c)
  PROVE  BookInv'
<1>1. /\ pc[c] = "save" /\ pc' = [pc EXCEPT ![c] = "done"]
      /\ reply' = [reply EXCEPT ![c] = Error]
      /\ UNCHANGED <<up, registered, pathIdx, book, second, client, claim>>
      /\ brought' = brought /\ raced' = raced
      /\ lost' = lost /\ Unowned' = Unowned
      /\ faults' \in Nat
  BY SameHistory DEF DeriveFails, Answer, Fault, BookInv, TypeOK
<1>. \A d \in Calls : reply[d] \in Int
  BY Numbers
<1>2. TypeOK'
  BY <1>1 DEF BookInv, TypeOK
<1>3. IndexInv'
  BY <1>1 DEF BookInv, IndexInv, TypeOK, Error
<1>4. OwnerInv'
  BY <1>1 DEF BookInv, OwnerInv, TypeOK, Holds, Error, NoReply
<1>5. OneOwner'
  BY <1>1 DEF BookInv, OneOwner, TypeOK, Error
<1>. QED
  BY <1>2, <1>3, <1>4, <1>5 DEF BookInv

LEMMA SaveStep ==
  ASSUME BookInv, NEW c \in Calls, Save(c)
  PROVE  BookInv'
<1>1. /\ pc[c] = "save" /\ pc' = [pc EXCEPT ![c] = "done"]
      /\ reply' = [reply EXCEPT ![c] = claim[c].index]
      /\ book' = book \cup {NewRow(c)} \/ book' = book
      /\ UNCHANGED <<up, registered, pathIdx, second, client, claim>>
      /\ brought' = brought /\ raced' = raced
      /\ lost' = lost /\ Unowned' = Unowned
      /\ faults' \in Nat
  BY SameHistory DEF Save, Answer, Fault, BookInv, TypeOK
<1>2. claim[c] \in Claim /\ client[c] \in Clients
  BY <1>1 DEF BookInv, TypeOK
<1>3. NewRow(c) \in Row
  BY <1>2 DEF NewRow, Row, Claim, BookInv, TypeOK
<1>4. /\ NewRow(c).address = claim[c].index /\ NewRow(c).xpub = claim[c].id
      /\ NewRow(c).client = client[c]
  BY DEF NewRow
<1>. /\ \A d \in Calls : reply[d] \in Int /\ claim[d].index \in Nat
     /\ \A r \in book : r.address \in Int
     /\ pathIdx \in Int
  BY Numbers
<1>5. TypeOK'
  BY <1>1, <1>2, <1>3 DEF BookInv, TypeOK, Claim
<1>6. /\ \A r \in book : r \in brought => r.address \in Unowned
      /\ \A i \in lost : i \in Unowned
  BY DEF BroughtAddresses, Unowned
<1>7. IndexInv'
  BY <1>1, <1>2, <1>4, <1>6 DEF BookInv, IndexInv, TypeOK, Claim, OwnId
<1>8. OwnerInv'
  <2>1. CASE claim[c].id = OwnId
    BY <1>1, <1>2, <1>4, <1>6, <2>1
       DEF BookInv, OwnerInv, TypeOK, Holds, NoReply
  <2>2. CASE claim[c].id # OwnId
    BY <1>1, <1>2, <1>4, <1>6, <2>2
       DEF BookInv, OwnerInv, IndexInv, TypeOK, Holds, NoReply
  <2>. QED
    BY <2>1, <2>2
<1>9. OneOwner'
  BY <1>1, <1>2 DEF BookInv, OneOwner, OwnerInv, IndexInv, TypeOK,
                    Holds
<1>. QED
  BY <1>5, <1>7, <1>8, <1>9 DEF BookInv

-----------------------------------------------------------------------------
(* The processes *)

\* A merge only takes addresses out of the promise.
LEMMA MergeStep ==
  ASSUME BookInv, NEW rows \in Uploads, Merge(rows)
  PROVE  BookInv'
<1>1. /\ book' = book \cup rows /\ brought' = brought \cup rows
      /\ UNCHANGED <<up, registered, pathIdx, second, pc, client, claim,
                     reply, faults, raced, lost>>
      /\ rows \subseteq Row
  BY UploadsAssumption DEF Merge
<1>2. /\ \A a \in Unowned : a \in Unowned'
      /\ \A r \in rows : r.address \in Unowned'
  BY <1>1 DEF BroughtAddresses, Unowned
<1>3. TypeOK'
  BY <1>1 DEF BookInv, TypeOK
<1>4. IndexInv'
  BY <1>1, <1>2 DEF BookInv, IndexInv
<1>5. OwnerInv'
  BY <1>1, <1>2 DEF BookInv, OwnerInv, Holds
<1>6. OneOwner'
  BY <1>1, <1>2 DEF BookInv, OneOwner
<1>. QED
  BY <1>3, <1>4, <1>5, <1>6 DEF BookInv

LEMMA OtherSteps ==
  ASSUME BookInv,
         Start \/ Crash \/ Tick \/ UNCHANGED vars
         \/ \E c \in Calls, p \in Clients : Info(c, p)
  PROVE  BookInv'
<1>1. CASE Start
  <2>. /\ brought' = brought /\ raced' = raced
       /\ lost' = lost /\ Unowned' = Unowned
       /\ UNCHANGED <<pathIdx, book, second, pc, client, claim, reply>>
    BY <1>1, SameHistory DEF Start
  <2>. /\ up' \in BOOLEAN /\ registered' \in BOOLEAN
       /\ ~registered' => ~registered
    BY <1>1 DEF Start, BookInv, TypeOK
  <2>. faults' \in Nat
    BY <1>1, Numbers DEF Start, Fault
  <2>1. TypeOK'
    BY DEF BookInv, TypeOK
  <2>2. IndexInv'
    BY DEF BookInv, IndexInv
  <2>3. OwnerInv' /\ OneOwner'
    BY DEF BookInv, OwnerInv, Holds, OneOwner
  <2>. QED
    BY <2>1, <2>2, <2>3 DEF BookInv
<1>2. CASE Crash
  <2>. /\ brought' = brought /\ raced' = raced
       /\ lost' = lost /\ Unowned' = Unowned
       /\ UNCHANGED <<registered, pathIdx, book, second, client, claim, reply>>
       /\ up' = FALSE /\ faults' \in Nat
    BY <1>2, SameHistory DEF Crash, Fault, BookInv, TypeOK
  <2>1. /\ pc' \in [Calls -> {"ready", "lookup", "save", "done"}]
        /\ \A c \in Calls : pc'[c] # "ready" => pc[c] # "ready"
        /\ \A c \in Calls : /\ pc'[c] # "save"
                            /\ pc[c] = "done" => pc'[c] = "done"
    BY <1>2 DEF Crash
  <2>2. TypeOK'
    BY <2>1 DEF BookInv, TypeOK
  <2>3. IndexInv'
    BY <2>1 DEF BookInv, IndexInv
  <2>4. OwnerInv' /\ OneOwner'
    BY <2>1 DEF BookInv, OwnerInv, Holds, OneOwner
  <2>. QED
    BY <2>2, <2>3, <2>4 DEF BookInv
<1>3. CASE Tick \/ UNCHANGED vars
  <2>. /\ brought' = brought /\ raced' = raced
       /\ lost' = lost /\ Unowned' = Unowned
       /\ UNCHANGED <<up, registered, pathIdx, book, pc, client, claim, reply,
                      faults>>
       /\ second' \in Nat
    BY <1>3, SameHistory DEF Tick, vars, BookInv, TypeOK
  <2>. QED
    BY DEF BookInv, TypeOK, IndexInv, OwnerInv, Holds, OneOwner
<1>5. ASSUME NEW c \in Calls, NEW p \in Clients, Info(c, p)
      PROVE  BookInv'
  <2>1. /\ reply[c] = NoReply /\ pc[c] = "ready"
        /\ client' = [client EXCEPT ![c] = p]
        /\ pc' = [pc EXCEPT ![c] = "lookup"]
        /\ UNCHANGED <<up, registered, pathIdx, book, second, claim, reply,
                       faults, brought>>
        /\ raced' \subseteq Clients
        /\ lost' = lost /\ Unowned' = Unowned
    BY <1>5 DEF Info, BookInv, OwnerInv, TypeOK, BroughtAddresses, Unowned
  <2>2. TypeOK' /\ IndexInv'
    BY <2>1 DEF BookInv, TypeOK, IndexInv
  <2>3. OwnerInv'
    BY <2>1 DEF BookInv, TypeOK, OwnerInv, Holds, NoReply
  <2>4. OneOwner'
    BY <2>1 DEF BookInv, TypeOK, OneOwner, NoReply
  <2>. QED
    BY <2>2, <2>3, <2>4 DEF BookInv
<1>. QED
  BY <1>1, <1>2, <1>3, <1>5

LEMMA NextBook == BookInv /\ [Next]_vars => BookInv'
BY ClaimStep, FoundStep, DeriveFailsStep, SaveStep, MergeStep, OtherSteps
   DEF Next, Step

\* An index has one owner for ever.
THEOREM BookInvariance == Spec => []BookInv
<1>. QED
  BY InitBook, NextBook, PTL DEF Spec

\* Every variable keeps to its type.
THEOREM BookTypes == Spec => []TypeOK
<1>1. BookInv => TypeOK
  BY DEF BookInv
<1>. QED
  BY <1>1, BookInvariance, PTL

\* However many requests, clients, crashes and errors there are, two clients are
\* given the same address only if it is the first one (index 0, also the answer to
\* an error), if a merge brought it, or if its claim could not be committed
\* (get_next_address_index, db.rs 247-283).
THEOREM AddressesAreOwn == Spec => []OneOwner
<1>1. BookInv => OneOwner
  BY DEF BookInv
<1>. QED
  BY <1>1, BookInvariance, PTL

-----------------------------------------------------------------------------
(* A day without faults: a request claims an index of the xpub and saves    *)
(* it, so answers, indexes and rows go together (CalmInv).                 *)

LEMMA InitCalm == Init => CalmInv
<1>. SUFFICES ASSUME Init PROVE CalmInv
  OBVIOUS
<1>1. ServedInv /\ AnswerIsKnown
  BY DEF Init, ServedInv, AnswerIsKnown, NoReply, Error
<1>2. NoGap
  BY DEF Init, NoGap
<1>3. OneAddressInv
  BY DEF Init, OneAddressInv, InProgress, RowsOf
<1>. QED
  BY <1>1, <1>2, <1>3 DEF CalmInv

\* A fault is never taken back, and one ends the calm.
LEMMA CalmBefore ==
  ASSUME BookInv, [Next]_vars, faults' = 0
  PROVE  faults = 0 /\ ~Fault
<1>1. faults \in Nat
  BY Numbers
<1>2. ~Fault
  BY <1>1 DEF Fault
<1>3. faults' = faults
  BY <1>2 DEF Next, Step, Start, Crash, Tick, Merge, Info, Found, Claimed,
     LookupFails, DeriveFails, Save, vars
<1>. QED
  BY <1>2, <1>3

LEMMA CalmFound ==
  ASSUME BookInv, BookInv', CalmInv, faults = 0, NEW c \in Calls, Found(c)
  PROVE  CalmInv'
<1>1. PICK r \in RowsOf(client[c]) :
        reply' = [reply EXCEPT ![c] = r.address]
  BY DEF Found, LastOf, Answer
<1>2. /\ pc[c] = "lookup" /\ pc' = [pc EXCEPT ![c] = "done"]
      /\ UNCHANGED <<up, registered, pathIdx, book, second, client, claim,
                     faults>>
      /\ brought' = brought /\ raced' = raced /\ lost' = lost
      /\ BroughtClients' = BroughtClients
      /\ \A p \in Clients : RowsOf(p)' = RowsOf(p)
      /\ RowsOf(client[c])' = RowsOf(client[c])
  BY SameHistory DEF Found, Answer, RowsOf
<1>3. /\ r.address # NoReply /\ r.address # Error
      /\ registered
  BY <1>1, ForeignAddresses DEF RowsOf, BookInv, TypeOK, Row, NoReply, Error
<1>4. ServedInv'
  BY <1>1, <1>2, <1>3 DEF CalmInv, ServedInv, BookInv, TypeOK
<1>5. AnswerIsKnown'
  BY <1>1, <1>2, <1>3 DEF CalmInv, AnswerIsKnown, BookInv, TypeOK, RowsOf
<1>6. NoGap'
  BY <1>2 DEF CalmInv, NoGap, BookInv, TypeOK
<1>7. OneAddressInv'
  BY <1>2 DEF CalmInv, OneAddressInv, InProgress, BookInv, TypeOK
<1>. QED
  BY <1>4, <1>5, <1>6, <1>7 DEF CalmInv

LEMMA CalmClaimed ==
  ASSUME BookInv, BookInv', CalmInv, faults = 0, ~Fault,
         NEW c \in Calls, Claimed(c)
  PROVE  CalmInv'
<1>1. /\ pc[c] = "lookup" /\ pc' = [pc EXCEPT ![c] = "save"]
      /\ UNCHANGED <<up, registered, book, second, client, reply>>
      /\ brought' = brought /\ raced' = raced
      /\ BroughtClients' = BroughtClients
      /\ \A p \in Clients : RowsOf(p)' = RowsOf(p)
      /\ RowsOf(client[c]) = {}
      /\ registered
  BY DEF Claimed, RowsOf, BroughtClients, CalmInv, ServedInv
<1>2. /\ claim' = [claim EXCEPT ![c] = [id |-> OwnId, index |-> pathIdx + 1]]
      /\ pathIdx' = pathIdx + 1 /\ faults' = faults /\ lost' = lost
  BY <1>1 DEF Claimed, ClaimIndex, NextIndex, Advanced
<1>3. ServedInv'
  BY <1>1, <1>2 DEF CalmInv, ServedInv, BookInv, TypeOK
<1>4. AnswerIsKnown'
  BY <1>1, <1>2 DEF CalmInv, AnswerIsKnown, RowsOf
<1>5. NoGap'
  <2>. SUFFICES ASSUME NEW i \in 0..pathIdx'
                PROVE  \/ \E r \in book' : r.address = i /\ r.xpub = OwnId
                       \/ \E d \in Calls : /\ pc'[d] = "save"
                                           /\ claim'[d] = [id |-> OwnId, index |-> i]
    BY DEF NoGap
  <2>0. pathIdx \in Int
    BY Numbers
  <2>1. CASE i = pathIdx + 1
    BY <1>1, <1>2, <2>1 DEF BookInv, TypeOK
  <2>2. CASE i # pathIdx + 1
    <3>1. i \in 0..pathIdx
      BY <1>2, <2>0, <2>2
    <3>2. CASE \E r \in book : r.address = i /\ r.xpub = OwnId
      BY <1>1, <3>2
    <3>3. CASE \E d \in Calls : /\ pc[d] = "save"
                                /\ claim[d] = [id |-> OwnId, index |-> i]
      BY <1>1, <1>2, <3>3 DEF BookInv, TypeOK
    <3>. QED
      BY <3>1, <3>2, <3>3 DEF CalmInv, NoGap
  <2>. QED
    BY <2>1, <2>2
<1>6. OneAddressInv'
  BY <1>1 DEF CalmInv, OneAddressInv, InProgress, BookInv, TypeOK
<1>. QED
  BY <1>3, <1>4, <1>5, <1>6 DEF CalmInv

LEMMA CalmSave ==
  ASSUME BookInv, BookInv', CalmInv, faults = 0, ~Fault,
         NEW c \in Calls, Save(c)
  PROVE  CalmInv'
<1>1. /\ pc[c] = "save" /\ pc' = [pc EXCEPT ![c] = "done"]
      /\ reply' = [reply EXCEPT ![c] = claim[c].index]
      /\ book' = book \cup {NewRow(c)}
      /\ UNCHANGED <<up, registered, pathIdx, second, client, claim, faults>>
      /\ brought' = brought /\ raced' = raced /\ lost' = lost
      /\ BroughtClients' = BroughtClients
  BY SameHistory DEF Save, Answer
<1>2. /\ claim[c].id = OwnId /\ claim[c].index \in Nat /\ registered
      /\ claim[c] = [id |-> OwnId, index |-> claim[c].index]
  BY <1>1 DEF CalmInv, ServedInv, BookInv, TypeOK, Claim
<1>3. /\ NewRow(c).address = claim[c].index /\ NewRow(c).xpub = OwnId
      /\ NewRow(c).client = client[c]
  BY <1>2 DEF NewRow
<1>4. \A p \in Clients \cup {NoClient} :
        RowsOf(p)' = IF p = client[c] THEN RowsOf(p) \cup {NewRow(c)}
                                      ELSE RowsOf(p)
  BY <1>1, <1>2, <1>3 DEF RowsOf
<1>5. ServedInv'
  BY <1>1, <1>2 DEF CalmInv, ServedInv, BookInv, TypeOK, NoReply, Error
<1>6. AnswerIsKnown'
  <2>. SUFFICES ASSUME NEW d \in Calls, reply'[d] \notin {NoReply, Error}
                PROVE  \E r \in RowsOf(client[d])' : r.address = reply'[d]
    BY <1>1 DEF AnswerIsKnown, RowsOf
  <2>1. client[d] \in Clients \cup {NoClient}
    BY Numbers
  <2>2. CASE d = c
    BY <1>1, <1>3, <1>4, <2>1, <2>2 DEF BookInv, TypeOK
  <2>3. CASE d # c
    BY <1>1, <1>4, <2>1, <2>3 DEF CalmInv, AnswerIsKnown, BookInv, TypeOK
  <2>. QED
    BY <2>2, <2>3
<1>7. NoGap'
  <2>. SUFFICES ASSUME NEW i \in 0..pathIdx
                PROVE  \/ \E r \in book' : r.address = i /\ r.xpub = OwnId
                       \/ \E d \in Calls : /\ pc'[d] = "save"
                                           /\ claim'[d] = [id |-> OwnId, index |-> i]
    BY <1>1 DEF NoGap
  <2>1. CASE \E r \in book : r.address = i /\ r.xpub = OwnId
    BY <1>1, <2>1
  <2>2. CASE claim[c] = [id |-> OwnId, index |-> i]
    BY <1>1, <1>3, <2>2
  <2>3. CASE \E d \in Calls : /\ d # c /\ pc[d] = "save"
                              /\ claim[d] = [id |-> OwnId, index |-> i]
    BY <1>1, <2>3 DEF BookInv, TypeOK
  <2>. QED
    BY <2>1, <2>2, <2>3 DEF CalmInv, NoGap
<1>8. OneAddressInv'
  <2>. SUFFICES ASSUME NEW p \in Clients \ (raced \cup BroughtClients)
                PROVE  /\ \A d, e \in InProgress(p)' : d = e
                       /\ \A r, s \in RowsOf(p)' : r.address = s.address
                       /\ \A d \in InProgress(p)' : pc'[d] = "save" =>
                            RowsOf(p)' = {}
    BY <1>1 DEF OneAddressInv
  <2>1. InProgress(p)' \subseteq InProgress(p) \ {c}
    BY <1>1 DEF InProgress, BookInv, TypeOK
  <2>2. /\ \A d, e \in InProgress(p) : d = e
        /\ \A r, s \in RowsOf(p) : r.address = s.address
        /\ \A d \in InProgress(p) : pc[d] = "save" => RowsOf(p) = {}
    BY DEF CalmInv, OneAddressInv
  <2>3. CASE p = client[c]
    <3>1. c \in InProgress(p)
      BY <1>1, <2>3 DEF InProgress
    <3>2. InProgress(p)' = {} /\ RowsOf(p)' = {NewRow(c)}
      BY <1>1, <1>4, <2>1, <2>2, <2>3, <3>1
    <3>. QED
      BY <3>2
  <2>4. CASE p # client[c]
    BY <1>1, <1>4, <2>1, <2>2, <2>4 DEF BookInv, TypeOK
  <2>. QED
    BY <2>3, <2>4
<1>. QED
  BY <1>5, <1>6, <1>7, <1>8 DEF CalmInv

LEMMA CalmInfo ==
  ASSUME BookInv, BookInv', CalmInv, faults = 0,
         NEW c \in Calls, NEW p \in Clients, Info(c, p)
  PROVE  CalmInv'
<1>1. /\ up /\ pc[c] = "ready" /\ reply[c] = NoReply
      /\ client' = [client EXCEPT ![c] = p]
      /\ pc' = [pc EXCEPT ![c] = "lookup"]
      /\ raced' = IF InProgress(p) = {} THEN raced ELSE raced \cup {p}
      /\ UNCHANGED <<up, registered, pathIdx, book, second, claim, reply,
                     faults, brought, lost>>
      /\ BroughtClients' = BroughtClients
      /\ \A q \in Clients : RowsOf(q)' = RowsOf(q)
  BY DEF Info, BookInv, OwnerInv, BroughtClients, RowsOf
<1>2. ServedInv'
  BY <1>1 DEF CalmInv, ServedInv, BookInv, TypeOK
<1>3. AnswerIsKnown'
  BY <1>1 DEF CalmInv, AnswerIsKnown, BookInv, TypeOK, RowsOf
<1>4. NoGap'
  BY <1>1 DEF CalmInv, NoGap, BookInv, TypeOK
<1>5. OneAddressInv'
  <2>. SUFFICES ASSUME NEW q \in Clients \ (raced' \cup BroughtClients)
                PROVE  /\ \A d, e \in InProgress(q)' : d = e
                       /\ \A r, s \in RowsOf(q) : r.address = s.address
                       /\ \A d \in InProgress(q)' : pc'[d] = "save" =>
                            RowsOf(q) = {}
    BY <1>1 DEF OneAddressInv
  <2>1. q \notin raced /\ (q = p => InProgress(p) = {})
    BY <1>1
  <2>2. InProgress(q)' = IF q = p THEN InProgress(p) \cup {c}
                                  ELSE InProgress(q)
    BY <1>1 DEF InProgress, BookInv, TypeOK
  <2>3. /\ \A d, e \in InProgress(q) : d = e
        /\ \A r, s \in RowsOf(q) : r.address = s.address
        /\ \A d \in InProgress(q) : pc[d] = "save" => RowsOf(q) = {}
    BY <2>1 DEF CalmInv, OneAddressInv
  <2>. QED
    BY <1>1, <2>1, <2>2, <2>3 DEF BookInv, TypeOK
<1>. QED
  BY <1>2, <1>3, <1>4, <1>5 DEF CalmInv

LEMMA CalmMerge ==
  ASSUME BookInv, BookInv', CalmInv, faults = 0,
         NEW rows \in Uploads, Merge(rows)
  PROVE  CalmInv'
<1>1. /\ registered
      /\ book' = book \cup rows /\ brought' = brought \cup rows
      /\ UNCHANGED <<up, registered, pathIdx, second, pc, client, claim,
                     reply, faults, raced, lost>>
  BY DEF Merge
<1>2. BroughtClients' = BroughtClients \cup {r.client : r \in rows}
  BY <1>1 DEF BroughtClients
<1>3. \A p : /\ RowsOf(p) \subseteq RowsOf(p)'
             /\ p \notin BroughtClients' => RowsOf(p)' = RowsOf(p)
  BY <1>1, <1>2 DEF RowsOf
<1>4. ServedInv' /\ NoGap'
  BY <1>1 DEF CalmInv, ServedInv, NoGap
<1>5. AnswerIsKnown'
  BY <1>1, <1>3 DEF CalmInv, AnswerIsKnown, RowsOf
<1>6. OneAddressInv'
  BY <1>1, <1>2, <1>3 DEF CalmInv, OneAddressInv, InProgress
<1>. QED
  BY <1>4, <1>5, <1>6 DEF CalmInv

LEMMA CalmOthers ==
  ASSUME BookInv, BookInv', CalmInv, faults = 0, ~Fault,
         Start \/ Tick \/ UNCHANGED vars
  PROVE  CalmInv'
<1>1. /\ UNCHANGED <<pathIdx, book, pc, client, claim, reply>>
      /\ brought' = brought /\ raced' = raced /\ lost' = lost
      /\ BroughtClients' = BroughtClients
      /\ registered => registered'
      /\ up' => registered'
      /\ up => up'
  BY SameHistory DEF Start, Tick, vars, CalmInv, ServedInv
<1>2. ServedInv'
  BY <1>1 DEF CalmInv, ServedInv
<1>3. NoGap'
  BY <1>1 DEF CalmInv, NoGap
<1>4. AnswerIsKnown'
  BY <1>1 DEF CalmInv, AnswerIsKnown, ServedInv, RowsOf
<1>5. OneAddressInv'
  <2>1. \A p \in Clients : RowsOf(p)' = RowsOf(p)
    BY <1>1 DEF CalmInv, ServedInv, RowsOf
  <2>. QED
    BY <1>1, <2>1 DEF CalmInv, OneAddressInv, InProgress
<1>. QED
  BY <1>2, <1>3, <1>4, <1>5 DEF CalmInv

LEMMA NextCalm == BookInv /\ BookInv' /\ CalmInv /\ [Next]_vars => CalmInv'
<1>. SUFFICES ASSUME BookInv, BookInv', CalmInv, [Next]_vars, faults' = 0
              PROVE  CalmInv'
  BY DEF CalmInv
<1>1. faults = 0 /\ ~Fault
  BY CalmBefore
<1>2. ~Crash /\ \A c \in Calls : ~LookupFails(c) /\ ~DeriveFails(c)
  BY <1>1 DEF Crash, LookupFails, DeriveFails
<1>. QED
  BY <1>1, <1>2, CalmFound, CalmClaimed, CalmSave, CalmInfo, CalmMerge,
     CalmOthers DEF Next, Step

THEOREM CalmInvariance == Spec => []CalmInv
<1>. QED
  BY InitCalm, NextCalm, BookInvariance, PTL DEF Spec

\* Without faults every answer is in tbl_address, where /pushtxs finds it.
THEOREM AnswersAreKnown == Spec => []AnswerIsKnown
<1>1. CalmInv => AnswerIsKnown
  BY DEF CalmInv, AnswerIsKnown
<1>. QED
  BY <1>1, CalmInvariance, PTL

\* Without faults no index is skipped.
THEOREM IndexesHaveNoGap == Spec => []NoGap
<1>1. CalmInv => NoGap
  BY DEF CalmInv, NoGap
<1>. QED
  BY <1>1, CalmInvariance, PTL

\* Without faults and races a client keeps its address.
THEOREM AddressesAreStable == Spec => []StableAddress
<1>1. BookInv /\ CalmInv => StableAddress
  <2>. SUFFICES ASSUME BookInv, CalmInv, faults = 0,
                       NEW c \in Calls, NEW d \in Calls,
                       reply[c] # NoReply, reply[d] # NoReply,
                       client[c] = client[d],
                       client[c] \notin raced \cup BroughtClients
                PROVE  reply[c] = reply[d]
    BY DEF StableAddress
  <2>1. reply[c] # Error /\ reply[d] # Error
    BY DEF CalmInv, ServedInv
  <2>2. PICK r, s \in RowsOf(client[c]) :
          r.address = reply[c] /\ s.address = reply[d]
    BY <2>1 DEF CalmInv, AnswerIsKnown
  <2>3. client[c] \in Clients
    BY DEF BookInv, TypeOK, OwnerInv
  <2>. QED
    BY <2>2, <2>3 DEF CalmInv, OneAddressInv
<1>. QED
  BY <1>1, BookInvariance, CalmInvariance, PTL

\* The first address is shared after an error only: when nothing has failed,
\* no address of the xpub is given to two clients but those a merge brought
\* (get_next_address_index, db.rs 247-283).
THEOREM FirstIsOwnWithoutFaults ==
  Spec => [](faults = 0 =>
               \A c, d \in Calls :
                 /\ reply[c] # NoReply
                 /\ reply[c] = reply[d]
                 /\ reply[c] \notin BroughtAddresses
                 => client[c] = client[d])
<1>1. BookInv /\ CalmInv =>
        (faults = 0 =>
           \A c, d \in Calls :
             /\ reply[c] # NoReply
             /\ reply[c] = reply[d]
             /\ reply[c] \notin BroughtAddresses
             => client[c] = client[d])
  <2>. SUFFICES ASSUME BookInv, CalmInv, faults = 0,
                       NEW c \in Calls, NEW d \in Calls,
                       reply[c] # NoReply, reply[c] = reply[d],
                       reply[c] \notin BroughtAddresses
                PROVE  client[c] = client[d]
    OBVIOUS
  <2>1. reply[c] # Error
    BY DEF CalmInv, ServedInv
  <2>2. PICK r \in RowsOf(client[c]), s \in RowsOf(client[d]) :
          r.address = reply[c] /\ s.address = reply[d]
    BY <2>1 DEF CalmInv, AnswerIsKnown
  <2>3. reply[c] \notin Unowned
    BY DEF CalmInv, ServedInv, Unowned
  <2>. QED
    BY <2>2, <2>3 DEF RowsOf, BookInv, OwnerInv
<1>. QED
  BY <1>1, BookInvariance, CalmInvariance, PTL
=============================================================================
