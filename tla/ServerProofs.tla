----------------------------- MODULE ServerProofs -----------------------------
(***************************************************************************)
(* The two handlers in one server: each behaves as its own module says, so *)
(* every theorem about PushTxs and AddressBook holds of the server, and    *)
(* from what these say together follows that it accepts what it offers.    *)
(***************************************************************************)
EXTENDS Server, PushTxsProofs

\* AddressBook with its theorems, under the names Book has.
BookProofs == INSTANCE AddressBookProofs
                WITH Calls <- Infos, Uploads <- {}, pc <- infoPc,
                     reply <- infoReply, faults <- infoFaults

-----------------------------------------------------------------------------
(* The info handler *)

LEMMA BookStep ==
  ASSUME [ServerNext]_serverVars
  PROVE  [Book!Next]_(Book!vars)
<1>1. CASE UNCHANGED <<bookVars>>
  BY <1>1 DEF bookVars, Book!vars, Book!history
<1>2. CASE Surroundings
  BY <1>2 DEF Surroundings, Book!Next
<1>3. CASE ServerCrash
  BY <1>3 DEF ServerCrash, Book!Next
<1>4. ASSUME NEW c \in Infos,
             InfoStep(c) \/ \E p \in Clients : InfoArrives(c, p)
      PROVE  Book!Next
  BY <1>4 DEF InfoStep, InfoArrives, Book!Next
<1>. QED
  BY <1>1, <1>2, <1>3, <1>4 DEF ServerNext, PushStep, PushArrives, serverVars

\* The info handler in the server is that of AddressBook, whatever pushtxs
\* requests do to the mutex and the other tables.
THEOREM ServerRunsAddressBook == ServerSpec => Book!Spec
<1>1. ServerInit => Book!Init
  BY DEF ServerInit
<1>. QED
  BY <1>1, BookStep, PTL DEF ServerSpec, Book!Spec

\* Two instances of one module are one.
LEMMA SameBook ==
  /\ Book!Init => BookProofs!Init
  /\ [Book!Next]_(Book!vars) => [BookProofs!Next]_(BookProofs!vars)
<1>1. Book!Init => BookProofs!Init
  BY DEF Book!Init, BookProofs!Init, Book!NoClaim, BookProofs!NoClaim,
         Book!NoReply, BookProofs!NoReply
<1>2. UNCHANGED Book!vars => UNCHANGED BookProofs!vars
  BY DEF Book!vars, BookProofs!vars, Book!history, BookProofs!history
<1>3. ASSUME Book!Start \/ Book!Crash \/ Book!Tick
      PROVE  BookProofs!Start \/ BookProofs!Crash \/ BookProofs!Tick
  BY <1>3 DEF Book!Start, BookProofs!Start, Book!Crash, BookProofs!Crash,
         Book!Tick, BookProofs!Tick, Book!Fault, BookProofs!Fault,
         Book!history, BookProofs!history
<1>4. ASSUME NEW c, NEW p, Book!Info(c, p) PROVE BookProofs!Info(c, p)
  BY <1>4 DEF Book!Info, BookProofs!Info, Book!InProgress, BookProofs!InProgress
<1>5. ASSUME NEW c, Book!Found(c) PROVE BookProofs!Found(c)
  BY <1>5 DEF Book!Found, BookProofs!Found, Book!Answer, BookProofs!Answer,
         Book!LastOf, BookProofs!LastOf, Book!RowsOf, BookProofs!RowsOf,
         Book!OwnId, BookProofs!OwnId, Book!history, BookProofs!history
<1>6. ASSUME NEW c, Book!Claimed(c) \/ Book!LookupFails(c)
      PROVE  BookProofs!Claimed(c) \/ BookProofs!LookupFails(c)
  BY <1>6 DEF Book!Claimed, BookProofs!Claimed, Book!LookupFails,
         BookProofs!LookupFails, Book!RowsOf, BookProofs!RowsOf,
         Book!ClaimIndex, BookProofs!ClaimIndex, Book!ClaimFails,
         BookProofs!ClaimFails, Book!ClaimLost, BookProofs!ClaimLost,
         Book!Advanced, BookProofs!Advanced, Book!NextIndex,
         BookProofs!NextIndex, Book!NoClaim, BookProofs!NoClaim, Book!OwnId,
         BookProofs!OwnId, Book!Fault, BookProofs!Fault, Book!history,
         BookProofs!history
<1>7. ASSUME NEW c, Book!DeriveFails(c) \/ Book!Save(c)
      PROVE  BookProofs!DeriveFails(c) \/ BookProofs!Save(c)
  BY <1>7 DEF Book!DeriveFails, BookProofs!DeriveFails, Book!Save,
         BookProofs!Save, Book!NewRow, BookProofs!NewRow, Book!Answer,
         BookProofs!Answer, Book!Error, BookProofs!Error, Book!Fault,
         BookProofs!Fault, Book!history, BookProofs!history
<1>8. ASSUME NEW c \in Infos, Book!Step(c) PROVE BookProofs!Step(c)
  BY <1>5, <1>6, <1>7, <1>8 DEF Book!Step, BookProofs!Step
<1>9. ASSUME Book!Next PROVE BookProofs!Next
  <2>1. CASE Book!Start \/ Book!Crash \/ Book!Tick
    BY <2>1, <1>3 DEF BookProofs!Next
  <2>2. ASSUME NEW c \in Infos, Book!Step(c) PROVE BookProofs!Next
    BY <2>2, <1>8 DEF BookProofs!Next
  <2>3. ASSUME NEW c \in Infos, NEW p \in Clients, Book!Info(c, p)
        PROVE  BookProofs!Next
    BY <2>3, <1>4 DEF BookProofs!Next
  <2>. QED
    BY <1>9, <2>1, <2>2, <2>3 DEF Book!Next
<1>. QED
  BY <1>1, <1>2, <1>9

LEMMA BookFacts ==
  ServerSpec => [](BookProofs!TypeOK /\ BookProofs!AnswerIsKnown)
<1>1. ServerSpec => BookProofs!Spec
  BY ServerRunsAddressBook, SameBook, PTL DEF Book!Spec, BookProofs!Spec
<1>. USE InfosAssumption, LimitAssumption
         DEF BookProofs!ClientsAssumption, BookProofs!BoundsAssumption,
             BookProofs!UploadsAssumption
<1>2. BookProofs!Spec => []BookProofs!TypeOK
  BY BookProofs!BookTypes
<1>3. BookProofs!Spec => []BookProofs!AnswerIsKnown
  BY BookProofs!AnswersAreKnown
<1>. QED
  BY <1>1, <1>2, <1>3, PTL
-----------------------------------------------------------------------------
(* The pushtxs handler *)

\* What an info request saves is one row, and rows stay.
LEMMA InfoSaves ==
  ASSUME NEW c \in Infos, Book!Step(c)
  PROVE  \/ book' = book
         \/ \E r : book' = book \cup {r}
BY DEF Book!Step, Book!Found, Book!Claimed, Book!LookupFails, Book!DeriveFails,
       Book!Save

LEMMA BookGrows ==
  ASSUME [ServerNext]_serverVars
  PROVE  book \subseteq book'
<1>1. ASSUME NEW c \in Infos, InfoStep(c) PROVE book \subseteq book'
  BY <1>1, InfoSaves DEF InfoStep
<1>2. CASE Surroundings \/ ServerCrash
  BY <1>2 DEF Surroundings, ServerCrash, Book!Start, Book!Tick, Book!Crash
<1>3. ASSUME NEW c \in Infos, NEW p \in Clients, InfoArrives(c, p)
      PROVE  book \subseteq book'
  BY <1>3 DEF InfoArrives, Book!Info
<1>. QED
  BY <1>1, <1>2, <1>3 DEF ServerNext, PushStep, PushArrives, bookVars, serverVars

LEMMA KnownStep ==
  ASSUME KnownInv, [ServerNext]_serverVars
  PROVE  KnownInv'
<1>. USE DEF KnownInv
<1>1. CASE book' = book /\ known' = known
  BY <1>1 DEF Known
<1>2. CASE Surroundings \/ ServerCrash
  BY <1>1, <1>2 DEF Surroundings, ServerCrash, Book!Start, Book!Tick,
                    Book!Crash, Crash, vars
<1>3. ASSUME NEW c \in Infos, NEW p \in Clients, InfoArrives(c, p)
      PROVE  KnownInv'
  BY <1>1, <1>3 DEF InfoArrives, Book!Info, vars
<1>4. ASSUME NEW c \in Infos, InfoStep(c) PROVE KnownInv'
  BY <1>4 DEF InfoStep
<1>5. ASSUME NEW c \in Calls, PushStep(c) PROVE KnownInv'
  BY <1>1, <1>5 DEF PushStep, bookVars, Step, Load, Parse, Check, Begin,
                    InsertTx, InsertInp, InsertOut, Commit
<1>6. ASSUME NEW c \in Calls, NEW b \in Bodies, PushArrives(c, b)
      PROVE  KnownInv'
  BY <1>1, <1>6 DEF PushArrives, bookVars, Push
<1>. QED
  BY <1>1, <1>2, <1>3, <1>4, <1>5, <1>6
     DEF ServerNext, serverVars, bookVars, vars

\* An info request adds one address to those pushtxs knows, or none.
LEMMA PushTxsStep ==
  ASSUME KnownInv, [ServerNext]_serverVars
  PROVE  [Next]_vars
<1>. USE DEF KnownInv
<1>1. CASE UNCHANGED vars
  BY <1>1
<1>2. ASSUME NEW c \in Infos, InfoStep(c) PROVE [Next]_vars
  <2>1. known' = Known' /\ UNCHANGED pushTables
    BY <1>2 DEF InfoStep
  <2>2. CASE known' = known
    BY <2>1, <2>2 DEF vars, pushTables
  <2>3. CASE known' # known
    <3>1. PICK r : book' = book \cup {r}
      BY <1>2, <2>1, <2>3, InfoSaves DEF InfoStep, Known
    <3>2. known \subseteq known' /\ \A a \in known' \ known : a = r.address
      BY <2>1, <3>1 DEF Known
    <3>3. PICK a \in known' : a \notin known
      BY <2>3, <3>2
    <3>4. known' = known \cup {a} /\ a \in Addresses
      BY <2>1, <3>2, <3>3 DEF Known
    <3>5. SaveAddress(a)
      BY <2>1, <3>3, <3>4 DEF SaveAddress, pushTables
    <3>. QED
      BY <3>4, <3>5 DEF Next
  <2>. QED
    BY <2>2, <2>3
<1>3. CASE Surroundings
  BY <1>1, <1>3 DEF Surroundings
<1>4. CASE ServerCrash
  BY <1>4 DEF ServerCrash, Next
<1>5. ASSUME NEW c \in Infos, NEW p \in Clients, InfoArrives(c, p)
      PROVE  [Next]_vars
  BY <1>1, <1>5 DEF InfoArrives
<1>6. ASSUME NEW c \in Calls, PushStep(c) PROVE [Next]_vars
  BY <1>6 DEF PushStep, Next
<1>7. ASSUME NEW c \in Calls, NEW b \in Bodies, PushArrives(c, b)
      PROVE  [Next]_vars
  BY <1>7 DEF PushArrives, Next
<1>. QED
  BY <1>1, <1>2, <1>3, <1>4, <1>5, <1>6, <1>7 DEF ServerNext, serverVars

\* The pushtxs handler in the server is that of PushTxs: what PushTxs has for
\* its surroundings, an address saved at any moment, is all info requests do.
THEOREM ServerRunsPushTxs == ServerSpec => Spec
<1>1. ServerInit => Init /\ KnownInv
  BY DEF KnownInv, ServerInit, Init, Book!Init, Known
<1>. QED
  BY <1>1, KnownStep, PushTxsStep, PTL DEF ServerSpec, Spec

\* So its tables agree and its answers are as true in the server.
THEOREM ServerKeepsPushTxs ==
  ServerSpec => /\ [](TablesAgree /\ PresentIsStored /\ ThxStoredSome)
                /\ []StoredIsPaid /\ ImplementsTxStore
<1>1. PushInv => TablesAgree /\ PresentIsStored /\ ThxStoredSome /\ StoredIsPaid
  BY DEF PushInv
<1>. QED
  BY <1>1, ServerRunsPushTxs, PushInvariance, RequestsAreAtomic, PTL

-----------------------------------------------------------------------------
(* Together *)

\* While nothing fails, an answered address is known.
LEMMA AnswersKnown ==
  ASSUME BookProofs!TypeOK, BookProofs!AnswerIsKnown, KnownInv
  PROVE  /\ Answers \subseteq Int
         /\ infoFaults = 0 => Answers \cap Addresses \subseteq known
<1>1. Answers \subseteq Int
  BY DEF Answers, BookProofs!TypeOK, BookProofs!Foreign, BookProofs!NoReply,
         BookProofs!Error
<1>2. ASSUME infoFaults = 0, NEW a \in Answers, a \in Addresses
      PROVE  a \in known
  <2>1. PICK c \in Infos : a = infoReply[c] /\ a \notin {-1, -2}
    BY <1>2 DEF Answers, Book!NoReply, Book!Error
  <2>2. PICK r \in book : r.xpub = 1 /\ r.address = a
    BY <1>2, <2>1 DEF BookProofs!AnswerIsKnown, BookProofs!NoReply,
                      BookProofs!Error, BookProofs!RowsOf, BookProofs!OwnId
  <2>. QED
    BY <1>2, <2>2 DEF KnownInv, Known, Book!OwnId
<1>. QED
  BY <1>1, <1>2

\* Counts of faults only grow.
LEMMA CountsGrow ==
  ASSUME TypeOK, BookProofs!TypeOK, KnownInv, [ServerNext]_serverVars
  PROVE  /\ faults' = 0 => faults = 0
         /\ infoFaults' = 0 => infoFaults = 0
         /\ ServerCrash => infoFaults' # 0
<1>1. faults' = 0 => faults = 0
  BY PushTxsStep, FaultsAreCounted DEF Fault, TypeOK
<1>. USE DEF BookProofs!TypeOK
<1>2. ServerCrash => infoFaults' # 0
  BY DEF ServerCrash, Book!Crash, Book!Fault
<1>3. ASSUME NEW c \in Infos, Book!Step(c), infoFaults' = 0 PROVE infoFaults = 0
  BY <1>3 DEF Book!Step, Book!Found, Book!Claimed, Book!ClaimIndex,
              Book!LookupFails, Book!DeriveFails, Book!Save, Book!Fault
<1>4. ASSUME Surroundings, infoFaults' = 0 PROVE infoFaults = 0
  BY <1>4 DEF Surroundings, Book!Start, Book!Tick, Book!Fault
<1>5. ASSUME NEW c \in Infos, NEW p \in Clients, InfoArrives(c, p)
      PROVE  infoFaults' = infoFaults
  BY <1>5 DEF InfoArrives, Book!Info
<1>. QED
  BY <1>1, <1>2, <1>3, <1>4, <1>5
     DEF ServerNext, InfoStep, PushStep, PushArrives, bookVars, serverVars

LEMMA OfferStep ==
  ASSUME TypeOK, TypeOK', BookProofs!TypeOK, BookProofs!AnswerIsKnown,
         ServerInv, [ServerNext]_serverVars
  PROVE  ServerInv'
<1>. USE DEF ServerInv, OfferInv, KnownInv
<1>1. /\ known' = Known' /\ known \subseteq known'
      /\ faults' = 0 => faults = 0
      /\ infoFaults' = 0 => infoFaults = 0
  BY KnownStep, BookGrows, CountsGrow DEF Known
<1>2. ASSUME UNCHANGED <<pc, body, addrs, parsed, offered>> PROVE ServerInv'
  BY <1>1, <1>2 DEF AnsweredIsAccepted, Due
<1>3. CASE ServerCrash
  <2>1. infoFaults' # 0 /\ offered' = offered
    BY <1>3, CountsGrow DEF ServerCrash
  <2>. QED
    BY <1>1, <2>1 DEF AnsweredIsAccepted
<1>4. ASSUME NEW c \in Calls, NEW b \in Bodies, PushArrives(c, b)
      PROVE  ServerInv'
  <2>1. /\ offered' = [offered EXCEPT ![c] = Answers]
        /\ pc' = [pc EXCEPT ![c] = "load"] /\ body' = [body EXCEPT ![c] = b]
        /\ UNCHANGED <<addrs, parsed, infoFaults, faults>>
    BY <1>4 DEF PushArrives, Push, bookVars
  <2>2. /\ Answers \subseteq Int
        /\ infoFaults = 0 => Answers \cap Addresses \subseteq known
    BY AnswersKnown
  <2>3. OfferInv'
    BY <1>1, <2>1, <2>2 DEF TypeOK
  <2>4. \A d \in Calls \ {c} : Due(d)' = Due(d)
    BY <2>1 DEF Due, TypeOK
  <2>5. AnsweredIsAccepted'
    BY <2>1, <2>4 DEF AnsweredIsAccepted, TypeOK
  <2>. QED
    BY <2>3, <2>5
<1>5. ASSUME NEW c \in Calls, Step(c), UNCHANGED <<bookVars, offered>>
      PROVE  ServerInv'
  <2>1. \A d \in Calls \ {c} :
          /\ pc'[d] = pc[d] /\ addrs'[d] = addrs[d] /\ parsed'[d] = parsed[d]
    BY <1>5 DEF Step, Load, Parse, Check, Begin, InsertTx, InsertInp, InsertOut,
                Commit, Answer, TypeOK
  <2>2. body' = body /\ \A d \in Calls : Due(d)' = Due(d)
    BY <1>5 DEF Step, Load, Parse, Check, Begin, InsertTx, InsertInp, InsertOut,
                Commit, Due
  <2>3. ASSUME faults' = 0, infoFaults = 0, pc'[c] \notin {"ready", "load"}
        PROVE  offered[c] \cap Addresses \subseteq addrs'[c]
    <3>1. CASE Load(c)
      <4>1. ~Fault
        BY <2>3 DEF Fault, TypeOK
      <4>. QED
        BY <2>3, <3>1, <4>1, XPubAssumption DEF Load, Loadable, TypeOK
    <3>2. CASE ~Load(c)
      BY <1>1, <1>5, <2>3, <3>2 DEF Step, Parse, Check, Begin, InsertTx,
         InsertInp, InsertOut, Commit, TypeOK
    <3>. QED
      BY <3>1, <3>2
  <2>4. ASSUME faults' = 0, infoFaults = 0,
               pc'[c] \notin {"ready", "load", "parse"}
        PROVE  Due(c) \subseteq parsed'[c]
    <3>1. CASE Parse(c)
      <4>1. offered[c] \cap Addresses \subseteq addrs[c]
        BY <1>1, <2>4, <3>1 DEF Parse
      <4>2. \A t \in Txs : Pays[t] \in Addresses
        BY DEF Addresses
      <4>3. parsed'[c] = {i \in DOMAIN body[c] :
                            /\ body[c][i] \in Txs
                            /\ Ours(body[c][i], Mine(addrs[c]))}
        BY <3>1 DEF Parse, TypeOK
      <4>. QED
        BY <4>1, <4>2, <4>3, XPubAssumption DEF Due, Ours, Mine
    <3>2. CASE Load(c)
      BY <2>4, <3>2 DEF Load, Fault, TypeOK
    <3>3. CASE ~Parse(c) /\ ~Load(c)
      <4>1. pc[c] \notin {"ready", "load", "parse"} /\ parsed' = parsed
        BY <1>5, <3>3 DEF Step, Check, Begin, InsertTx, InsertInp, InsertOut,
                          Commit
      <4>. QED
        BY <1>1, <2>4, <4>1 DEF AnsweredIsAccepted
    <3>. QED
      BY <3>1, <3>2, <3>3
  <2>5. OfferInv'
    BY <1>1, <1>5, <2>1, <2>3 DEF bookVars
  <2>6. AnsweredIsAccepted'
    BY <1>1, <1>5, <2>1, <2>2, <2>4 DEF bookVars, AnsweredIsAccepted
  <2>. QED
    BY <2>5, <2>6
<1>. QED
  BY <1>2, <1>3, <1>4, <1>5
     DEF ServerNext, Surroundings, InfoStep, InfoArrives, PushStep, pushTables,
         serverVars, vars

\* What /info offers /pushtxs accepts, for any number of requests of either
\* kind, as long as nothing fails.
THEOREM OffersAreAccepted == ServerSpec => []AnsweredIsAccepted
<1>1. ServerInit => ServerInv
  BY DEF ServerInit, ServerInv, OfferInv, KnownInv, AnsweredIsAccepted, Init, Book!Init,
         Known
<1>2. ServerInv => AnsweredIsAccepted
  BY DEF ServerInv
<1>. QED
  BY <1>1, <1>2, OfferStep, BookFacts, ServerRunsPushTxs, PushTypes, PTL
     DEF ServerSpec
=============================================================================
