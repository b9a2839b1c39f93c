---------------------------- MODULE SettingsProofs ----------------------------
(***************************************************************************)
(* Settings.tla for every number of workers, every set of addresses and    *)
(* fees, every environment and every length a text may have.               *)
(***************************************************************************)
EXTENDS Settings, TLAPS

USE FeesAssumption, EnvAssumption, LengthAssumption, BoundsAssumption
USE DEF history

\* What a form, the file and the entrypoint yield are settings again.
LEMMA BlankIsContent == Blank \in Content /\ NoForm \in Form
  BY DEF Blank, Content, NoForm, Form

LEMMA PutIsContent ==
  ASSUME NEW s \in Content, NEW f \in Form
  PROVE  Put(s, f) \in Content
  BY DEF Put, Or, Content, Form

LEMMA TextFormIsForm ==
  ASSUME NEW s \in Content
  PROVE  TextForm(s) \in Form /\ TextForm(s).kind = "text"
  BY DEF TextForm, Or, Content, Form

LEMMA LoadedIsContent == TypeOK => Loaded \in Content
  BY BlankIsContent DEF TypeOK, Loaded

LEMMA InEffectIsContent ==
  ASSUME NEW s \in Content
  PROVE  InEffect(s) \in Content
  BY DEF InEffect, Or, Content

\* The initial state satisfies the inductive invariant.
LEMMA InitInv == Init => SettingsInv
<1> SUFFICES ASSUME Init PROVE SettingsInv
  OBVIOUS
<1>1. TypeOK
  BY BlankIsContent DEF Init, TypeOK
<1>2. DownInv
  BY DEF Init, DownInv, AllIdle, Idle
<1>3. SerialInv
  BY BlankIsContent DEF Init, SerialInv, Idle, Loaded, Torn
<1>4. PageInv /\ PageTextInv
  BY DEF Init, PageInv, PageTextInv
<1> QED BY <1>1, <1>2, <1>3, <1>4 DEF SettingsInv

-----------------------------------------------------------------------------
(* One lemma per action: the invariant is kept *)

LEMMA LoadSerial ==
  ASSUME SettingsInv, NEW w \in Workers, NEW f \in Form, Load(w, f)
  PROVE  DownInv' /\ SerialInv'
<1>1. DownInv'
  BY DEF SettingsInv, DownInv, Load, AllIdle, Idle
<1>2. ASSUME ~overlapped' PROVE ~overlapped /\ \A v \in Workers : Idle(v)
  BY <1>2 DEF SettingsInv, TypeOK, Load
<1>3. Loaded' = Loaded
  BY DEF Load, Loaded
<1>4. SerialInv'
  <2> SUFFICES ASSUME ~overlapped' PROVE SerialInv!2'
    BY DEF SerialInv
  <2>1. \A v \in Workers : v # w => Idle(v)'
    BY <1>2 DEF Load, Idle, SettingsInv, TypeOK
  <2>2. at'[w] = "loaded" /\ next'[w] = Put(Loaded, f) /\ form'[w] = f
    BY DEF Load, SettingsInv, TypeOK
  <2>3. ~cut => Loaded = acked
    BY <1>2 DEF SettingsInv, SerialInv, Idle
  <2> QED BY <1>2, <1>3, <2>1, <2>2, <2>3 DEF SettingsInv, SerialInv, Load, Idle,
             Torn
<1> QED BY <1>1, <1>4

LEMMA SubmitInv ==
  ASSUME SettingsInv, NEW w \in Workers, NEW f \in Form, Submit(w, f)
  PROVE  SettingsInv'
<1>1. TypeOK'
  <2>1. Put(Loaded, f) \in Content
    BY LoadedIsContent, PutIsContent DEF SettingsInv
  <2>2. fresh' \in BOOLEAN /\ page' = page /\ overlapped' \in BOOLEAN
    BY DEF Submit, Load, SettingsInv, TypeOK
  <2> QED BY <2>1, <2>2 DEF SettingsInv, TypeOK, Load, Submit
<1>2. PageInv' /\ PageTextInv'
  BY DEF Submit, PageInv, PageTextInv, SettingsInv
<1> QED BY <1>1, <1>2, LoadSerial DEF SettingsInv, Submit

LEMMA PagePostsInv ==
  ASSUME SettingsInv, NEW w \in Workers, PagePosts(w)
  PROVE  SettingsInv'
<1>1. page \in Form /\ page.kind \in {"main", "testnet4", "logo", "text"}
  BY DEF SettingsInv, TypeOK, Form
<1>2. TypeOK'
  BY <1>1, LoadedIsContent, PutIsContent, BlankIsContent
     DEF SettingsInv, TypeOK, Load, PagePosts
<1>3. PageInv'
  <2> SUFFICES ASSUME fresh PROVE PageInv!2'
    BY DEF PageInv, PagePosts
  <2>1. page.kind = "text" /\ page # NoForm
    BY DEF SettingsInv, PageTextInv, PagePosts
  <2>2. /\ form' = [form EXCEPT ![w] = page] /\ at' = [at EXCEPT ![w] = "loaded"]
        /\ acked' = acked /\ cut' = cut /\ page' = NoForm
        /\ ~overlapped' => ~overlapped
    BY DEF PagePosts, Load, SettingsInv, TypeOK
  <2> QED BY <2>1, <2>2 DEF SettingsInv, TypeOK, PageInv, Matches, Idle
<1>4. PageTextInv'
  BY DEF PageTextInv, PagePosts
<1> QED BY <1>1, <1>2, <1>3, <1>4, LoadSerial DEF SettingsInv, PagePosts

LEMMA PageReadsInv ==
  ASSUME SettingsInv, PageReads
  PROVE  SettingsInv'
<1>1. Loaded \in Content
  BY LoadedIsContent DEF SettingsInv
<1>2. TypeOK'
  BY <1>1, TextFormIsForm DEF SettingsInv, TypeOK, PageReads
<1>3. DownInv' /\ SerialInv'
  BY DEF SettingsInv, DownInv, SerialInv, PageReads, AllIdle, Idle, Loaded,
     Torn
<1>4. PageInv'
  <2> SUFFICES ASSUME \A w \in Workers : Idle(w), ~overlapped, ~cut
               PROVE  Matches(TextForm(Loaded))
    BY DEF PageInv, PageReads, PageIdle, Idle, Matches
  <2>1. Loaded = acked
    BY DEF SettingsInv, SerialInv, Idle
  <2> QED BY <2>1 DEF Matches, TextForm, Or
<1>5. PageTextInv'
  BY <1>1, TextFormIsForm DEF PageTextInv, PageReads
<1> QED BY <1>2, <1>3, <1>4, <1>5 DEF SettingsInv

LEMMA PageGivesUpInv ==
  ASSUME SettingsInv, PageGivesUp
  PROVE  SettingsInv'
  BY BlankIsContent DEF SettingsInv, TypeOK, DownInv, SerialInv, PageInv,
     PageTextInv, PageGivesUp, AllIdle, Idle, Loaded, Torn

\* A handler that ends without having written takes its form with it.
LEMMA DonePage ==
  ASSUME SettingsInv, NEW w \in Workers, Done(w), page' = page, acked' = acked,
         overlapped' = overlapped, ~cut' => ~cut
  PROVE  PageInv' /\ PageTextInv'
<1>1. PageTextInv'
  BY DEF SettingsInv, PageTextInv
<1>2. PageInv'
  <2> SUFFICES ASSUME fresh, form[w].kind # "text" PROVE PageInv!2'
    BY DEF PageInv, Done
  <2>1. \A v \in Workers : v # w => at'[v] = at[v] /\ form'[v] = form[v]
    BY DEF Done, SettingsInv, TypeOK
  <2>2. at'[w] = "idle" /\ form'[w] = NoForm /\ NoForm.kind = "logo"
    BY DEF Done, SettingsInv, TypeOK, NoForm
  <2> QED BY <2>1, <2>2 DEF SettingsInv, PageInv, Matches, Idle
<1> QED BY <1>1, <1>2

LEMMA TruncateInv ==
  ASSUME SettingsInv, NEW w \in Workers, Truncate(w)
  PROVE  SettingsInv'
<1>1. TypeOK'
  BY DEF SettingsInv, TypeOK, Truncate
<1>2. DownInv'
  BY DEF SettingsInv, DownInv, Truncate, AllIdle, Idle
<1>3. SerialInv'
  <2> SUFFICES ASSUME ~overlapped PROVE SerialInv!2'
    BY DEF SerialInv, Truncate
  <2>1. at'[w] = "truncated" /\ \A v \in Workers : v # w => at'[v] = at[v]
    BY DEF Truncate, SettingsInv, TypeOK
  <2>2. file'.size = 0
    BY DEF Truncate, SettingsInv, TypeOK
  <2> QED BY <2>1, <2>2 DEF SettingsInv, SerialInv, Truncate, Idle, Torn
<1>4. PageInv' /\ PageTextInv'
  BY DEF Truncate, SettingsInv, TypeOK, PageInv, PageTextInv, Matches, Idle
<1> QED BY <1>1, <1>2, <1>3, <1>4 DEF SettingsInv

\* A handler that leaves the file alone and answers with an error.
LEMMA OpenFailsInv ==
  ASSUME SettingsInv, NEW w \in Workers, OpenFails(w)
  PROVE  SettingsInv'
<1>1. TypeOK'
  BY BlankIsContent DEF SettingsInv, TypeOK, OpenFails, Done, Fault
<1>2. DownInv'
  BY DEF SettingsInv, DownInv, OpenFails, Done, AllIdle, Idle
<1>3. SerialInv'
  <2> SUFFICES ASSUME ~overlapped PROVE SerialInv!2'
    BY DEF SerialInv, OpenFails
  <2>1. \A v \in Workers : v # w => Idle(v)
    BY DEF SettingsInv, SerialInv, OpenFails, Idle
  <2>2. \A v \in Workers : Idle(v)'
    BY <2>1 DEF OpenFails, Done, Idle, SettingsInv, TypeOK
  <2>3. ~cut => Loaded = acked
    BY <2>1 DEF SettingsInv, SerialInv, OpenFails, Idle
  <2>4. Loaded' = Loaded
    BY DEF OpenFails, Loaded
  <2> QED BY <2>2, <2>3, <2>4 DEF SettingsInv, SerialInv, OpenFails, Idle,
             Torn
<1>4. PageInv' /\ PageTextInv'
  BY DonePage DEF OpenFails, SettingsInv, TypeOK
<1> QED BY <1>1, <1>2, <1>3, <1>4 DEF SettingsInv

LEMMA WriteInv ==
  ASSUME SettingsInv, NEW w \in Workers, Write(w)
  PROVE  SettingsInv'
<1>1. TypeOK'
  <2>1. next[w] \in Content /\ form[w] \in Form /\ acked \in Content
    BY DEF SettingsInv, TypeOK
  <2>2. Length(next[w]) \in Nat /\ file.size \in Nat
    BY <2>1 DEF SettingsInv, TypeOK
  <2> QED BY <2>1, <2>2, PutIsContent, BlankIsContent
          DEF SettingsInv, TypeOK, Write, Done
<1>2. DownInv'
  BY DEF SettingsInv, DownInv, Write, Done, AllIdle, Idle
<1>3. SerialInv'
  <2> SUFFICES ASSUME ~overlapped PROVE SerialInv!2'
    BY DEF SerialInv, Write
  <2>1. \A v \in Workers : v # w => Idle(v)
    BY DEF SettingsInv, SerialInv, Write, Idle
  <2>2. \A v \in Workers : Idle(v)'
    BY <2>1 DEF Write, Done, Idle, SettingsInv, TypeOK
  <2>3. next[w] \in Content
    BY DEF SettingsInv, TypeOK
  <2>4. file.size = 0 /\ Length(next[w]) \in Nat \ {0}
    BY <2>3 DEF SettingsInv, SerialInv, Write
  <2>5. file'.text = next[w] /\ file'.size = Length(next[w])
    BY <2>4 DEF Write
  <2>6. Loaded' = next[w]
    BY <2>5 DEF Loaded
  <2>7. ~cut => next[w] = Put(acked, form[w])
    BY DEF SettingsInv, SerialInv, Write, Idle
  <2> QED BY <2>2, <2>5, <2>6, <2>7 DEF Write, Idle, Torn
<1>4. PageInv' /\ PageTextInv'
  <2>1. PageTextInv'
    BY DEF SettingsInv, PageTextInv, Write
  <2>2. ~(fresh /\ form[w].kind # "text")
    BY DEF SettingsInv, PageInv, Write, Idle
  <2> QED BY <2>1, <2>2 DEF PageInv, Write, Done
<1> QED BY <1>1, <1>2, <1>3, <1>4 DEF SettingsInv

LEMMA WriteFailsInv ==
  ASSUME SettingsInv, NEW w \in Workers, WriteFails(w)
  PROVE  SettingsInv'
<1>0. next[w] \in Content /\ Length(next[w]) \in Nat \ {0}
  BY DEF SettingsInv, TypeOK
<1>1. TypeOK'
  <2>1. Beginnings(next[w]) \subseteq [text : Content, size : Nat]
    BY <1>0 DEF Beginnings
  <2>2. file' \in [text : Content, size : Nat] /\ short' \in BOOLEAN
    BY <2>1 DEF SettingsInv, TypeOK, WriteFails
  <2> QED BY <2>2, BlankIsContent
          DEF SettingsInv, TypeOK, WriteFails, Done, Fault
<1>2. DownInv'
  BY DEF SettingsInv, DownInv, WriteFails, Done, AllIdle, Idle
<1>3. SerialInv'
  <2> SUFFICES ASSUME ~overlapped PROVE SerialInv!2'
    BY DEF SerialInv, WriteFails
  <2>1. \A v \in Workers : v # w => Idle(v)
    BY DEF SettingsInv, SerialInv, WriteFails, Idle
  <2>2. \A v \in Workers : Idle(v)'
    BY <2>1 DEF WriteFails, Done, Idle, SettingsInv, TypeOK
  <2>3. ~short' => ~Torn'
    BY DEF SettingsInv, SerialInv, WriteFails, Torn, TypeOK
  <2> QED BY <2>2, <2>3 DEF SettingsInv, SerialInv, WriteFails, Idle
<1>4. PageInv' /\ PageTextInv'
  BY DonePage DEF WriteFails, SettingsInv, TypeOK
<1> QED BY <1>1, <1>2, <1>3, <1>4 DEF SettingsInv

\* The end of the process, requested or not.
LEMMA DieInv ==
  ASSUME SettingsInv, Die, faults' \in Nat
  PROVE  SettingsInv'
<1>1. TypeOK'
  BY BlankIsContent DEF SettingsInv, TypeOK, Die
<1>2. DownInv'
  BY DEF Die, DownInv, AllIdle, Idle
<1>3. SerialInv'
  <2> SUFFICES ASSUME ~overlapped PROVE SerialInv!2'
    BY DEF SerialInv, Die
  <2>1. \A v \in Workers : Idle(v)'
    BY DEF Die, Idle
  <2>2. ~cut' => ~cut /\ \A w \in Workers : at[w] # "truncated"
    BY DEF Die, SettingsInv, TypeOK
  <2>3. ~cut' => Loaded = acked
    BY <2>2 DEF SettingsInv, SerialInv
  <2>4. Loaded' = Loaded
    BY DEF Die, Loaded
  <2> QED BY <2>1, <2>3, <2>4 DEF SettingsInv, SerialInv, Die, Idle, Torn
<1>4. PageInv' /\ PageTextInv'
  <2>1. \A w \in Workers : at'[w] = "idle" /\ form'[w].kind = "logo"
    BY DEF Die, NoForm
  <2>2. PageTextInv'
    BY DEF SettingsInv, PageTextInv, Die
  <2>3. ~cut' => ~cut
    BY DEF Die, SettingsInv, TypeOK
  <2> QED BY <2>1, <2>2, <2>3 DEF SettingsInv, PageInv, Die, Matches, Idle
<1> QED BY <1>1, <1>2, <1>3, <1>4 DEF SettingsInv

LEMMA StartInv ==
  ASSUME SettingsInv, Start
  PROVE  SettingsInv'
<1>1. TypeOK'
  BY LoadedIsContent, InEffectIsContent DEF SettingsInv, TypeOK, Start
<1>2. DownInv'
  BY DEF Start, DownInv
<1>3. SerialInv'
  BY DEF SettingsInv, SerialInv, Start, Idle, Loaded, Torn
<1>4. PageInv' /\ PageTextInv'
  BY DEF SettingsInv, PageInv, PageTextInv, Start, Matches, Idle
<1> QED BY <1>1, <1>2, <1>3, <1>4 DEF SettingsInv

LEMMA RestartServerInv ==
  ASSUME SettingsInv, NEW w \in Workers, RestartServer(w)
  PROVE  SettingsInv'
<1>1. TypeOK'
  BY DEF SettingsInv, TypeOK, RestartServer
<1>2. DownInv'
  BY DEF RestartServer, DownInv
<1>3. SerialInv'
  BY DEF SettingsInv, SerialInv, RestartServer, Idle, Loaded, Torn
<1>4. PageInv' /\ PageTextInv'
  BY DEF SettingsInv, PageInv, PageTextInv, RestartServer, Matches, Idle
<1> QED BY <1>1, <1>2, <1>3, <1>4 DEF SettingsInv

-----------------------------------------------------------------------------
LEMMA NextInv == SettingsInv /\ [Next]_vars => SettingsInv'
<1> SUFFICES ASSUME SettingsInv, [Next]_vars PROVE SettingsInv'
  OBVIOUS
<1>1. ASSUME NEW w \in Workers, Work(w) PROVE SettingsInv'
  BY <1>1, TruncateInv, OpenFailsInv, WriteInv, WriteFailsInv DEF Work
<1>2. ASSUME NEW w \in Workers, RestartServer(w) PROVE SettingsInv'
  BY <1>2, RestartServerInv
<1>3. ASSUME NEW w \in Workers, Exit(w) PROVE SettingsInv'
  BY <1>3, DieInv DEF Exit, SettingsInv, TypeOK
<1>4. ASSUME NEW w \in Workers, NEW f \in Form, Submit(w, f) PROVE SettingsInv'
  BY <1>4, SubmitInv
<1>8. ASSUME NEW w \in Workers, PagePosts(w) PROVE SettingsInv'
  BY <1>8, PagePostsInv
<1>9. CASE PageReads \/ PageGivesUp
  BY <1>9, PageReadsInv, PageGivesUpInv
<1>5. CASE Crash
  BY <1>5, DieInv DEF Crash, Fault, SettingsInv, TypeOK
<1>6. CASE Start
  BY <1>6, StartInv
<1>7. CASE UNCHANGED vars
  BY <1>7 DEF SettingsInv, TypeOK, DownInv, SerialInv, PageInv, PageTextInv,
              Matches, AllIdle, Idle, Loaded, Torn, vars
<1> QED BY <1>1, <1>2, <1>3, <1>4, <1>5, <1>6, <1>7, <1>8, <1>9
        DEF Next

LEMMA Invariant == Spec => []SettingsInv
  BY InitInv, NextInv, PTL DEF Spec

\* Every variable keeps to its type.
THEOREM SettingsTypes == Spec => []TypeOK
<1>1. SettingsInv => TypeOK
  BY DEF SettingsInv
<1> QED BY <1>1, Invariant, PTL

\* As long as no handlers overlap and none is cut short, the file holds what
\* was acknowledged.
THEOREM SavesAlwaysKept == Spec => []SavesKept
<1>1. SettingsInv => SavesKept
  BY DEF SettingsInv, SerialInv, SavesKept, AllIdle, Idle
<1> QED BY <1>1, Invariant, PTL

\* A file that is no JSON is the work of two handlers that overlapped, or of a
\* disk that was full in the middle of a text.
THEOREM OnlyOverlapTears == Spec => []TornByOverlap
<1>1. SettingsInv => TornByOverlap
  BY DEF SettingsInv, SerialInv, TornByOverlap
<1> QED BY <1>1, Invariant, PTL

\* A server that starts runs with what was acknowledged.
THEOREM StartAlwaysApplies == Spec => StartApplies
<1>1. SettingsInv /\ [Next]_vars =>
        [~up /\ up' /\ ~overlapped /\ ~cut => active' = InEffect(acked)]_vars
  <2> SUFFICES ASSUME SettingsInv, Next, ~up, up', ~overlapped, ~cut
               PROVE  active' = InEffect(acked)
    BY DEF vars
  <2>1. Start
    BY DEF Next, Submit, Load, PagePosts, PageReads, PageGivesUp, Work, Truncate, OpenFails, Write, WriteFails,
           RestartServer, Exit, Crash, Die, SettingsInv, DownInv, AllIdle, Idle
  <2>2. Loaded = acked
    BY DEF SettingsInv, DownInv, SerialInv, AllIdle, Idle
  <2> QED BY <2>1, <2>2 DEF Start
<1> QED BY <1>1, Invariant, PTL DEF Spec, StartApplies

\* A new logo text that was read and posted undisturbed changes neither
\* address nor fee.
THEOREM TextAlwaysKeeps == Spec => TextKeepsSettings
<1>1. SettingsInv /\ [Next]_vars =>
        [/\ \E w \in Workers : form[w].kind = "text"
         /\ fresh /\ ~overlapped /\ ~cut
         /\ acked.fee # 0
         => acked' = acked]_vars
  <2> SUFFICES ASSUME SettingsInv, Next, fresh, ~overlapped, ~cut,
                      acked.fee # 0
               PROVE  acked' = acked
    BY DEF vars
  <2>1. ASSUME NEW w \in Workers, Write(w) PROVE acked' = acked
    <3>1. form[w].kind = "text"
      BY <2>1 DEF SettingsInv, PageInv, Write, Idle
    <3>2. form[w].address = acked.address /\ form[w].fee = acked.fee
      BY <3>1 DEF SettingsInv, PageInv, Matches
    <3>3. acked' = [acked EXCEPT !.address = Or(acked.address, NoAddress, @),
                                 !.fee = acked.fee]
      BY <2>1, <3>1, <3>2 DEF Write, Put
    <3>4. acked \in Content
      BY DEF SettingsInv, TypeOK
    <3> QED BY <3>3, <3>4 DEF Or, Content
  <2> QED BY <2>1 DEF Next, Submit, Load, PagePosts, PageReads, PageGivesUp,
             Work, Truncate, OpenFails, WriteFails, RestartServer, Exit, Crash,
             Die, Start
<1> QED BY <1>1, Invariant, PTL DEF Spec, TextKeepsSettings
-----------------------------------------------------------------------------
(* The handlers are an atomic store: they implement SettingsStore *)

Truncated(w) == at[w] = "truncated"

LEMMA StoredIsContent == TypeOK => Stored \in Content
  BY LoadedIsContent DEF TypeOK, Stored

LEMMA NothingTruncated ==
  ASSUME \A w \in Workers : ~Truncated(w)
  PROVE  Stored = Loaded
  BY DEF Stored, Truncated

\* Without an overlap the write under way is the only one.
LEMMA StoredIsNext ==
  ASSUME SettingsInv, ~overlapped, NEW w \in Workers, Truncated(w)
  PROVE  /\ Stored = next[w]
         /\ \A v \in Workers : v # w => Idle(v)
<1>1. \A v \in Workers : v # w => Idle(v)
  BY DEF SettingsInv, SerialInv, Truncated, Idle
<1>2. w = CHOOSE v \in Workers : at[v] = "truncated"
  BY <1>1 DEF Truncated, Idle
<1> QED BY <1>1, <1>2 DEF Stored, Truncated

\* A step in the overlap of two handlers may store anything.
LEMMA OverlapRefines ==
  ASSUME SettingsInv', up, overlapped', cut => cut', UNCHANGED <<up, active>>
  PROVE  Store!Overlap
<1>1. (TypeOK => Stored \in Content)'
  BY StoredIsContent, PTL
<1> QED BY <1>1 DEF Store!Overlap, Store!Garbled, SettingsInv

\* A step that leaves the file alone, and whoever is writing it.
LEMMA HiddenStep ==
  ASSUME UNCHANGED <<up, active, file, next, overlapped, cut>>,
         \A w \in Workers : Truncated(w)' <=> Truncated(w)
  PROVE  UNCHANGED Store!vars
<1>1. Stored' = Stored
  BY DEF Stored, Loaded, Truncated
<1> QED BY <1>1 DEF Store!vars

\* A form that arrives stores nothing yet.
LEMMA LoadRefines ==
  ASSUME SettingsInv, SettingsInv', NEW w \in Workers, NEW f, Load(w, f)
  PROVE  Store!Overlap \/ UNCHANGED Store!vars
<1>1. CASE overlapped'
  BY <1>1, OverlapRefines DEF Load
<1>2. CASE ~overlapped'
  <2>1. \A v \in Workers : ~Truncated(v) /\ ~Truncated(v)'
    BY <1>2 DEF Load, Truncated, Idle, SettingsInv, TypeOK
  <2>2. Stored = Loaded /\ Stored' = Loaded'
    BY <2>1 DEF Stored, Truncated
  <2>3. overlapped' = overlapped
    BY <1>2 DEF Load, SettingsInv, TypeOK
  <2> QED BY <2>2, <2>3 DEF Load, Loaded, Store!vars
<1> QED BY <1>1, <1>2

\* The write takes the place of what is stored as it opens the file.
LEMMA TruncateRefines ==
  ASSUME SettingsInv, SettingsInv', NEW w \in Workers, Truncate(w)
  PROVE  Store!Overlap \/ Store!Save
<1>1. up
  BY DEF SettingsInv, DownInv, AllIdle, Idle, Truncate
<1>2. CASE overlapped
  BY <1>1, <1>2, OverlapRefines DEF Truncate
<1>3. CASE ~overlapped
  <2>1. next[w] = Put(Loaded, form[w]) /\ form[w] \in Form
    BY <1>3 DEF SettingsInv, TypeOK, SerialInv, Truncate
  <2>2. \A v \in Workers : ~Truncated(v)
    BY <1>3 DEF SettingsInv, SerialInv, Truncate, Truncated, Idle
  <2>3. Truncated(w)' /\ ~overlapped' /\ next' = next
    BY <1>3 DEF Truncate, Truncated, SettingsInv, TypeOK
  <2>4. Stored = Loaded /\ Stored' = next[w]
    <3>1. \A v \in Workers : Truncated(v)' <=> v = w
      BY <2>2 DEF Truncate, Truncated, SettingsInv, TypeOK
    <3>2. w = CHOOSE v \in Workers : at'[v] = "truncated"
      BY <3>1 DEF Truncated
    <3> QED BY <2>2, <2>3, <3>2, NothingTruncated DEF Stored, Truncated
  <2>5. Store!Save
    BY <1>1, <2>1, <2>4 DEF Store!Save, Truncate
  <2> QED BY <2>1, <2>5
<1> QED BY <1>2, <1>3

\* A form that is refused for the file cannot be opened changes nothing.
LEMMA OpenFailsRefines ==
  ASSUME SettingsInv, SettingsInv', NEW w \in Workers, OpenFails(w)
  PROVE  Store!Overlap \/ UNCHANGED Store!vars
<1>1. up
  BY DEF SettingsInv, DownInv, AllIdle, Idle, OpenFails
<1>2. CASE overlapped
  BY <1>1, <1>2, OverlapRefines DEF OpenFails
<1>3. CASE ~overlapped
  <2>1. \A v \in Workers : ~Truncated(v)
    BY <1>3 DEF SettingsInv, SerialInv, OpenFails, Truncated, Idle
  <2>2. \A v \in Workers : ~Truncated(v)'
    BY <2>1 DEF OpenFails, Done, Truncated, SettingsInv, TypeOK
  <2>3. Stored = Loaded /\ Stored' = Loaded'
    BY <2>1, <2>2 DEF Stored, Truncated
  <2> QED BY <2>3 DEF OpenFails, Loaded, Store!vars
<1> QED BY <1>2, <1>3

\* The text that is written is the one stored already.
LEMMA WriteRefines ==
  ASSUME SettingsInv, SettingsInv', NEW w \in Workers, Write(w)
  PROVE  Store!Overlap \/ UNCHANGED Store!vars
<1>1. up
  BY DEF SettingsInv, DownInv, AllIdle, Idle, Write
<1>2. CASE overlapped
  BY <1>1, <1>2, OverlapRefines DEF Write
<1>3. CASE ~overlapped
  <2>1. Stored = next[w] /\ \A v \in Workers : v # w => Idle(v)
    BY <1>3, StoredIsNext DEF Write, Truncated
  <2>2. \A v \in Workers : ~Truncated(v)'
    BY <2>1 DEF Write, Done, Truncated, Idle, SettingsInv, TypeOK
  <2>3. Stored' = Loaded'
    BY <2>2 DEF Stored, Truncated
  <2>4. Length(next[w]) \in Nat \ {0} /\ file.size = 0
    BY <1>3 DEF SettingsInv, TypeOK, SerialInv, Write
  <2>5. Loaded' = next[w]
    BY <2>4 DEF Write, Loaded
  <2> QED BY <2>1, <2>3, <2>5 DEF Write, Store!vars
<1> QED BY <1>2, <1>3

\* A write that has emptied the file and does not come about.
LEMMA WriteFailsRefines ==
  ASSUME SettingsInv, SettingsInv', NEW w \in Workers, WriteFails(w)
  PROVE  Store!Overlap \/ Store!WriteCut
<1>1. up
  BY DEF SettingsInv, DownInv, AllIdle, Idle, WriteFails
<1>2. CASE overlapped
  BY <1>1, <1>2, OverlapRefines DEF WriteFails
<1>3. CASE ~overlapped
  <2>1. \A v \in Workers : v # w => Idle(v)
    BY <1>3, StoredIsNext DEF WriteFails, Truncated
  <2>2. \A v \in Workers : ~Truncated(v)'
    BY <2>1 DEF WriteFails, Done, Truncated, Idle, SettingsInv, TypeOK
  <2>3. Stored' = Loaded'
    BY <2>2 DEF Stored, Truncated
  <2>4. /\ next[w] \in Content /\ Length(file.text) \in Nat \ {0}
        /\ file.size = 0
    BY <1>3 DEF SettingsInv, TypeOK, SerialInv, WriteFails
  <2>5. Loaded' = Blank
    <3>1. CASE UNCHANGED file
      BY <2>4, <3>1 DEF Loaded
    <3>2. CASE file' \in Beginnings(next[w])
      <4>1. file'.size # Length(file'.text)
        BY <2>4, <3>2 DEF Beginnings
      <4> QED BY <4>1 DEF Loaded
    <3> QED BY <3>1, <3>2 DEF WriteFails
  <2> QED BY <1>1, <2>3, <2>5 DEF WriteFails, Store!WriteCut, Store!Lost
<1> QED BY <1>2, <1>3

\* The process may end in the middle of a write.
LEMMA DieRefines ==
  ASSUME SettingsInv, SettingsInv', up, Die
  PROVE  Store!Stop
<1>1. \A v \in Workers : ~Truncated(v)'
  BY DEF Die, Truncated
<1>2. Stored' = Loaded /\ Stored' \in Content
  <2>1. Stored' = Loaded' /\ Loaded' = Loaded
    BY <1>1 DEF Stored, Truncated, Die, Loaded
  <2> QED BY <2>1, LoadedIsContent DEF SettingsInv
<1>3. CASE overlapped
  BY <1>2, <1>3 DEF Die, Store!Stop, Store!Garbled
<1>4. CASE \A w \in Workers : ~Truncated(w)
  <2>1. Stored' = Stored
    BY <1>2, <1>4, NothingTruncated
  <2>2. cut' = cut
    BY <1>4 DEF Die, Truncated, SettingsInv, TypeOK
  <2> QED BY <2>1, <2>2 DEF Die, Store!Stop, Store!Kept
<1>5. ASSUME NEW w \in Workers, Truncated(w), ~overlapped PROVE Store!Stop
  <2>1. Length(file.text) \in Nat \ {0} /\ file.size = 0
    BY <1>5 DEF SettingsInv, TypeOK, SerialInv, Truncated
  <2>2. Loaded = Blank /\ cut'
    BY <1>5, <2>1 DEF Loaded, Die, Truncated
  <2> QED BY <1>2, <2>2 DEF Die, Store!Stop, Store!Lost
<1> QED BY <1>3, <1>4, <1>5

LEMMA StartRefines ==
  ASSUME SettingsInv, Start
  PROVE  Store!Start
<1>1. Stored = Loaded /\ Stored' = Loaded
  BY DEF SettingsInv, DownInv, AllIdle, Idle, Stored, Loaded, Start
<1> QED BY <1>1 DEF Start, Store!Start

LEMMA InitStore == Init => Store!Init
<1> SUFFICES ASSUME Init PROVE Store!Init
  OBVIOUS
<1>1. Stored = Blank
  BY BlankIsContent DEF Init, Stored, Loaded
<1> QED BY <1>1 DEF Init, Store!Init

LEMMA NextStore ==
  ASSUME SettingsInv, SettingsInv', [Next]_vars
  PROVE  [Store!Next]_(Store!vars)
<1>1. ASSUME NEW w \in Workers, Work(w) PROVE [Store!Next]_(Store!vars)
  BY <1>1, TruncateRefines, OpenFailsRefines, WriteRefines, WriteFailsRefines
     DEF Work, Store!Next
<1>2. ASSUME NEW w \in Workers, NEW f, Load(w, f)
      PROVE  [Store!Next]_(Store!vars)
  BY <1>2, LoadRefines DEF Store!Next
<1>3. ASSUME NEW w \in Workers, Exit(w) PROVE [Store!Next]_(Store!vars)
  <2>1. up /\ Die
    BY <1>3 DEF Exit, SettingsInv, DownInv
  <2> QED BY <2>1, DieRefines DEF Store!Next
<1>4. CASE Crash
  BY <1>4, DieRefines DEF Crash, Store!Next
<1>5. CASE Start
  BY <1>5, StartRefines DEF Store!Next
<1>6. CASE UNCHANGED <<up, active, file, at, next, overlapped, cut>>
  BY <1>6, HiddenStep DEF Truncated
<1> QED BY <1>1, <1>2, <1>3, <1>4, <1>5, <1>6
        DEF Next, Submit, PagePosts, PageReads, PageGivesUp, RestartServer, vars

\* Until two handlers overlap settings.json behaves as an atomic store does
\* that forms change one after the other and a start reads, through any number
\* of failed writes, deaths and restarts (umbrel_api.rs 509-521, 927-1007).
THEOREM HandlersAreAtomic == Spec => ImplementsStore
<1>1. SettingsInv /\ [Next]_vars => [Store!Next]_(Store!vars)
  BY NextInv, NextStore
<1> QED BY <1>1, InitStore, Invariant, PTL DEF Spec, ImplementsStore, Store!Spec

\* The mainnet form takes back settings of testnet4 only if it has overlapped
\* another form or a write was cut short (umbrel_api.rs 925-926).
THEOREM OverlapMixes == Spec => [](~overlapped /\ ~cut => KeptApart)
<1>1. SettingsInv => (~overlapped /\ ~cut => KeptApart)
  BY DEF SettingsInv, SerialInv, KeptApart, AllIdle, Idle
<1> QED BY <1>1, Invariant, PTL
=============================================================================
