------------------------------- MODULE Settings -------------------------------
(***************************************************************************)
(* settings.json, from the forms of the dashboard to the server that runs  *)
(* with them.  A handler of umbrel_api.rs loads the file, puts the fields  *)
(* of its form into what it read and writes the whole of it back with      *)
(* fs::write, which truncates the file first; the handlers of different    *)
(* actix workers interleave between those three calls.  The file reaches   *)
(* the server only through entrypoint-server.sh, when the container        *)
(* starts.  One client of the handlers is modelled with them: the form for *)
(* the logo text, which has no handler of its own, reads the settings and  *)
(* posts them back with its text.                                          *)
(*                                                                         *)
(* Only the fields that the entrypoint reads and a form can lose are       *)
(* modelled: address and fee of mainnet and of testnet4.  info is merged   *)
(* like address and logo_text like fee.  A form that is refused (a wrong   *)
(* address, a fee of 0, no JSON) writes nothing and is left out.           *)
(*                                                                         *)
(* A definition whose comment begins with "Bug:" is a plausible mistake in *)
(* the definition after it; no action uses it.                             *)
(***************************************************************************)
EXTENDS Integers

CONSTANTS
  Workers,    \* BAL_SERVER_ACTIX_WORKERS threads
  Addresses,  \* the addresses that pass the validation of their form
  NoAddress,  \* the empty string
  Fees,       \* fees that are not 0
  PageFee,    \* 22200, which the page posts for a fee that is not set
  EnvFile,    \* what docker-compose puts into BAL_SERVER_*
  Length(_),  \* the bytes of some settings as JSON
  MaxSaves,   \* forms sent
  MaxFaults   \* failed writes and deaths of the process

\* A testnet4 that has an address, and so is offered, has a fee.
Content ==
  {s \in [address : Addresses \cup {NoAddress}, fee : Fees \cup {0},
          t4address : Addresses \cup {NoAddress}, t4fee : Fees \cup {0}] :
     s.t4address # NoAddress => s.t4fee # 0}

Blank == [address |-> NoAddress, fee |-> 0,
          t4address |-> NoAddress, t4fee |-> 0]

ASSUME FeesAssumption ==
  Fees \subseteq Nat \ {0} /\ PageFee \in Fees /\ NoAddress \notin Addresses
ASSUME EnvAssumption     == EnvFile \in Content
ASSUME LengthAssumption  == \A s \in Content : Length(s) \in Nat \ {0}
ASSUME BoundsAssumption  == MaxSaves \in Nat /\ MaxFaults \in Nat

Form ==
  [kind : {"main", "text"}, address : Addresses \cup {NoAddress}, fee : Fees]
  \cup [kind : {"testnet4"}, address : Addresses, fee : Fees]
  \cup [kind : {"testnet4"}, address : {NoAddress}, fee : Fees \cup {0}]
  \cup [kind : {"logo"}, address : {NoAddress}, fee : {0}]

\* Of a worker or a page without one.
NoForm == [kind |-> "logo", address |-> NoAddress, fee |-> 0]

VARIABLES
  up,          \* the server runs
  active,      \* the configuration it read from its environment
  file,        \* [text, size]: settings.json; more bytes than the text has
               \* are the tail of a longer text, fewer are its beginning
  at,          \* where the handler on each worker is
  form,        \* its form
  next,        \* what it will write
  page,        \* what updateLogoText is about to post
  exiting,     \* the workers on which restart_server waits for its 400 ms
  acked,       \* history: the forms answered with ok, one after the other
  overlapped,  \* history: a handler began before another one had ended
  cut,         \* history: a handler ended without its text written ...
  short,       \* history: ... or in the middle of it
  fresh,       \* history: the page read while no handler was at work, and
               \* no other form has come since
  saves,
  faults

history == <<acked, overlapped, cut, short>>
vars == <<up, active, file, at, form, next, page, exiting, history, fresh,
          saves, faults>>

Idle(w) == at[w] = "idle"
Fault   == faults < MaxFaults /\ faults' = faults + 1

Torn == file.size \notin {0, Length(file.text)}

\* load_settings: a file that is missing, empty or no JSON has the defaults.
Loaded == IF file.size = Length(file.text) THEN file.text ELSE Blank

\* The jq calls of the entrypoint: a field that is set replaces the variable.
Or(value, unset, env) == IF value = unset THEN env ELSE value

InEffect(s) ==
  [address   |-> Or(s.address, NoAddress, EnvFile.address),
   fee       |-> Or(s.fee, 0, EnvFile.fee),
   t4address |-> Or(s.t4address, NoAddress, EnvFile.t4address),
   t4fee     |-> IF s.t4address = NoAddress THEN EnvFile.t4fee
                 ELSE Or(s.t4fee, 0, EnvFile.t4fee)]

Init ==
  /\ up = FALSE
  /\ active = EnvFile
  /\ file = [text |-> Blank, size |-> 0]
  /\ at = [w \in Workers |-> "idle"]
  /\ form = [w \in Workers |-> NoForm]
  /\ next = [w \in Workers |-> Blank]
  /\ page = NoForm
  /\ exiting = {}
  /\ acked = Blank
  /\ overlapped = FALSE
  /\ cut = FALSE
  /\ short = FALSE
  /\ fresh = FALSE
  /\ saves = 0
  /\ faults = 0

-----------------------------------------------------------------------------
(* The handlers set_settings, set_settings_testnet4, upload_logo, remove_logo *)

\* Bug: the fee of the testnet4 form is not put in with its address.
PutAddressOnly(s, f) ==
  IF f.kind \in {"main", "text"}
  THEN [s EXCEPT !.address = Or(f.address, NoAddress, @), !.fee = f.fee]
  ELSE IF f.kind = "testnet4" THEN [s EXCEPT !.t4address = f.address] ELSE s

\* The fields of a form put into settings; the logo is a file of its own.
Put(s, f) ==
  IF f.kind \in {"main", "text"}
  THEN [s EXCEPT !.address = Or(f.address, NoAddress, @), !.fee = f.fee]
  ELSE IF f.kind = "testnet4"
       THEN [s EXCEPT !.t4address = f.address, !.t4fee = f.fee]
       ELSE s

\* Bug: the form is written over the defaults, not over the stored settings.
LoadDefaults(w, f) ==
  /\ up
  /\ Idle(w)
  /\ saves < MaxSaves
  /\ saves' = saves + 1
  /\ at' = [at EXCEPT ![w] = "loaded"]
  /\ form' = [form EXCEPT ![w] = f]
  /\ next' = [next EXCEPT ![w] = Put(Blank, f)]
  /\ overlapped' = (overlapped \/ \E v \in Workers : ~Idle(v))
  /\ UNCHANGED <<up, active, file, exiting, acked, cut, short, faults>>

\* A form arrives at an idle worker and load_settings runs.
Load(w, f) ==
  /\ up
  /\ Idle(w)
  /\ saves < MaxSaves
  /\ saves' = saves + 1
  /\ at' = [at EXCEPT ![w] = "loaded"]
  /\ form' = [form EXCEPT ![w] = f]
  /\ next' = [next EXCEPT ![w] = Put(Loaded, f)]
  /\ overlapped' = (overlapped \/ \E v \in Workers : ~Idle(v))
  /\ UNCHANGED <<up, active, file, exiting, acked, cut, short, faults>>

\* The forms for mainnet, for testnet4 and for the logo.
Submit(w, f) ==
  /\ f.kind # "text"
  /\ Load(w, f)
  /\ fresh' = FALSE
  /\ UNCHANGED page

\* Bug: the file is not truncated, so the tail of a longer text remains.
OverwriteInPlace(w) ==
  /\ at[w] = "loaded"
  /\ at' = [at EXCEPT ![w] = "truncated"]
  /\ UNCHANGED <<up, active, file, form, next, page, exiting, history, fresh,
                 saves, faults>>

\* fs::write opens the file with O_TRUNC ...
Truncate(w) ==
  /\ at[w] = "loaded"
  /\ file' = [file EXCEPT !.size = 0]
  /\ at' = [at EXCEPT ![w] = "truncated"]
  /\ UNCHANGED <<up, active, form, next, page, exiting, history, fresh, saves,
                 faults>>

\* The handler answers and leaves its worker.
Done(w) ==
  /\ at' = [at EXCEPT ![w] = "idle"]
  /\ form' = [form EXCEPT ![w] = NoForm]
  /\ next' = [next EXCEPT ![w] = Blank]
  /\ fresh' = (fresh /\ form[w].kind # "text")

\* Bug: the old file is removed before the new one is opened.
OpenFailsRemoved(w) ==
  /\ at[w] = "loaded"
  /\ Fault
  /\ file' = [file EXCEPT !.size = 0]
  /\ Done(w)
  /\ UNCHANGED <<up, active, page, exiting, history, saves>>

\* ... or cannot open it, and the form is answered with an error.
OpenFails(w) ==
  /\ at[w] = "loaded"
  /\ Fault
  /\ Done(w)
  /\ UNCHANGED <<up, active, file, page, exiting, history, saves>>

\* ... and writes from its start: what another handler has written since is
\* overwritten, up to the length of the text.
Write(w) ==
  /\ at[w] = "truncated"
  /\ LET size == Length(next[w])
     IN  file' = [text |-> next[w],
                  size |-> IF file.size > size THEN file.size ELSE size]
  /\ acked' = Put(acked, form[w])
  /\ Done(w)
  /\ UNCHANGED <<up, active, page, exiting, overlapped, cut, short, saves,
                 faults>>

\* What a write that fails may have put into an empty file: nothing, or the
\* beginning of a text that is longer than a block, as nothing bounds info.
Beginnings(text) == {[text |-> text, size |-> n] : n \in 1..(Length(text) - 1)}

\* ... or the disk is full.  (Into what another handler has written since the
\* truncation nothing is written then, or all of it: a mixture is left out.)
WriteFails(w) ==
  /\ at[w] = "truncated"
  /\ Fault
  /\ cut' = TRUE
  /\ \/ UNCHANGED <<file, short>>
     \/ file.size = 0 /\ file' \in Beginnings(next[w]) /\ short' = TRUE
  /\ Done(w)
  /\ UNCHANGED <<up, active, page, exiting, acked, overlapped, saves>>

-----------------------------------------------------------------------------
(* The page *)

\* The form for the logo text, with what it takes from some settings.
TextForm(s) ==
  [kind |-> "text", address |-> s.address, fee |-> Or(s.fee, 0, PageFee)]

PageIdle == page = NoForm /\ \A w \in Workers : form[w].kind # "text"

\* Bug: the page shows and posts what the server runs with, not the file.
PageReadsActive ==
  /\ up
  /\ PageIdle
  /\ saves < MaxSaves
  /\ page' = TextForm(active)
  /\ fresh' = (\A w \in Workers : Idle(w))
  /\ UNCHANGED <<up, active, file, at, form, next, exiting, history, saves,
                 faults>>

\* updateLogoText: GET /settings, in the middle of anything, ...
PageReads ==
  /\ up
  /\ PageIdle
  /\ saves < MaxSaves
  /\ page' = TextForm(Loaded)
  /\ fresh' = (\A w \in Workers : Idle(w))
  /\ UNCHANGED <<up, active, file, at, form, next, exiting, history, saves,
                 faults>>

\* ... then POST /settings; its button is disabled until the answer is there ...
PagePosts(w) ==
  /\ page # NoForm
  /\ Load(w, page)
  /\ page' = NoForm
  /\ UNCHANGED fresh

\* ... or a network error while the server is down.
PageGivesUp ==
  /\ ~up
  /\ page # NoForm
  /\ page' = NoForm
  /\ fresh' = FALSE
  /\ UNCHANGED <<up, active, file, at, form, next, exiting, history, saves,
                 faults>>

-----------------------------------------------------------------------------
(* The process and its container *)

\* POST /restart-server: the task that will exit is spawned on the worker.
RestartServer(w) ==
  /\ up
  /\ Idle(w)
  /\ exiting' = exiting \cup {w}
  /\ UNCHANGED <<up, active, file, at, form, next, page, history, fresh, saves,
                 faults>>

\* The process is gone, whatever its workers were doing.
Die ==
  /\ up' = FALSE
  /\ at' = [w \in Workers |-> "idle"]
  /\ form' = [w \in Workers |-> NoForm]
  /\ next' = [w \in Workers |-> Blank]
  /\ cut' = (cut \/ \E w \in Workers : at[w] = "truncated")
  /\ exiting' = {}
  /\ fresh' = (fresh /\ page # NoForm)
  /\ UNCHANGED <<active, file, page, acked, overlapped, short, saves>>

\* Bug: the task that is to exit is dropped with the handler that spawned it.
ExitDropped(w) ==
  /\ w \in exiting
  /\ Idle(w)
  /\ exiting' = exiting \ {w}
  /\ UNCHANGED <<up, active, file, at, form, next, page, history, fresh, saves,
                 faults>>

\* std::process::exit(0): the task runs when no handler has its worker.
Exit(w) ==
  /\ w \in exiting
  /\ Idle(w)
  /\ Die
  /\ UNCHANGED faults

Crash ==
  /\ up
  /\ Fault
  /\ Die

\* Bug: the variables of testnet4 are taken whether it has an address or not.
StartAlways ==
  /\ ~up
  /\ ~Torn
  /\ up' = TRUE
  /\ active' = [InEffect(Loaded) EXCEPT !.t4fee = Or(Loaded.t4fee, 0, EnvFile.t4fee)]
  /\ UNCHANGED <<file, at, form, next, page, exiting, history, fresh, saves,
                 faults>>

\* "restart: unless-stopped".  jq has nothing to say of an empty file, but it
\* fails on one that is torn, and set -e ends the entrypoint with it.
Start ==
  /\ ~up
  /\ ~Torn
  /\ up' = TRUE
  /\ active' = InEffect(Loaded)
  /\ UNCHANGED <<file, at, form, next, page, exiting, history, fresh, saves,
                 faults>>

-----------------------------------------------------------------------------
Work(w) == Truncate(w) \/ OpenFails(w) \/ Write(w) \/ WriteFails(w)

Next ==
  \/ \E w \in Workers :
       \/ Work(w) \/ RestartServer(w) \/ Exit(w)
       \/ PagePosts(w)
       \/ \E f \in Form : Submit(w, f)
  \/ PageReads \/ PageGivesUp
  \/ Crash \/ Start

Spec == Init /\ [][Next]_vars

\* As long as a handler runs or a task is to exit, one of them goes on (forms
\* being finitely many, none is left behind); Docker restarts the container.
FairSpec ==
  /\ Spec
  /\ WF_vars(Start)
  /\ WF_vars(\E w \in Workers : Work(w) \/ Exit(w))

-----------------------------------------------------------------------------
(* Properties *)

AllIdle == \A w \in Workers : Idle(w)

\* Every variable keeps to its type; testnet4 is never offered without a fee.
TypeOK ==
  /\ up \in BOOLEAN /\ overlapped \in BOOLEAN /\ cut \in BOOLEAN
  /\ short \in BOOLEAN /\ fresh \in BOOLEAN
  /\ active \in Content
  /\ file \in [text : Content, size : Nat]
  /\ at \in [Workers -> {"idle", "loaded", "truncated"}]
  /\ form \in [Workers -> Form] /\ page \in Form
  /\ next \in [Workers -> Content]
  /\ exiting \subseteq Workers
  /\ acked \in Content
  /\ saves \in Nat /\ faults \in Nat

\* As long as no two handlers have overlapped and none was cut short, the
\* file holds exactly what the operator was told was saved, field by field,
\* whatever other forms, restarts and refused writes came in between.
SavesKept == AllIdle /\ ~overlapped /\ ~cut => Loaded = acked

\* Only overlapping handlers, or a disk that is full in the middle of a text,
\* can leave what is no JSON and stops the entrypoint: a death of the process, a
\* failed open and a disk that takes nothing do not, wherever they strike.
TornByOverlap == Torn => overlapped \/ short

\* A server that starts runs with the settings that were acknowledged, and
\* with the environment where none were: what the dashboard tells after a
\* restart, "New settings are now active".
StartApplies ==
  [][~up /\ up' /\ ~overlapped /\ ~cut => active' = InEffect(acked)]_vars

\* A new logo text leaves address and fee as they were acknowledged, if a fee
\* was ever stored, if the page read them while no handler was at work and no
\* other form came since: otherwise it may post the 22200 of the page, or take
\* back what was saved after it read.
TextKeepsSettings ==
  [][/\ \E w \in Workers : form[w].kind = "text"
     /\ fresh /\ ~overlapped /\ ~cut
     /\ acked.fee # 0
     => acked' = acked]_vars

\* A requested restart ends the process, and a server that is down comes back
\* unless the file it left is torn (see TornByOverlap).
RestartCompletes ==
  /\ exiting # {} ~> ~up
  /\ ~up /\ ~Torn ~> up

\* What is stored, or will be once the write that is under way has ended.
Stored ==
  IF \E w \in Workers : at[w] = "truncated"
  THEN next[CHOOSE w \in Workers : at[w] = "truncated"]
  ELSE Loaded

Store == INSTANCE SettingsStore WITH content <- Stored, garbled <- overlapped

\* The handlers are an atomic store until two of them overlap, also after a
\* write was cut short: then the settings are blank, and later forms go into
\* blank ones.  A start always takes what is stored, even after an overlap
\* (umbrel_api.rs 876-1007, entrypoint-server.sh).
ImplementsStore == Store!Spec

\* "Kept apart from POST /settings so saving the mainnet form never touches
\* these" (umbrel_api.rs:925-926): the acknowledged settings of testnet4 are
\* in the file whenever no handler runs.
KeptApart ==
  AllIdle => /\ Loaded.t4address = acked.t4address
             /\ Loaded.t4fee = acked.t4fee

(* The inductive invariant behind SavesKept and TornByOverlap *)

\* One handler at a time, which has the acknowledged settings in hand; the
\* file is whole or empty, and it is empty when that handler is about to write.
SerialInv ==
  ~overlapped =>
    /\ \A v, w \in Workers : ~Idle(v) /\ ~Idle(w) => v = w
    /\ ~short => ~Torn
    /\ \A w \in Workers :
         /\ at[w] = "truncated" => file.size = 0
         /\ at[w] = "loaded" => next[w] = Put(Loaded, form[w])
    /\ ~cut => /\ \A w \in Workers : ~Idle(w) => next[w] = Put(acked, form[w])
               /\ (\A w \in Workers : at[w] # "truncated") => Loaded = acked

\* Handlers run only while the server does.
DownInv == ~up => AllIdle /\ exiting = {}

\* What the page of a fresh read posts is what was acknowledged.
Matches(f) ==
  /\ f.address = acked.address
  /\ acked.fee # 0 => f.fee = acked.fee

PageInv ==
  fresh =>
    /\ \A w \in Workers : ~Idle(w) => form[w].kind = "text"
    /\ ~overlapped /\ ~cut =>
         /\ page # NoForm => Matches(page)
         /\ \A w \in Workers : form[w].kind = "text" => Matches(form[w])

PageTextInv == page # NoForm => page.kind = "text"

SettingsInv == TypeOK /\ DownInv /\ SerialInv /\ PageInv /\ PageTextInv
=============================================================================
