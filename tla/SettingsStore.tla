---------------------------- MODULE SettingsStore ----------------------------
(***************************************************************************)
(* What the dashboard promises of the settings, with no file and no        *)
(* workers: a form is put into what is stored in one step, and a server    *)
(* that starts runs with what is stored.  A write that is cut short leaves *)
(* the settings blank; once two forms have overlapped, any may be stored.  *)
(***************************************************************************)
CONSTANTS
  Content, Blank,   \* settings, and those of a new installation
  Form, Put(_, _),  \* forms, and settings with a form put into them
  EnvFile,          \* the configuration outside the settings ...
  InEffect(_)       \* ... and what results from both

VARIABLES
  content,   \* what is stored
  up,        \* the server runs
  active,    \* the configuration it started with
  cut,       \* a write has been cut short
  garbled    \* two forms have overlapped

vars == <<content, up, active, cut, garbled>>

Init ==
  /\ content = Blank
  /\ up = FALSE
  /\ active = EnvFile
  /\ cut = FALSE
  /\ garbled = FALSE

Lost    == cut' /\ content' = Blank /\ UNCHANGED garbled
Garbled == garbled' /\ content' \in Content /\ (cut => cut')
Kept    == UNCHANGED <<content, cut, garbled>>

Save ==
  /\ up
  /\ UNCHANGED <<up, active, cut, garbled>>
  /\ content' \in {Put(content, f) : f \in Form}

WriteCut ==
  /\ up
  /\ Lost
  /\ UNCHANGED <<up, active>>

Overlap ==
  /\ up
  /\ Garbled
  /\ UNCHANGED <<up, active>>

Stop ==
  /\ up
  /\ up' = FALSE
  /\ Kept \/ Lost \/ Garbled
  /\ UNCHANGED active

Start ==
  /\ ~up
  /\ up' = TRUE
  /\ active' = InEffect(content)
  /\ UNCHANGED <<content, cut, garbled>>

Next ==
  \/ Save \/ WriteCut \/ Overlap \/ Stop \/ Start

Spec == Init /\ [][Next]_vars
=============================================================================
