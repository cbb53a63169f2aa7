------------------------------- MODULE Origins ------------------------------
(***************************************************************************)
(* What the database promises about origins (db.h: dpm_db_origin_update,   *)
(* dpm_db_set_status): which versions each origin offers, and which one of *)
(* each package is installed, by what their stanzas say.  An update is     *)
(* seen when it is complete.  What was not checkpointed is forgotten when  *)
(* the session ends; collecting garbage changes nothing.                   *)
(***************************************************************************)
CONSTANTS
  Origin,     \* labels of origins
  Name,       \* names of packages
  Stanzas,    \* what there is to know of a version
  None

VARIABLES
  offers,     \* the stanzas each origin offers
  installed,  \* the stanza of the installed version of each package
  manual,     \* the manual packages
  saved,      \* the three as of the last checkpoint
  updating,   \* the origin that is being updated, or None
  pending     \* what it will offer

vars == <<offers, installed, manual, saved, updating, pending>>

Init ==
  /\ offers = [o \in Origin |-> {}]
  /\ installed = [n \in Name |-> None]
  /\ manual = {}
  /\ saved = <<offers, installed, manual>>
  /\ updating = None /\ pending = {}

Begin(o) ==
  /\ updating = None
  /\ updating' = o /\ pending' = offers[o]
  /\ UNCHANGED <<offers, installed, manual, saved>>

\* A stanza; `Remove: name version`; `Remove: name`; and `Remove:`.
Entry(new) ==
  /\ updating # None
  /\ pending' = new
  /\ UNCHANGED <<offers, installed, manual, saved, updating>>

Entries ==
  \/ \E s \in Stanzas : Entry(pending \union {s})
  \/ \E s \in Stanzas : Entry({t \in pending : t.name # s.name \/ t.ver # s.ver})
  \/ \E n \in Name : Entry({t \in pending : t.name # n})
  \/ Entry({})

End ==
  /\ updating # None
  /\ offers' = [offers EXCEPT ![updating] = pending]
  /\ updating' = None /\ pending' = {}
  /\ UNCHANGED <<installed, manual, saved>>

Fail ==
  /\ updating # None
  /\ updating' = None /\ pending' = {}
  /\ UNCHANGED <<offers, installed, manual, saved>>

Install(n, s) ==
  /\ updating = None
  /\ s = None \/ s.name = n
  /\ installed' = [installed EXCEPT ![n] = s]
  /\ UNCHANGED <<offers, manual, saved, updating, pending>>

SetManual(n) ==
  /\ updating = None
  /\ manual' \in {manual \union {n}, manual \ {n}}
  /\ UNCHANGED <<offers, installed, saved, updating, pending>>

Checkpoint ==
  /\ updating = None
  /\ saved' = <<offers, installed, manual>>
  /\ UNCHANGED <<offers, installed, manual, updating, pending>>

\* The session ends, and the next one begins.
Reopen ==
  /\ <<offers', installed', manual'>> = saved
  /\ updating' = None /\ pending' = {}
  /\ UNCHANGED saved

Next ==
  \/ \E o \in Origin : Begin(o)
  \/ Entries \/ End \/ Fail
  \/ \E n \in Name, s \in Stanzas \union {None} : Install(n, s)
  \/ \E n \in Name : SetManual(n)
  \/ Checkpoint \/ Reopen

Spec == Init /\ [][Next]_vars
=============================================================================
