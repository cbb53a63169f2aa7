------------------------------- MODULE Database -----------------------------
(***************************************************************************)
(* The database of packages and versions (db.c).                           *)
(*                                                                         *)
(* A session opens the store, and works on tables and dictionaries that    *)
(* are only written back by a checkpoint.  Packages are found by their     *)
(* name, versions by their checksum, in tables with weak references; the   *)
(* origins and the status of packages are what keeps them alive.  Indexes  *)
(* are only added to, when a version is new to the table.  An update reads *)
(* a file stanza by stanza and may fail at any of them.                    *)
(*                                                                         *)
(* Objects carry a number, as two objects are only the same when they have *)
(* the same address.  A weak dictionary is the set of its pairs.           *)
(***************************************************************************)
EXTENDS Integers, FiniteSets

CONSTANTS
  Origin,     \* labels of origins
  Name,       \* names of packages
  Stanzas,    \* the stanzas that files can have
  None,       \* NULL
  MaxObjects, \* how many packages and versions are created at most
  MaxSaves    \* how many checkpoints save something new at most

(***************************************************************************)
(* A stanza names a package, a version and, maybe, a checksum; the         *)
(* packages of its relations, of whatever type, and those it provides; and *)
(* its tags.  A package and a version are objects, and have a number.      *)
(***************************************************************************)
Packages == [name : Name, number : Nat]
Versions == [stanza : Stanzas, number : Nat, pkg : Packages,
             rels : SUBSET Packages, provides : SUBSET Packages]

ASSUME DatabaseAssumption ==
  /\ \A s \in Stanzas :
       /\ s.name \in Name
       /\ s.rels \subseteq Name /\ s.provides \subseteq s.rels
       /\ IsFiniteSet(s.tags)
  /\ \A s, t \in Stanzas : s.sum = t.sum /\ s.sum # None => s = t
  /\ None \notin Origin \union Stanzas \union Versions
  /\ MaxObjects \in Nat /\ MaxSaves \in Nat

VARIABLES
  root,       \* the root of the store
  open,       \* there is a session, with
  db,         \* its tables and dictionaries
  update,     \* the update that goes on: its origin and what it offers so far
  count,      \* the objects created so far
  saves       \* the checkpoints that saved something new so far

vars == <<root, open, db, update, count, saves>>

Empty == [packages |-> {}, versions |-> {}, status |-> {}, available |-> {},
          reverse |-> {}, provides |-> {}, tags |-> {}]

Idle == [origin |-> None, available |-> {}]
Updating == update.origin # None

Init ==
  /\ root = Empty
  /\ open = FALSE
  /\ db = Empty
  /\ update = Idle
  /\ count = 0
  /\ saves = 0

-----------------------------------------------------------------------------
(***************************************************************************)
(* Sessions                                                                *)
(***************************************************************************)
\* dpm_db_open
Open ==
  /\ ~open
  /\ open' = TRUE
  /\ db' = root
  /\ UNCHANGED <<root, update, count, saves>>

\* dpm_db_checkpoint
Checkpoint ==
  /\ open /\ ~Updating
  /\ root' = db
  /\ saves' = IF db = root THEN saves ELSE saves + 1
  /\ saves' <= MaxSaves
  /\ UNCHANGED <<open, db, update, count>>

\* The versions and packages that references other than the weak ones reach.
LiveVersions(d) == {e.ver : e \in d.available} \union ({e.ver : e \in d.status} \ {None})
LivePackages(d) ==
  {e.pkg : e \in d.available} \union {e.pkg : e \in d.status}
    \union UNION {{v.pkg} \union v.rels : v \in LiveVersions(d)}

\* Mutant: the installed versions keep nothing alive.
CollectAvailable(d) ==
  LET live == {e.ver : e \in d.available} IN
  [d EXCEPT !.versions = @ \intersect live,
            !.packages = {p \in @ : \E q \in LivePackages(d) : q.name = p.name},
            !.reverse = {e \in @ : e.ver \in live},
            !.provides = {e \in @ : e.ver \in live},
            !.tags = {e \in @ : e.ver \in live}]

\* Mutant: only packages that are on offer are kept.
CollectOffered(d) ==
  LET live == LiveVersions(d) IN
  [d EXCEPT !.versions = @ \intersect live,
            !.packages = {p \in @ : \E e \in d.available : e.pkg.name = p.name},
            !.reverse = {e \in @ : e.ver \in live},
            !.provides = {e \in @ : e.ver \in live},
            !.tags = {e \in @ : e.ver \in live}]

\* ss_gc, of the tables and dictionaries: a package is kept by its name.
Collect(d) ==
  LET live == LiveVersions(d) IN
  [d EXCEPT !.versions = @ \intersect live,
            !.packages = {p \in @ : \E q \in LivePackages(d) : q.name = p.name},
            !.reverse = {e \in @ : e.ver \in live},
            !.provides = {e \in @ : e.ver \in live},
            !.tags = {e \in @ : e.ver \in live}]

\* What was not stored is gone.
EndSession == open' = FALSE /\ db' = Empty /\ update' = Idle /\ UNCHANGED count

\* dpm_db_done, which may collect; dpm_db_gc_and_done; or an error that nobody
\* catches, which ends the process, at any time.
Done ==
  /\ open /\ ~Updating
  /\ root' \in {root, Collect(root)}
  /\ UNCHANGED saves
  /\ EndSession

Die ==
  /\ open
  /\ UNCHANGED <<root, saves>>
  /\ EndSession

-----------------------------------------------------------------------------
(***************************************************************************)
(* Packages and versions                                                   *)
(***************************************************************************)
Find(d, name) == {p \in d.packages : p.name = name}

\* Mutant: a name is looked up in what was stored.
CreateUnlessStored(d, names, n) ==
  [d EXCEPT !.packages = @ \union {[name |-> m, number |-> n] : m \in {m \in names : Find(root, m) = {}}}]

\* find_create_package, for a set of names.
Create(d, names, n) ==
  [d EXCEPT !.packages = @ \union {[name |-> m, number |-> n] : m \in {m \in names : Find(d, m) = {}}}]

PackageOf(d, name) == CHOOSE p \in Find(d, name) : TRUE
PackagesOf(d, names) == {PackageOf(d, m) : m \in names}

Version(d, s, n) ==
  [stanza |-> s, number |-> n, pkg |-> PackageOf(d, s.name),
   rels |-> PackagesOf(d, s.rels), provides |-> PackagesOf(d, s.provides)]

\* ss_tab_intern_x with hash_version and version_equal: versions without a
\* checksum are never equal.
Intern(d, v) ==
  LET same == {w \in d.versions : w.stanza.sum = v.stanza.sum /\ v.stanza.sum # None}
  IN IF same = {} THEN v ELSE CHOOSE w \in same : TRUE

\* Mutant: a version that the table has already is indexed, too.
IndexAlways(d, v, w) ==
  [d EXCEPT !.versions = @ \union {w},
            !.reverse = @ \union {[key |-> p, ver |-> v] : p \in v.rels},
            !.provides = @ \union {[key |-> p, ver |-> v] : p \in v.provides},
            !.tags = @ \union {[key |-> t, ver |-> v] : t \in v.stanza.tags}]

\* record_version, for a version v of which the table has w.
Index(d, v, w) ==
  IF v # w THEN d
  ELSE [d EXCEPT !.versions = @ \union {v},
                 !.reverse = @ \union {[key |-> p, ver |-> v] : p \in v.rels},
                 !.provides = @ \union {[key |-> p, ver |-> v] : p \in v.provides},
                 !.tags = @ \union {[key |-> t, ver |-> v] : t \in v.stanza.tags}]

-----------------------------------------------------------------------------
(***************************************************************************)
(* dpm_db_origin_update                                                    *)
(***************************************************************************)
\* Mutant: an update starts with nothing.
UpdateBeginAnew(o) ==
  /\ open /\ ~Updating
  /\ update' = [origin |-> o, available |-> {}]
  /\ UNCHANGED <<root, open, db, count, saves>>

UpdateBegin(o) ==
  /\ open /\ ~Updating
  /\ update' = [origin |-> o, available |-> {e \in db.available : e.origin = o}]
  /\ UNCHANGED <<root, open, db, count, saves>>

\* Only so many objects.
Fresh == count + 1
Created(d) ==
  /\ db' = d
  /\ count' = IF d = db THEN count ELSE Fresh
  /\ count' <= MaxObjects

\* parse_package_stanza: the packages of the fields, and then the version.
Stanza(s) ==
  /\ Updating
  /\ LET d == Create(db, s.rels \union {s.name}, Fresh)
         v == Version(d, s, Fresh)
         w == Intern(d, v)
     IN /\ Created(Index(d, v, w))
        /\ update' = [update EXCEPT !.available =
             @ \union {[origin |-> update.origin, pkg |-> v.pkg, ver |-> w]}]
  /\ UNCHANGED <<root, open, saves>>

\* An error in the middle of a stanza, which somebody catches.
UpdateFails(s) ==
  /\ Updating
  /\ \E names \in SUBSET (s.rels \union {s.name}) : Created(Create(db, names, Fresh))
  /\ update' = Idle
  /\ UNCHANGED <<root, open, saves>>

\* handle_removes.  Removing a version of a package that the origin does not
\* offer is the end of the process: ss_len (NULL), see Die.
Keep(available) ==
  /\ Updating
  /\ update' = [update EXCEPT !.available = available]
  /\ UNCHANGED <<root, open, db, count, saves>>

Remove ==
  \/ Keep({})
  \/ \E n \in Name : Keep({e \in update.available : e.pkg \notin Find(db, n)})
  \/ \E s \in Stanzas :
       /\ \E e \in update.available : e.pkg \in Find(db, s.name)
       /\ Keep({e \in update.available : e.pkg \notin Find(db, s.name) \/ e.ver.stanza.ver # s.ver})

UpdateEnd ==
  /\ Updating
  /\ db' = [db EXCEPT !.available = {e \in @ : e.origin # update.origin} \union update.available]
  /\ update' = Idle
  /\ UNCHANGED <<root, open, count, saves>>

-----------------------------------------------------------------------------
(***************************************************************************)
(* The status of packages: an installed version, whatever its state, and   *)
(* whether the package is manual.                                          *)
(***************************************************************************)
\* dpm_db_status
Status(d, p) ==
  IF \E e \in d.status : e.pkg = p THEN CHOOSE e \in d.status : e.pkg = p
  ELSE [pkg |-> p, ver |-> None, manual |-> FALSE]

Replace(old, new) ==
  /\ db' = IF new = old THEN db ELSE [db EXCEPT !.status = (@ \ {old}) \union {new}]
  /\ UNCHANGED <<root, open, update, count, saves>>

\* dpm_db_set_status, for a version that is on offer, or none.
SetStatus ==
  /\ open /\ ~Updating
  /\ \E p \in db.packages :
       \E v \in {e.ver : e \in {e \in db.available : e.pkg = p}} \union {None} :
         Replace(Status(db, p), [Status(db, p) EXCEPT !.ver = v])

\* dpm_db_set_status_flags
SetStatusFlags ==
  /\ open /\ ~Updating
  /\ \E p \in db.packages, m \in BOOLEAN :
       Replace(Status(db, p), [Status(db, p) EXCEPT !.manual = m])

Next ==
  \/ Open \/ Checkpoint \/ Done \/ Die
  \/ \E o \in Origin : UpdateBegin(o)
  \/ \E s \in Stanzas : Stanza(s) \/ UpdateFails(s)
  \/ Remove \/ UpdateEnd
  \/ SetStatus \/ SetStatusFlags

Spec == Init /\ [][Next]_vars
-----------------------------------------------------------------------------
(***************************************************************************)
(* Properties                                                              *)
(***************************************************************************)
TypeOK ==
  /\ open \in BOOLEAN
  /\ count \in 0 .. MaxObjects /\ saves \in 0 .. MaxSaves
  /\ \A d \in {root, db} :
       /\ \A p \in d.packages : p.name \in Name
       /\ \A e \in d.status : e.pkg \in d.packages /\ (e.ver # None => e.ver.pkg = e.pkg)
       /\ \A e, f \in d.status : e.pkg = f.pkg => e = f
       /\ \A e \in d.available : e.origin \in Origin
  /\ update.origin \in Origin \union {None}

\* Everything that the code has a hold of, and not only weakly.
Held == [db EXCEPT !.available = @ \union update.available]

\* dpm_db_package_find finds the one package that everything refers to by its
\* name, however often it was forgotten and created again: packages are
\* compared by their address.
PackagesUnique ==
  open => \A p \in LivePackages(Held) \union UNION {v.rels : v \in db.versions} :
            Find(db, p.name) = {p}

\* A version with a checksum is the same object in all origins and in the
\* status, so that what is installed is recognized when it is on offer (again).
VersionsShared ==
  /\ LiveVersions(Held) \subseteq db.versions
  /\ \A v, w \in LiveVersions(Held) :
       v.stanza.sum = w.stanza.sum /\ v.stanza.sum # None => v = w

\* The indexes have what is in the table of versions and nothing else, also
\* after updates that failed and after collections.
IndexesExact ==
  \A d \in {root, db} :
    /\ d.reverse = UNION {{[key |-> p, ver |-> v] : p \in v.rels} : v \in d.versions}
    /\ d.provides = UNION {{[key |-> p, ver |-> v] : p \in v.provides} : v \in d.versions}
    /\ d.tags = UNION {{[key |-> t, ver |-> v] : t \in v.stanza.tags} : v \in d.versions}

\* What a session sees is what Origins says, by the stanzas.
Offers(d) == [o \in Origin |-> {e.ver.stanza : e \in {e \in d.available : e.origin = o}}]
Installed(d) ==
  [n \in Name |-> IF \E e \in d.status : e.pkg.name = n /\ e.ver # None
                  THEN (CHOOSE e \in d.status : e.pkg.name = n /\ e.ver # None).ver.stanza ELSE None]
Manual(d) == {e.pkg.name : e \in {e \in d.status : e.manual}}
Current == IF open THEN db ELSE root

Promise == INSTANCE Origins WITH
  offers <- Offers(Current), installed <- Installed(Current), manual <- Manual(Current),
  saved <- <<Offers(root), Installed(root), Manual(root)>>,
  updating <- update.origin, pending <- {e.ver.stanza : e \in update.available}
ImplementsOrigins == Promise!Spec
=============================================================================
