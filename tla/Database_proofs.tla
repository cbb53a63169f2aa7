--------------------------- MODULE Database_proofs --------------------------
(***************************************************************************)
(* Proofs about Database: its type invariant, that packages and versions   *)
(* are not duplicated, that the indexes are exact, and that the database   *)
(* implements Origins.  Everything rests on one inductive invariant, IInv, *)
(* which says of the root of the store what it says of the session, as     *)
(* either becomes the other.                                               *)
(***************************************************************************)
EXTENDS Database, TLAPS

Tags == UNION {s.tags : s \in Stanzas}

Databases ==
  [packages  : SUBSET Packages,
   versions  : SUBSET Versions,
   status    : SUBSET [pkg : Packages, ver : Versions \union {None}, manual : BOOLEAN],
   available : SUBSET [origin : Origin, pkg : Packages, ver : Versions],
   reverse   : SUBSET [key : Packages, ver : Versions],
   provides  : SUBSET [key : Packages, ver : Versions],
   tags      : SUBSET [key : Tags, ver : Versions]]

\* Objects are found by their names and sums, and a version is about the
\* package that its stanza names.
NamesUnique(d) == \A p, q \in d.packages : p.name = q.name => p = q
SumsUnique(d) ==
  \A v, w \in d.versions : v.stanza.sum = w.stanza.sum /\ v.stanza.sum # None => v = w
VersionsOK(d) ==
  \A v \in d.versions :
    /\ v.pkg \in d.packages /\ v.rels \subseteq d.packages
    /\ v.provides \subseteq v.rels
    /\ v.pkg.name = v.stanza.name

\* What origins and the status refer to is in the tables.
OffersOK(d, available) ==
  \A e \in available : e.ver \in d.versions /\ e.pkg = e.ver.pkg
StatusOK(d) ==
  /\ \A e \in d.status :
       /\ e.pkg \in d.packages
       /\ e.ver # None => e.ver \in d.versions /\ e.pkg = e.ver.pkg
  /\ \A e, f \in d.status : e.pkg = f.pkg => e = f

IndexesOK(d) ==
  /\ d.reverse = UNION {{[key |-> p, ver |-> v] : p \in v.rels} : v \in d.versions}
  /\ d.provides = UNION {{[key |-> p, ver |-> v] : p \in v.provides} : v \in d.versions}
  /\ d.tags = UNION {{[key |-> t, ver |-> v] : t \in v.stanza.tags} : v \in d.versions}

TablesOK(d) == d \in Databases /\ NamesUnique(d) /\ SumsUnique(d) /\ VersionsOK(d)
DbOK(d) == TablesOK(d) /\ OffersOK(d, d.available) /\ StatusOK(d)

UpdateOK ==
  /\ update \in [origin : Origin \union {None},
                 available : SUBSET [origin : Origin, pkg : Packages, ver : Versions]]
  /\ OffersOK(db, update.available)
  /\ \A e \in update.available : e.origin = update.origin

IInv ==
  /\ open \in BOOLEAN
  /\ count \in 0 .. MaxObjects /\ saves \in 0 .. MaxSaves
  /\ DbOK(root) /\ DbOK(db)
  /\ UpdateOK
  /\ ~open => db = Empty /\ update = Idle
-----------------------------------------------------------------------------
(***************************************************************************)
(* What the operations do with tables                                      *)
(***************************************************************************)

LEMMA EmptyOK == DbOK(Empty) /\ IndexesOK(Empty)
BY DEF DbOK, TablesOK, Databases, NamesUnique, SumsUnique, VersionsOK, OffersOK, StatusOK,
       IndexesOK, Empty

\* Packages that did not exist are created, once; all others stay.
LEMMA CreateOK ==
  ASSUME NEW d, DbOK(d), NEW names \in SUBSET Name, NEW n \in Nat
  PROVE  /\ DbOK(Create(d, names, n))
         /\ \A available : OffersOK(d, available) => OffersOK(Create(d, names, n), available)
         /\ \A m \in names : PackageOf(Create(d, names, n), m) \in Create(d, names, n).packages
                             /\ PackageOf(Create(d, names, n), m).name = m
         /\ Create(d, names, n) = [d EXCEPT !.packages = Create(d, names, n).packages]
<1> DEFINE c == Create(d, names, n)
           new == {[name |-> m, number |-> n] : m \in {m \in names : Find(d, m) = {}}}
<1>1. d \in Databases
  BY DEF DbOK, TablesOK
<1>2. c = [d EXCEPT !.packages = d.packages \union new]
  BY <1>1 DEF Create
<1>3. new \in SUBSET Packages
  BY DEF Packages
<1>4. c \in Databases /\ c.packages = d.packages \union new /\ c.versions = d.versions
      /\ c.status = d.status /\ c.available = d.available
  BY <1>1, <1>2, <1>3 DEF Databases
<1> HIDE DEF c
<1>5. NamesUnique(c)
  <2> SUFFICES ASSUME NEW p \in c.packages, NEW q \in c.packages, p.name = q.name
               PROVE  p = q
    BY DEF NamesUnique
  <2>1. CASE p \in d.packages /\ q \in d.packages
    BY <2>1 DEF DbOK, TablesOK, NamesUnique
  <2>2. CASE p \in new /\ q \in new
    BY <2>2
  <2>3. \A r \in new, s \in d.packages : r.name # s.name
    BY DEF Find
  <2> QED BY <1>4, <2>1, <2>2, <2>3
<1>6. DbOK(c)
  BY <1>4, <1>5 DEF DbOK, TablesOK, SumsUnique, VersionsOK, OffersOK, StatusOK
<1>7. \A available : OffersOK(d, available) => OffersOK(c, available)
  BY <1>4 DEF OffersOK
<1>8. ASSUME NEW m \in names
      PROVE  PackageOf(c, m) \in c.packages /\ PackageOf(c, m).name = m
  <2>1. \E p \in c.packages : p.name = m
    <3>1. CASE Find(d, m) = {}
      <4>1. [name |-> m, number |-> n] \in new
        BY <3>1
      <4> QED BY <1>4, <4>1
    <3>2. CASE Find(d, m) # {}
      BY <1>4, <3>2 DEF Find
    <3> QED BY <3>1, <3>2
  <2> QED BY <2>1 DEF PackageOf, Find
<1>9. c = [d EXCEPT !.packages = c.packages]
  BY <1>2, <1>4
<1> QED BY <1>6, <1>7, <1>8, <1>9 DEF c

\* The version of a stanza, of a database that has its packages.
LEMMA VersionOK ==
  ASSUME NEW d, DbOK(d), NEW s \in Stanzas, NEW n \in Nat,
         \A m \in s.rels \union {s.name} : PackageOf(d, m) \in d.packages /\ PackageOf(d, m).name = m
  PROVE  LET v == Version(d, s, n) IN
         /\ v \in Versions
         /\ v.stanza = s /\ v.pkg.name = s.name
         /\ v.pkg \in d.packages /\ v.rels \subseteq d.packages /\ v.provides \subseteq v.rels
<1>1. d.packages \subseteq Packages
  BY DEF DbOK, TablesOK, Databases
<1>2. s.provides \subseteq s.rels
  BY DatabaseAssumption
<1>3. PackagesOf(d, s.rels) \subseteq d.packages /\ PackagesOf(d, s.provides) \subseteq PackagesOf(d, s.rels)
  BY <1>2 DEF PackagesOf
<1> QED BY <1>1, <1>3 DEF Version, Versions

\* Interning yields a version that the table has, or the new one when there is
\* none with its sum; in either case it is about the same stanza and package.
LEMMA InternOK ==
  ASSUME NEW d, DbOK(d), NEW v \in Versions, v.pkg \in d.packages, v.pkg.name = v.stanza.name
  PROVE  LET w == Intern(d, v) IN
         /\ w.stanza = v.stanza /\ w.pkg = v.pkg
         /\ \/ w = v /\ \A u \in d.versions : u.stanza.sum = v.stanza.sum /\ v.stanza.sum # None => u = v
            \/ w \in d.versions
<1> DEFINE same == {w \in d.versions : w.stanza.sum = v.stanza.sum /\ v.stanza.sum # None}
           w == Intern(d, v)
<1>1. CASE same = {}
  BY <1>1 DEF Intern
<1>2. CASE same # {}
  <2>1. w \in same
    BY <1>2 DEF Intern
  <2> HIDE DEF w
  <2>2. w.stanza = v.stanza
    <3>1. w.stanza \in Stanzas /\ v.stanza \in Stanzas
      BY <2>1 DEF DbOK, TablesOK, Databases, Versions
    <3> QED BY <2>1, <3>1, DatabaseAssumption
  <2>3. w.pkg = v.pkg
    BY <2>1, <2>2 DEF DbOK, TablesOK, VersionsOK, NamesUnique
  <2> QED BY <2>1, <2>2, <2>3 DEF w
<1> QED BY <1>1, <1>2

\* A version that is added to the table, with entries in the indexes.
LEMMA IndexOK ==
  ASSUME NEW d, DbOK(d), NEW v \in Versions, NEW w,
         v.pkg \in d.packages, v.rels \subseteq d.packages, v.provides \subseteq v.rels,
         v.pkg.name = v.stanza.name,
         \/ w = v /\ \A u \in d.versions : u.stanza.sum = v.stanza.sum /\ v.stanza.sum # None => u = v
         \/ w \in d.versions
  PROVE  LET c == Index(d, v, w) IN
         /\ DbOK(c)
         /\ w \in c.versions
         /\ c.status = d.status /\ c.available = d.available
         /\ \A available : OffersOK(d, available) => OffersOK(c, available)
<1>1. d \in Databases
  BY DEF DbOK, TablesOK
<1>2. CASE v # w
  BY <1>2 DEF Index, DbOK
<1>3. CASE v = w
  <2> DEFINE c == Index(d, v, w)
             R == {[key |-> p, ver |-> v] : p \in v.rels}
             P == {[key |-> p, ver |-> v] : p \in v.provides}
             T == {[key |-> t, ver |-> v] : t \in v.stanza.tags}
  <2>1. /\ R \in SUBSET [key : Packages, ver : Versions]
        /\ P \in SUBSET [key : Packages, ver : Versions]
        /\ T \in SUBSET [key : Tags, ver : Versions]
    <3>1. /\ v.rels \subseteq Packages /\ v.provides \subseteq Packages
          /\ v.stanza.tags \subseteq Tags
      BY DEF Versions, Tags
    <3> QED BY <3>1
  <2>2. c = [d EXCEPT !.versions = @ \union {v}, !.reverse = @ \union R,
                      !.provides = @ \union P, !.tags = @ \union T]
    BY <1>3 DEF Index
  <2>3. c \in Databases /\ c.versions = d.versions \union {v} /\ c.packages = d.packages
        /\ c.status = d.status /\ c.available = d.available
    <3> HIDE DEF c, R, P, T
    <3> QED BY <1>1, <2>1, <2>2 DEF Databases
  <2> HIDE DEF c
  <2>4. SumsUnique(c)
    BY <1>3, <2>3 DEF SumsUnique, DbOK, TablesOK
  <2>5. DbOK(c)
    BY <2>3, <2>4 DEF DbOK, TablesOK, NamesUnique, VersionsOK, OffersOK, StatusOK
  <2> QED BY <1>3, <2>3, <2>5 DEF OffersOK, c
<1> QED BY <1>2, <1>3

\* A collection keeps what is referred to, and changes no references.
LEMMA CollectOK ==
  ASSUME NEW d, DbOK(d)
  PROVE  /\ DbOK(Collect(d))
         /\ Collect(d).status = d.status /\ Collect(d).available = d.available
<1> DEFINE c == Collect(d)
<1>1. d \in Databases
  BY DEF DbOK, TablesOK
<1>2. /\ c \in Databases
      /\ c.versions = d.versions \intersect LiveVersions(d)
      /\ c.packages = {p \in d.packages : \E q \in LivePackages(d) : q.name = p.name}
      /\ c.status = d.status /\ c.available = d.available
  BY <1>1 DEF Databases, Collect
<1> HIDE DEF c
<1>3. LivePackages(d) \intersect d.packages \subseteq c.packages
  BY <1>2
<1>4. VersionsOK(c)
  BY <1>2, <1>3 DEF VersionsOK, DbOK, TablesOK, LivePackages
<1>5. TablesOK(c)
  BY <1>2, <1>4 DEF TablesOK, DbOK, NamesUnique, SumsUnique
<1>6. OffersOK(c, c.available)
  BY <1>2 DEF OffersOK, DbOK, LiveVersions
<1>7. StatusOK(c)
  BY <1>2, <1>3 DEF StatusOK, DbOK, LiveVersions, LivePackages
<1> QED BY <1>2, <1>5, <1>6, <1>7 DEF DbOK, c

\* The entry of a package in the status, or what stands for none.
LEMMA StatusOf ==
  ASSUME NEW d, DbOK(d), NEW p \in d.packages
  PROVE  /\ Status(d, p) \in [pkg : Packages, ver : Versions \union {None}, manual : BOOLEAN]
         /\ Status(d, p).pkg = p
         /\ Status(d, p) \in d.status \/ Status(d, p) = [pkg |-> p, ver |-> None, manual |-> FALSE]
         /\ \A e \in d.status : e.pkg = p => e = Status(d, p)
<1>1. d \in Databases /\ p \in Packages
  BY DEF DbOK, TablesOK, Databases
<1>2. CASE \E e \in d.status : e.pkg = p
  <2>1. Status(d, p) \in d.status /\ Status(d, p).pkg = p
    BY <1>2 DEF Status
  <2> QED BY <1>1, <2>1 DEF Databases, DbOK, StatusOK
<1>3. CASE ~\E e \in d.status : e.pkg = p
  BY <1>1, <1>3 DEF Status
<1> QED BY <1>2, <1>3

LEMMA ReplaceOK ==
  ASSUME NEW d, DbOK(d), NEW p \in d.packages,
         NEW new \in [pkg : Packages, ver : Versions \union {None}, manual : BOOLEAN],
         new.pkg = p,
         new.ver # None => new.ver \in d.versions /\ p = new.ver.pkg
  PROVE  DbOK([d EXCEPT !.status = (@ \ {Status(d, p)}) \union {new}])
<1> DEFINE c == [d EXCEPT !.status = (@ \ {Status(d, p)}) \union {new}]
<1>1. d \in Databases
  BY DEF DbOK, TablesOK
<1>2. /\ c \in Databases
      /\ c.versions = d.versions /\ c.packages = d.packages /\ c.available = d.available
      /\ c.status = (d.status \ {Status(d, p)}) \union {new}
  BY <1>1 DEF Databases
<1> HIDE DEF c
<1>3. StatusOK(c)
  <2>1. \A e \in d.status : e.pkg = p => e = Status(d, p)
    BY StatusOf
  <2> QED BY <1>2, <2>1 DEF StatusOK, DbOK
<1> QED BY <1>2, <1>3 DEF DbOK, TablesOK, NamesUnique, SumsUnique, VersionsOK, OffersOK, c

\* All that parse_package_stanza does with the tables.
LEMMA StanzaOK ==
  ASSUME NEW d, DbOK(d), NEW s \in Stanzas, NEW n \in Nat
  PROVE  LET c == Create(d, s.rels \union {s.name}, n)
             v == Version(c, s, n)
             w == Intern(c, v)
             i == Index(c, v, w)
         IN /\ DbOK(i)
            /\ i.status = d.status /\ i.available = d.available
            /\ w \in i.versions /\ w.stanza = s /\ w.pkg = v.pkg
            /\ v.pkg \in Packages /\ v \in Versions /\ w \in Versions
            /\ DbOK(c)
            /\ \A available : OffersOK(d, available) => OffersOK(i, available)
<1> DEFINE c == Create(d, s.rels \union {s.name}, n)
           v == Version(c, s, n)
           w == Intern(c, v)
           i == Index(c, v, w)
<1>1. s.rels \union {s.name} \in SUBSET Name
  BY DatabaseAssumption
<1>2. /\ DbOK(c)
      /\ c.status = d.status /\ c.available = d.available
      /\ \A available : OffersOK(d, available) => OffersOK(c, available)
      /\ \A m \in s.rels \union {s.name} :
           PackageOf(c, m) \in c.packages /\ PackageOf(c, m).name = m
  <2>1. d \in Databases
    BY DEF DbOK, TablesOK
  <2> QED BY <1>1, <2>1, CreateOK DEF Databases
<1> HIDE DEF c
<1>3. /\ v \in Versions /\ v.stanza = s /\ v.pkg.name = s.name
      /\ v.pkg \in c.packages /\ v.rels \subseteq c.packages /\ v.provides \subseteq v.rels
  BY <1>2, VersionOK
<1> HIDE DEF v
<1>4. /\ w.stanza = v.stanza /\ w.pkg = v.pkg
      /\ \/ w = v /\ \A u \in c.versions : u.stanza.sum = v.stanza.sum /\ v.stanza.sum # None => u = v
         \/ w \in c.versions
  BY <1>2, <1>3, InternOK
<1> HIDE DEF w
<1>5. /\ DbOK(i)
      /\ w \in i.versions
      /\ i.status = c.status /\ i.available = c.available
      /\ \A available : OffersOK(c, available) => OffersOK(i, available)
  BY <1>2, <1>3, <1>4, IndexOK
<1>6. v.pkg \in Packages /\ w \in Versions
  BY <1>3, <1>5 DEF DbOK, TablesOK, Databases, Versions
<1> QED BY <1>2, <1>3, <1>4, <1>5, <1>6 DEF c, v, w

-----------------------------------------------------------------------------
(***************************************************************************)
(* The inductive invariant                                                 *)
(***************************************************************************)

LEMMA InitInv == Init => IInv
<1> SUFFICES ASSUME Init PROVE IInv
  OBVIOUS
<1>1. DbOK(root) /\ DbOK(db)
  BY EmptyOK DEF Init
<1>2. UpdateOK
  BY DEF Init, UpdateOK, OffersOK, Idle
<1>3. 0 \in 0 .. MaxObjects /\ 0 \in 0 .. MaxSaves
  BY DatabaseAssumption
<1>4. ~open /\ open \in BOOLEAN /\ count = 0 /\ saves = 0 /\ db = Empty /\ update = Idle
  BY DEF Init
<1> QED BY <1>1, <1>2, <1>3, <1>4 DEF IInv

LEMMA SessionSteps ==
  IInv /\ (Open \/ Checkpoint \/ Done \/ Die) => IInv'
<1> SUFFICES ASSUME IInv, Open \/ Checkpoint \/ Done \/ Die PROVE IInv'
  OBVIOUS
<1>1. DbOK(Empty) /\ Idle \in [origin : Origin \union {None},
                                available : SUBSET [origin : Origin, pkg : Packages, ver : Versions]]
      /\ Idle.available = {}
  BY EmptyOK DEF Idle
<1>2. CASE Open
  BY <1>2 DEF IInv, Open, UpdateOK, OffersOK, Idle
<1>3. CASE Checkpoint
  BY <1>3 DEF IInv, Checkpoint, UpdateOK, OffersOK
<1>4. ASSUME EndSession, DbOK(root'), saves' = saves PROVE IInv'
  BY <1>1, <1>4 DEF EndSession, IInv, UpdateOK, OffersOK
<1>5. CASE Done
  <2>1. DbOK(root')
    BY <1>5, CollectOK DEF Done, IInv
  <2> QED BY <1>4, <1>5, <2>1 DEF Done
<1>6. CASE Die
  BY <1>4, <1>6 DEF Die, IInv
<1> QED BY <1>2, <1>3, <1>5, <1>6

\* Objects are created for a database that is as it should be.
LEMMA CreatedOK ==
  ASSUME IInv, NEW d, Created(d), DbOK(d), open, UNCHANGED <<root, open, saves>>, UpdateOK'
  PROVE  IInv'
BY DatabaseAssumption DEF IInv, Created, Fresh

LEMMA StanzaStep ==
  ASSUME IInv, NEW s \in Stanzas, Stanza(s)
  PROVE  IInv'
<1> DEFINE c == Create(db, s.rels \union {s.name}, Fresh)
           v == Version(c, s, Fresh)
           w == Intern(c, v)
           i == Index(c, v, w)
           e == [origin |-> update.origin, pkg |-> v.pkg, ver |-> w]
<1>1. /\ Updating /\ Created(i) /\ UNCHANGED <<root, open, saves>>
      /\ update' = [update EXCEPT !.available = @ \union {e}]
  BY DEF Stanza
<1>2. /\ DbOK(i)
      /\ w \in i.versions /\ w.pkg = v.pkg /\ v.pkg \in Packages /\ w \in Versions
      /\ \A available : OffersOK(db, available) => OffersOK(i, available)
  <2>1. DbOK(db) /\ Fresh \in Nat
    BY DEF IInv, Fresh
  <2> QED BY <2>1, StanzaOK
<1> HIDE DEF v, w, i
<1>3. db' = i /\ open
  BY <1>1 DEF IInv, Created, Updating, Idle
<1>4. update.origin \in Origin /\ e \in [origin : Origin, pkg : Packages, ver : Versions]
  BY <1>1, <1>2 DEF IInv, UpdateOK, Updating
<1>5. UpdateOK'
  BY <1>1, <1>2, <1>3, <1>4 DEF IInv, UpdateOK, OffersOK
<1> QED BY <1>1, <1>2, <1>3, <1>5, CreatedOK

LEMMA UpdateFailsStep ==
  ASSUME IInv, NEW s \in Stanzas, UpdateFails(s)
  PROVE  IInv'
<1>1. PICK names \in SUBSET (s.rels \union {s.name}) : Created(Create(db, names, Fresh))
  BY DEF UpdateFails
<1>2. names \in SUBSET Name
  BY DatabaseAssumption
<1>3. DbOK(Create(db, names, Fresh))
  <2>1. DbOK(db) /\ Fresh \in Nat
    BY DEF IInv, Fresh
  <2> QED BY <1>2, <2>1, CreateOK
<1>4. UpdateOK'
  BY DEF UpdateFails, UpdateOK, OffersOK, Idle
<1> QED BY <1>1, <1>3, <1>4, CreatedOK DEF UpdateFails, Updating, IInv, Idle

LEMMA UpdateSteps ==
  ASSUME IInv, (\E o \in Origin : UpdateBegin(o)) \/ Remove \/ UpdateEnd
  PROVE  IInv'
<1>1. ASSUME NEW o \in Origin, UpdateBegin(o) PROVE IInv'
  <2>1. UpdateOK'
    <3>1. db.available \subseteq [origin : Origin, pkg : Packages, ver : Versions]
      BY DEF IInv, DbOK, TablesOK, Databases
    <3> QED BY <1>1, <3>1 DEF UpdateBegin, IInv, UpdateOK, DbOK, OffersOK
  <2> QED BY <1>1, <2>1 DEF UpdateBegin, IInv
<1>2. ASSUME NEW available \in SUBSET update.available, Keep(available) PROVE IInv'
  BY <1>2 DEF Keep, IInv, UpdateOK, OffersOK, Updating, Idle
<1>3. CASE Remove
  <2>1. PICK available \in SUBSET update.available : Keep(available)
    BY <1>3 DEF Remove
  <2> QED BY <1>2, <2>1
<1>4. CASE UpdateEnd
  <2> DEFINE available == {e \in db.available : e.origin # update.origin} \union update.available
  <2>1. db \in Databases /\ available \in SUBSET [origin : Origin, pkg : Packages, ver : Versions]
    BY DEF IInv, DbOK, TablesOK, UpdateOK, Databases
  <2>2. db' = [db EXCEPT !.available = available] /\ OffersOK(db, available)
    BY <1>4 DEF UpdateEnd, IInv, DbOK, UpdateOK, OffersOK
  <2> HIDE DEF available
  <2>3. /\ db' \in Databases
        /\ db'.available = available /\ db'.status = db.status
        /\ db'.packages = db.packages /\ db'.versions = db.versions
    BY <2>1, <2>2 DEF Databases
  <2>4. DbOK(db')
    BY <2>2, <2>3 DEF IInv, DbOK, TablesOK, NamesUnique, SumsUnique, VersionsOK, OffersOK, StatusOK
  <2>5. UpdateOK'
    BY <1>4 DEF UpdateEnd, UpdateOK, OffersOK, Idle
  <2> QED BY <1>4, <2>4, <2>5 DEF UpdateEnd, IInv, Updating, Idle
<1> QED BY <1>1, <1>3, <1>4

\* What SetStatus and SetStatusFlags have in common.
LEMMA ReplaceStep ==
  ASSUME IInv, open, ~Updating, NEW p \in db.packages,
         NEW new \in [pkg : Packages, ver : Versions \union {None}, manual : BOOLEAN],
         new.pkg = p,
         new.ver # None => new.ver \in db.versions /\ p = new.ver.pkg,
         Replace(Status(db, p), new)
  PROVE  IInv'
<1>1. DbOK(db)
  BY DEF IInv
<1>2. CASE new = Status(db, p)
  BY <1>2 DEF Replace, IInv, UpdateOK
<1>3. CASE new # Status(db, p)
  <2>1. db' = [db EXCEPT !.status = (@ \ {Status(db, p)}) \union {new}]
    BY <1>3 DEF Replace
  <2>2. DbOK(db')
    BY <1>1, <2>1, ReplaceOK
  <2>3. db'.versions = db.versions
    BY <1>1, <2>1 DEF DbOK, TablesOK, Databases
  <2> QED BY <2>2, <2>3 DEF Replace, IInv, UpdateOK, OffersOK
<1> QED BY <1>2, <1>3

\* The new entries of both actions.
LEMMA NewStatus ==
  ASSUME IInv, NEW p \in db.packages
  PROVE  LET old == Status(db, p) IN
         /\ \A v \in {e.ver : e \in {e \in db.available : e.pkg = p}} \union {None} :
              LET new == [old EXCEPT !.ver = v] IN
              /\ new \in [pkg : Packages, ver : Versions \union {None}, manual : BOOLEAN]
              /\ new.pkg = p /\ new.ver = v /\ new.manual = old.manual
              /\ v # None => v \in db.versions /\ p = v.pkg
         /\ \A m \in BOOLEAN :
              LET new == [old EXCEPT !.manual = m] IN
              /\ new \in [pkg : Packages, ver : Versions \union {None}, manual : BOOLEAN]
              /\ new.pkg = p /\ new.ver = old.ver /\ new.manual = m
         /\ old.ver # None => old.ver \in db.versions /\ p = old.ver.pkg
<1>1. DbOK(db) /\ db \in Databases
  BY DEF IInv, DbOK, TablesOK
<1>2. /\ Status(db, p) \in [pkg : Packages, ver : Versions \union {None}, manual : BOOLEAN]
      /\ Status(db, p).pkg = p
      /\ Status(db, p) \in db.status \/ Status(db, p) = [pkg |-> p, ver |-> None, manual |-> FALSE]
  BY <1>1, StatusOf
<1>3. \A e \in db.available : e.ver \in Versions /\ e.ver \in db.versions /\ e.pkg = e.ver.pkg
  BY <1>1 DEF DbOK, OffersOK, Databases
<1>4. Status(db, p).ver # None => Status(db, p).ver \in db.versions /\ p = Status(db, p).ver.pkg
  BY <1>1, <1>2 DEF DbOK, StatusOK
<1> QED BY <1>2, <1>3, <1>4

LEMMA StatusSteps ==
  ASSUME IInv, SetStatus \/ SetStatusFlags
  PROVE  IInv'
<1>1. CASE SetStatus
  <2>1. PICK p \in db.packages :
          \E v \in {e.ver : e \in {e \in db.available : e.pkg = p}} \union {None} :
            Replace(Status(db, p), [Status(db, p) EXCEPT !.ver = v])
    BY <1>1 DEF SetStatus
  <2> QED BY <1>1, <2>1, NewStatus, ReplaceStep DEF SetStatus
<1>2. CASE SetStatusFlags
  <2>1. PICK p \in db.packages, m \in BOOLEAN :
          Replace(Status(db, p), [Status(db, p) EXCEPT !.manual = m])
    BY <1>2 DEF SetStatusFlags
  <2> QED BY <1>2, <2>1, NewStatus, ReplaceStep DEF SetStatusFlags
<1> QED BY <1>1, <1>2

LEMMA NextInv == IInv /\ [Next]_vars => IInv'
<1> SUFFICES ASSUME IInv, [Next]_vars PROVE IInv'
  OBVIOUS
<1>1. CASE UNCHANGED vars
  BY <1>1 DEF vars, IInv, UpdateOK
<1> QED BY <1>1, SessionSteps, StanzaStep, UpdateFailsStep, UpdateSteps, StatusSteps DEF Next

LEMMA Invariance == Spec => []IInv
BY InitInv, NextInv, PTL DEF Spec

-----------------------------------------------------------------------------
(***************************************************************************)
(* The safety properties                                                   *)
(***************************************************************************)

\* A package that the status or an origin refers to is in the table, the
\* installed version is one of it, and a package has one status.
THEOREM TypeCorrect == Spec => []TypeOK
<1>1. IInv => TypeOK
  <2> SUFFICES ASSUME IInv PROVE TypeOK
    OBVIOUS
  <2>1. ASSUME NEW d, DbOK(d)
        PROVE  /\ \A p \in d.packages : p.name \in Name
               /\ \A e \in d.status : e.pkg \in d.packages /\ (e.ver # None => e.ver.pkg = e.pkg)
               /\ \A e, f \in d.status : e.pkg = f.pkg => e = f
               /\ \A e \in d.available : e.origin \in Origin
    BY <2>1 DEF DbOK, TablesOK, Databases, Packages, StatusOK
  <2> QED BY <2>1 DEF TypeOK, IInv, UpdateOK
<1> QED BY <1>1, Invariance, PTL

\* What the references of a session reach is in its tables.
LEMMA HeldInTables ==
  ASSUME IInv
  PROVE  LiveVersions(Held) \subseteq db.versions /\ LivePackages(Held) \subseteq db.packages
<1>1. /\ Held.available = db.available \union update.available
      /\ Held.status = db.status
  BY DEF IInv, DbOK, TablesOK, Databases, Held
<1>2. LiveVersions(Held) \subseteq db.versions
  BY <1>1 DEF LiveVersions, IInv, DbOK, OffersOK, StatusOK, UpdateOK
<1>3. \A v \in db.versions : v.pkg \in db.packages /\ v.rels \subseteq db.packages
  BY DEF IInv, DbOK, TablesOK, VersionsOK
<1>4. \A e \in Held.available \union Held.status : e.pkg \in db.packages
  BY <1>1, <1>3 DEF IInv, DbOK, OffersOK, StatusOK, UpdateOK
<1>5. LivePackages(Held) \subseteq db.packages
  BY <1>2, <1>3, <1>4 DEF LivePackages
<1> QED BY <1>2, <1>5

\* However often a package was forgotten by a collection and created again,
\* all references mean the one that is found by its name.
THEOREM OnePackagePerName == Spec => []PackagesUnique
<1>1. IInv => PackagesUnique
  <2> SUFFICES ASSUME IInv,
                      NEW p \in LivePackages(Held) \union UNION {v.rels : v \in db.versions}
               PROVE  Find(db, p.name) = {p}
    BY DEF PackagesUnique
  <2>1. p \in db.packages
    BY HeldInTables DEF IInv, DbOK, TablesOK, VersionsOK
  <2> QED BY <2>1 DEF Find, IInv, DbOK, TablesOK, NamesUnique
<1> QED BY <1>1, Invariance, PTL

\* A version with a checksum is one object in all origins and in the status.
THEOREM OneVersionPerSum == Spec => []VersionsShared
<1>1. IInv => VersionsShared
  BY HeldInTables DEF VersionsShared, IInv, DbOK, TablesOK, SumsUnique
<1> QED BY <1>1, Invariance, PTL

\* Index adds to the indexes what it adds to the table, and Collect takes from
\* them what it takes from the table.
LEMMA IndexesStay ==
  ASSUME NEW d \in Databases, IndexesOK(d)
  PROVE  /\ \A v \in Versions : \A w : IndexesOK(Index(d, v, w))
         /\ IndexesOK(Collect(d))
         /\ \A names, n : IndexesOK(Create(d, names, n))
<1> DEFINE R(v) == {[key |-> p, ver |-> v] : p \in v.rels}
           P(v) == {[key |-> p, ver |-> v] : p \in v.provides}
           T(v) == {[key |-> t, ver |-> v] : t \in v.stanza.tags}
<1>0. /\ d.reverse = UNION {R(v) : v \in d.versions}
      /\ d.provides = UNION {P(v) : v \in d.versions}
      /\ d.tags = UNION {T(v) : v \in d.versions}
  BY DEF IndexesOK
<1>1. ASSUME NEW v \in Versions, NEW w PROVE IndexesOK(Index(d, v, w))
  <2>1. CASE v # w
    BY <2>1 DEF Index
  <2>2. CASE v = w
    <3> DEFINE c == Index(d, v, w)
    <3>1. /\ c.versions = d.versions \union {v}
          /\ c.reverse = d.reverse \union R(v)
          /\ c.provides = d.provides \union P(v)
          /\ c.tags = d.tags \union T(v)
      BY <2>2 DEF Index, Databases
    <3>2. /\ c.reverse = UNION {R(u) : u \in c.versions}
          /\ c.provides = UNION {P(u) : u \in c.versions}
          /\ c.tags = UNION {T(u) : u \in c.versions}
      <4> HIDE DEF c, R, P, T
      <4> QED BY <1>0, <3>1
    <3> QED BY <3>2 DEF IndexesOK
  <2> QED BY <2>1, <2>2
<1>2. IndexesOK(Collect(d))
  <2> DEFINE c == Collect(d)
             live == LiveVersions(d)
  <2>1. /\ c.versions = d.versions \intersect live
        /\ c.reverse = {e \in d.reverse : e.ver \in live}
        /\ c.provides = {e \in d.provides : e.ver \in live}
        /\ c.tags = {e \in d.tags : e.ver \in live}
    BY DEF Collect, Databases
  <2>2. \A v : \A e \in R(v) \union P(v) \union T(v) : e.ver = v
    OBVIOUS
  <2>3. /\ c.reverse = UNION {R(u) : u \in c.versions}
        /\ c.provides = UNION {P(u) : u \in c.versions}
        /\ c.tags = UNION {T(u) : u \in c.versions}
    <3> HIDE DEF c, live, R, P, T
    <3> QED BY <1>0, <2>1, <2>2
  <2> QED BY <2>3 DEF IndexesOK
<1>3. ASSUME NEW names, NEW n PROVE IndexesOK(Create(d, names, n))
  BY DEF Create, Databases, IndexesOK
<1> QED BY <1>1, <1>2, <1>3

\* An error between a package and its version, a collection, a session that
\* ends: the indexes have what is in the table of versions and nothing else.
THEOREM IndexesAreExact == Spec => []IndexesExact
<1>1. Init => IndexesExact
  BY EmptyOK DEF Init, IndexesExact, IndexesOK
<1>2. IInv /\ IndexesExact /\ [Next]_vars => IndexesExact'
  <2> SUFFICES ASSUME IInv, IndexesExact, [Next]_vars PROVE IndexesExact'
    OBVIOUS
  <2>1. /\ root \in Databases /\ db \in Databases
        /\ IndexesOK(root) /\ IndexesOK(db) /\ IndexesOK(Empty)
    BY EmptyOK DEF IInv, DbOK, TablesOK, IndexesExact, IndexesOK
  <2>2. SUFFICES IndexesOK(root') /\ IndexesOK(db')
    BY DEF IndexesExact, IndexesOK
  <2>3. CASE Open \/ Checkpoint \/ Die
    BY <2>1, <2>3 DEF Open, Checkpoint, Die, EndSession
  <2>4. CASE Done
    BY <2>1, <2>4, IndexesStay DEF Done, EndSession
  <2>5. ASSUME NEW s \in Stanzas, Stanza(s) PROVE IndexesOK(root') /\ IndexesOK(db')
    <3> DEFINE c == Create(db, s.rels \union {s.name}, Fresh)
               v == Version(c, s, Fresh)
    <3>1. db' = Index(c, v, Intern(c, v)) /\ root' = root
      BY <2>5 DEF Stanza, Created
    <3>2. DbOK(c) /\ v \in Versions
      <4>1. DbOK(db) /\ Fresh \in Nat
        BY DEF IInv, Fresh
      <4> QED BY <4>1, StanzaOK
    <3>3. c \in Databases /\ IndexesOK(c)
      BY <2>1, <3>2, IndexesStay DEF DbOK, TablesOK
    <3> QED BY <2>1, <3>1, <3>2, <3>3, IndexesStay
  <2>6. ASSUME NEW s \in Stanzas, UpdateFails(s) PROVE IndexesOK(root') /\ IndexesOK(db')
    BY <2>1, <2>6, IndexesStay DEF UpdateFails, Created
  <2>7. CASE (\E o \in Origin : UpdateBegin(o)) \/ Remove
    BY <2>1, <2>7 DEF UpdateBegin, Remove, Keep
  <2>8. ASSUME NEW status, NEW available,
               root' = root, db' = [db EXCEPT !.status = status] \/ db' = [db EXCEPT !.available = available]
        PROVE  IndexesOK(root') /\ IndexesOK(db')
    BY <2>1, <2>8 DEF Databases, IndexesOK
  <2>9. CASE UpdateEnd
    BY <2>8, <2>9 DEF UpdateEnd
  <2>10. CASE SetStatus \/ SetStatusFlags
    <3>1. PICK old, new : Replace(old, new)
      BY <2>10 DEF SetStatus, SetStatusFlags
    <3> QED BY <2>1, <2>8, <3>1 DEF Replace
  <2>11. CASE UNCHANGED vars
    BY <2>1, <2>11 DEF vars
  <2> QED BY <2>3, <2>4, <2>5, <2>6, <2>7, <2>9, <2>10, <2>11 DEF Next
<1> QED BY <1>1, <1>2, Invariance, PTL DEF Spec

-----------------------------------------------------------------------------
(***************************************************************************)
(* The refinement                                                          *)
(***************************************************************************)

\* Offers, Installed and Manual only depend on two fields.
LEMMA SeenFields ==
  ASSUME NEW c, NEW d, c.available = d.available, c.status = d.status
  PROVE  Offers(c) = Offers(d) /\ Installed(c) = Installed(d) /\ Manual(c) = Manual(d)
BY DEF Offers, Installed, Manual

LEMMA InstalledIs ==
  ASSUME NEW d, DbOK(d), NEW e \in d.status, e.ver # None
  PROVE  e.pkg.name \in Name /\ Installed(d)[e.pkg.name] = e.ver.stanza
<1>1. /\ e.pkg \in d.packages /\ d.packages \subseteq Packages
  BY DEF DbOK, StatusOK, TablesOK, Databases
<1>2. e.pkg.name \in Name
  BY <1>1 DEF Packages
<1>3. \A f \in d.status : f.pkg.name = e.pkg.name => f = e
  BY <1>1 DEF DbOK, StatusOK, TablesOK, NamesUnique
<1>4. (CHOOSE f \in d.status : f.pkg.name = e.pkg.name /\ f.ver # None) = e
  BY <1>3
<1> QED BY <1>2, <1>4 DEF Installed

\* A status that is replaced changes what is seen of one package.
LEMMA ReplaceSeen ==
  ASSUME NEW d, DbOK(d), NEW p \in d.packages,
         NEW new \in [pkg : Packages, ver : Versions \union {None}, manual : BOOLEAN],
         new.pkg = p, new.ver # None => new.ver \in d.versions /\ p = new.ver.pkg,
         NEW c, c = [d EXCEPT !.status = (@ \ {Status(d, p)}) \union {new}],
         NEW s, s = IF new.ver = None THEN None ELSE new.ver.stanza
  PROVE  /\ Offers(c) = Offers(d)
         /\ p.name \in Name
         /\ Installed(c) = [Installed(d) EXCEPT ![p.name] = s]
         /\ new.ver = Status(d, p).ver => Installed(c) = Installed(d)
         /\ Manual(c) = IF new.manual THEN Manual(d) \union {p.name} ELSE Manual(d) \ {p.name}
         /\ new.manual = Status(d, p).manual => Manual(c) = Manual(d)
<1> DEFINE old == Status(d, p)
<1>1. DbOK(c)
  BY ReplaceOK
<1>2. /\ d \in Databases /\ d.packages \subseteq Packages /\ p.name \in Name
      /\ c.available = d.available /\ c.packages = d.packages
      /\ c.status = (d.status \ {old}) \union {new}
  BY DEF DbOK, TablesOK, Databases, Packages
<1>3. /\ old.pkg = p
      /\ old \in d.status \/ (old.ver = None /\ ~old.manual)
      /\ \A e \in d.status : e.pkg = p => e = old
  BY StatusOf
<1> HIDE DEF old
<1>4. \A e \in d.status \union c.status : e.pkg.name = p.name => e.pkg = p
  BY <1>1, <1>2 DEF DbOK, StatusOK, TablesOK, NamesUnique
<1>5. \A e : e.pkg.name # p.name => (e \in c.status <=> e \in d.status)
  BY <1>2, <1>3
<1>6. \A e \in c.status : e.pkg = p => e = new
  BY <1>2, <1>3
<1>7. Offers(c) = Offers(d)
  BY <1>2 DEF Offers
<1>8. Installed(c) = [Installed(d) EXCEPT ![p.name] = s]
  <2>1. ASSUME NEW n \in Name, n = p.name PROVE Installed(c)[n] = s
    <3>1. CASE new.ver # None
      BY <1>1, <1>2, <2>1, <3>1, InstalledIs
    <3>2. CASE new.ver = None
      BY <1>4, <1>6, <2>1, <3>2 DEF Installed
    <3> QED BY <3>1, <3>2
  <2>2. ASSUME NEW n \in Name, n # p.name PROVE Installed(c)[n] = Installed(d)[n]
    <3>1. \A e : e.pkg.name = n /\ e.ver # None => (e \in c.status <=> e \in d.status)
      BY <1>5, <2>2
    <3>2. CASE \E e \in c.status : e.pkg.name = n /\ e.ver # None
      <4>1. PICK e \in c.status : e.pkg.name = n /\ e.ver # None
        BY <3>2
      <4>2. Installed(c)[n] = e.ver.stanza
        BY <1>1, <4>1, InstalledIs
      <4>3. Installed(d)[n] = e.ver.stanza
        BY <3>1, <4>1, InstalledIs
      <4> QED BY <4>2, <4>3
    <3>3. CASE ~\E e \in c.status : e.pkg.name = n /\ e.ver # None
      BY <3>1, <3>3 DEF Installed
    <3> QED BY <3>2, <3>3
  <2> QED BY <2>1, <2>2, <1>2 DEF Installed
<1>9. ASSUME new.ver = old.ver PROVE Installed(c) = Installed(d)
  <2>1. Installed(d)[p.name] = s
    <3>1. CASE old.ver # None
      BY <1>2, <1>3, <1>9, <3>1, InstalledIs
    <3>2. CASE old.ver = None
      BY <1>2, <1>3, <1>4, <1>9, <3>2 DEF Installed
    <3> QED BY <3>1, <3>2
  <2> QED BY <1>8, <2>1 DEF Installed
<1>10. Manual(c) = IF new.manual THEN Manual(d) \union {p.name} ELSE Manual(d) \ {p.name}
  <2>1. new \in c.status /\ new.pkg.name = p.name /\ new.manual \in BOOLEAN
    BY <1>2
  <2>2. ASSUME NEW n, n # p.name PROVE n \in Manual(c) <=> n \in Manual(d)
    BY <1>5, <2>2 DEF Manual
  <2>3. p.name \in Manual(c) <=> new.manual
    BY <1>4, <1>6, <2>1 DEF Manual
  <2> QED BY <2>2, <2>3
<1>11. ASSUME new.manual = old.manual PROVE Manual(c) = Manual(d)
  <2>1. p.name \in Manual(d) <=> new.manual
    BY <1>3, <1>4, <1>11 DEF Manual
  <2> QED BY <1>10, <2>1
<1> QED BY <1>2, <1>7, <1>8, <1>9, <1>10, <1>11 DEF old

\* The variables of Origins, as Promise has them.
SeenOffers == Offers(Current)
SeenInstalled == Installed(Current)
SeenManual == Manual(Current)
Saved == <<Offers(root), Installed(root), Manual(root)>>
Pending == {e.ver.stanza : e \in update.available}

LEMMA InitRefines == Init => Promise!Init
<1> SUFFICES ASSUME Init PROVE Promise!Init
  OBVIOUS
<1>1. Current = Empty /\ root = Empty /\ update = Idle
  BY DEF Init, Current
<1>2. /\ Offers(Empty) = [o \in Origin |-> {}]
      /\ Installed(Empty) = [n \in Name |-> None]
      /\ Manual(Empty) = {}
  BY DEF Offers, Installed, Manual, Empty
<1> QED BY <1>1, <1>2 DEF Promise!Init, Idle

\* A session begins with what was saved, and a checkpoint saves what it sees.
LEMMA SessionRefines ==
  ASSUME IInv, Open \/ Checkpoint \/ Done \/ Die
  PROVE  [Promise!Next]_(Promise!vars)
<1>1. CASE Open
  BY <1>1 DEF Open, Current, Promise!vars
<1>2. CASE Checkpoint
  BY <1>2 DEF Checkpoint, Current, Updating, Promise!Next, Promise!Checkpoint
<1>3. ASSUME EndSession, open,
             Offers(root') = Offers(root), Installed(root') = Installed(root), Manual(root') = Manual(root)
      PROVE  Promise!Reopen
  BY <1>3 DEF EndSession, Current, Idle, Promise!Reopen
<1>4. CASE Done
  <2>1. root' = root \/ root' = Collect(root)
    BY <1>4 DEF Done
  <2>2. Offers(root') = Offers(root) /\ Installed(root') = Installed(root) /\ Manual(root') = Manual(root)
    BY <2>1, CollectOK, SeenFields DEF IInv
  <2> QED BY <1>3, <1>4, <2>2 DEF Done, Promise!Next
<1>5. CASE Die
  BY <1>3, <1>5 DEF Die, Promise!Next
<1> QED BY <1>1, <1>2, <1>4, <1>5

\* A stanza creates objects, of which nothing is seen before the update ends.
LEMMA StanzaRefines ==
  ASSUME IInv, NEW s \in Stanzas, Stanza(s)
  PROVE  Promise!Next
<1> DEFINE c == Create(db, s.rels \union {s.name}, Fresh)
           v == Version(c, s, Fresh)
           w == Intern(c, v)
           i == Index(c, v, w)
<1>1. /\ i.status = db.status /\ i.available = db.available
      /\ w.stanza = s
  <2>1. DbOK(db) /\ Fresh \in Nat
    BY DEF IInv, Fresh
  <2> QED BY <2>1, StanzaOK
<1>2. /\ Updating /\ db' = i /\ UNCHANGED <<root, open>>
      /\ update' = [update EXCEPT !.available =
           @ \union {[origin |-> update.origin, pkg |-> v.pkg, ver |-> w]}]
  BY DEF Stanza, Created
<1> HIDE DEF v, w, i
<1>3. open /\ update'.origin = update.origin /\ Pending' = Pending \union {s}
  <2> DEFINE e == [origin |-> update.origin, pkg |-> v.pkg, ver |-> w]
  <2>1. e.ver = w /\ update' = [update EXCEPT !.available = @ \union {e}]
    BY <1>2
  <2> HIDE DEF e
  <2>2. update'.origin = update.origin /\ update'.available = update.available \union {e}
    BY <2>1 DEF IInv, UpdateOK
  <2>3. Pending' = Pending \union {s}
    BY <1>1, <2>1, <2>2 DEF Pending
  <2> QED BY <1>2, <2>2, <2>3 DEF IInv, Updating, Idle
<1>4. UNCHANGED <<SeenOffers, SeenInstalled, SeenManual, Saved>>
  BY <1>1, <1>2, <1>3, SeenFields DEF SeenOffers, SeenInstalled, SeenManual, Saved, Current
<1>5. Promise!Entry(Pending \union {s})
  BY <1>2, <1>3, <1>4
  DEF Promise!Entry, Updating, SeenOffers, SeenInstalled, SeenManual, Saved, Pending
<1>6. Promise!Entries
  BY <1>5 DEF Promise!Entries, Pending
<1> QED BY <1>6 DEF Promise!Next

LEMMA UpdateFailsRefines ==
  ASSUME IInv, NEW s \in Stanzas, UpdateFails(s)
  PROVE  Promise!Next
<1>1. PICK names : db' = Create(db, names, Fresh)
  BY DEF UpdateFails, Created
<1>2. db'.available = db.available /\ db'.status = db.status
  BY <1>1 DEF Create, IInv, DbOK, TablesOK, Databases
<1>3. open /\ UNCHANGED <<root, open>> /\ update' = Idle /\ Updating
  BY DEF UpdateFails, IInv, Updating, Idle
<1>4. UNCHANGED <<SeenOffers, SeenInstalled, SeenManual, Saved>>
  BY <1>2, <1>3, SeenFields DEF SeenOffers, SeenInstalled, SeenManual, Saved, Current
<1>5. Promise!Fail
  BY <1>3, <1>4 DEF Promise!Fail, Updating, Idle, SeenOffers, SeenInstalled, SeenManual, Saved
<1> QED BY <1>5 DEF Promise!Next

LEMMA UpdateBeginRefines ==
  ASSUME IInv, NEW o \in Origin, UpdateBegin(o)
  PROVE  Promise!Next
<1>1. /\ open /\ ~Updating /\ UNCHANGED <<root, open, db>>
      /\ update' = [origin |-> o, available |-> {e \in db.available : e.origin = o}]
  BY DEF UpdateBegin
<1>2. Promise!Begin(o)
  BY <1>1 DEF Promise!Begin, Updating, Offers, Current
<1> QED BY <1>2 DEF Promise!Next

\* A package is removed by its object, and a stanza by the name in it.
LEMMA RemoveRefines ==
  ASSUME IInv, Remove
  PROVE  Promise!Next
<1>1. /\ \A e \in update.available : \A n : e.pkg \in Find(db, n) <=> e.ver.stanza.name = n
      /\ \A e \in update.available : e.ver.stanza \in Stanzas
  BY DEF IInv, UpdateOK, OffersOK, DbOK, TablesOK, VersionsOK, Databases, Versions, Find
<1>2. update \in [origin : Origin \union {None},
                  available : SUBSET [origin : Origin, pkg : Packages, ver : Versions]]
  BY DEF IInv, UpdateOK
<1>3. CASE Keep({})
  <2>1. {e.ver.stanza : e \in {}} = {}
    OBVIOUS
  <2>2. Promise!Entry({})
    BY <1>2, <1>3, <2>1 DEF Keep, Promise!Entry, Updating, Current
  <2> QED BY <2>2 DEF Promise!Entries, Promise!Next
<1>4. ASSUME NEW n \in Name, Keep({e \in update.available : e.pkg \notin Find(db, n)})
      PROVE  Promise!Next
  <2> DEFINE available == {e \in update.available : e.pkg \notin Find(db, n)}
             new == {t \in Pending : t.name # n}
  <2>1. {e.ver.stanza : e \in available} = new
    BY <1>1 DEF Pending
  <2>2. Promise!Entry(new) => Promise!Entries
    BY DEF Promise!Entries, Pending
  <2>3. Keep(available)
    BY <1>4
  <2> HIDE DEF available, new
  <2>4. Promise!Entry(new)
    BY <1>2, <2>1, <2>3 DEF Keep, Promise!Entry, Updating, Current
  <2> QED BY <2>2, <2>4 DEF Promise!Next
<1>5. ASSUME NEW s \in Stanzas,
             Keep({e \in update.available : e.pkg \notin Find(db, s.name) \/ e.ver.stanza.ver # s.ver})
      PROVE  Promise!Next
  <2> DEFINE available == {e \in update.available :
                             e.pkg \notin Find(db, s.name) \/ e.ver.stanza.ver # s.ver}
             new == {t \in Pending : t.name # s.name \/ t.ver # s.ver}
  <2>1. {e.ver.stanza : e \in available} = new
    BY <1>1 DEF Pending
  <2>2. Promise!Entry(new) => Promise!Entries
    BY DEF Promise!Entries, Pending
  <2>3. Keep(available)
    BY <1>5
  <2> HIDE DEF available, new
  <2>4. Promise!Entry(new)
    BY <1>2, <2>1, <2>3 DEF Keep, Promise!Entry, Updating, Current
  <2> QED BY <2>2, <2>4 DEF Promise!Next
<1> QED BY <1>3, <1>4, <1>5 DEF Remove

LEMMA UpdateEndRefines ==
  ASSUME IInv, UpdateEnd
  PROVE  Promise!Next
<1>1. /\ open /\ update.origin \in Origin /\ update' = Idle /\ UNCHANGED <<root, open>>
      /\ db' = [db EXCEPT !.available = {e \in @ : e.origin # update.origin} \union update.available]
  BY DEF UpdateEnd, IInv, UpdateOK, Updating, Idle
<1>2. /\ db'.available = {e \in db.available : e.origin # update.origin} \union update.available
      /\ db'.status = db.status
  BY <1>1 DEF IInv, DbOK, TablesOK, Databases
<1>3. \A e \in update.available : e.origin = update.origin
  BY DEF IInv, UpdateOK
<1>4. Offers(db') = [Offers(db) EXCEPT ![update.origin] = Pending]
  <2>1. ASSUME NEW o \in Origin
        PROVE  {e \in db'.available : e.origin = o}
                 = IF o = update.origin THEN update.available ELSE {e \in db.available : e.origin = o}
    BY <1>2, <1>3
  <2> QED BY <1>1, <2>1 DEF Offers, Pending
<1>5. Installed(db') = Installed(db) /\ Manual(db') = Manual(db)
  BY <1>2 DEF Installed, Manual
<1>6. Promise!End
  BY <1>1, <1>4, <1>5, DatabaseAssumption DEF Promise!End, Current, Idle, Pending
<1> QED BY <1>6 DEF Promise!Next

LEMMA StatusRefines ==
  ASSUME IInv, SetStatus \/ SetStatusFlags
  PROVE  [Promise!Next]_(Promise!vars)
<1>1. DbOK(db) /\ open /\ update.origin = None /\ UNCHANGED <<root, open, update>>
  BY DEF SetStatus, SetStatusFlags, Replace, IInv, Updating
<1>2. CASE db' = db
  BY <1>1, <1>2 DEF Promise!vars, Current
<1>3. CASE SetStatus /\ db' # db
  <2>1. PICK p \in db.packages :
          \E v \in {e.ver : e \in {e \in db.available : e.pkg = p}} \union {None} :
            Replace(Status(db, p), [Status(db, p) EXCEPT !.ver = v])
    BY <1>3 DEF SetStatus
  <2>2. PICK v \in {e.ver : e \in {e \in db.available : e.pkg = p}} \union {None} :
          Replace(Status(db, p), [Status(db, p) EXCEPT !.ver = v])
    BY <2>1
  <2> DEFINE new == [Status(db, p) EXCEPT !.ver = v]
             s == IF v = None THEN None ELSE v.stanza
  <2>3. /\ new \in [pkg : Packages, ver : Versions \union {None}, manual : BOOLEAN]
        /\ new.pkg = p /\ new.ver = v /\ new.manual = Status(db, p).manual
        /\ v # None => v \in db.versions /\ p = v.pkg
    BY NewStatus
  <2>4. db' = [db EXCEPT !.status = (@ \ {Status(db, p)}) \union {new}]
    BY <1>3, <2>2 DEF Replace
  <2> HIDE DEF new
  <2>5. /\ Offers(db') = Offers(db) /\ Manual(db') = Manual(db)
        /\ p.name \in Name /\ Installed(db') = [Installed(db) EXCEPT ![p.name] = s]
    BY <1>1, <2>3, <2>4, ReplaceSeen
  <2>6. s \in Stanzas \union {None} /\ (s = None \/ s.name = p.name)
    BY <2>3 DEF IInv, DbOK, TablesOK, Databases, Versions, VersionsOK
  <2>7. Promise!Install(p.name, s)
    <3> HIDE DEF s
    <3> QED BY <1>1, <2>5, <2>6 DEF Promise!Install, Current
  <2> QED BY <2>5, <2>6, <2>7 DEF Promise!Next
<1>4. CASE SetStatusFlags /\ db' # db
  <2>1. PICK p \in db.packages, m \in BOOLEAN :
          Replace(Status(db, p), [Status(db, p) EXCEPT !.manual = m])
    BY <1>4 DEF SetStatusFlags
  <2> DEFINE new == [Status(db, p) EXCEPT !.manual = m]
  <2>2. /\ new \in [pkg : Packages, ver : Versions \union {None}, manual : BOOLEAN]
        /\ new.pkg = p /\ new.ver = Status(db, p).ver /\ new.manual = m
        /\ new.ver # None => new.ver \in db.versions /\ p = new.ver.pkg
    BY NewStatus
  <2>3. db' = [db EXCEPT !.status = (@ \ {Status(db, p)}) \union {new}]
    BY <1>4, <2>1 DEF Replace
  <2> HIDE DEF new
  <2>4. /\ Offers(db') = Offers(db) /\ Installed(db') = Installed(db) /\ p.name \in Name
        /\ Manual(db') \in {Manual(db) \union {p.name}, Manual(db) \ {p.name}}
    BY <1>1, <2>2, <2>3, ReplaceSeen
  <2>5. Promise!SetManual(p.name)
    BY <1>1, <2>4 DEF Promise!SetManual, Current
  <2> QED BY <2>4, <2>5 DEF Promise!Next
<1> QED BY <1>2, <1>3, <1>4

LEMMA NextRefines == IInv /\ [Next]_vars => [Promise!Next]_(Promise!vars)
<1> SUFFICES ASSUME IInv, [Next]_vars PROVE [Promise!Next]_(Promise!vars)
  OBVIOUS
<1>1. CASE UNCHANGED vars
  BY <1>1 DEF vars, Promise!vars, Current
<1> QED BY <1>1, SessionRefines, StanzaRefines, UpdateFailsRefines, UpdateBeginRefines,
           RemoveRefines, UpdateEndRefines, StatusRefines DEF Next

\* The tables with weak references, their indexes and their collections, the
\* sessions and the updates that fail, implement what Origins says of stanzas.
THEOREM Refinement == Spec => ImplementsOrigins
BY InitRefines, Invariance, NextRefines, PTL DEF Spec, ImplementsOrigins, Promise!Spec

=============================================================================
