# A verification project for dpm

dpm is a package manager experiment for Debian systems, written in C
(`libdpm/`).  It keeps what it knows about packages in a *struct-store*, a
file that is mapped into memory and never changed in place, and decides what
to install with a *workspace* of candidates and their dependencies.

This directory has TLA+ models of the parts where that is hard to get right,
TLC configurations that check them on small instances, and proofs, checked by
TLAPS, of what holds for every instance.  `PROJECT.json` lists the components,
the runs, the hazards that the properties are aimed at, which lines of the
code each definition stands for, and what the checks have found.

To repeat a check: `tlc -workers 2 -config StoreCommit.cfg MCStoreCommit`; to
repeat a proof: `tlapm StoreCommit_proofs.tla`.

## The system

| component | state | operations | talks to |
|---|---|---|---|
| struct-store file (`store.c:101-394`) | mapped file, header, allocation pointer, counts | `ss_open`, `ss_alloc`, `ss_set_root`/`ss_sync`, closing | kernel: page cache, write-back, locks |
| garbage collector (`store.c:412-870`) | from- and to-space, forwarding pointers, delayed weak dicts | `ss_gc`, `ss_maybe_gc` | struct-store file, directory (rename) |
| objects (`store.c:872-1296`) | stored objects (immutable), unstored ones (malloc) | `ss_new`, `ss_append`, ..., `ss_store_object` | file |
| tables, dictionaries (`store.c:1296-2482`) | hash tries of search and dispatch nodes | intern, get, set, add, del, store, iterators | objects, collector |
| dynamic extents (`dyn.c`) | windlist, dynamic variables, reference counts | begin/end, let, catch/throw, signal | everything |
| streams (`dyn.c`), parsing (`parse.c`) | buffer, mark | grow, find, advance | database |
| database (`db.c`) | roots of the dictionaries, status, origins | open, checkpoint, done, origin update, version comparison | store, tries, parsing |
| policy (`pol.c`) | dynamic variable | best version | database |
| workspace (`ws.c`) | seats, candidates, deps with counters, selection | add candidates, set goal, start, select | database, policy |
| algorithms (`alg.c`) | candidate sets, priority queue, order tags | install naively, order, clean up the goal, execute | workspace, actions |
| actions (`inst.c`) | status of packages | install, remove, unpack, set manual | database |
| tools (`tool.c`, `store-tool.c`) | command line | one command per process | all of it |

There are no threads.  What runs concurrently is the *kernel*, which writes
pages of the mapped file back whenever it likes, *other processes* that open
the same database, and *failures*: a process can be killed and the power can
fail between any two stores.  Inside one process the hard parts are the order
in which the collector meets objects, counters that are kept up to date
incrementally, and control that leaves in the middle (`dyn_throw`).

What makes each component correct:

* **file**: values never change; setting the root is atomic, for readers, for
  killed processes and for power failures (`store.h:38-42`); one client at a
  time (`store.h:26`).
* **collector**: what is reachable stays, references in the new store lead to
  copies, garbage goes, weak entries go with their key and not before
  (`store.h:69-76`), numbered records are numbered without gaps.
* **tries**: they are maps and sets with structural sharing, old versions
  included.
* **workspace**: deps say what the relations say, the counters are exact, and
  the reversed deps follow from the others (`ws.h:46-83`).
* **algorithms**: a component is visited after what it depends on, the result
  is not broken, the goal is met or reported as not.
* **extents**: every item is unwound once, in order, by `dyn_end` and by
  `dyn_throw`.

## Modules

| module | models |
|---|---|
| `AtomicRoot` | what a struct-store promises about values and the root (abstract) |
| `StoreCommit` | one file, one process at a time, the kernel and failures |
| `StoreFiles` | several processes, the directory, locks and collections |
| `StoreGc` | the collector's traversal of the heap |
| `SharedMap` | what a table or dictionary promises: a map that keeps its old versions (abstract) |
| `Dict` | hash tries of stored and unstored nodes, iterators |
| `Workspace` | candidates, deps, selection |
| `Components` | what the ordering promises (abstract) |
| `Order` | the depth first search with its stack and tags |
| `Plan` | `dpm install` until the plan: `Workspace`, the naive walk, cleanup, sweeping |
| `Execute` | `dpm install` from the plan to the last status: `Plan`, `alg.c` and `inst.c` |
| `Origins` | what origins offer and packages have installed, session by session (abstract) |
| `Database` | packages and versions, weak tables, indexes, updates, sessions |
| `DebianOrder` | the order of versions, as apt has it (abstract) |
| `Versions` | `compare_fragment` and the splitting of a version, pointer by pointer |
| `Scopes` | what extents, variables, values and catches promise (abstract) |
| `Extents` | the windlist, shallow binding and reference counts |
| `MC...` | constants for TLC |
| `..._proofs` | theorems |

What composes what: `Execute` extends `Plan`, which extends `Workspace`; both
take the components they visit from `Components`, which `Order` implements.
`StoreFiles` has of a file what `AtomicRoot` promises.  `Database` has of its
tables and dictionaries what `SharedMap` promises, of its root what
`AtomicRoot` promises and of a collection what `StoreGc` shows.

### StoreCommit, AtomicRoot

The file is an array of words: the first page has the header, data starts at
the second.  `mem` and `head` are what the page cache has, `disk` and
`diskHead` what a power failure leaves; `Writeback`, `WritebackHeader` and
`WritebackSize` are the kernel.  `pc` is where the client is inside `ss_open`
or `ss_sync`: each store to a header field is an action of its own, as the
mapping is shared and a kill or a write-back may come between any two of them.
`SyncPages` is the range of the `msync`, rounded down as in the code.  An
object is one word and its contents one model value, with the number that a
record of a numbered tag gets.  `head.end` is not in the program: it remembers
with each root how far the store reached, so that a snapshot can be compared.
All sixteen counts of the header are represented by one.

`AtomicRoot` has three variables: what the client may refer to, the snapshot
other openers would see, and the snapshot on disk.  `ImplementsAtomicRoot` is
the refinement: `SyncRoot` is the one step that replaces the visible snapshot,
a write-back of the header the one that replaces the durable one, and every
other step of the code changes neither.  In particular no allocation, in this
or a later session, touches a word of either snapshot.

`SyncedBelowLen` is the ordering behind it: data reaches the disk before the
header says that it is there.  `Recoverable`: the first `msync` of a fresh
store takes the header page along, by its rounding, and that is why such a
store can be opened after a power failure.

### StoreFiles

Here a file is only the root in the page cache and the one on disk, which
`StoreCommit` shows to be enough.  `Open` and `Lock` are two steps, as in
`ss_open`; `GcOpen`, `GcLock`, `GcSetRoot` and `GcRename` are `ss_gc`, and
`Exit` may happen anywhere: a lock that is not granted, an error, a kill.

### StoreGc

A copy keeps the name of its original, so that translating a reference is
invisible and only what is copied, dropped or numbered can go wrong.  `gc` is
`ss_gc_data` together with the to-space.  `Copy` is `ss_gc_copy`, recursive
through dicts and tables as in the code, and `Scan` one step of the scan
pointer.  A dict or table is one object with entries in the order of its trie.
`keyFirst` is the order in which the compiler evaluates the two arguments of
`ss_dict_set (d, ss_gc_copy (gc, key), ss_gc_copy (gc, val))`, which C leaves
open.  `DictFinish` is where the collector may come to free an object of the
old store; what a program does then is anybody's guess, and the model stops
with the phase "undefined".  `NothingDangles` says which stores that happens
to: those with a dict without weak references that holds a table or a dict
with weak references (see "Known divergences").  The other properties speak of
collections that are finished.  The operators are recursive, so this module is
checked by TLC only.

### SharedMap, Dict

The heap maps addresses to nodes; a stored node is never changed, an unstored
one is changed in place, may be moved by `realloc` (`moves`), and is freed when
`ss_store_object` has stored it.  `Lookup` is `ss_hash_node_lookup`, the
`Action`s are the functions it calls at the leaf, `NodeUpdate` is
`ss_dict_node_update`.  `SharedMap` knows nothing of nodes: there is the map
that is being changed, the one that was stored and a value that was looked up,
and `ImplementsSharedMap` says that an operation changes the first as it
should and leaves the others alone.  `UnstoredOwned` is why that works: an
unstored node has one owner, and nothing refers to memory that was freed.
`IteratorsVisitAll` runs an iterator over every trie that is reached.  What
nobody refers to any more is forgotten, and addresses are numbered in the order
in which they are found, so that tries that are the same are one state.

### Workspace

A candidate is a seat and a version; lists are sets.  A database is chosen at
the start and has the relations, providers, offers and installed versions; a
relation has the versions that match, so that comparing versions is left to
the input.  `Start` is `dpm_ws_start` with everything it computes; `Select` is
`dpm_ws_select` with its two passes.  Candidates may be added and selected in
any order before that, and selected in any order after it, which is more than
the tools do.  A dep remembers the relation it is made from; where the code
would record two equal deps for one relation listed twice, there is one here.

### Components, Order

`Order` is `dpm_alg_order`: `frames` are the activations of the recursive
`visit`, `stack` and `seatTag` are as in the code.  The visitor's decision
(which seats of a component are done, at least one) and the order in which
deps are met are left open.  `Components` says what a caller may count on:
each visit is for a strongly connected component of the seats that are left,
when everything it leads to is done, until all that is relevant is done.

### Plan, Execute

`phase` is how far `cmd_install` is.  `WalkGoal`, `WalkDep` and `WalkReturn`
are `dpm_alg_install_naively`, with the activations of `visit` in `calls`;
`JudgeComp`, `Judge` and `JudgedComp` the visitor of `dpm_alg_cleanup_goal`,
whose three-valued logic is `DepsTrue` and `DepsFalse`; `Revert` and `Sweep`
select what is no longer needed away, one seat at a time.  `Execute` has
`handle_comp` with one `stage` for each thing it tries, one step per seat, and
the status of the packages as `inst.c` leaves it.  Lists are sets, so that the
results hold for each order in which deps, candidates and seats may be met.

`GoalOkExact` compares the verdict with its definition: there is a set of
seats with the goal in which everyone's deps are met by members.  `PlanHolds`
says that reverting and sweeping undo none of that: the goal stays, with a set
of seats that are `Firm`.  It does not say that all that is marked is
satisfied.  That would be too much: a dep may have a second alternative that
is installed and broken, and marking follows it, too (`BrokenDatabases` in
`MCInstall` have one).  `NoConflicts`, `PlanExecuted` and `NothingBrokenAfter`
are about the execution.  `NoConflicts` and `NothingBrokenAfter` assume that
the system was sound and that no deps were `Merged`, see "Known divergences",
`NothingBrokenAfter` also that nothing was left unpacked and that no component
was given up.

### Origins, Database

`db` is what a session has in memory, `root` what the store has.  A dictionary
is a set of pairs.  Packages and versions carry a number, as the code compares
them by address; so when a weak table forgets a package that something still
refers to, the next `Create` makes another one and `PackagesUnique` fails.
`UpdateFails` is an error in the middle of a stanza, with any part of its
packages created, `Die` the end of the process anywhere.  `Collect` drops what
only weak references lead to.  `Origins` speaks of stanzas only.

### DebianOrder, Versions

`Versions` has one action per round of `compare_fragment`, over pairs of blobs
that are followed by any character (`after`): the header of another object, or
padding.  `ss_blob_new` does not clear that, and it has the bytes of an earlier
session when that one was killed, or failed, before it had set a root.
Fragments are pairs of positions and may be empty, reversed or behind the end
as in the code.  `DebianOrder` is written from the Debian policy, with the one
deviation of apt: a missing revision is not the revision 0.

### Scopes, Extents

`Extents` has the windlist with its five kinds of items, variables that are
overwritten and restored, and counts.  A value is a model value with at most
one other value in it; the target of a catch is the depth of its activation,
an address that is used again.  `Unwind` runs over the items in one step: the
functions it calls (`unwind_free`, `dyn.c:484`, and the unref functions of the
types) neither add items nor raise errors.  `Scopes` has an
environment instead: variables are looked up in it, and values are alive when
they can be reached.  `ImplementsScopes` is the refinement, `RefsExact` the
bookkeeping behind it.

## Runs

| run | shows |
|---|---|
| `commit` | `StoreCommit` implements `AtomicRoot`; the write ordering; a synced store opens |
| `files` | one process at a time with three collections and kills anywhere, or two processes without collections and two power failures: locks work, no root is lost; without collections the root on disk never goes back |
| `files_race` | *violated*: open, rename by another process, lock |
| `gc` | safety of the collector for about 32 000 heaps, in both orders of evaluating arguments; the rounds settle |
| `gc_ripple` | *violated*: an entry is dropped although its key survives |
| `dict` | `Dict` implements `SharedMap`; one owner for what is unstored; iterators |
| `workspace` | deps mean relations, counters, reversed deps |
| `order` | `Order` implements `Components`, comes to an end, and its stack stays small |
| `install` | installing and removing, from the goal to the last status: the verdict, the plan, the execution, and that it ends |
| `db` | `Database` implements `Origins`; packages are unique, versions shared, indexes exact |
| `versions` | comparing versions is the order of apt, whatever follows them, unless the end is reached and a digit follows |
| `extents` | `Extents` implements `Scopes`; references are counted exactly |

The violated ones are disagreements between the code and its documentation;
`PROJECT.json` quotes both under "findings".

### Bounds

* `commit`: pages of two words and a file of three pages.  Two pages of data
  are the least with which a commit can end inside a page, on its boundary,
  and span two; the header page counts as data of the first commit.  Two
  allocated numbers per session (`MaxNumber`) and reopening fill the file, so
  that `AllocError` happens.  Sessions, roots, write-backs and failures are
  not bounded.
* `files`, `files_race`: four files are enough for every collection to find a
  free one: before it creates its file, at most three are still named (in
  memory or on disk) or open.  `MaxRoot` bounds the commits, and `Uses` how
  many processes run at once, how often they collect and how often the power
  fails.  A process that finds the database locked exits; with all bounds used
  up and nobody running there is nothing left to do, hence no deadlock check.
* `gc`: six objects that refer to older ones only, as values never change.
  Two weak dicts are the least for one entry to revive the key of another,
  three records for a key, a value and something the value leads to.  Nested
  heaps have a dict or table of any kind in another one, also a dict of dicts
  as the database has (`db.c:39`), and tables and weak dicts in dicts without
  weak references, where the collection ends "undefined".  In some the root is
  a dict or table (`test.c:707`), in others a dict without weak references is
  found by a ripple or in the last phase.  `MaxDelayed` is 2 so that giving up
  happens.  The model stops when a collection ends, hence no deadlock check.
* `dict`: three keys and hashes of two parts with two values each.  Two keys
  share the first part of their hashes, so a dispatch node gets another one
  below it; in tables two have equal hashes and share a search node.
  `MaxNodes` is 7: a stored trie of two dispatch and two search nodes, and the
  three new ones with which an entry is changed.  Operations are not bounded.
* `workspace`: a package with two versions, one with one that may provide the
  first, and one that has relations to both, in all pairs of six relations:
  two deps on the same seat are where reversed deps get interesting.
* `order`: all graphs of three seats have every shape of cycle that a
  component visited again can fall into; the larger graphs have cycles that
  share seats and shortcuts between them.  The search stops when it is done.
* `install`: three packages, one of them with two versions, in some 200
  databases: new, installed, to be upgraded, unpacked only, with a provider;
  with depends, pre-depends, recommends, conflicts and breaks; and four goals.
  Cycles of two and three seats occur, with pre-depends in them too, so that
  components are unpacked first, installed one by one, and given up.  The
  command stops when it is done.
* `db`: two origins, two packages and two stanzas, one with a checksum, one
  without; `MaxObjects` 2 is enough to create a version, to lose it in a
  collection and to create it again; `MaxSaves` 1 for a state to go back to.
  Updates, failures, sessions and collections are not bounded.
* `versions`: all upstream versions of one or two of `~`, `0`, `1`, `a` with
  four revisions, and those of one character with two epochs and two revisions:
  96 texts, each followed by NUL, a tilde, a letter or a digit.  One character
  is the shortest number or text, two are needed for leading zeros and for a
  number after a text.  Behind the character that follows are NULs; only when
  that is a digit does the code look further, which the property leaves out.
* `extents`: three calls inside each other (`MaxCalls`) and three items
  (`MaxItems`, the three items of a catch of a condition count as one), three
  values, two variables, one of them the handler: a value that is thrown from
  an extent inside a catch inside a catch and is bound on the way.  Two
  functions tell the order in which they are run.  A program stops after an
  error that nobody catches, or with all bounds used up.

### Fairness

`Order`, `Components` and `Execute` assume weak fairness of their next-state
relation: each is the loop of one thread that computes without waiting for
anything, so a step that can be taken is taken.  `ImplementsComponents`
includes that the search goes on to the end, `Ends` that `dpm install` does.
That the collector's rounds settle is an invariant, `RoundsSettle`, about the
number of rounds.  All other properties are safety properties.  The kernel,
failures and other processes have no fairness.

## Proofs

Each theorem is for all values of the constants, under the named assumptions
of the module, which TLC evaluates in the runs.  `PROJECT.json` lists the
theorems; each `..._proofs` module has an inductive invariant, lemmas about
the operators, one lemma per action, and the theorems at its end.

**`StoreCommit_proofs`**, under `SizeAssumption` (the header is smaller than a
page and the file consists of whole pages).  `SyncedBelowLen` is not inductive
by itself: that a session never writes below the committed end needs that
`next` starts at a page boundary at or above it, that the header's length is
beyond the first page once something is committed, that a header on disk is no
longer than the one in the page cache, and what each value of `pc` promises
about the data between the two.  `IInv` collects these.  `Atomicity` is the
refinement: most actions are stutters of `AtomicRoot`, and the interesting
ones show that the images of the two snapshots are untouched.

**`StoreFiles_proofs`**, under `FilesAssumption`.  A collection can take the
name away from a file that another process has open but not locked, so
`SingleClient` and `LastRootVisible` hold under `Careful`: processes run one
after the other, or none of them collects (the run `files_race` shows what
happens otherwise).  The invariant has a part for each way of being careful.
`WithoutGc`: the name means the same file all the time, everybody has that one
open and its header on disk only lags behind.  `OneAtATime`: the name means
the file that the process has open, and when a collection is about to rename,
the copy has the same root.  `DurableRootAdvances` needs no care.

**`Database_proofs`**, under `DatabaseAssumption` (`None` is no origin, stanza
or version).  `IInv` says the same of the session and of the root of the
store, as either becomes the other: objects are found by their names and sums,
a version is about the package that its stanza names, and what origins, the
status and an update that is under way refer to is in the tables.  Each step
that drops from a table (`Collect`, the end of an update) has to keep that.
For `IndexesAreExact` the indexes are compared with the table of versions
first.  `Refinement` needs names to be unique, as `Origins` knows packages by
their names only.

**`Workspace_proofs`**, under `WorkspaceAssumption` (finitely many packages
and versions, versions of a package are ordered) and `InputAssumption` (what a
database is: a conflict of a control file has one alternative, and only goals
ask for no version at all).  That the counters are exact needs that deps and
candidates are finite and that there are none before `Start`; the step for
`Select` counts how the set of unsatisfied deps of a candidate changes in the
two passes.  `ReversedDepsSound` and `DepsSayRelations` follow from
`DepsComputed`: since `Start`, the deps are those that the relations give.

**`Plan_proofs`**, under `PlanAssumption` (manual packages are packages).
`GoalOkIsExact` rests on `Judging`: at each point what is ok is `Sound`, what
is done but not ok is part of no sound set, and a component in which nothing
has been decided so far has no dep that must fail; so it may be ok as a whole.
`PlanIsKept` rests on `Kept`: what is not reverted is sound, and sweeping
leaves a firm set with the goal in it.  `PlanIsSound` is the theorem behind
the assumption about `Merged`.  Reverting goes back to what was installed for
some seats and keeps what is planned for others, and the two may be at odds:
a version that is installed may need one that has been replaced.  `ReverseOf`
shows that the reversed dep of the replacement leads to that version, as long
as it stands for a single dep, and `Mixed` that any such mixture is sound.

**`Execute_proofs`**.  `Progress` says that what is done was set up or given
up; it survives the unpacking of others, as only what is not even unpacked is
unpacked.  For the other two `SysIInv` adds that the plan
is sound (`PlanSound`), that the order is that of what is selected, that only
seats it reaches are changed, and that no packages on the system conflict
(`Apart`).  `StagesCheck` shows that each stage of `handle_comp` asks for the
conflicts of the candidate that it sets up, in both directions; the other
direction is a reversed dep, and needs `ReverseOf` again.  At the end the
system is another mixture: what the order reaches is as planned, the rest as
it was; `NothingBroken` applies `Mixed` a second time.

**`Order_proofs`**, under `OrderAssumption` (finitely many seats).  The stack
falls into regions, one for each activation of `visit` (`Shape`).  An open
region has the seats found from one that looks for its component; they have
growing tags, and no others have tags (`Tags`); what they need is done, still
to be looked at, or in an open region with no smaller tag than the least one
that was met (`Explored`); everything in the region can be reached from its
first seat and leads back below it (`Linked`).  A region that is visited again
leads to nothing outside but what is done, and all that is above it on the
stack is part of it (`Spent`).  `VisitsComponents`, the safety part of
`ImplementsComponents`, follows: a region that is closed when the least tag is
that of its first seat is a strongly connected component.  `StackIsBounded`
rests on `Rooms`: as at least one seat of a component is done when it is
visited again, what is above it is smaller, and lengths of n, n-1, ... add up
to n(n+1)/2.

**`Extents_proofs`**, under `ExtentsAssumption` (finitely many values and
variables; a `jmp_buf` on the stack is not a value).  `RefsExact` says too
little about unwinding: that `dyn_end` unwinds to the extent which the program
has begun, and `dyn_throw` to the catch it means, needs `Nested`: each call
that has not returned has its item, in the order of the calls, and there are
no other extents (`Marks`); and what binds the handler of a condition stands
two above the item of its catch and throws to that one (`Handlers`).  `Counted`
says that the counts are those of items, variables and contents, and that what
is free has no content.  `Unref` and `Unwind` are recursive functions; that
they satisfy their recurrence, and that each step keeps `Counted` for the
items that are left, is shown by a least counterexample among the natural
numbers.  Besides `ReferencesAreExact` this gives `OwnedIsNeverFreed`,
`HandlersAreCurrent` (a handler never throws to a catch that has returned) and
`OnlyUnhandledErrorsEnd` (the "Uncaught throw" of `dyn_throw` is unreachable).
`NothingLeaks` needs that no value leads back to itself: a new value is not
referred to by others, so there is an order of creation.

`ImplementsScopesHolds` is the refinement of `Scopes`, for all of its steps.
`Nested` makes the items of the calls the marks of the environment, in order
(`MarksAre`), so that an end or a throw finds the mark that `Scopes` means and
leaves the entries below it as they were (`DropEnv`).  That takes one more
invariant, `ConditionItems`: no item that binds the handler stands right on
that of an extent or a catch, so that no catch that stays loses its condition
to what is dropped.  `Bound` turns shallow into deep binding: what a
variable was bound to below an item is the value that the next item for it has
saved.  What is alive is what is owned (`AliveIsOwned`) by exact counts in the
one direction and by the order of creation in the other; `BecomeIs` then gives
for every step what is freed and which contents are left.  `RanIs` compares
what unwinding has run with the actions above a mark.

Only checked, not proved:

* `Ends` and the liveness part of `ImplementsComponents`: liveness under
  fairness stays with TLC.
* Everything about `StoreGc`, `Dict` and `Versions`: the operators of the
  collector and of the tries recurse over the heap, those of `DebianOrder`
  over a text, where induction over data is out of the prover's reach.

## Known divergences

What the models showed about the code, besides the findings, with the place of
each.  They are assumed away where a property says so, and modelled otherwise.

* A process that is killed between the stores to `root` (`store.c:195`) and to
  `counts` (196-197) leaves a root with a record whose number the counts do
  not cover; the next session gives the number again.  `StoreCommit` has the
  two steps; numbers are not part of `AtomicRoot`.
* `ss_set_root` does not wait for its header: it is synced with `MS_ASYNC`
  (`store.c:199`), so when it returns the new root may be in the page cache
  only, and a power failure leaves the old one.  `store.h:41-42` says "When
  ss_set_root returns, the store hase been written to disk."  `SyncRoot` replaces
  the visible snapshot of `AtomicRoot` and not the durable one;
  `DurableRootAdvancesWithoutGc` says what is left of the promise.
* A process that is killed, or a power failure, between the growing of a fresh
  file (`store.c:277`) and its magic leaves a file that `ss_open` refuses from
  then on (290-292).  `StoreCommit` has that file; `Recoverable` is about
  stores that were synced once.
* The renaming of a collected store (`store.c:847`) may reach the disk before
  its header, which is synced asynchronously (199): after a power failure the
  name leads to an older root, or none.  `DurableRootAdvancesWithoutGc`
  excludes collections for that reason.
* A dict without weak references may not hold a table or a dict with weak
  references, as key or value, although "a dictionary maps values to other
  values" (`store.h:60`).  In its first phase the collector keeps their old
  addresses (`store.c:529-535`), which is well for records, as they are scanned
  again, but `ss_dict_finish` takes them for unstored objects, copies all they
  refer to and calls `free` on addresses inside the mapped file (653,
  1161-1179).  The database has no such dicts; `NothingDangles`.
* The removal of a package is a goal that any version that provides it
  satisfies (`tool.c:514-515`, `ws.c:702`), while `ws.h:90-93` says that it
  conflicts with the package.
* A candidate's deps on two candidates of one seat are merged into one reversed
  dep that is satisfied when one of them is (`ws.c:1008-1027`), while
  `ws.h:69-78` promises that looking at one's own deps is enough.  Removing a
  package can leave another one broken, and a version can be installed next to
  one that conflicts with it, when that one also depends on the package;
  `Merged` in `NothingBrokenAfter` and `NoConflicts`.
* `dpm remove` sets the manual flag of the package that it removes
  (`tool.c:534-543`, the null candidate is a selected alternative of the goal).
* Reverting in `dpm_alg_cleanup_goal` also takes the seat of the ugly
  candidate back to its null candidate.
* `compare_fragment` looks at the character at the end of a version before it
  checks that this is the end (`db.c:1006-1009`).  Versions are blobs without
  NUL, and their padding is not cleared (`store.c:1030-1038`).  When the header
  that follows starts with a byte from 48 to 57, or the padding does, from a
  session that ended without setting a root (`store.c:300`, 386-393), a version
  compares as greater than itself, and the loop can run on behind the end.
  `NoDigitFollows` in `OrderIsApt`.
* A missing revision is less than the revision 0, where the policy has them
  equal; `test.c:1333` knows that.
* `Remove: name version` for a package of which the origin offers nothing calls
  `ss_len (NULL)` (`db.c:565`).  In `Database` that is `Die`.
* The iterators `dyn_ref` what is not a value of `dyn.c` (`store.c:1798`,
  2252), and `dpm_db_alternatives_step` reads behind the end of a relation
  (`db.c:1275-1277`).  Neither is modelled.
* `dyn_input_set_pos` with the position it has decrements the line number when
  that is at a newline (`dyn.c:1162-1166`).  Not modelled.

## Not modelled yet, and the plan

Modules that would be worth their while: the buffers of input streams, whose
arithmetic of marks, positions and limits (`dyn.c:1040-1125`) moves data while
pointers into it are held.

Left out: formatted output (`dyn.c:1390-1880`, `ws.c:1240-1430`), option
parsing and reports of the tools, character level parsing and `tar` archives
(`parse.c`), which neither share state with the rest nor decide anything in
it; stores with two versions of one dict or table, which share trie nodes, when
they are collected (the database refers to one version of each);
`dpm_candpq` (`alg.c:140-280`), which no command uses; readers of a store
(`SS_READ`), which take no lock and see whatever is there; the iterator over
members of dictionaries of sets (`store.c:2300-2440`), which nothing uses;
queries of the database, which read it only; tests and test data.
