# seqjoin in TLA+

A model of seqjoin, a header-only C++ library that joins N concurrent streams
of values into tuples (`src/include/seqjoin`).  TLC checks the modules on small
instances, TLAPS proves their safety properties for every value of the
constants.

## 1. Inventory

| part | source | state | operations | interacts with |
|---|---|---|---|---|
| NJoin | `njoin.hpp` | sources, counter, callback | `add<I>`, `source<I>()` | takes a stamp, inserts into source I, snapshots all sources, calls the callback for the combinations it owns |
| Source | `source.hpp`, `liveness/` | policy, spinlock, liveness strategy | `insert`, `scan`, `scan_into`, `clear`, `remove`, `snapshot` | every call under its own lock; asks the strategy which values are alive |
| Retention policies | `policy/` | the entries kept | `insert`, `remove`, `clear`, `snapshot` | decide whether a value is accepted and what it replaces |
| SeqCounter | `core/seq_counter.hpp` | a 64-bit counter | `next`, `seq_after` | shared by all adds of a join, wraps |
| cross product | `cross_product.hpp` | none | `cross_product` | decides which add emits a combination |
| SpinLock | `core/spinlock.hpp` | a flag | `lock`, `unlock` | everything |
| SubscriberList | `core/subscriber_list.hpp` | atomic pointer to a list, write lock | `subscribe`, `fire` | SharedSource |
| SharedSource | `shared_source.hpp` | map behind a pointer, lock, subscribers | `insert`, `remove`, `snapshot`, `subscribe` | tells its subscribers after the lock is released |
| BarrierView | `barrier_view.hpp` | keys, completeness, assembled values, injector, lock | constructor, `set_required_keys`, `set_injector`, `on_change` | subscribes to a SharedSource, calls its injector under its lock |
| Gateway | `gateway.hpp` | a join, a barrier per gate | `gateway`, `set_keys`, `is_complete` | wires barriers to the slots of one join |
| FlatMap | `core/flat_map.hpp` | a sorted vector | `find`, `contains`, `operator[]`, `erase` | a map type for SharedSource |
| GroupLayout, SourceView | `group_layout.hpp`, `source_view.hpp` | none | index arithmetic at compile time | maps parameters of the callback to sources |
| make_reactive, callable_traits | `make_reactive.hpp`, `core/callable_traits.hpp` | none | type deduction | builds NJoins |
| RwLock | `examples/rwlock_improved.hpp` | a word: a writer's bit and a count of readers | `ReadLock`, `WriteLock` and their destructors | nothing, it is an example |

What is hard here: any number of threads call `add` with no lock that spans the
call; stamps are taken outside the source locks; snapshots of one add are of
different moments; values are removed, replaced and die under running adds; the
counter wraps; the subscriber list is swapped while it is walked; a store tells
its subscribers after it released its lock; injectors and callbacks run under a
barrier's lock.  `PROJECT.json` lists these hazards at their lines, each with
the properties that would show it going wrong.

What makes each part correct:

- join: no combination is emitted twice; what was settled before an add is
  emitted with it; nothing removed or dead before the add began is emitted;
- counter: the signed comparison is the order in which stamps were given out;
- copy-on-write policies: the chain of clones holds what updates in place
  would, and a snapshot stays as it was taken while others change the source;
- locks: exclusion, and somebody gets in; no reader gets in past a writer's bit;
- sorted vector: sorted after every sequence of operations, so that each search
  finds what is there;
- subscriber list: no live subscriber is lost, none is called after it was
  dropped, a fire calls all who were there;
- store and barriers: no change is lost between a change, its late
  notification, the constructor and a change of keys; a replaced injector is
  idle, so that what it refers to may go;
- gateway: views reach the slots in the order the gate saw the store;
- layouts and views: arguments reach their parameters, a view of a view shows
  the right elements, a layout refines another of the same parameters just
  when its blocks are contained in the other's;
- make_reactive: each source stores what the call asks for, under the policy
  the call asks for.

## 2. Modules

| module | models | checked by |
|---|---|---|
| `SeqCounter` | `seq_counter.hpp`: stamps modulo 2 * `Half`, `next`, `seq_after` | inside NJoin |
| `RetentionPolicy` | the five policies of `policy/`, as what they accept, displace and erase | inside NJoin |
| `CrossProduct` | `cross_product.hpp`: all combinations, the ownership fold, the filter | inside NJoin |
| `JoinContract` | the abstract specification of a join: accepted entries, one call per combination | `join_unique` (refinement) |
| `NJoin` | `njoin.hpp` and `source.hpp` | the `join_*` runs |
| `CowJoin` | NJoin with `retain_all_cow.hpp` and `retain_by_key_cow.hpp`: the maps, their addresses, who refers to them | `join_shrink` |
| `NJoinProofs` | theorems about SeqCounter, CrossProduct, RetentionPolicy and NJoin | TLAPS |
| `CowJoinProofs` | theorems about CowJoin, on top of those | TLAPS |
| `Mutex` | abstract mutex | `parts` (refinement) |
| `SpinLock` | `spinlock.hpp`, one step per access of the flag | `parts`, TLAPS |
| `ReadWriteLock` | abstract reader-writer lock | `parts` (refinement) |
| `RwLock` | `rwlock_improved.hpp`, one step per access of the word | `parts`, TLAPS |
| `LocksProofs` | theorems about both locks | TLAPS |
| `Notification` | the abstract specification of a subscriber list: whom a fire has to call | `subscribers` (refinement) |
| `SubscriberList`, `SubscriberListProofs` | `subscriber_list.hpp`, with the address of each list | `subscribers`, TLAPS |
| `FlatMap` | `flat_map.hpp`, as operators on sequences of pairs | inside SharedSource |
| `SharedSource`, `SharedSourceProofs` | `shared_source.hpp`: SubscriberList (extended) composed with FlatMap | `subscribers`, TLAPS |
| `BarrierView`, `BarrierViewProofs` | `shared_source.hpp`, with the map and the list abstracted, and `barrier_view.hpp` | `barrier`, `barrier_twice`, TLAPS |
| `Gateway`, `GatewayProofs` | `gateway.hpp`: BarrierView (extended) composed with NJoin (instantiated) | the `gateway*` runs, TLAPS |
| `GroupLayout` | `group_layout.hpp` and the lattice of `source_view.hpp`, as operators on sequences of sequences of indices | inside SourceView |
| `SourceView` | `source_view.hpp`: views, views of views, merges | `parts` |
| `MakeReactive` | `make_reactive.hpp`, `callable_traits.hpp`, the type computations of `njoin.hpp`: the join a call makes | `parts` |
| `LayoutProofs` | theorems about GroupLayout, SourceView and MakeReactive | TLAPS |
| `MC*` | constants and symmetry for TLC | |

### How state and actions correspond to the code

**NJoin.**  A thread in `add<I>(v)` goes through `TakeSeq` (`seq_counter_.next()`,
no lock), `Insert` or `Reject` (`Source::insert` under the lock of source I),
`SnapshotOne` once per source in any order (they are the arguments of one
`make_tuple`, whose order C++ leaves open; each is `Source::snapshot` under that
source's lock), `Emit` once per owned combination, `Return`.  A critical section
of a spinlock is one action: the lock guards only the store it is taken for, and
`LocksProofs` proves that the spinlock is a mutex.  `Remove`, `Clear` and
`Die` (a value's liveness strategy changes its mind for good) come from other
threads at any moment.  A store is a set of entries `[val, seq]`; hash order and
the shared pointers behind it are left out.  `accepted`, `gone`, `emitted`,
`adds` and `found` are history and guard nothing but the bound.

**CowJoin.**  The steps of NJoin, each with what it does to the maps.  `Swap` is
clone, change and `data_ = std::move(copy)`; it takes any address that `Free`
finds unreferenced, which is the reference count of the `shared_ptr`.
`CowSnapshotOne` copies the pointer under the source's lock; `CowEmit` reads
through it outside; `CowReturn` drops it.  A source with another policy is
`InPlace`.

**SpinLock.**  `TestAndSet`, `Test`, `Unlock` are the accesses of the flag; the
count of spins only decides when a thread yields.

**RwLock.**  `Load`, `Exchange` or `ExchangeFails` are the loop of `ReadLock`,
`FetchOr`, `AwaitClear` and `Drain` the two phases of `WriteLock`, `UnlockRead`
and `UnlockWrite` the destructors.  `compare_exchange_weak` may fail without
cause, `MaxSpurious` times.  The word is a number, the writer's bit is
`WriterBit`; more readers than the count has room for are excluded by
`RwAssumption`, as 2^31 threads are.

**FlatMap, SharedSource.**  The operators have the names of the methods, `Put` is
`m[k] = v`.  `insert` and `remove` are the critical sections of the store,
`FireChange`, `Tell` and `ChangeReturns` the `fire` that follows, in the steps
of SubscriberList; a subscriber does what BarrierView's does, it reads the store
once in its constructor (`FirstLook`) and whenever it is called (`Tell`).

**MakeReactive.**  One action for each group of overloads, whose guards are the
`requires` clauses and the static assertions; a call no overload takes does
not compile and is no step.  It extends SourceView, so that a behaviour has the
layout in common with the views.

**SubscriberList.**  `Load`, `Call`, then `Return`, `Skip` or `Compact` are a
`fire`; `Subscribe` and `Compact` run under the write lock.  A list has an
address because the code compares addresses; an address is free once neither
the atomic pointer nor a running fire refers to it.

**BarrierView.**  `StoreInsert`/`StoreRemove` change the map; `Fire` loads the
subscribers after the lock is released; `Notify` calls the next one
(`weak_ptr::lock`), `Ignore` or `Evaluate` is `on_change` up to the injector,
`BeginInject` and `EndInject` are the injector, between which the barrier's lock
is held.  `Construct` and `SetKeys` end in the same `Evaluate`.  Up to the
injector everything under a barrier's lock meets the rest of the program only
in the snapshot, so it is one action.  `SetInjector` takes the same lock; it does
not hand the new injector the view the barrier may have, and after a barrier's
destruction a notification already under way still runs its injector.  The values of the store are of a type
that can be compared, so that an insert of the value already there changes
nothing.

**GroupLayout, SourceView.**  The operators have the names of the templates they
stand for; recursion over a parameter pack is a quantifier or a choice of the
first.  `Open`, `SubView` and `Merge` are `Source::view`, `SourceView::view` and
`merge`.  The source of a behaviour holds a different value for every
parameter, which is all a projection can tell apart.

**Gateway.**  `Inject` is BarrierView's `BeginInject` together with NJoin's
`TakeSeq`; `JoinStep` is any further step of `add`; `Injected` gives the gate's
lock back once `add` has returned.

## 3. Runs

| run | instance | shows |
|---|---|---|
| `join_unique` | 2 threads, 3 sources of unique values, 2 values, 4 adds, one removal or clearing before the last, counter of 8 starting at 6 | types, ownership across the wrap and over three entries, settled combinations emitted, once per values unless one was removed in between, never twice, the contract |
| `join_shrink` | 2 threads, 3 adds, a unique mortal source and a copy-on-write keyed one, both shrinking, 4 addresses | removals, replacements and deaths against snapshots; an equal value is not entered again; clones are updates, snapshots stay intact |
| `join_missed` | 2 threads, 2 adds | **violation**: a combination nobody emits |
| `join_older` | 2 threads, 2 adds | **violation**: RetainLatest ends up with the older value |
| `parts` | the 316 layouts of up to 4 parameters, all pairs; views of up to 3 indices; all calls for callbacks of up to 3 parameters; 4 threads on the spinlock, 4 users of the reader-writer lock with 2 spurious failures, fairness | flattened views show what copies would, arguments in place, refinement of layouts of the same parameters, the sources of a join are as the call asks; exclusion, refinement of `Mutex` and of `ReadWriteLock`, progress |
| `views_refine` | the 39 layouts of up to 3 parameters, all pairs | **violation**: layouts refine each other whose blocks are not contained |
| `subscribers` | 2 threads, 2 callbacks, 3 addresses, 3 fires, fairness; the same list under a store; the store by itself | refinement of `Notification`; nobody lost or called again; every fire returns; nobody misses a change; the vector stays a map |
| `barrier` | 2 threads, 1 barrier, 2 keys, 3 key lists, 4 changes, 1 reconfiguration or change of injector, fairness | no change lost, a replaced injector idle, the span stays put, the barrier ends in sync |
| `barrier_twice` | the same with 3 changes | **violation**: the injector runs twice for one state |
| `gateway` | 2 threads, 2 gates, 3 changes, 1 change of keys | views arrive in order and are current at rest, no gate hands over an older view than before |
| `gateway_open` | 2 gates, 3 changes | **violation**: the callback runs while a gate is closed |
| `gateway_locks` | 2 gates, 3 changes | **violation**: the callback runs under a barrier's lock |

`MCParts` and `MCSharedSource` put questions about small components into one
run: `tested` decides at the start of a behaviour which it is about, and the
variables of the others stand still.  `MCParts` takes `MCMakeReactive` with its
constants and adds the locks.

**Bounds.** `MaxAdds`, `MaxFires`, `MaxChanges`, `MaxSetKeys` and `MaxInjects`
bound how often calls are begun, never what happens inside one; threads,
callbacks, addresses and keys are small sets. Two adds suffice for every race
found between two adds; with a third source three adds make a combination, and
a fourth gives one source a second entry and so makes two. What the joins are
checked for concerns one add and what others have done before one of its steps,
so the runs take two threads; every one of these properties is proved for any
number of threads, sources and values. `Start` near the top
makes the counter wrap within the run, and `MaxAdds <= Half` keeps a run within
half the counter's range, as 2^63 adds of entries that are still retained do.
An address can be used again with three of them: one is current, one is held by
a fire, one is free. Under the store in `subscribers` two changes
(`MCSharedSource`'s `MaxChanges`) suffice for one that is published while the
other is fired. Four changes of two keys in `barrier` give every order of two
changes of each. Four parameters are the fewest of which two blocks of two can
be formed and refined, and three indices allow a merge and a repetition. Four
addresses leave one to allocate while the current map and two older ones are
referred to. Four users of the reader-writer lock are two writers that compete
for the bit and two readers, of whom one comes and goes between the other's
load and exchange; two spurious failures let each reader have one. Callbacks of
three parameters are the fewest with a layout that has both a group and a
single. `MaxInjects` is above the number of injections the other bounds allow
and never cuts a run short. Deadlock is not checked where the bounds stop the
system; the locks, which never stop, are checked for it (in `MCParts` only a
behaviour about layouts may end).

**Fairness.**  Weak fairness of each thread's `Step`: a thread inside a call is
scheduled, callbacks return, nobody has to make a call.  A thread that waits for
a barrier's lock gets it because the calls that compete with it are finitely
many; the spinlock itself promises only that somebody gets in
(`SomeoneGetsIn`), and that is all that is claimed of it.  The same goes for the
reader-writer lock: `RwFairness` schedules who is inside it or in a section it
guards; a writer that has set the bit gets in (`WriterGetsIn`), somebody gets in
(`SomeUserGetsIn`), and a single reader may be overtaken forever.

## 4. What the runs found

- `join_missed`: the stamp is taken at `njoin.hpp:142`, before the source's lock
  (the design note calls the opposite order the critical invariant).  The add
  with the newer stamp snapshots before the older entry is in; the older one
  sees it is not the owner.  Nobody emits the pair.
- `join_older`: for the same reason an older add can overwrite a newer value of
  a RetainLatest source.
- `barrier_twice`: a notification that comes after somebody already looked at
  the change injects the same view once more.
- `gateway_open`: a gate that closes leaves its last view in its slot, and
  another gate fires with it.
- `gateway_locks`: the injector, and with it the user's callback, runs under the
  barrier's spinlock.
- `views_refine`: `find_coarse_block` gives all unknown parameters the same
  number, so a block that shares no parameter with the coarse layout counts as
  contained in it, and layouts of other parameters refine each other.  Of
  layouts of the same parameters, all the ways to group the parameters of one
  callback, it is right (`RefinementIsContained`).

`CallsInPlace` holds of layouts that list the parameters in order; of others
`layout_unpack` calls the callback in the layout's order, which compiles when
the types fit.  And `merge` appends the other view's indices, so that an index
of both is there twice where `source_view.hpp:194` speaks of a union.
`rwlock_improved.hpp:25` calls readers wait-free, a single atomic add, where the
code loops on a compare-exchange that other readers make fail; and
`flat_map.hpp:17` speaks of a linear scan for small maps, where the code always
searches by halves.  Neither is a property of these runs.

`SettledEmitted` says what can be relied on instead of `NoMissedTuple`: an add
emits its entry with all that was visible before it began and still is.  And
`SlotIsLastInjected` says what the lock held through the injector is good for:
in a gateway the reordering of `join_older` cannot happen.  `NeverGoesBack` is
what a user of a gateway sees of it: the combinations one gate fires are of
states of the store that follow one another, at every gate.

## 5. Proofs

Every invariant and every action property that a passing run checks is also the
statement of a theorem, and so is every refinement.  The theorems hold for any
number of threads, sources, values, users, subscribers, barriers and keys, any
counter width, any mix of policies, layouts and callbacks of any size; the
assumptions are the named `ASSUME`s of the modules (`HalfAssumption`,
`NAssumption`, `ValuesAssumption`, `JoinAssumption`, `AddressAssumption`,
`RwAssumption`, `SourceAssumption`, `LayoutsAssumption`, `ViewAssumption`,
`BarrierAssumption`, `SubscribersAssumption`, `GatewayAssumption`,
`MakeAssumption`).  `JoinAssumption` keeps the adds of a behaviour within half
the counter, `GatewayAssumption` does so for the injections of a gateway and
numbers the gates from 0 as the slots of its join are; the others say that sets
are not empty, that `None` and `Null` are no values, that lists are sequences.

The theorems follow the composition of the system.  What is proved of a part is
used of the whole by a step that shows the whole to implement the part:

| theorem | says | so that |
|---|---|---|
| `CowIsNJoin` | CowJoin implements NJoin | every theorem of NJoin holds of joins with copy-on-write sources (`CowKeepsPromises`) |
| `SourceRunsList` | SharedSource implements SubscriberList | the list in a store loses nobody and calls all |
| `GatewayImplements` | Gateway implements BarrierView and NJoin | no change is lost on its gates, nothing is emitted twice by its join |
| `MakeRefinesViews` | MakeReactive implements SourceView | views compose beside it |
| `LockIsMutex` | SpinLock implements `Mutex` | a critical section may be one action |
| `ContractKept`, `ListNotifies`, `LockIsReadWriteLock` | NJoin, SubscriberList, RwLock implement `JoinContract`, `Notification`, `ReadWriteLock` | what a user may rely on is said without maps, lists or bits |

### NJoinProofs

- `SeqAfterIsIssueOrder`, the signed comparison is the order of issue for stamps
  less than `Half` apart, wherever the counter wraps; `SeqAfterAtHalf`, and what
  it says exactly at the half.
- `MaxIdxIsNewest`: the fold of `cross_product` ends at the first of the newest
  positions.  The fold is a recursive function over the positions, and the
  statement about it needs an induction, which is made by a least
  counterexample: a non-empty set of numbers has a least member, by
  well-foundedness, and the step before it gives the contradiction.
- `TypeCorrect`; `NeverTwice` (`AtMostOnce`); `ContractKept` (refinement of
  `JoinContract`); `NothingStale` (`NoStaleMember`); `NeverTwiceTheValues`
  (`OncePerValues`).  The types alone do not give `AtMostOnce`.  The invariant
  `IInv` adds that stamps in use were given out and are distinct between threads,
  that an entry with a thread's stamp is that thread's, that every combination
  in a thread's `todo` has the thread's own stamp at its own source, and that no
  combination emitted so far is one that some thread still has to emit.  A
  combination therefore names the thread that may emit it, and leaves its `todo`
  when it is emitted.  `GoneInv` strengthens `NoStaleMember`: what was gone when
  an add began is in no store, so in none of its snapshots, because a stamp
  never comes back.  `HeldInv` says the opposite of what is not gone: it is still
  held, so that a policy that accepts a value, of whatever kind it is, holds no
  other entry of it.
- `OwnerTookItsStampLast` (`OwnerIsNewest`) and `WhatIsSettledIsEmitted`
  (`SettledEmitted`).  Both meet in what the ownership fold decides.
  `OrderInv` adds that entries of different sources have different stamps, by
  which the newest position is the only one, and that what was visible when an
  add began is accepted and of an earlier stamp; `SettledInv`, which is about a
  thread that has taken some of its snapshots, says that what was visible when
  the add began and still is was in them.  The combinations of settled entries
  are then all in the cross product, and the add's own entry is the newest of
  each, so the filter keeps them.

### CowJoinProofs

`CloneIsUpdate` (`MapIsStore`) and `SnapshotDecoupled` (`HeldIntact`).  The
invariant says beside these that no two copy-on-write sources have their current
map at one address: without it a swap of one could change the other.  A swap
writes only to an address that is free, so no map that anybody refers to is ever
written.

### SubscriberListProofs, SharedSourceProofs

- `SubscribersKept` (`NobodyLost`), `DroppedForGood` (`DroppedStaysOut`),
  `FireCallsAll` (`EveryoneCalled`).  `ListInv` adds to the first two what a fire
  under way knows: everybody up to where it is has been called and answered, and
  the list it loaded has everybody who was subscribed when it began and still
  lives.  The list it loaded stays what it was, because a new list is stored at
  a free address only; and since its address is not free, a compaction that finds
  it in place finds the same list, with nobody subscribed in between.  What is left of a list, `LivePart`, is the selection of those that are
  alive; its lemmas say that it has just those and each once.
- `ListNotifies` (`Notifies`), refinement of `Notification`: a fire owes a call to
  those of the list it loaded that it has not come to.  A load finds everybody
  who lives and nobody dropped by `ListInv`, a call pays just one because no
  loaded list names anybody twice (`LoadedOnce`), and the steps of other threads
  leave the list a fire has loaded alone.
- `StoreStaysMap` (`StoreIsMap`), from lemmas on what `lower_bound` finds in a
  sorted vector and what `Put` and `erase` leave of it.
- `EverybodyTold` (`NobodyMissesAChange`) composes the two: `WillCall` names the
  thread that will call a subscriber because of a key, one that has changed the
  store and not yet loaded the list, or one whose list still has the subscriber
  ahead.  A change that is not seen has such a thread; a subscription made
  meanwhile has its first look ahead of it, and a look finds what the map holds.

### BarrierViewProofs, GatewayProofs

- `TypeCorrect`, which includes who holds each barrier's lock; `OldInjectorIdle`
  (`RetiredInjectorIdle`) and `SpanNeverWritten` (`SpanStable`), which follow from
  the lock; `NoChangeLost` (`NoLostChange`), whose invariant adds that the
  subscribers of a store and the queue of a notification under way hold every
  barrier that was subscribed before the change and still lives, and has not
  looked since.  The first key that is missing, by which `evaluate_locked` stops,
  is the least number of a non-empty set of numbers.
- `GatewayImplements`: the module takes the theorems of NJoin by an instance of
  `NJoinProofs` with the gates as sources and the views as values, after the
  lemmas that its constants meet NJoin's assumptions.  `Assembled`, that what a
  complete barrier holds is the view of its keys, makes each injection an add
  of a value NJoin knows.
- `SlotHoldsLastView` (`SlotIsLastInjected`): `SlotInv` says that a thread is in
  add only inside an injector, at the slot of the gate whose lock it holds, with
  what the injector was called with (`InjectorAdds`), and that a slot where
  nobody is about to insert holds just the last view (`SlotsFollow`).  A second
  injection at the gate has to wait for the lock, so no insert can be overtaken.
- `SlotsFollowStore` (`SlotsCurrent`): at rest nobody is pending, so
  `NoLostChange` says that a live complete barrier was injected with the present
  values, and `SlotInv` that they are in its slot.
- `GatesNeverGoBack` (`NeverGoesBack`): each stamp has a moment, the version of
  the store its view was assembled of (`MomentInv`: a gate's later stamp is of
  the same moment or a later one, and the entry in its slot is the gate's newest
  that was inserted).  `FiringInv` says that a snapshot under way, and so every
  combination built of it, is not older than what the gate has fired before: the
  gate's lock puts its adds one after the other, and no slot goes back between
  the snapshots of the one and those of the next.

### LayoutProofs

- `RefinementDecides`, what the code of `is_refinement_of` decides of two layouts
  of any size and any parameters, the foreign blocks of `views_refine` included;
  and `RefinementAlwaysContained` (`RefinementIsContained`), that for layouts of
  the same parameters this is the containment of blocks.  Both use
  `LayoutsAssumption`, that no parameter is in two places, by which the first
  block found is the only one.
- `ViewsAlwaysCompose` (`ViewsCompose`): the invariant is that the indices point
  into the source's tuple and select what the chain of copies holds; a merge
  needs that selecting by two lists one after the other is selecting by both, a
  view of a view that selections compose.
- `ArgumentsAlwaysInPlace` (`CallsInPlace`): `layout_unpack` flattens the tuples of
  the sources as the layout is flattened, so that a place of the one is the same
  place of the other (`SideBySide`, carried along the recursion of `FlattenSeq` by a
  least counterexample); in a layout that lists the parameters in order the place
  is the parameter.
- `JoinsAsAsked` (`JoinAsAsked`): whatever a call writes is a layout or none, then
  policies or none, then types (`Spelled`), in one way only, because layouts, lists
  of policies and types are told apart.  For each overload the sources made are
  what is read off the call without the overloads (`AsAsked`): the types it
  names wherever they are, else those of the callback, decayed; the policies it
  names, else the automatic one.  The invariant is that a join made is one the
  call asks for.
- `CallbacksFit` (`CallbackFits`): with the layout in order the values of the
  sources, one after the other, are of the types wanted for the parameters.

### LocksProofs

- `MutualExclusion`, with the invariant that the flag is set exactly while
  somebody is inside; `LockIsMutex`, refinement of `Mutex`.
- `WriterIsAlone` (`RwExclusion`), where the invariant is the word itself: its
  count is the number of readers inside and its bit is set just while one writer
  claims it; so an exchange that succeeds found no writer, even if the word it
  loaded was an earlier one of the same value.  `LockIsReadWriteLock`, refinement
  of `ReadWriteLock`, follows from it.

### Only model-checked

The liveness properties (`SomeoneGetsIn`, `WriterGetsIn`, `SomeUserGetsIn`,
`EveryFireReturns`, `EventuallyInSync`, `EveryCallReturns`): they rest on fairness
and with it on ENABLED, which the prover does not reason about.  And the six
violations, which are counterexamples and need no proof.

## 6. Not modelled, and what is left

Not modelled: `scan` and `scan_into` (reads under the lock `snapshot` takes),
moves (they happen before an object is shared), the queries `is_complete`,
`required_count`, `size`, `empty`, `FlatMap::clear` (nothing in the library
calls it); memory orders weaker than the interleavings of these modules;
exceptions thrown by callbacks or by allocation; C++ object lifetimes beyond
those of the shared pointers and of what an injector refers to (the state of a
barrier is never freed in the model, so a use after its destruction would not
show; the code keeps it alive through the `shared_ptr` that `weak_ptr::lock`
gives to a notification under way); the umbrella
header, and the generated CMake sources under `src/build2`.

Done: NJoin with its policies, counter and cross product; the copy-on-write
maps; both locks; SubscriberList and SharedSource on a sorted vector;
BarrierView; Gateway; GroupLayout, SourceView and make_reactive.

Left, in order: BarrierView over `Notification` in place of the uncompacted list
it has now, so that its theorems meet those of SubscriberList; gates on several
stores; callbacks that call back into the join that called them.
