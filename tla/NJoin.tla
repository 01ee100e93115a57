-------------------------------- MODULE NJoin --------------------------------
(***************************************************************************)
(* njoin.hpp and source.hpp: concurrent calls of NJoin::add, with removals *)
(* and deaths of values in between.                                        *)
(*                                                                         *)
(* A thread in add<I>(v) takes a stamp from the shared counter, and only   *)
(* then the lock of source I to insert; it takes the snapshots, each under *)
(* its own source's lock and in an order C++ does not fix (they are the    *)
(* arguments of one call), and emits the combinations it owns outside all  *)
(* locks.  One action is one critical section: a lock is held over nothing *)
(* but the store it guards, so what happens under it is atomic.            *)
(*                                                                         *)
(* A callback that calls add, remove or clear of the same join runs here   *)
(* as another thread whose call falls between two steps of the first.      *)
(***************************************************************************)
EXTENDS CrossProduct, FiniteSets

CONSTANTS
  Threads,    \* the calling threads
  Start,      \* what the counter holds at first: 0, or what it holds after
              \* adds whose entries have all been cleared
  MaxAdds,    \* bound: adds begun
  Policy,     \* the retention policy of each source
  Mortal,     \* the values of each source its liveness strategy lets die
  Shrinking   \* the sources callers remove from or clear

ASSUME JoinAssumption ==
  /\ Start \in Stamp
  /\ MaxAdds \in 0 .. Half
  /\ Policy \in [Sources -> Policies]
  /\ Mortal \in [Sources -> SUBSET Values]
  /\ Shrinking \subseteq Sources
  /\ \A s \in Sources : Policy[s] \in CowPolicies => Mortal[s] = {}

VARIABLES
  seq_counter,  \* SeqCounter
  store,        \* what each source's policy holds
  dead,         \* the values of each source that are no longer alive
  pc,           \* where each thread is in add
  src, val,     \* the arguments of its add
  seq,          \* the stamp it took
  left,         \* the sources it has not taken a snapshot of
  snap,         \* the snapshots it has taken
  todo          \* the combinations it owns and has not emitted

(* History: how many adds have begun, every entry a source has accepted,   *)
(* those of them that were pushed out, removed, cleared or whose value     *)
(* died, every combination emitted, the calls of the callback, and what    *)
(* each add found when it began: the entries then gone and those then      *)
(* visible.                                                                *)
VARIABLES adds, accepted, gone, emitted, calls, found

locals == <<src, val, seq, left, snap, todo>>
history == <<adds, accepted, gone, emitted, calls>>
vars == <<seq_counter, store, dead, pc, locals, history, found>>

NoEntries == [s \in Sources |-> {}]
AnyValue == CHOOSE v \in Values : TRUE
Nothing == [gone |-> NoEntries, visible |-> NoEntries]

Init ==
  /\ seq_counter = Start
  /\ store = NoEntries
  /\ dead = NoEntries
  /\ pc = [p \in Threads |-> "idle"]
  /\ src = [p \in Threads |-> 0]
  /\ val = [p \in Threads |-> AnyValue]
  /\ seq = [p \in Threads |-> Start]
  /\ left = [p \in Threads |-> Sources]
  /\ snap = [p \in Threads |-> NoEntries]
  /\ todo = [p \in Threads |-> {}]
  /\ adds = 0
  /\ accepted = NoEntries
  /\ gone = NoEntries
  /\ emitted = {}
  /\ calls = 0
  /\ found = [p \in Threads |-> Nothing]

-----------------------------------------------------------------------------
(* A buggy snapshot for mutation: the liveness strategy is not asked.      *)
SeesTheDead(s) == store[s]

(* Source::snapshot: the entries whose values are alive.                   *)
Visible(s) == {e \in store[s] : e.val \notin dead[s]}

Own(p) == [val |-> val[p], seq |-> seq[p]]

(* add, step 1: the stamp, under no lock.                                  *)
TakeSeq(p, s, v) ==
  /\ pc[p] = "idle"
  /\ adds < MaxAdds
  /\ seq' = [seq EXCEPT ![p] = seq_counter]
  /\ seq_counter' = NextStamp(seq_counter)
  /\ src' = [src EXCEPT ![p] = s]
  /\ val' = [val EXCEPT ![p] = v]
  /\ pc' = [pc EXCEPT ![p] = "insert"]
  /\ adds' = adds + 1
  /\ found' = [found EXCEPT ![p] =
       [gone |-> gone, visible |-> [i \in Sources |-> Visible(i)]]]
  /\ UNCHANGED <<store, dead, left, snap, todo, accepted, gone, emitted,
                 calls>>

(* The add is over, its locals are gone.                                   *)
Leave(p) ==
  /\ pc' = [pc EXCEPT ![p] = "idle"]
  /\ src' = [src EXCEPT ![p] = 0]
  /\ val' = [val EXCEPT ![p] = AnyValue]
  /\ seq' = [seq EXCEPT ![p] = Start]
  /\ left' = [left EXCEPT ![p] = Sources]
  /\ snap' = [snap EXCEPT ![p] = NoEntries]
  /\ found' = [found EXCEPT ![p] = Nothing]

(* Of the entries accepted so far, those that are gone when v is inserted: *)
(* only RetainLatest takes an equal value for a replacement.               *)
PushedOut(policy, entries, v) ==
  {f \in Displaced(policy, entries, v) : policy = "latest" \/ f.val # v}

(* add, step 2: Source::insert under the source's lock.                    *)
Insert(p) ==
  /\ pc[p] = "insert"
  /\ Accepts(Policy[src[p]], store[src[p]], val[p])
  /\ store' = [store EXCEPT ![src[p]] = Inserted(Policy[src[p]], @, Own(p))]
  /\ accepted' = [accepted EXCEPT ![src[p]] = @ \cup {Own(p)}]
  /\ gone' = [gone EXCEPT ![src[p]] =
                 @ \cup PushedOut(Policy[src[p]], accepted[src[p]], val[p])]
  /\ pc' = [pc EXCEPT ![p] = "snapshot"]
  /\ UNCHANGED <<seq_counter, dead, locals, adds, emitted, calls, found>>

(* The policy refuses the value: add returns at once.                      *)
Reject(p) ==
  /\ pc[p] = "insert"
  /\ ~Accepts(Policy[src[p]], store[src[p]], val[p])
  /\ Leave(p)
  /\ UNCHANGED <<seq_counter, store, dead, todo, history>>

(* A buggy step for mutation: the snapshot is the one cached when the add  *)
(* began.                                                                  *)
StaleSnapshotOne(p, s) ==
  /\ pc[p] = "snapshot"
  /\ s \in left[p]
  /\ left' = [left EXCEPT ![p] = @ \ {s}]
  /\ snap' = [snap EXCEPT ![p][s] = found[p].visible[s]]
  /\ IF left[p] = {s}
     THEN /\ pc' = [pc EXCEPT ![p] = "emit"]
          /\ todo' = [todo EXCEPT ![p] =
                        cross_product(snap'[p], src[p], seq[p])]
     ELSE UNCHANGED <<pc, todo>>
  /\ UNCHANGED <<seq_counter, store, dead, src, val, seq, history, found>>

(* add, step 3: snapshot_one<s>() under the lock of s.  The last of them   *)
(* gives the combinations to emit, step 4, which depend on nothing else.   *)
SnapshotOne(p, s) ==
  /\ pc[p] = "snapshot"
  /\ s \in left[p]
  /\ left' = [left EXCEPT ![p] = @ \ {s}]
  /\ snap' = [snap EXCEPT ![p][s] = Visible(s)]
  /\ IF left[p] = {s}
     THEN /\ pc' = [pc EXCEPT ![p] = "emit"]
          /\ todo' = [todo EXCEPT ![p] =
                        cross_product(snap'[p], src[p], seq[p])]
     ELSE UNCHANGED <<pc, todo>>
  /\ UNCHANGED <<seq_counter, store, dead, src, val, seq, history, found>>

(* add, step 4: one call of the callback.  The order within one add        *)
(* follows the hash maps and is not fixed.                                 *)
Emit(p, t) ==
  /\ pc[p] = "emit"
  /\ t \in todo[p]
  /\ emitted' = emitted \cup {t}
  /\ calls' = calls + 1
  /\ todo' = [todo EXCEPT ![p] = @ \ {t}]
  /\ UNCHANGED <<seq_counter, store, dead, pc, src, val, seq, left, snap,
                 adds, accepted, gone, found>>

Return(p) ==
  /\ pc[p] = "emit"
  /\ todo[p] = {}
  /\ Leave(p)
  /\ UNCHANGED <<seq_counter, store, dead, todo, history>>

(* Source::remove, for the policies that have it.                          *)
Remove(s, v) ==
  /\ s \in Shrinking
  /\ Removable(Policy[s])
  /\ Erased(Policy[s], store[s], v) # {}
  /\ store' = [store EXCEPT ![s] = @ \ Erased(Policy[s], @, v)]
  /\ gone' = [gone EXCEPT ![s] = @ \cup Erased(Policy[s], accepted[s], v)]
  /\ UNCHANGED <<seq_counter, dead, pc, locals, adds, accepted, emitted, calls, found>>

(* Source::clear.                                                          *)
Clear(s) ==
  /\ s \in Shrinking
  /\ store[s] # {}
  /\ store' = [store EXCEPT ![s] = {}]
  /\ gone' = [gone EXCEPT ![s] = accepted[s]]
  /\ UNCHANGED <<seq_counter, dead, pc, locals, adds, accepted, emitted, calls, found>>

(* A value dies: what is_alive says of it changes for good.                *)
Die(s, v) ==
  /\ v \in Mortal[s] \ dead[s]
  /\ dead' = [dead EXCEPT ![s] = @ \cup {v}]
  /\ gone' = [gone EXCEPT ![s] = @ \cup {e \in accepted[s] : e.val = v}]
  /\ UNCHANGED <<seq_counter, store, pc, locals, adds, accepted, emitted, calls, found>>

(* What a thread inside add does next.                                     *)
Step(p) ==
  \/ Insert(p)
  \/ Reject(p)
  \/ \E s \in Sources : SnapshotOne(p, s)
  \/ \E t \in todo[p] : Emit(p, t)
  \/ Return(p)

Next ==
  \/ \E p \in Threads, s \in Sources, v \in Values : TakeSeq(p, s, v)
  \/ \E p \in Threads : Step(p)
  \/ \E s \in Sources, v \in Values : Remove(s, v) \/ Die(s, v)
  \/ \E s \in Sources : Clear(s)

Spec == Init /\ [][Next]_vars

-----------------------------------------------------------------------------
(* How many calls of next() came before the one that returned q.           *)
IssueIndex(q) == Distance(q, Start)

(* Every variable keeps its type; the counter is where adds calls of       *)
(* next() leave it, and a thread has combinations to emit only while it    *)
(* emits.                                                                  *)
TypeOK ==
  /\ adds \in 0 .. MaxAdds
  /\ seq_counter = StampAt(Start, adds)
  /\ store \in [Sources -> SUBSET Entry]
  /\ dead \in [Sources -> SUBSET Values]
  /\ pc \in [Threads -> {"idle", "insert", "snapshot", "emit"}]
  /\ src \in [Threads -> Sources]
  /\ val \in [Threads -> Values]
  /\ seq \in [Threads -> Stamp]
  /\ left \in [Threads -> SUBSET Sources]
  /\ snap \in [Threads -> [Sources -> SUBSET Entry]]
  /\ todo \in [Threads -> SUBSET [Sources -> Entry]]
  /\ accepted \in [Sources -> SUBSET Entry]
  /\ gone \in [Sources -> SUBSET Entry]
  /\ found \in [Threads -> [gone : [Sources -> SUBSET Entry],
                             visible : [Sources -> SUBSET Entry]]]
  /\ emitted \in SUBSET [Sources -> Entry]
  /\ calls \in Nat
  /\ \A p \in Threads : pc[p] # "emit" => todo[p] = {}

(* "No duplicate: the same tuple must not be emitted twice"                *)
(* (docs/eventing_framework.md:39): a callback never gets a combination    *)
(* some callback got before, whichever thread runs it.                     *)
AtMostOnce ==
  [][\A p \in Threads : \A t \in todo[p] : Emit(p, t) => t \notin emitted]_vars

(* The add that emits a combination took its stamp after the adds of all   *)
(* the other entries took theirs, also when the counter has wrapped.       *)
OwnerIsNewest ==
  \A p \in Threads : \A t \in todo[p] : \A s \in Sources \ {src[p]} :
    IssueIndex(t[s].seq) < IssueIndex(seq[p])

(* What can be kept of "every valid combination must be emitted": when an  *)
(* add has its snapshots, it has emitted or will emit its entry with every *)
(* entry that was visible before it began and still is, as long as its own *)
(* entry has not been pushed out.                                          *)
SettledEmitted ==
  \A p \in Threads :
    pc[p] = "emit" /\ Own(p) \in Visible(src[p]) =>
      LET settled == [s \in Sources |->
            IF s = src[p] THEN {Own(p)} ELSE found[p].visible[s] \cap Visible(s)]
      IN  Combinations(settled) \subseteq todo[p] \cup emitted

(* An add emits nothing that was removed, overwritten or dead before it    *)
(* began.                                                                  *)
NoStaleMember ==
  \A p \in Threads : \A t \in todo[p] : \A s \in Sources :
    t[s] \notin found[p].gone[s]

(* Once holds of values too, under every policy: of two combinations of    *)
(* the same values that are or will be emitted, members that differ (only  *)
(* in their stamps) are of a value that was overwritten, removed, cleared  *)
(* or had died in between; adding it again while it was held does not do.  *)
OncePerValues ==
  LET out == emitted \cup UNION {todo[p] : p \in Threads}
  IN  \A t, u \in out :
        (\A s \in Sources : t[s].val = u[s].val) =>
          \A s \in Sources : t[s] = u[s] \/ {t[s], u[s]} \cap gone[s] # {}

(* NJoin keeps what JoinContract promises.                                 *)
Contract == INSTANCE JoinContract
Implements == Contract!Spec

-----------------------------------------------------------------------------
(* "No missed tuple: every valid combination must be emitted exactly once" *)
(* (docs/eventing_framework.md:38): when no add is under way, every        *)
(* combination of what the sources hold has been emitted.                  *)
NoMissedTuple ==
  (\A p \in Threads : pc[p] = "idle") => Combinations(store) \subseteq emitted

(* "Retains only the latest value" (policy/retain_latest.hpp:12): the      *)
(* entry a RetainLatest source holds is never replaced by an older one.    *)
LatestNeverOlder ==
  [][\A s \in Sources : Policy[s] = "latest" =>
       \A e \in store[s], f \in store'[s] :
         IssueIndex(f.seq) >= IssueIndex(e.seq)]_vars

=============================================================================
