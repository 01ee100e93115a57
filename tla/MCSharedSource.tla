---------------------------- MODULE MCSharedSource ----------------------------
(* Three things on one instance; a behaviour is about one of them.  The    *)
(* list of subscribers by itself, with MaxFires fires; the store with its  *)
(* subscribers, MaxChanges changes; the store under a single thread and    *)
(* without subscribers, for longer sequences of changes.                   *)
EXTENDS SharedSource

CONSTANTS MaxChanges,  \* bound: changes when there are subscribers
          SharedKeys, SharedValue,  \* what they change, and to what
          Alone        \* the thread that has the store by itself

VARIABLE tested

MCvars == <<vars, source, tested>>

MCInit == SourceInit /\ tested \in {"list", "source", "store"}

MCProceed(p) ==
  \/ tested = "list" /\ Step(p) /\ UNCHANGED source
  \/ tested \in {"source", "store"} /\ Proceed(p)

MCCall ==
  \/ tested = "list" /\ UNCHANGED source
       /\ \/ \E p \in Threads : Load(p)
          \/ \E s \in Subscribers : Subscribe(s) \/ Die(s)
  \/ tested = "source" /\ fires + Cardinality(Unloaded) < MaxChanges
       /\ \E p \in Threads : \E k \in SharedKeys :
            remove(p, k) \/ insert(p, k, SharedValue)
  \/ tested = "source" /\ \E s \in Subscribers : SubscriberStep(s)
  \/ tested = "store" /\ Changes(Alone)

MCNext == (MCCall \/ \E p \in Threads : MCProceed(p)) /\ UNCHANGED tested

MCFairSpec ==
  /\ MCInit /\ [][MCNext]_MCvars
  /\ \A p \in Threads : WF_MCvars(MCProceed(p) /\ UNCHANGED tested)

=============================================================================
