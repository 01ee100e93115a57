----------------------------- MODULE Notification -----------------------------
(***************************************************************************)
(* What a list of subscribers promises: a fire calls, each once, everybody *)
(* who was subscribed when it began, but maybe those who have died; nobody *)
(* is dropped before he has died; and who was dropped is never called by a *)
(* fire that begins later.                                                 *)
(***************************************************************************)
CONSTANTS Threads, Subscribers

VARIABLES
  members,  \* who has subscribed
  dead,     \* who has died
  dropped,  \* who was dropped
  firing,   \* the threads in fire
  owed      \* whom each of them still has to call

vars == <<members, dead, dropped, firing, owed>>

Init ==
  /\ members = {} /\ dead = {} /\ dropped = {} /\ firing = {}
  /\ owed = [p \in Threads |-> {}]

Subscribe(s) ==
  /\ s \notin members
  /\ members' = members \cup {s}
  /\ UNCHANGED <<dead, dropped, firing, owed>>

Die(s) ==
  /\ s \in members \ dead
  /\ dead' = dead \cup {s}
  /\ UNCHANGED <<members, dropped, firing, owed>>

Begin(p) ==
  /\ p \notin firing
  /\ firing' = firing \cup {p}
  /\ \E told \in SUBSET (members \ dropped) :
       /\ members \ dead \subseteq told
       /\ owed' = [owed EXCEPT ![p] = told]
  /\ UNCHANGED <<members, dead, dropped>>

Tell(p, s) ==
  /\ s \in owed[p]
  /\ owed' = [owed EXCEPT ![p] = @ \ {s}]
  /\ UNCHANGED <<members, dead, dropped, firing>>

(* At its end a fire may drop some of the dead.                            *)
End(p) ==
  /\ p \in firing /\ owed[p] = {}
  /\ firing' = firing \ {p}
  /\ \E gone \in SUBSET dead : dropped' = dropped \cup gone
  /\ UNCHANGED <<members, dead, owed>>

Next ==
  \/ \E s \in Subscribers : Subscribe(s) \/ Die(s)
  \/ \E p \in Threads : Begin(p) \/ End(p) \/ \E s \in Subscribers : Tell(p, s)

Spec == Init /\ [][Next]_vars

=============================================================================
