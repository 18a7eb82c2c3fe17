------------------------------ MODULE SlotPool ------------------------------
(* What the two-slot queue of one index service promises: never more than   *)
(* Capacity clients hold a slot, a slot given back while somebody waits goes *)
(* to the client that has waited longest, and no client waits while a slot   *)
(* lies idle.  indexing/scheduler.ts is one way to keep the promise.         *)
EXTENDS FiniteSets, Naturals

CONSTANTS Clients, Capacity

VARIABLES
  holding,  \* the clients that hold a slot
  ahead     \* for a waiting client, those that were waiting before it

vars == <<holding, ahead>>

CONSTANT NotWaiting  \* the value of ahead for a client that is not waiting

Waiting == {c \in Clients : ahead[c] # NotWaiting}

\* The queue once the clients in gone have left it.
Left(queue, gone) ==
  [c \in Clients |-> IF c \in gone \/ queue[c] = NotWaiting THEN NotWaiting
                     ELSE queue[c] \ gone]

Init ==
  /\ holding = {}
  /\ ahead = [c \in Clients |-> NotWaiting]

Take(c) ==
  /\ c \notin holding \cup Waiting
  /\ Cardinality(holding) < Capacity
  /\ holding' = holding \cup {c}
  /\ UNCHANGED ahead

Join(c) ==
  /\ c \notin holding \cup Waiting
  /\ Cardinality(holding) = Capacity
  /\ ahead' = [ahead EXCEPT ![c] = Waiting]
  /\ UNCHANGED holding

Withdraw(gone) ==
  /\ gone \subseteq Waiting
  /\ ahead' = Left(ahead, gone)
  /\ UNCHANGED holding

GiveBack(c) ==
  /\ c \in holding
  /\ \/ /\ Waiting = {}
        /\ holding' = holding \ {c}
        /\ UNCHANGED ahead
     \/ \E next \in Waiting :
          /\ ahead[next] = {}
          /\ holding' = (holding \ {c}) \cup {next}
          /\ ahead' = Left(ahead, {next})

Next ==
  \/ \E c \in Clients : Take(c) \/ Join(c) \/ GiveBack(c)
  \/ \E gone \in SUBSET Waiting : Withdraw(gone)

Spec == Init /\ [][Next]_vars
=============================================================================
