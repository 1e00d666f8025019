--------------------------- MODULE DurableMutations ---------------------------
(***************************************************************************)
(* What a client of the coordinator is promised: a mutation becomes        *)
(* durable at one moment, as a whole and by itself; it is acknowledged only *)
(* then; a crash may lose it before that, but never afterwards.            *)
(***************************************************************************)
EXTENDS Naturals

CONSTANT Mutations

VARIABLES durable, acked

Init == durable = {} /\ acked = {}

Persist(m) ==
  /\ m \notin durable
  /\ durable' = durable \cup {m}
  /\ UNCHANGED acked

Lose(m) ==
  /\ m \in durable \ acked
  /\ durable' = durable \ {m}
  /\ UNCHANGED acked

Acknowledge(m) ==
  /\ m \in durable \ acked
  /\ acked' = acked \cup {m}
  /\ UNCHANGED durable

Next == \E m \in Mutations : Persist(m) \/ Lose(m) \/ Acknowledge(m)

Spec == Init /\ [][Next]_<<durable, acked>>
=============================================================================
