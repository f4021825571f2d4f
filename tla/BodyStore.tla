------------------------------- MODULE BodyStore -------------------------------
(***************************************************************************)
(* What the store promises about bodies, whatever the archive does: a body *)
(* that was captured can be read until its event is purged, and nothing    *)
(* else about it ever changes.                                             *)
(***************************************************************************)
CONSTANTS Events, Cols

VARIABLES
    stage,   \* "unused", "live" or "purged"
    body     \* the body columns a reader of the event gets

storeVars == <<stage, body>>

StoreInit ==
    /\ stage = [e \in Events |-> "unused"]
    /\ body = [e \in Events |-> {}]

StoreCapture(e, S) ==
    /\ stage[e] = "unused"
    /\ stage' = [stage EXCEPT ![e] = "live"]
    /\ body' = [body EXCEPT ![e] = S]

StoreMerge(e, S) ==
    /\ stage[e] = "live"
    /\ body' = [body EXCEPT ![e] = @ \cup S]
    /\ UNCHANGED stage

StorePurge(S) ==
    /\ \A e \in S : stage[e] = "live"
    /\ stage' = [e \in Events |-> IF e \in S THEN "purged" ELSE stage[e]]
    /\ body' = [e \in Events |-> IF e \in S THEN {} ELSE body[e]]

StoreNext ==
    \/ \E e \in Events, S \in SUBSET Cols : StoreCapture(e, S) \/ StoreMerge(e, S)
    \/ \E S \in SUBSET Events : StorePurge(S)

StoreSpec == StoreInit /\ [][StoreNext]_storeVars
=============================================================================
