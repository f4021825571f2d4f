--------------------------- MODULE MCCapturePipeline ---------------------------
(* Small instances of CapturePipeline for TLC. *)
EXTENDS CapturePipeline

CONSTANTS s1, s2, c1

\* The proxy saw one conversation; the transcript of c1 names another one.
MCProxySession == [c \in Calls |-> s1]
MCTailSession == [c \in Calls |-> IF c = c1 THEN s2 ELSE s1]
=============================================================================
