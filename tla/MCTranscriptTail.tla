---------------------------- MODULE MCTranscriptTail ----------------------------
(* Small instances of TranscriptTail for TLC. *)
EXTENDS TranscriptTail

CONSTANTS f1, k1, k2

\* Two lines of one request, then a file that starts over with other lines.
MCScript ==
    [f \in Files |->
        [g \in 0..Generations |->
            IF g = 0 THEN <<[key |-> k1, usage |-> 1], [key |-> k1, usage |-> 2]>>
            ELSE <<[key |-> k2, usage |-> 1]>>]]
=============================================================================
