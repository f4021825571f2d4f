------------------------------ MODULE LiveFeed ------------------------------
(***************************************************************************)
(* The dashboard's live feed: PublishingStore publishes every committed    *)
(* write to the Broker, which fans it out to the buffered channels of the  *)
(* open streams and drops a stream that does not keep up.                  *)
(*                                                                         *)
(* The commit and the publication are two steps, and the consumer and the  *)
(* transcript collector write side by side.                                *)
(***************************************************************************)
EXTENDS Naturals, Sequences, SequencesExt

CONSTANTS Writers,   \* goroutines that write through the PublishingStore
          Streams,   \* SSE requests
          Buffer,    \* subscriberBuffer
          MaxRows    \* bound on the rows written

ASSUME FeedAssumption == Buffer \in Nat \ {0} /\ MaxRows \in Nat

VARIABLES committed,  \* the ids of the rows committed so far
          writing,    \* writing[w]: the row w has committed and not published
          log,        \* what was published, in order
          sub,        \* sub[s]: a stream and its channel
          closes      \* closes[s]: how often the channel of s was closed

feedVars == <<committed, writing, log, sub, closes>>

\* in: the channel is in the broker's map.  from: where in the log it joined.
NoStream == [pc |-> "none", in |-> FALSE, from |-> 0, buf |-> <<>>, got |-> <<>>]

FeedInit ==
    /\ committed = {} /\ writing = [w \in Writers |-> <<>>] /\ log = <<>>
    /\ sub = [s \in Streams |-> NoStream] /\ closes = [s \in Streams |-> 0]

FeedTypeOK ==
    /\ committed \subseteq 1..MaxRows
    /\ \A s \in Streams : /\ sub[s].pc \in {"none", "open", "gone"}
                          /\ Len(sub[s].buf) <= Buffer
    /\ \A i \in 1..Len(log) : log[i].id \in committed

\* InsertEvent commits a row; UpsertWarnings a row's warnings.  Nothing is
\* published for a write that fails or for a call without warnings.
CommitRow(w) ==
    /\ writing[w] = <<>> /\ Len(log) < 2 * MaxRows
    /\ \E id \in 1..MaxRows :
        \/ /\ \A i \in 1..MaxRows : i < id => i \in committed
           /\ id \notin committed
           /\ committed' = committed \cup {id}
           /\ writing' = [writing EXCEPT ![w] = <<[type |-> "event", id |-> id]>>]
        \/ /\ id \in committed /\ [type |-> "warnings", id |-> id] \notin ToSet(log)
           /\ [type |-> "event", id |-> id] \in ToSet(log)
           /\ writing' = [writing EXCEPT ![w] = <<[type |-> "warnings", id |-> id]>>]
           /\ UNCHANGED committed
    /\ UNCHANGED <<log, sub, closes>>

Room(s) == Len(sub[s].buf) < Buffer

SentOrSkipped(s, e) == IF sub[s].in /\ Room(s)            \* a mutated Sent
                       THEN [sub[s] EXCEPT !.buf = Append(@, e)] ELSE sub[s]

\* Publish never blocks: a subscriber without room is removed and its channel
\* closed.
Sent(s, e) == IF ~ sub[s].in THEN sub[s]
              ELSE IF Room(s) THEN [sub[s] EXCEPT !.buf = Append(@, e)]
              ELSE [sub[s] EXCEPT !.in = FALSE]
Publish(w) ==
    /\ writing[w] # <<>>
    /\ LET e == Head(writing[w]) IN
        /\ log' = Append(log, e)
        /\ sub' = [s \in Streams |-> Sent(s, e)]
        /\ closes' = [s \in Streams |->
                        closes[s] + IF sub[s].in /\ ~ Sent(s, e).in THEN 1 ELSE 0]
    /\ writing' = [writing EXCEPT ![w] = <<>>]
    /\ UNCHANGED committed

Subscribe(s) ==
    /\ sub[s].pc = "none"
    /\ sub' = [sub EXCEPT ![s].pc = "open", ![s].in = TRUE, ![s].from = Len(log)]
    /\ UNCHANGED <<committed, writing, log, closes>>

\* The stream takes the next event; a closed channel still yields what it held.
Receive(s) ==
    /\ sub[s].pc = "open" /\ sub[s].buf # <<>>
    /\ sub' = [sub EXCEPT ![s].got = Append(@, Head(sub[s].buf)),
                          ![s].buf = Tail(@)]
    /\ UNCHANGED <<committed, writing, log, closes>>

\* The stream ends, because its client left, its write failed or its channel
\* is closed and empty, and unsubscribes: a second close would panic.
Leave(s) ==
    /\ sub[s].pc = "open"
    /\ sub' = [sub EXCEPT ![s].pc = "gone", ![s].in = FALSE]
    /\ closes' = [closes EXCEPT ![s] = IF sub[s].in THEN @ + 1 ELSE @]
    /\ UNCHANGED <<committed, writing, log>>

FeedNext == \/ \E w \in Writers : CommitRow(w) \/ Publish(w)
            \/ \E s \in Streams : Subscribe(s) \/ Receive(s) \/ Leave(s)

FeedSpec == FeedInit /\ [][FeedNext]_feedVars

\* A stream that is still subscribed has been handed, or holds, everything
\* published since it joined, in order; one that was dropped has a prefix of
\* it, and learns of the drop by a channel that is closed exactly once.
FeedHasNoGap ==
    \A s \in Streams : sub[s].pc # "none" =>
        LET owed == SubSeq(log, sub[s].from + 1, Len(log))
            has == sub[s].got \o sub[s].buf
        IN /\ IsPrefix(has, owed)
           /\ sub[s].in => has = owed
           /\ closes[s] = IF sub[s].in THEN 0 ELSE 1
=============================================================================
