----------------------------- MODULE CallIdentity -----------------------------
(***************************************************************************)
(* Which row and which session a captured call goes to.  The consumer      *)
(* resolves calls one at a time, in the order they end; the row is named   *)
(* by the upstream, or by a key made up for the call, the session by a     *)
(* header, or by the last session of the same prompt prefix.  What the     *)
(* Resolver has seen, and its counter of made-up keys, live in memory.     *)
(* Source: requestID in consumer.go, ExtractMeta in parse/meta.go, Resolve *)
(* in session.go.                                                          *)
(*                                                                         *)
(* A request is a record: override and own (its two session headers), body *)
(* ("" when it is no JSON, as when it was cut), and what the answer names: *)
(* header, message.                                                        *)
(***************************************************************************)
EXTENDS Integers, Sequences, SequencesExt

CONSTANTS Requests,    \* the requests there are
          Overlong,    \* the session headers over 200 bytes
          Gap,         \* minutes of inactivity that close a session
          MaxMinutes, MaxCalls, MaxRestarts  \* bounds

ASSUME IdentityAssumption ==
    /\ Gap \in Nat /\ MaxMinutes \in Nat /\ MaxCalls \in Nat /\ MaxRestarts \in Nat
    /\ \A q \in Requests : q.header # "" => q.header # q.message

VARIABLES minute,    \* the time
          flying,    \* calls under way: [request, at]
          captured,  \* rows, in the order they were resolved
          resolved,  \* Resolver.seen: by key, the session and when
          attempts,  \* fallbackSeqCounter
          minted,    \* sessions made up so far (their ids are random)
          restarts

identityVars == <<minute, flying, captured, resolved, attempts, minted, restarts>>

NoSessions == [k \in {} |-> 0]

IdentityInit ==
    /\ minute = 0 /\ flying = <<>> /\ captured = <<>> /\ resolved = NoSessions
    /\ attempts = 0 /\ minted = 0 /\ restarts = 0

\* x-clens-session first, then x-claude-code-session-id; neither when overlong.
Usable(h) == h # "" /\ h \notin Overlong

SessionHeader(q) ==
    IF Usable(q.override) THEN q.override ELSE IF Usable(q.own) THEN q.own ELSE ""

\* Every request without a readable body has the same hash, "".
PrefixHash(q) == q.body

\* The made-up key has the hash of the body, the start and the attempt.
RequestID(c, attempt) ==
    IF c.request.header # "" THEN <<c.request.header>>
    ELSE IF c.request.message # "" THEN <<c.request.message>>
    ELSE <<c.request.body, c.at, attempt>>

MadeUp(c) == c.request.header = "" /\ c.request.message = ""

\* The key's last session, if the call is within the gap of its last call.
Continues(key, at) == key \in DOMAIN resolved /\ at - resolved[key].at <= Gap

\* A mutated Seen: the session keeps the time of its first call.
SeenFirst(key, at, id) ==
    [session |-> id, at |-> IF Continues(key, at) THEN resolved[key].at ELSE at]

Seen(key, at, id) == [session |-> id, at |-> at]

-----------------------------------------------------------------------------
Arrives ==
    /\ Len(flying) + Len(captured) < MaxCalls
    /\ \E q \in Requests : flying' = Append(flying, [request |-> q, at |-> minute])
    /\ UNCHANGED <<minute, captured, resolved, attempts, minted, restarts>>

\* A call ends and is resolved: processCall.
Resolve ==
    \E i \in 1..Len(flying) :
        LET c == flying[i]
            key == PrefixHash(c.request)
            named == SessionHeader(c.request) # ""
            id == IF Continues(key, c.at) THEN resolved[key].session ELSE minted + 1
        IN  /\ flying' = RemoveAt(flying, i)
            /\ attempts' = IF MadeUp(c) THEN attempts + 1 ELSE attempts
            /\ captured' = Append(captured,
                  [request |-> c.request, at |-> c.at, life |-> restarts,
                   id |-> RequestID(c, attempts'),
                   session |-> IF named THEN <<SessionHeader(c.request)>> ELSE <<"s", id>>])
            /\ IF named THEN UNCHANGED <<resolved, minted>>
               ELSE /\ resolved' = [k \in DOMAIN resolved \cup {key} |->
                           IF k = key THEN Seen(key, c.at, id) ELSE resolved[k]]
                    /\ minted' = IF Continues(key, c.at) THEN minted ELSE minted + 1
            /\ UNCHANGED <<minute, restarts>>

TimePasses ==
    /\ minute < MaxMinutes /\ minute' = minute + 1
    /\ UNCHANGED <<flying, captured, resolved, attempts, minted, restarts>>

\* serve is restarted; calls under way are not captured.  No restart is within
\* the clock's resolution of a call's start.
Restarts ==
    /\ restarts < MaxRestarts /\ restarts' = restarts + 1
    /\ minute < MaxMinutes /\ minute' = minute + 1
    /\ flying' = <<>> /\ resolved' = NoSessions /\ attempts' = 0
    /\ UNCHANGED <<captured, minted>>

IdentityNext == Arrives \/ Resolve \/ TimePasses \/ Restarts

IdentitySpec == IdentityInit /\ [][IdentityNext]_identityVars
-----------------------------------------------------------------------------
IdentityTypeOK ==
    /\ minute \in 0..MaxMinutes /\ attempts \in 0..MaxCalls /\ minted \in 0..MaxCalls
    /\ \A k \in DOMAIN resolved : resolved[k].at \in 0..MaxMinutes

Grouped(c) == SessionHeader(c.request) = ""

\* The calls that the Resolver, in one life, has grouped under a's key.
GroupOf(a) == {k \in DOMAIN captured :
    /\ Grouped(captured[k]) /\ captured[k].life = a.life
    /\ PrefixHash(captured[k].request) = PrefixHash(a.request)}

\* l is the call of the group G that was resolved next after k.
ResolvedNext(G, k, l) == k < l /\ ~ \E m \in G : k < m /\ m < l

\* Two calls share a row only if the upstream gave both one name ("what keeps
\* two byte-identical bodies ... from collapsing onto the same synthetic key",
\* consumer.go:531-532), across restarts of the counter too.  A call that names
\* its session is in it.  Calls without one share a session only with calls of
\* their own prefix and process, and a call is in the session of the one that
\* was resolved before it exactly if it began within the limit of that one.
CallsKeepApart ==
    \A i, j \in DOMAIN captured :
        LET a == captured[i]  b == captured[j]  group == GroupOf(a)
        IN  /\ i # j /\ a.id = b.id => ~ MadeUp(a) /\ ~ MadeUp(b)
            /\ ~ Grouped(a) => a.session = <<SessionHeader(a.request)>>
            /\ Grouped(a) /\ a.session = b.session =>
                  Grouped(b) /\ a.life = b.life /\ PrefixHash(a.request) = PrefixHash(b.request)
            /\ i \in group /\ j \in group /\ ResolvedNext(group, i, j) =>
                  (a.session = b.session <=> b.at - a.at <= Gap)
=============================================================================
