----------------------------- MODULE SessionRules -----------------------------
(***************************************************************************)
(* The findings about one session.  The consumer writes a batch of calls,  *)
(* each with the findings about itself, then reads the session's rows in   *)
(* the order they started and stores what the six session rules find, row  *)
(* by row; a store that keeps failing ends the pass early.  The transcript *)
(* collector adds rows of its own at any time and runs no session rule.    *)
(* A finding is upserted by row and kind and never withdrawn.  The pass has *)
(* its findings in hand before it stores the first, so the stores are one  *)
(* step.                                                                   *)
(*                                                                         *)
(* Time is in steps: Short is the 5-minute lifetime of a cache entry, Long *)
(* the 1-hour one.                                                         *)
(***************************************************************************)
EXTENDS CallRules, FiniteSets, Sequences

CONSTANTS Short, Long,  \* lifetimes of a cache entry
          Offered,      \* the calls of the session, each with its start
          MaxUsed,      \* bound on the session's rows that have usage,
          MaxUnused,    \* and on those that have none
          MaxOutages    \* bound on passes the store breaks off

\* A line of the transcript: no request, so no prefix hash, body or tools, no
\* status, no duration, and only messages that came to their end.
Transcribed(c) == c.hash = "none"

ASSUME RulesAssumption ==
    /\ Short \in Nat /\ Long \in Nat /\ Short < Long
    /\ \A c \in Offered : {c.at, c.input, c.w5, c.w1, c.read, c.lasts} \subseteq Nat
    /\ \A c \in Offered : Transcribed(c) =>
          /\ c.tools = "none" /\ c.marks = 0 /\ c.thinking = "off"
          /\ c.status = 0 /\ c.whole /\ c.lasts = 0 /\ Total(c) > 0
    /\ MaxUsed \in Nat /\ MaxUnused \in Nat /\ MaxOutages \in Nat

VARIABLES history,  \* the session's rows, by id
          found,    \* the warnings of those rows: [id, kind]
          pass,     \* the consumer: pc, and the findings it has yet to store
          unseen,   \* auxiliary: rows no completed pass has read
          outages

rulesVars == <<history, found, pass, unseen, outages>>

NoPass == [pc |-> "batch", todo |-> {}, seen |-> {}]

RulesInit == /\ history = <<>> /\ found = {} /\ pass = NoPass
             /\ unseen = {} /\ outages = 0

RulesTypeOK ==
    /\ history \in Seq(Offered) /\ Len(history) <= MaxUsed + MaxUnused
    /\ \A f \in found \cup pass.todo : f.id \in DOMAIN history
    /\ pass.pc \in {"batch", "written", "store"}
    /\ unseen \subseteq DOMAIN history /\ pass.seen \subseteq DOMAIN history
    /\ outages \in 0..MaxOutages

-----------------------------------------------------------------------------
(* The session rules, over some of the session's rows: calls by row id, in *)
(* the order that SessionEventsForRules returns them.                      *)

Before(s, i, j) == s[i].at < s[j].at \/ (s[i].at = s[j].at /\ i < j)

\* j is the row that comes next after i.
Follows(s, i, j) ==
    Before(s, i, j) /\ ~ \E k \in DOMAIN s : Before(s, i, k) /\ Before(s, k, j)

HasBody(c) == c.tools # "none"
HasHash(c) == c.hash # "none"
HasUsage(c) == Total(c) # 0

WithBody(s) == [i \in {j \in DOMAIN s : HasBody(s[j])} |-> s[i]]
WithUsage(s) == [i \in {j \in DOMAIN s : HasUsage(s[j])} |-> s[i]]

Finding(kind, ids) == {[id |-> i, kind |-> kind] : i \in ids}

\* The write repeats at least half of the previous prompt.
Rewrites(prev, c) == Total(prev) # 0 /\ 2 * Writes(c) >= Total(prev)

PrefixInvalidationOf(u) ==
    {i \in DOMAIN u : /\ Cardinality(DOMAIN u) >= 3
                      /\ \A j \in DOMAIN u : ~ Before(u, i, j)
                      /\ \A j, k \in DOMAIN u : Follows(u, j, k) => Rewrites(u[j], u[k])}

PrefixInvalidationOfAll(s) == PrefixInvalidationOf(s)  \* a mutated PrefixInvalidation

PrefixInvalidation(s) == PrefixInvalidationOf(WithUsage(s))

ToolsChanged(s) ==
    LET b == WithBody(s)
    IN  {i \in DOMAIN b : \E j \in DOMAIN b : /\ Follows(b, j, i) /\ Rewrites(b[j], b[i])
                                              /\ b[j].tools # b[i].tools}

Lifetime(c) == IF c.w1 > 0 THEN Long ELSE Short

ReadsWithin(s, i, span) ==
    {j \in DOMAIN s : Before(s, i, j) /\ s[j].read > 0 /\ s[j].at - s[i].at <= span}

NeverRead(s) ==
    {i \in DOMAIN s : Writes(s[i]) > 0 /\ ReadsWithin(s, i, Lifetime(s[i])) = {}}

\* The first read within the hour came within 5 minutes.
TTLMismatch(s) ==
    {i \in DOMAIN s : /\ s[i].w1 > 0
                      /\ \E j \in ReadsWithin(s, i, Long) :
                            /\ \A k \in ReadsWithin(s, i, Long) : ~ Before(s, k, j)
                            /\ s[j].at - s[i].at < Short}

\* The earlier writes of i's prefix.
Earlier(s, i) ==
    {j \in DOMAIN s : Before(s, j, i) /\ s[j].hash = s[i].hash /\ Writes(s[j]) > 0}

ExpiredBetweenTurns(s) ==
    {i \in DOMAIN s : /\ HasHash(s[i]) /\ Writes(s[i]) > 0
                      /\ \E j \in Earlier(s, i) :
                            /\ \A k \in Earlier(s, i) : ~ Before(s, j, k)
                            /\ s[i].at - s[j].at > Lifetime(s[j])}

ConcurrentWriteRace(s) ==
    {i \in DOMAIN s : /\ HasHash(s[i]) /\ Writes(s[i]) > 0 /\ s[i].read = 0
                      /\ \E j \in Earlier(s, i) :
                            s[j].read = 0 /\ s[i].at < s[j].at + s[j].lasts}

AnalyzeSession(s) ==
    Finding("cache_prefix_invalidation", PrefixInvalidation(s))
    \cup Finding("cache_invalidated_by_tools", ToolsChanged(s))
    \cup Finding("cache_write_never_read", NeverRead(s))
    \cup Finding("cache_ttl_mismatch", TTLMismatch(s))
    \cup Finding("cache_expired_between_turns", ExpiredBetweenTurns(s))
    \cup Finding("cache_concurrent_write_race", ConcurrentWriteRace(s))

-----------------------------------------------------------------------------
Used == Cardinality(DOMAIN WithUsage(history))

Fits(c) == IF HasUsage(c) THEN Used < MaxUsed ELSE Len(history) - Used < MaxUnused

Add(c) ==
    LET id == Len(history) + 1
    IN  /\ history' = Append(history, c)
        /\ unseen' = unseen \cup {id}
        /\ found' = found \cup {[id |-> id, kind |-> k] : k \in Analyze(c)}

WriteCall ==
    /\ pass.pc \in {"batch", "written"}
    /\ \E c \in Offered : ~ Transcribed(c) /\ Fits(c) /\ Add(c)
    /\ pass' = [pass EXCEPT !.pc = "written"] /\ UNCHANGED outages

WriteLine ==
    /\ \E c \in Offered : Transcribed(c) /\ Fits(c) /\ Add(c)
    /\ UNCHANGED <<pass, outages>>

ReadSession ==
    /\ pass.pc = "written"
    /\ pass' = [pc |-> "store", todo |-> AnalyzeSession(history), seen |-> DOMAIN history]
    /\ UNCHANGED <<history, found, unseen, outages>>

\* Findings are grouped by row, and the groups stored in the order of a map.
\* A mutated Group: the last finding of a row replaces the ones before it.
GroupOfOne(id) == {CHOOSE f \in pass.todo : f.id = id}

Group(id) == {f \in pass.todo : f.id = id}

Groups == {f.id : f \in pass.todo}

StoreFindings ==
    /\ pass.pc = "store"
    /\ found' = found \cup UNION {Group(id) : id \in Groups}
    /\ unseen' = unseen \ pass.seen /\ pass' = NoPass
    /\ UNCHANGED <<history, outages>>

\* The retries run out, on the read of the rows or behind some of the groups.
BreakOffPass ==
    /\ pass.pc \in {"written", "store"} /\ outages < MaxOutages
    /\ outages' = outages + 1
    /\ \E ids \in SUBSET Groups : found' = found \cup UNION {Group(id) : id \in ids}
    /\ pass' = NoPass /\ unseen' = DOMAIN history
    /\ UNCHANGED history

RulesNext == WriteCall \/ WriteLine \/ ReadSession \/ StoreFindings \/ BreakOffPass

RulesSpec == RulesInit /\ [][RulesNext]_rulesVars
-----------------------------------------------------------------------------
\* Warnings are never withdrawn, so two kinds have to be claims that no row
\* arriving later, in any order, can contradict: that a 1-hour write was read
\* again within 5 minutes, and that two writes of one prefix overlapped.  And
\* once a pass over all rows came through, everything the rules find is there
\* ("runs the session-scoped analysis pass over sessionID's whole row history
\* and upserts each finding onto the row it names", consumer.go:334-336).
Lasting == {"cache_ttl_mismatch", "cache_concurrent_write_race"}

FindingsHold ==
    LET now == AnalyzeSession(history)
    IN  /\ {f \in found : f.kind \in Lasting} \subseteq now
        /\ unseen = {} => now \subseteq found

\* The findings about the rows of one moment do not contradict each other: a
\* prefix too short to be cached was neither rewritten nor never read, and a
\* write that was read again at once was read.  And a call that failed, whose
\* row has no usage, neither adds nor hides a finding about the calls around
\* it ("a usage-less row (a 429, a truncated body) would otherwise ...
\* permanently drop a real finding", rules.go:295-298).  The rule about tools
\* is not held to that: the failed call has a body, and breaks the pair.
Contradictory == {{"cache_write_never_read", "cache_ttl_mismatch"}} \cup
    {{"cache_prefix_below_minimum", k} :
        k \in {"cache_prefix_invalidation", "cache_invalidated_by_tools",
               "cache_write_never_read", "cache_ttl_mismatch",
               "cache_expired_between_turns", "cache_concurrent_write_race"}}

FindingsAgree ==
    LET now == AnalyzeSession(history)
        But(F) == {f \in F : f.kind # "cache_invalidated_by_tools"}
    IN  /\ \A i \in DOMAIN history :
            LET kinds == Analyze(history[i]) \cup {f.kind : f \in {g \in now : g.id = i}}
            IN  \A C \in Contradictory : ~ (C \subseteq kinds)
        /\ Used = Len(history) \/ But(now) = But(AnalyzeSession(WithUsage(history)))
=============================================================================
