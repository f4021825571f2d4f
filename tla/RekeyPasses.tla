----------------------------- MODULE RekeyPasses -----------------------------
(***************************************************************************)
(* Passes 1 and 2 of `clens rekey`, which repair rows captured before a    *)
(* call's own name and conversation were read: pass 1 re-keys a row by the *)
(* id in its stored response, merging it into the row that already has the *)
(* key; pass 2 moves a row to the session in its stored headers.  Each     *)
(* pass loads its rows first and then works through them, a transaction    *)
(* each, while serve archives, purges and tails, and may die anywhere.     *)
(* Source: Rekey* in src/internal/store/store.go.  Pass 3 is in            *)
(* TranscriptTail, what a merge does to the figures in EventMerge.         *)
(***************************************************************************)
EXTENDS Integers, Functions

CONSTANTS Old,     \* the old captures: a record each of id (in the response,
                   \* or ""), header (a conversation, or ""), session (the one
                   \* made up for it), of (the capture it replays, or ""),
                   \* kinds (of its warnings)
          Spoken,  \* the conversation of each message a transcript has
          MaxRuns  \* bound on runs of the command

\* Captures and messages have different names.  A replay was answered with an
\* id of its own, and no transcript has it.
ASSUME OldAssumption ==
    /\ DOMAIN Old \cap DOMAIN Spoken = {} /\ "" \notin DOMAIN Old \cup DOMAIN Spoken
    /\ \A c \in DOMAIN Old : Old[c].of # "" =>
          /\ Old[c].of \in DOMAIN Old /\ Old[c].id \notin DOMAIN Spoken
          /\ Old[c].id # "" => \A d \in DOMAIN Old \ {c} : Old[d].id # Old[c].id

VARIABLES events,    \* events, by row id
          markers,   \* rows whose bodies are in the archive
          totals,    \* sessions, with the rows and warnings they count
          unsaid,    \* messages the tailer has yet to insert
          unfolded,  \* sessions it has inserted into and not folded yet
          purged,    \* auxiliary: rows and captures that a purge has deleted,
          behind,    \* the sessions it took them from, not re-derived since,
          remade,    \* and those a fold made after their last row had moved
          rekey,     \* the command
          runs

rekeyVars == <<events, markers, totals, unsaid, unfolded, purged, behind, remade, rekey, runs>>

\* A request id: made up for a capture, or the message's own.
ProxyKey(c) == <<"proxy", c>>
MessageKey(m) == <<"id", m>>
IsProxyKey(key) == key[1] = "proxy"

\* holds is auxiliary: the captures whose observations the row has.
Capture(c) == [key |-> ProxyKey(c), source |-> "proxy", body |-> c, holds |-> {c},
               session |-> Old[c].session, kinds |-> Old[c].kinds, of |-> Old[c].of]
RowOfLine(m) == [key |-> MessageKey(m), source |-> "jsonl", body |-> "", holds |-> {},
            session |-> Spoken[m], kinds |-> {}, of |-> ""]

Sum(es, s) ==
    [rows |-> {r \in DOMAIN es : es[r].session = s},
     found |-> UNION {{<<r, k>> : k \in es[r].kinds} : r \in {x \in DOMAIN es : es[x].session = s}}]

SessionsOf(es) == {es[r].session : r \in DOMAIN es}

NotRunning == [pc |-> "idle", todo |-> [r \in {} |-> r], archived |-> {}]

RekeyInit ==
    \E M \in SUBSET DOMAIN Spoken :
        LET es == [r \in DOMAIN Old \cup M |-> IF r \in M THEN RowOfLine(r) ELSE Capture(r)] IN
        /\ events = es /\ unsaid = DOMAIN Spoken \ M
        /\ totals = [s \in SessionsOf(es) |-> Sum(es, s)]
        /\ markers = {} /\ unfolded = {} /\ purged = {} /\ behind = {} /\ remade = {}
        /\ rekey = NotRunning /\ runs = 0

\* The sessions S are re-derived; those of them in E go if they are empty.
Rederived(es, S, E) ==
    /\ totals' = [s \in DOMAIN totals \ {s \in E : Sum(es, s).rows = {}} |->
                    IF s \in S THEN Sum(es, s) ELSE totals[s]]
    /\ behind' = behind \ S

Without(f, r) == Restrict(f, DOMAIN f \ {r})

-----------------------------------------------------------------------------
(* serve, beside the command. *)

Archives(r) ==
    /\ events[r].body # "" /\ r \notin markers
    /\ markers' = markers \cup {r}
    /\ UNCHANGED <<events, totals, unsaid, unfolded, purged, behind, remade, rekey, runs>>

\* A purge deletes rows and leaves the sessions as they are.
Purges(r) ==
    /\ events' = Without(events, r) /\ markers' = markers \ {r}
    /\ purged' = purged \cup {r} \cup events[r].holds
    /\ behind' = behind \cup {events[r].session}
    /\ UNCHANGED <<totals, unsaid, unfolded, remade, rekey, runs>>

Keyed(m) == {r \in DOMAIN events : events[r].key = MessageKey(m)}

\* InsertEvent: a row of its own, or merged into the row that has the key,
\* whose session is re-derived with it.
TailInserts(m) ==
    /\ m \in unsaid /\ unsaid' = unsaid \ {m}
    /\ \/ /\ Keyed(m) = {}
          /\ events' = [r \in DOMAIN events \cup {m} |-> IF r = m THEN RowOfLine(m) ELSE events[r]]
          /\ unfolded' = unfolded \cup {Spoken[m]}
          /\ UNCHANGED <<totals, behind>>
       \/ \E r \in Keyed(m) :
             /\ unfolded' = unfolded \cup {events[r].session}
             /\ Rederived(events, {events[r].session}, {})
             /\ UNCHANGED events
    /\ UNCHANGED <<markers, purged, remade, rekey, runs>>

\* RecordCall, of the session InsertEvent returned: it makes it if need be.
TailFolds(s) ==
    /\ s \in unfolded /\ unfolded' = unfolded \ {s}
    /\ totals' = [x \in DOMAIN totals \cup {s} |-> IF x = s THEN Sum(events, s) ELSE totals[x]]
    /\ behind' = behind \ {s}
    /\ remade' = IF s \in SessionsOf(events) THEN remade ELSE remade \cup {s}
    /\ UNCHANGED <<events, markers, unsaid, purged, rekey, runs>>

-----------------------------------------------------------------------------
(* Pass 1. *)

\* The rows as they are now; an archived one comes without its body.
Loaded(R) == [r \in R |-> IF r \in markers THEN [events[r] EXCEPT !.body = ""] ELSE events[r]]

LoadSynthetic ==
    /\ rekey.pc = "idle" /\ runs < MaxRuns /\ runs' = runs + 1
    /\ rekey' = [rekey EXCEPT !.pc = "markers",
                    !.todo = Loaded({r \in DOMAIN events : /\ events[r].source = "proxy"
                                                           /\ IsProxyKey(events[r].key)})]
    /\ UNCHANGED <<events, markers, totals, unsaid, unfolded, purged, behind, remade>>

ReadMarkers ==
    /\ rekey.pc = "markers"
    /\ rekey' = [rekey EXCEPT !.pc = "rekey", !.archived = markers]
    /\ UNCHANGED <<events, markers, totals, unsaid, unfolded, purged, behind, remade, runs>>

\* rekeyBodyMessageID: "" without a body, or when the body has no id.
BodyID(ev) == IF ev.body = "" THEN "" ELSE Old[ev.body].id

Turn(r, pc) == r \in DOMAIN rekey.todo /\ rekey.pc = pc
               /\ rekey' = [rekey EXCEPT !.todo = Without(@, r)]

\* An archived row is skipped, one without an id stays synthetic.
LeaveRow(r) ==
    /\ Turn(r, "rekey")
    /\ r \in rekey.archived \/ BodyID(rekey.todo[r]) = ""
    /\ UNCHANGED <<events, markers, totals, unsaid, unfolded, purged, behind, remade, runs>>

\* The UPDATE finds no row that a purge has deleted.
RekeyRow(r) ==
    LET m == BodyID(rekey.todo[r]) IN
    /\ Turn(r, "rekey")
    /\ r \notin rekey.archived /\ m # "" /\ Keyed(m) = {}
    /\ events' = IF r \in DOMAIN events THEN [events EXCEPT ![r].key = MessageKey(m)] ELSE events
    /\ UNCHANGED <<markers, totals, unsaid, unfolded, purged, behind, remade, runs>>

preferred(a, b) == IF a # "" THEN a ELSE b

\* applyMergeTx: the taker keeps its id, key and session, and the body it has,
\* hot or archived; ev is the row as it was loaded.
Joined(taker, ev) == [taker EXCEPT !.body = preferred(@, ev.body), !.of = preferred(@, ev.of),
                                   !.holds = @ \cup ev.holds]

\* What the row r has by now in warnings goes over to t.
Reattached(es, r, t) ==
    IF r \in DOMAIN es THEN [es EXCEPT ![t].kinds = @ \cup es[r].kinds] ELSE es

\* A mutated Repointed: replays keep naming the row that is deleted.
RepointedNone(es, r, t) == es

Repointed(es, r, t) == [x \in DOMAIN es |-> IF es[x].of = r THEN [es[x] EXCEPT !.of = t] ELSE es[x]]

\* The collision path: into the row t that has the key already.
AbsorbRow(r, t) ==
    LET ev == rekey.todo[r]
        es == Repointed(Without(Reattached([events EXCEPT ![t] = Joined(@, ev)], r, t), r), r, t)
    IN  /\ Turn(r, "rekey")
        /\ r \notin rekey.archived /\ BodyID(ev) # "" /\ t \in Keyed(BodyID(ev))
        /\ events' = es /\ markers' = markers \ {r}
        /\ Rederived(es, {ev.session, events[t].session}, {ev.session} \ {events[t].session})
        /\ UNCHANGED <<unsaid, unfolded, purged, remade, runs>>

-----------------------------------------------------------------------------
(* Pass 2. *)

LoadProxied ==
    /\ rekey.pc = "rekey" /\ DOMAIN rekey.todo = {}
    /\ rekey' = [rekey EXCEPT !.pc = "move",
                    !.todo = [r \in {r \in DOMAIN events : events[r].source = "proxy"} |-> events[r]]]
    /\ UNCHANGED <<events, markers, totals, unsaid, unfolded, purged, behind, remade, runs>>

Conversation(ev) == Old[ev.body].header

KeepSession(r) ==
    /\ Turn(r, "move")
    /\ Conversation(rekey.todo[r]) \in {"", rekey.todo[r].session}
    /\ UNCHANGED <<events, markers, totals, unsaid, unfolded, purged, behind, remade, runs>>

\* reattributeOneProxyRow: the new session is ensured, then both re-derived.
MoveRow(r) ==
    LET ev == rekey.todo[r]
        s == Conversation(ev)
        es == IF r \in DOMAIN events THEN [events EXCEPT ![r].session = s] ELSE events
    IN  /\ Turn(r, "move")
        /\ s \notin {"", ev.session}
        /\ events' = es
        /\ totals' = [x \in (DOMAIN totals \cup {s})
                            \ (IF Sum(es, ev.session).rows = {} THEN {ev.session} ELSE {}) |->
                        IF x \in {s, ev.session} THEN Sum(es, x) ELSE totals[x]]
        /\ behind' = behind \ {s, ev.session}
        /\ UNCHANGED <<markers, unsaid, unfolded, purged, remade, runs>>

RekeyDone ==
    /\ rekey.pc = "move" /\ DOMAIN rekey.todo = {}
    /\ rekey' = [NotRunning EXCEPT !.pc = "done"]
    /\ UNCHANGED <<events, markers, totals, unsaid, unfolded, purged, behind, remade, runs>>

\* The command dies, or a finished one is run again.
RekeyEnds ==
    /\ rekey.pc # "idle" /\ rekey' = NotRunning
    /\ UNCHANGED <<events, markers, totals, unsaid, unfolded, purged, behind, remade, runs>>

RekeyNext ==
    \/ \E r \in DOMAIN events : Archives(r) \/ Purges(r)
    \/ \E m \in DOMAIN Spoken : TailInserts(m)
    \/ \E s \in unfolded : TailFolds(s)
    \/ LoadSynthetic \/ ReadMarkers \/ LoadProxied \/ RekeyDone \/ RekeyEnds
    \/ \E r \in DOMAIN rekey.todo :
          \/ LeaveRow(r) \/ RekeyRow(r) \/ KeepSession(r) \/ MoveRow(r)
          \/ \E t \in DOMAIN events : AbsorbRow(r, t)

RekeySpec == RekeyInit /\ [][RekeyNext]_rekeyVars
-----------------------------------------------------------------------------
(* What the passes promise. *)

Kept == DOMAIN Old \ purged
RowOf(c) == CHOOSE r \in DOMAIN events : c \in events[r].holds

HeldOnce == \A c \in Kept :
    \E r \in DOMAIN events :
        /\ \A x \in DOMAIN events : c \in events[x].holds <=> x = r
        /\ events[r].body # "" /\ Old[c].kinds \subseteq events[r].kinds

KeyedApart == \A r, x \in DOMAIN events : events[r].key = events[x].key => r = x

LineageHolds == \A c \in Kept :
    Old[c].of \in Kept => events[RowOf(c)].of = RowOf(Old[c].of)

TotalsAdd ==
    /\ \A s \in SessionsOf(events) \ (unfolded \cup behind) :
          s \in DOMAIN totals /\ totals[s] = Sum(events, s)
    /\ purged = {} => DOMAIN totals \subseteq SessionsOf(events) \cup remade

\* An archived row waits for `clens archive restore`.
AllRepaired == rekey.pc = "done" =>
    \A r \in DOMAIN events \ markers : events[r].source = "proxy" =>
        /\ BodyID(events[r]) # "" => events[r].key = MessageKey(BodyID(events[r]))
        /\ Conversation(events[r]) \in {"", events[r].session}

(* While serve archives, purges and tails beside it, and wherever it dies,   *)
(* `clens rekey` loses nothing: each capture that was not purged is in one   *)
(* row, with its bodies and its warnings; no two rows have one key; a        *)
(* replay names the row its original is in; a session that nobody is about   *)
(* to re-derive counts exactly its rows and their warnings, and only a purge *)
(* leaves a session without rows, or the tailer's fold of one whose last row *)
(* has moved meanwhile.  And once it is done, each capture whose bodies are  *)
(* in the database is keyed by its message and is in its conversation.       *)
RekeyKeepsAll ==
    /\ HeldOnce /\ KeyedApart /\ LineageHolds /\ TotalsAdd /\ AllRepaired
=============================================================================
