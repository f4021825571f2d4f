------------------------------- MODULE Secrets -------------------------------
(***************************************************************************)
(* secrets.toml, the one file with both credentials.  Save (`clens         *)
(* accounts`, POST /api/secrets) writes it whole: a new file in place, an  *)
(* existing one through a temporary file that is protected and then        *)
(* renamed.  Get (the collectors) rewrites it in place for the sake of one *)
(* timestamp.  Nothing excludes them from each other, and any of them may  *)
(* die or fail at every step.  A write in place truncates first and may    *)
(* end anywhere.  Source: src/internal/secret/secret.go.                   *)
(* Values have no quotation mark or line break: those parse reads back as  *)
(* serialize wrote them.  Two handles open at once may mix their texts;    *)
(* the last one stands for both, and nothing is claimed of the file then.  *)
(***************************************************************************)
EXTENDS Integers, FiniteSets

CONSTANTS NumSlots,          \* the credentials, by the order of their names
          Values, Cut,       \* values, and a value whose end is missing
          Savers, Getters,   \* calls of Save and of Get
          MaxSaves           \* bound on calls of Save

ASSUME SecretsAssumption == /\ NumSlots \in Nat /\ MaxSaves \in Nat
                            /\ Savers \cap Getters = {} /\ Cut \notin Values

Slots == 1..NumSlots

VARIABLES secrets,   \* the file: there, whether it parses, and its text by slot
          saver,     \* saver[p]: a Save under way
          getter,    \* getter[g]: a Get under way
          reported,  \* auxiliary: what the last Save of a slot that reported
                     \* success has stored, the values of Saves that may be in
          pending,   \* the file without such a report,
          unsure,    \* and the slots that nothing is known of (Unsure, below)
          saves

secretVars == <<secrets, saver, getter, reported, pending, unsure, saves>>

Nothing == [n \in {} |-> Cut]
File(text) == [there |-> TRUE, parses |-> TRUE, text |-> text]
NoFile == [there |-> FALSE, parses |-> TRUE, text |-> Nothing]

\* alone: no one has written the file since this call has read it, or was
\* writing it then; held: the handle it writes through leads to the file.
IdleSave == [pc |-> "idle", slot |-> 1, value |-> Cut, text |-> Nothing, alone |-> TRUE, held |-> TRUE]
IdleGet == [pc |-> "idle", text |-> Nothing, alone |-> TRUE, held |-> TRUE]

SecretsInit ==
    /\ secrets = NoFile
    /\ saver = [p \in Savers |-> IdleSave] /\ getter = [g \in Getters |-> IdleGet]
    /\ reported = Nothing /\ pending = [n \in Slots |-> {}]
    /\ unsure = {} /\ saves = 0

\* A text with one credential set.
Put(text, n, v) == [m \in DOMAIN text \cup {n} |-> IF m = n THEN v ELSE text[m]]

\* What a write of text can leave that fails after the truncate: a file that
\* does not parse, or the first sections, the last one perhaps cut short.
FirstSlots(text, k) == {n \in DOMAIN text : n <= k}
Partials(text) ==
    {[there |-> TRUE, parses |-> FALSE, text |-> Nothing]}
    \cup {File([n \in FirstSlots(text, k) |-> text[n]]) : k \in 0..NumSlots}
    \cup {File([n \in FirstSlots(text, k) |-> IF n = k THEN Cut ELSE text[n]]) : k \in DOMAIN text}

\* The file is truncated and not written yet.
TornBy(who) == who.held /\ who.pc \in {"torn", "created"}
Torn == (\E g \in Getters : TornBy(getter[g])) \/ \E p \in Savers : TornBy(saver[p])

\* who alters the file, in place or with another in its stead: the others under
\* way are no longer alone, and with another file their handles lead nowhere.
Seen(call, replaced) ==
    [call EXCEPT !.alone = call.pc = "idle",
                 !.held = @ /\ ~ (replaced /\ call.pc \in {"torn", "created"})]
Becomes(file, replaced, who, then) ==
    /\ secrets' = file
    /\ saver' = [p \in Savers |-> IF p = who THEN then ELSE Seen(saver[p], replaced)]
    /\ getter' = [g \in Getters |-> IF g = who THEN then ELSE Seen(getter[g], replaced)]

\* Writes through a handle that leads nowhere change nothing.
Written(p, file, then) ==
    IF saver[p].held THEN Becomes(file, FALSE, p, then)
                     ELSE saver' = [saver EXCEPT ![p] = then] /\ UNCHANGED <<secrets, getter>>

\* Nothing is known of the file once it was written by a call that was not
\* alone, until a Save that is alone stores the slot anew.
Unsure(who) == unsure' = IF who.alone \/ ~ who.held THEN unsure ELSE Slots

InFlight(n, p) == {saver[q].value : q \in {r \in Savers \ {p} : saver[r].pc # "idle" /\ saver[r].slot = n}}

Confirmed(p) ==
    LET n == saver[p].slot IN
    /\ reported' = Put(reported, n, saver[p].value)
    /\ pending' = [pending EXCEPT ![n] = InFlight(n, p)]
    /\ unsure' = IF saver[p].alone THEN unsure \ {n} ELSE Slots

Ends(p) == saver' = [saver EXCEPT ![p] = IdleSave]
Withdrawn(p) == pending' = [pending EXCEPT ![saver[p].slot] = @ \ {saver[p].value}]

-----------------------------------------------------------------------------
\* A file that does not parse ends a Save here.
ReadEntries(p) ==
    /\ saver[p].pc = "idle" /\ saves < MaxSaves
    /\ saves' = saves + 1
    /\ secrets.parses
    /\ \E n \in Slots, v \in Values \ UNION {pending[m] : m \in Slots} :
        /\ saver' = [saver EXCEPT ![p] = [pc |-> "read", slot |-> n, value |-> v,
                        text |-> Put(secrets.text, n, v), alone |-> ~ Torn, held |-> TRUE]]
        /\ pending' = [pending EXCEPT ![n] = @ \cup {v}]
    /\ UNCHANGED <<secrets, getter, reported, unsure>>

\* A mutated Preexisting: every file is written and protected in place.
PreexistingNever(there) == FALSE

\* Whether Save goes by way of a temporary file.
Preexisting(there) == there

\* os.Stat decides for the steps to come.
Stat(p) ==
    /\ saver[p].pc = "read"
    /\ saver' = [saver EXCEPT ![p].pc = IF Preexisting(secrets.there) THEN "temp" ELSE "create"]
    /\ UNCHANGED <<secrets, getter, reported, pending, unsure, saves>>

\* os.WriteFile creates or truncates the file, and writes it.
CreateNew(p) ==
    /\ saver[p].pc = "create"
    /\ Becomes(File(Nothing), FALSE, p, [saver[p] EXCEPT !.pc = "created"])
    /\ Unsure(saver[p])
    /\ UNCHANGED <<reported, pending, saves>>

WriteNew(p) ==
    /\ saver[p].pc = "created"
    /\ Written(p, File(saver[p].text), [saver[p] EXCEPT !.pc = "written", !.held = TRUE])
    /\ Unsure(saver[p])
    /\ UNCHANGED <<reported, pending, saves>>

\* The write fails or the process dies in it: what is written stays.
WriteNewFails(p) ==
    /\ saver[p].pc = "created"
    /\ \E file \in Partials(saver[p].text) : Written(p, file, IdleSave)
    /\ pending' = [pending EXCEPT ![saver[p].slot] = @ \cup {Cut}]
    /\ Unsure(saver[p])
    /\ UNCHANGED <<reported, saves>>

ProtectNew(p) ==
    /\ saver[p].pc = "written"
    /\ Ends(p) /\ Confirmed(p)
    /\ UNCHANGED <<secrets, getter, saves>>

\* "if protection fails for a brand-new file, it is removed"; an error of the
\* removal is ignored, and the value stays.
RemoveNew(p) ==
    /\ saver[p].pc = "written"
    /\ \/ Becomes(NoFile, TRUE, p, IdleSave) /\ Withdrawn(p) /\ Unsure(saver[p])
       \/ Ends(p) /\ UNCHANGED <<secrets, getter, pending, unsure>>
    /\ UNCHANGED <<reported, saves>>

\* The temporary file, written and protected by now, takes the file's place.
Rename(p) ==
    /\ saver[p].pc = "temp"
    /\ Becomes(File(saver[p].text), TRUE, p, IdleSave)
    /\ Confirmed(p)
    /\ UNCHANGED saves

\* Save returns an error before it has touched the file.
SaveFails(p) ==
    /\ saver[p].pc \in {"read", "create", "temp"}
    /\ Ends(p) /\ Withdrawn(p)
    /\ UNCHANGED <<secrets, getter, reported, unsure, saves>>

\* The process of a Save dies: what it has written stays.
SaverDies(p) ==
    /\ saver[p].pc # "idle"
    /\ Ends(p)
    /\ UNCHANGED <<secrets, getter, reported, pending, unsure, saves>>

-----------------------------------------------------------------------------
\* A Get that finds its credential goes on to touch.
Get(g) ==
    /\ getter[g].pc = "idle" /\ DOMAIN secrets.text # {}
    /\ getter' = [getter EXCEPT ![g] = [pc |-> "touch", text |-> secrets.text,
                                        alone |-> ~ Torn, held |-> TRUE]]
    /\ UNCHANGED <<secrets, saver, reported, pending, unsure, saves>>

TouchTruncates(g) ==
    /\ getter[g].pc = "touch"
    /\ Becomes(File(Nothing), FALSE, g, [getter[g] EXCEPT !.pc = "torn"])
    /\ Unsure(getter[g])
    /\ UNCHANGED <<reported, pending, saves>>

\* The end of a touch that truncated the file: it holds one of files.
TouchEnds(g, files) ==
    /\ getter[g].pc = "torn"
    /\ IF getter[g].held THEN \E file \in files : Becomes(file, FALSE, g, IdleGet)
                         ELSE getter' = [getter EXCEPT ![g] = IdleGet] /\ UNCHANGED <<secrets, saver>>
    /\ UNCHANGED <<reported, pending, saves>>

TouchWrites(g) == TouchEnds(g, {File(getter[g].text)}) /\ Unsure(getter[g])

\* The write fails, its error is dropped; or the process dies in it.
TouchFails(g) ==
    /\ TouchEnds(g, Partials(getter[g].text))
    /\ unsure' = IF getter[g].held THEN Slots ELSE unsure

\* The file cannot be opened, or the process dies first.
TouchSkips(g) ==
    /\ getter[g].pc = "touch"
    /\ getter' = [getter EXCEPT ![g] = IdleGet]
    /\ UNCHANGED <<secrets, saver, reported, pending, unsure, saves>>

SecretsNext ==
    \/ \E p \in Savers : \/ ReadEntries(p) \/ Stat(p) \/ CreateNew(p) \/ WriteNew(p)
                         \/ WriteNewFails(p) \/ ProtectNew(p) \/ RemoveNew(p)
                         \/ Rename(p) \/ SaveFails(p) \/ SaverDies(p)
    \/ \E g \in Getters : Get(g) \/ TouchTruncates(g) \/ TouchWrites(g) \/ TouchFails(g) \/ TouchSkips(g)

SecretsSpec == SecretsInit /\ [][SecretsNext]_secretVars
-----------------------------------------------------------------------------
SecretsTypeOK ==
    /\ secrets.there \in BOOLEAN /\ DOMAIN secrets.text \subseteq Slots
    /\ DOMAIN reported \subseteq Slots /\ pending \in [Slots -> SUBSET (Values \cup {Cut})]
    /\ unsure \subseteq Slots /\ saves \in 0..MaxSaves

\* A Save that fails has left the "existing credential ... untouched"
\* (secret.go:147): whatever step of a Save fails or is its process's last,
\* both credentials are there as the last Saves that succeeded stored them, or
\* as a Save that never reported has.  The value of a Save that reported an
\* error is not stored; only where there was no file before can all or the
\* beginning of it be left (the write, or the removal of the file, failed).  A
\* Get whose rewrite succeeds changes nothing.
\* Not covered, until the credential is saved anew: calls whose reads and
\* writes overlap, as neither Save nor touch looks at the file again before it
\* writes; and a Get whose rewrite fails or dies after the truncate, which alone
\* can lose both credentials (FailedTouchKeepsCredentials).
SaveIsAtomic ==
    ~ Torn => \A n \in Slots \ unsure :
        /\ n \in DOMAIN reported => n \in DOMAIN secrets.text
        /\ n \in DOMAIN secrets.text =>
              \/ secrets.text[n] \in pending[n]
              \/ n \in DOMAIN reported /\ secrets.text[n] = reported[n]

\* "a failure to persist bookkeeping must never turn a successful read into an
\* error" (secret.go:179-180): what a Get has read is there for the next one,
\* also when its rewrite of the file fails and no other call is under way.
FailedTouchKeepsCredentials ==
    [][\A g \in Getters : TouchFails(g) /\ getter[g].alone /\ saver = [p \in Savers |-> IdleSave] =>
          \A n \in DOMAIN getter[g].text \cap DOMAIN reported :
              n \in DOMAIN secrets.text' /\ secrets.text'[n] = getter[g].text[n]]_secretVars
=============================================================================
