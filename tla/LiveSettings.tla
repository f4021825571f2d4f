---------------------------- MODULE LiveSettings ----------------------------
(***************************************************************************)
(* What a running serve re-reads without a restart.  A reload, or a save   *)
(* of the accounts from the dashboard, loads config.toml, overlays the     *)
(* environment and the flags serve was started with, reads the accounts    *)
(* file, validates the result and applies the accounts, the retention and  *)
(* the hot days, all or nothing.  The consumer and the daily cycle read    *)
(* them while it does.                                                     *)
(***************************************************************************)
EXTENDS Naturals

CONSTANTS Reloads,   \* concurrent reload and accounts-save requests
          DayCounts, \* values of RetentionDays and HotDays
          Unset,     \* no key in a layer
          Envs,      \* the CLENS_* environments serve is started in
          Flags,     \* the flags serve is started with
          Default,   \* the built-in defaults
          Lists,     \* account lists
          MaxEdits   \* bound: edits of the two files by the user

Live == {"ret", "hot"}        \* RetentionDays and HotDays
Layers == [Live -> DayCounts \cup {Unset}]

ASSUME SettingsAssumption == /\ DayCounts \subseteq Nat /\ Unset \notin DayCounts
                             /\ Envs \subseteq Layers /\ Flags \subseteq Layers
                             /\ Default \in [Live -> DayCounts] /\ MaxEdits \in Nat

VARIABLES conf,      \* config.toml
          env, flags, \* fixed for the life of the process
          listed,    \* the accounts file; "broken" does not parse
          reload,    \* reload[r]: a request
          live,      \* liveSettings
          applied,   \* reloader.accounts, what the dashboard shows
          consumer,  \* the accounts the consumer attributes calls with
          edits

settingsVars == <<conf, env, flags, listed, reload, live, applied, consumer, edits>>

\* Config.Validate on the two live counts: 0 means never.
Valid(c) == c["hot"] = 0 \/ c["ret"] = 0 \/ c["hot"] <= c["ret"]

\* flags > environment > file > defaults, key by key.  Load is given the flags
\* the process was started with, at every reload again.
ResolvedWithoutFlags(file) ==     \* a mutated Resolved: Load(nil) at a reload
    [k \in Live |-> IF env[k] # Unset THEN env[k]
                   ELSE IF file[k] # Unset THEN file[k] ELSE Default[k]]

Resolved(file) ==
    [k \in Live |-> IF flags[k] # Unset THEN flags[k]
                   ELSE IF env[k] # Unset THEN env[k]
                   ELSE IF file[k] # Unset THEN file[k] ELSE Default[k]]

Idle0 == [pc |-> "idle", next |-> Default, accts |-> "none"]

SettingsInit ==
    /\ conf \in Layers /\ env \in Envs /\ flags \in Flags /\ listed \in Lists
    /\ live = Resolved(conf) /\ Valid(live)
    /\ reload = [r \in Reloads |-> Idle0]
    /\ applied = listed /\ consumer = listed /\ edits = 0

SettingsTypeOK ==
    /\ conf \in Layers /\ env \in Layers /\ flags \in Layers
    /\ live \in [Live -> DayCounts]
    /\ listed \in Lists \cup {"broken"}
    /\ applied \in Lists /\ consumer \in Lists
    /\ \A r \in Reloads : reload[r].pc \in {"idle", "locked", "half", "loaded", "told"}
    /\ edits \in 0..MaxEdits

\* The user edits either file, also into something that does not load.
Edit ==
    /\ edits < MaxEdits /\ edits' = edits + 1
    /\ \/ conf' \in Layers \ {conf} /\ UNCHANGED listed
       \/ listed' \in (Lists \cup {"broken"}) \ {listed} /\ UNCHANGED conf
    /\ UNCHANGED <<env, flags, reload, live, applied, consumer>>

\* One reload at a time holds the mutex.
Enter(r) ==
    /\ \A s \in Reloads : reload[s].pc = "idle"
    /\ reload' = [reload EXCEPT ![r].pc = "locked"]
    /\ UNCHANGED <<conf, env, flags, listed, live, applied, consumer, edits>>

\* config.Load reads config.toml first,
LoadConf(r) ==
    /\ reload[r].pc = "locked"
    /\ reload' = [reload EXCEPT ![r].pc = "half", ![r].next = Resolved(conf)]
    /\ UNCHANGED <<conf, env, flags, listed, live, applied, consumer, edits>>

\* and the accounts file after it.  What does not load or validate is the end
\* of the reload.
LoadAccounts(r) ==
    /\ reload[r].pc = "half"
    /\ reload' = [reload EXCEPT ![r] =
         IF listed = "broken" \/ ~ Valid(@.next) THEN Idle0
         ELSE [@ EXCEPT !.pc = "loaded", !.accts = listed]]
    /\ UNCHANGED <<conf, env, flags, listed, live, applied, consumer, edits>>

\* The consumer is told, and then the dashboard's copy follows.
Tell(r) ==
    /\ reload[r].pc = "loaded"
    /\ consumer' = reload[r].accts
    /\ reload' = [reload EXCEPT ![r].pc = "told"]
    /\ UNCHANGED <<conf, env, flags, listed, live, applied, edits>>

\* Both counts change under one lock.
Apply(r) ==
    /\ reload[r].pc = "told"
    /\ applied' = reload[r].accts
    /\ live' = reload[r].next
    /\ reload' = [reload EXCEPT ![r] = Idle0]
    /\ UNCHANGED <<conf, env, flags, listed, consumer, edits>>

SettingsNext == \/ Edit
                \/ \E r \in Reloads : \/ Enter(r) \/ LoadConf(r) \/ LoadAccounts(r)
                                      \/ Tell(r) \/ Apply(r)

SettingsSpec == SettingsInit /\ [][SettingsNext]_settingsVars

\* Whatever the files hold and however reloads and edits interleave, what is
\* in force is a configuration that Validate accepts and that keeps the flags
\* serve was started with ("handed [serve --replay] it would drop every flag and
\* a reload would conclude retention_days changed to its default",
\* reload.go:62-65), and between reloads the calls are attributed with the
\* accounts the dashboard shows.
SettingsHold ==
    /\ Valid(live)
    /\ \A k \in Live : flags[k] # Unset => live[k] = flags[k]
    /\ (\A r \in Reloads : reload[r].pc # "told") => consumer = applied
=============================================================================
