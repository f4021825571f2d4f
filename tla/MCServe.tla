------------------------------- MODULE MCServe -------------------------------
(* Small instances of the parts of a running serve for TLC.  The parts share *)
(* nothing but committed rows, so one run explores them side by side as a    *)
(* sum, not as a product: a behaviour works in one part and leaves the other *)
(* parts as they start.                                                      *)
EXTENDS ServeLife, ProxyCalls, LiveFeed, LiveSettings, Secrets, MCSchemaOpen

VARIABLE part

\* HotDays defaults to 7 and RetentionDays to 0, for ever.
MCDefault == [ret |-> 0, hot |-> 7]
MCBare == [ret |-> Unset, hot |-> Unset]
MCFlags == {MCBare, [ret |-> 1, hot |-> 1]}
MCEnvs == {MCBare, [ret |-> Unset, hot |-> 1]}

Parts == {"life", "proxy", "feed", "settings", "secrets", "schema"}

\* The parts a behaviour does not work in start in one fixed state.
Quiet == /\ part # "proxy" => local /\ policy = "full"
         /\ part # "settings" => conf = MCBare /\ flags = MCBare /\ env = MCBare /\ listed = "a"
         /\ part # "schema" => version = 0 /\ objects = {}

Init == /\ part \in Parts
        /\ LifeInit /\ ProxyInit /\ FeedInit /\ SettingsInit
        /\ SecretsInit /\ OpenInit
        /\ Quiet

Next ==
    /\ UNCHANGED part
    /\ \/ part = "life" /\ LifeNext
          /\ UNCHANGED <<proxyVars, feedVars, settingsVars, secretVars, openVars>>
       \/ part = "proxy" /\ ProxyNext
          /\ UNCHANGED <<lifeVars, feedVars, settingsVars, secretVars, openVars>>
       \/ part = "feed" /\ FeedNext
          /\ UNCHANGED <<lifeVars, proxyVars, settingsVars, secretVars, openVars>>
       \/ part = "settings" /\ SettingsNext
          /\ UNCHANGED <<lifeVars, proxyVars, feedVars, secretVars, openVars>>
       \/ part = "secrets" /\ SecretsNext
          /\ UNCHANGED <<lifeVars, proxyVars, feedVars, settingsVars, openVars>>
       \/ part = "schema" /\ OpenNext
          /\ UNCHANGED <<lifeVars, proxyVars, feedVars, settingsVars, secretVars>>

vars == <<part, lifeVars, proxyVars, feedVars, settingsVars, secretVars, openVars>>

\* A process that is not killed keeps running its goroutines.
Spec == Init /\ [][Next]_vars /\ \A p \in Procs : WF_lifeVars(Process(p))
=============================================================================
