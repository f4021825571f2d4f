----------------------------- MODULE ProxyCalls -----------------------------
(***************************************************************************)
(* The reverse proxy of claude-lens: the provider it sends calls to, the   *)
(* capture it makes of each, and the dashboard's replay, which sends a     *)
(* stored call through the same handler and then looks for its row.        *)
(*                                                                         *)
(* Set persists the provider and moves the pointer under a mutex; a call   *)
(* reads the pointer once, when it arrives, is teed through two bounded    *)
(* buffers, and is submitted when its response body is closed or its       *)
(* upstream fails.  The consumer turns submitted calls into rows later, in *)
(* the order they were submitted.                                          *)
(***************************************************************************)
EXTENDS Integers, Sequences, FiniteSets

CONSTANTS Calls,         \* requests that reach the proxy, replays among them
          Setters,       \* concurrent POST /api/provider requests
          Cap,           \* BodyCapBytes
          Sizes,         \* body sizes
          Policies,      \* the body policies serve is started with
          EarlyAnswers,  \* may an upstream answer before it has read the request?
          MaxBoots       \* bound: restarts of serve

ASSUME ProxyAssumption == /\ IsFiniteSet(Calls)
                          /\ Cap \in Nat \ {0} /\ Sizes \subseteq Nat
                          /\ Policies \subseteq {"full", "off"}
                          /\ EarlyAnswers \in BOOLEAN /\ MaxBoots \in Nat

VARIABLES local,    \* is a local upstream configured?
          policy,   \* BodyPolicy
          active,   \* Targets.active
          file,     \* the provider file: "none", "cloud" or "local"
          setter,   \* setter[s]: a POST /api/provider
          call,     \* call[c]: one request
          queue,    \* submitted calls the consumer has not written
          rows,     \* rows of the store, by id
          boots

proxyVars == <<local, policy, active, file, setter, call, queue, rows, boots>>

Providers == {"cloud", "local"}

\* of: is the call a replay of the stored call?  alone: no other replay of it
\* has been under way since this one took its snapshot.
NoCall == [pc |-> "idle", of |-> FALSE, keep |-> TRUE, alone |-> TRUE,
           before |-> 0, start |-> 0, provider |-> "cloud", via |-> "none",
           row |-> 0]

\* NewTargets: anything but a readable "local" with a local upstream boots to
\* the cloud.
Booted(f, l) == IF f = "local" /\ l THEN "local" ELSE "cloud"

ProxyInit ==
    /\ local \in BOOLEAN /\ policy \in Policies
    /\ file = "none"
    /\ active = Booted(file, local)
    /\ setter = [s \in Setters |-> [pc |-> "idle", which |-> "cloud"]]
    /\ call = [c \in Calls |-> NoCall]
    /\ queue = <<>> /\ rows = <<>> /\ boots = 0

ProxyTypeOK ==
    /\ active \in Providers /\ file \in Providers \cup {"none"}
    /\ \A s \in Setters : /\ setter[s].pc \in {"idle", "locked", "saved"}
                          /\ setter[s].which \in Providers
    /\ \A c \in Calls : call[c].pc \in {"idle", "snapped", "arrived", "routed",
                                        "over", "awaiting", "answered", "timedOut"}
    /\ \A i \in 1..Len(rows) : rows[i].call \in Calls
    /\ boots \in 0..MaxBoots

-----------------------------------------------------------------------------
(* The provider                                                            *)

\* Only a configured provider can be chosen; one switch at a time holds the
\* mutex.
Lock(s) ==
    /\ \A t \in Setters : setter[t].pc = "idle"
    /\ \E w \in Providers :
        /\ w = "local" => local
        /\ setter' = [setter EXCEPT ![s] = [pc |-> "locked", which |-> w]]
    /\ UNCHANGED <<local, policy, active, file, call, queue, rows, boots>>

PersistAfter(s) ==   \* a mutated Persist: the pointer moves before the write
    /\ setter[s].pc = "locked"
    /\ active' = setter[s].which
    /\ \/ file' = setter[s].which /\ setter' = [setter EXCEPT ![s].pc = "saved"]
       \/ setter' = [setter EXCEPT ![s].pc = "idle"] /\ UNCHANGED file
    /\ UNCHANGED <<local, policy, call, queue, rows, boots>>

\* The file is renamed into place before the pointer moves; a write that
\* fails leaves both as they were and answers 400.
Persist(s) ==
    /\ setter[s].pc = "locked"
    /\ \/ file' = setter[s].which /\ setter' = [setter EXCEPT ![s].pc = "saved"]
       \/ setter' = [setter EXCEPT ![s].pc = "idle"] /\ UNCHANGED file
    /\ UNCHANGED <<local, policy, active, call, queue, rows, boots>>

Switch(s) ==
    /\ setter[s].pc = "saved"
    /\ active' = setter[s].which
    /\ setter' = [setter EXCEPT ![s].pc = "idle"]
    /\ UNCHANGED <<local, policy, file, call, queue, rows, boots>>

-----------------------------------------------------------------------------
(* One call through the proxy                                              *)

\* Replays whose row may still appear.
Pending == {c \in Calls : call[c].of /\
              \/ call[c].pc \notin {"idle", "over", "answered", "timedOut"}
              \/ \E i \in 1..Len(queue) : queue[i].call = c}

\* ORDER BY started_at DESC LIMIT 1 over the rows of replays; 0 for none.
Replays == {i \in 1..Len(rows) : call[rows[i].call].of}
Starts == [i \in Replays |-> call[rows[i].call].start]
LastStarted(f) == IF DOMAIN f = {} THEN 0
             ELSE CHOOSE i \in DOMAIN f : \A j \in DOMAIN f : f[j] <= f[i]
Newest == LastStarted(Starts)

\* The handler of POST /api/requests/{id}/replay notes the newest replay of
\* this call before it sends another.
Snapshot(c) ==
    /\ call[c].pc = "idle"
    /\ \E keep \in BOOLEAN :
         call' = [d \in Calls |->
            IF d = c THEN [NoCall EXCEPT !.pc = "snapped", !.of = TRUE,
                             !.keep = keep, !.before = Newest,
                             !.alone = (Pending = {})]
            ELSE [call[d] EXCEPT !.alone = @ /\ d \notin Pending]]
    /\ UNCHANGED <<local, policy, active, file, setter, queue, rows, boots>>

Now == 1 + Cardinality({c \in Calls : call[c].start > 0})

\* The provider is read once, when the call arrives.
Arrive(c) ==
    /\ call[c].pc \in {"idle", "snapped"}
    /\ call' = [call EXCEPT ![c].pc = "arrived", ![c].start = Now,
                            ![c].provider = active]
    /\ UNCHANGED <<local, policy, active, file, setter, queue, rows, boots>>

RouteLate(c) ==      \* a mutated Route: asks Targets again
    /\ call[c].pc = "arrived"
    /\ call' = [call EXCEPT ![c].pc = "routed", ![c].via = active]
    /\ UNCHANGED <<local, policy, active, file, setter, queue, rows, boots>>

\* Rewrite sends the call where its own provider says.
Route(c) ==
    /\ call[c].pc = "arrived"
    /\ call' = [call EXCEPT ![c].pc = "routed", ![c].via = call[c].provider]
    /\ UNCHANGED <<local, policy, active, file, setter, queue, rows, boots>>

\* submit: what reaches the queue, nothing under --no-capture or when the queue
\* is full.  `via` and `whole` are what really happened to the call: the
\* upstream that served it, and whether everything delivered was kept.
Submit(c, complete, whole) ==
    /\ \/ call[c].keep /\ queue' = Append(queue,
            [call |-> c, provider |-> call[c].provider, via |-> call[c].via,
             complete |-> complete, whole |-> whole])
       \/ UNCHANGED queue
    /\ call' = [call EXCEPT ![c].via = "none", ![c].provider = "cloud",
          ![c].pc = IF call[c].of /\ call[c].keep THEN "awaiting" ELSE "over"]

\* ErrorHandler: the upstream was not reached.
Unreachable(c) ==
    /\ call[c].pc = "routed"
    /\ Submit(c, FALSE, FALSE)
    /\ UNCHANGED <<local, policy, active, file, setter, rows, boots>>

\* boundedBuffer: keeps what fits and notes what does not.  Writes add up, so
\* a body teed in pieces ends like one teed at once.
Tee(n) == [len |-> IF n <= Cap THEN n ELSE Cap, cut |-> n > Cap]

\* What onClose claims, from the two buffers and the first read error.
Complete(req, resp, abort) == ~ abort /\ ~ resp.cut /\ ~ req.cut

\* The upstream answers.  It has read the whole request, unless it answers
\* early.  The copy loop delivers and tees the response to its end, or to where
\* the upstream drops it or the client stops it; only the upstream's doing is
\* an abort.  Then the body is closed and the call submitted.  With the bodies
\* off nothing is teed.
Answer(c) ==
    /\ call[c].pc = "routed"
    /\ \E sent \in Sizes, seen \in Sizes, got \in Sizes, abort \in BOOLEAN :
        /\ seen = sent \/ (EarlyAnswers /\ seen < sent)
        /\ IF policy = "off" THEN Submit(c, ~ abort, ~ abort)
           ELSE Submit(c, Complete(Tee(seen), Tee(got), abort),
                       ~ abort /\ Tee(seen).len = sent /\ Tee(got).len = got)
    /\ UNCHANGED <<local, policy, active, file, setter, rows, boots>>

\* The consumer writes the oldest submitted call.
WriteRow ==
    /\ queue # <<>>
    /\ rows' = Append(rows, Head(queue)) /\ queue' = Tail(queue)
    /\ UNCHANGED <<local, policy, active, file, setter, call, boots>>

FoundAny(c) ==       \* a mutated Found: no snapshot was taken
    /\ call[c].pc = "awaiting" /\ Newest > 0
    /\ call' = [call EXCEPT ![c].pc = "answered", ![c].row = Newest]
    /\ UNCHANGED <<local, policy, active, file, setter, queue, rows, boots>>

\* awaitReplayRow: the newest replay, once its id is above the snapshot's, or
\* a timeout.
Found(c) ==
    /\ call[c].pc = "awaiting" /\ Newest > call[c].before
    /\ call' = [call EXCEPT ![c].pc = "answered", ![c].row = Newest]
    /\ UNCHANGED <<local, policy, active, file, setter, queue, rows, boots>>

TimesOut(c) ==
    /\ call[c].pc = "awaiting"
    /\ call' = [call EXCEPT ![c].pc = "timedOut"]
    /\ UNCHANGED <<local, policy, active, file, setter, queue, rows, boots>>

\* serve is killed and started again, perhaps without its local upstream:
\* calls in flight and submitted ones are gone, the file decides.
Reboot ==
    /\ boots < MaxBoots /\ boots' = boots + 1
    /\ local' \in BOOLEAN /\ active' = Booted(file, local')
    /\ setter' = [s \in Setters |-> [pc |-> "idle", which |-> "cloud"]]
    /\ queue' = <<>>
    /\ call' = [c \in Calls |-> IF call[c].pc \in {"idle", "answered", "timedOut"}
                                THEN call[c]
                                ELSE [NoCall EXCEPT !.pc = "over", !.of = call[c].of,
                                                    !.start = call[c].start]]
    /\ UNCHANGED <<policy, file, rows>>

ProxyNext ==
    \/ \E s \in Setters : Lock(s) \/ Persist(s) \/ Switch(s)
    \/ \E c \in Calls : \/ Snapshot(c) \/ Arrive(c) \/ Route(c) \/ Unreachable(c)
                        \/ Answer(c) \/ Found(c) \/ TimesOut(c)
    \/ WriteRow \/ Reboot

ProxySpec == ProxyInit /\ [][ProxyNext]_proxyVars

-----------------------------------------------------------------------------
(* Properties                                                              *)

\* A row is true to its call.  "The upstream that serves the request and the
\* provider stamped on its row cannot disagree, whatever Set does in between"
\* (proxy.go:47-50); and a row that claims a complete capture holds the whole
\* request and everything of the response that was delivered, with no upstream
\* cutting it short (proxy.go:128-144).  With the bodies off it only claims the
\* last.
RowsAreTrue ==
    \A i \in 1..Len(rows) :
        /\ rows[i].via # "none" => rows[i].provider = rows[i].via
        /\ rows[i].complete => rows[i].whole

\* The provider in use is the one a restart would boot to, whenever no switch
\* is under way: a failed write, two switches at once or a crash between the
\* two halves of a switch never separates them.
ChoiceOutlivesServe ==
    (\A s \in Setters : setter[s].pc # "saved") => active = Booted(file, local)

\* A replay that was alone since its snapshot is answered with its own row.
ReplayFindsItself ==
    \A c \in Calls : (call[c].pc = "answered" /\ call[c].alone)
                        => rows[call[c].row].call = c
=============================================================================
