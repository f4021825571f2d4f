------------------------------ MODULE ProxyProofs ------------------------------
(***************************************************************************)
(* ProxyCalls, for every number of calls and of concurrent choices: the    *)
(* choice the proxy serves by is the one the file keeps, a row tells the   *)
(* provider that answered its call (when no upstream answers early), and the *)
(* row a replay reports is its own whenever no other call comes between.   *)
(***************************************************************************)
EXTENDS ProxyCalls, FiniteSetTheorems, SequenceTheorems, WellFoundedInduction, TLAPS

CallPhases == {"idle", "snapped", "arrived", "routed", "over", "awaiting",
               "answered", "timedOut"}
CallRecord == [pc : CallPhases, of : BOOLEAN, keep : BOOLEAN, alone : BOOLEAN,
               before : Nat, start : Nat, provider : Providers,
               via : Providers \cup {"none"}, row : Nat]
Captured == [call : Calls, provider : Providers, via : Providers \cup {"none"},
             complete : BOOLEAN, whole : BOOLEAN]
SetterRecord == [pc : {"idle", "locked", "saved"}, which : Providers]

ProxyTyped ==
    /\ local \in BOOLEAN /\ active \in Providers /\ file \in Providers \cup {"none"}
    /\ setter \in [Setters -> SetterRecord]
    /\ call \in [Calls -> CallRecord]
    /\ queue \in Seq(Captured) /\ rows \in Seq(Captured)

\* Calls are numbered as they arrive.
Started == {c \in Calls : call[c].start > 0}
Timed ==
    /\ \A c \in Calls : call[c].start <= Cardinality(Started)
    /\ \A c \in Calls : call[c].pc \in {"idle", "snapped"} => call[c].start = 0
    /\ \A c \in Calls : call[c].pc = "idle" => ~ call[c].of

ProxyBase == ProxyTyped /\ Timed

-----------------------------------------------------------------------------
(* The latest of a set of starts.                                          *)

\* Among some numbers up to a bound one is the greatest.
LEMMA Greatest ==
    ASSUME NEW B \in Nat, NEW R, R # {}, NEW f \in [R -> 0..B]
    PROVE  \E i \in R : \A j \in R : f[j] <= f[i]
<1> DEFINE T == {B - f[i] : i \in R}
<1>1. T \subseteq Nat /\ T # {}
  OBVIOUS
<1>2. PICK x \in T : \A y \in T : ~ (<<y, x>> \in OpToRel(<, Nat))
  BY <1>1, NatLessThanWellFounded, WFMin
<1>3. PICK i \in R : x = B - f[i]
  OBVIOUS
<1>4. ASSUME NEW j \in R PROVE f[j] <= f[i]
  <2>1. B - f[j] \in T
    OBVIOUS
  <2>2. ~ (<<B - f[j], x>> \in OpToRel(<, Nat))
    BY <2>1, <1>2
  <2>3. ~ (B - f[j] < x)
    BY <2>1, <2>2, <1>1 DEF OpToRel
  <2> QED BY <2>3, <1>3
<1> QED BY <1>4

\* The latest of some starts is one of them, and none is later.
LEMMA LastStartedIs ==
    ASSUME NEW B \in Nat, NEW R, NEW f \in [R -> 0..B]
    PROVE  /\ R # {} => LastStarted(f) \in R /\ \A j \in R : f[j] <= f[LastStarted(f)]
           /\ R = {} => LastStarted(f) = 0
<1>1. CASE R = {}
  BY <1>1 DEF LastStarted
<1>2. CASE R # {}
  <2>1. \E i \in R : \A j \in R : f[j] <= f[i]
    BY <1>2, Greatest
  <2>2. DOMAIN f = R
    OBVIOUS
  <2>3. LastStarted(f) = CHOOSE i \in R : \A j \in R : f[j] <= f[i]
    BY <1>2, <2>2 DEF LastStarted
  <2> QED BY <1>2, <2>1, <2>3
<1> QED BY <1>1, <1>2

-----------------------------------------------------------------------------
\* Finitely many calls have started.
LEMMA StartedFinite == IsFiniteSet(Started) /\ Cardinality(Started) \in Nat
<1>1. Started \subseteq Calls
  BY DEF Started
<1> QED BY <1>1, ProxyAssumption, FS_Subset, FS_CardinalityType DEF ProxyAssumption

\* The first state is well typed and well timed.
LEMMA ProxyStarts == ASSUME ProxyInit PROVE ProxyBase
<1>1. ProxyTyped
  BY ProxyAssumption DEF ProxyInit, ProxyTyped, Providers, SetterRecord, CallRecord,
     CallPhases, NoCall, Booted
<1>2. \A c \in Calls : call[c].start = 0 /\ call[c].pc = "idle" /\ ~ call[c].of
  BY DEF ProxyInit, NoCall
<1>3. Cardinality(Started) \in Nat
  BY StartedFinite
<1> QED BY <1>1, <1>2, <1>3 DEF ProxyBase, Timed

\* A step that keeps every start, and leaves no call idle that was not, keeps
\* the times.
LEMMA TimedKept ==
    ASSUME ProxyBase,
           \A c \in Calls : /\ call'[c].start = call[c].start
                            /\ call'[c].pc \in {"idle", "snapped"} =>
                                  call[c].pc \in {"idle", "snapped"}
                            /\ call'[c].pc = "idle" => call[c].pc = "idle" /\ call'[c].of = call[c].of
    PROVE  Timed'
<1>1. Started' = Started
  BY DEF Started
<1> QED BY <1>1 DEF Timed, ProxyBase

\* Submit hands over at most one capture, of this call, and moves only it.
LEMMA SubmitIs ==
    ASSUME ProxyTyped, NEW c \in Calls, NEW complete \in BOOLEAN, NEW whole \in BOOLEAN,
           Submit(c, complete, whole)
    PROVE  /\ call' \in [Calls -> CallRecord]
           /\ \A d \in Calls \ {c} : call'[d] = call[d]
           /\ call'[c].pc = IF call[c].of /\ call[c].keep THEN "awaiting" ELSE "over"
           /\ call'[c].of = call[c].of /\ call'[c].start = call[c].start
           /\ call'[c].alone = call[c].alone /\ call'[c].before = call[c].before
           /\ \/ queue' = queue
              \/ \E e \in Captured :
                    /\ queue' = Append(queue, e) /\ e.call = c
                    /\ e.provider = call[c].provider /\ e.via = call[c].via
                    /\ e.complete = complete /\ e.whole = whole
                    /\ call[c].keep
<1>1. call[c] \in CallRecord
  BY DEF ProxyTyped
<1>2. /\ call' \in [Calls -> CallRecord]
      /\ \A d \in Calls \ {c} : call'[d] = call[d]
      /\ call'[c].pc = IF call[c].of /\ call[c].keep THEN "awaiting" ELSE "over"
      /\ call'[c].of = call[c].of /\ call'[c].start = call[c].start
      /\ call'[c].alone = call[c].alone /\ call'[c].before = call[c].before
  <2> DEFINE after == IF call[c].of /\ call[c].keep THEN "awaiting" ELSE "over"
             r == [[[call[c] EXCEPT !.via = "none"] EXCEPT !.provider = "cloud"]
                      EXCEPT !.pc = after]
  <2>1. r \in CallRecord
    BY <1>1 DEF CallRecord, CallPhases, Providers
  <2>2. /\ r.pc = after /\ r.of = call[c].of /\ r.start = call[c].start
        /\ r.alone = call[c].alone /\ r.before = call[c].before
    BY <1>1 DEF CallRecord
  <2>3. call' = [call EXCEPT ![c] = r]
    BY DEF Submit, ProxyTyped
  <2>4. call \in [Calls -> CallRecord]
    BY DEF ProxyTyped
  <2> HIDE DEF r
  <2>5. /\ call' \in [Calls -> CallRecord] /\ call'[c] = r
        /\ \A d \in Calls \ {c} : call'[d] = call[d]
    BY <2>1, <2>3, <2>4
  <2> QED BY <2>2, <2>5
<1> DEFINE e == [call |-> c, provider |-> call[c].provider, via |-> call[c].via,
                 complete |-> complete, whole |-> whole]
<1>3. e \in Captured
  BY <1>1 DEF Captured, CallRecord
<1>4. \/ call[c].keep /\ queue' = Append(queue, e)
      \/ queue' = queue
  BY DEF Submit
<1>5. CASE queue' = queue
  BY <1>2, <1>5
<1>6. CASE call[c].keep /\ queue' = Append(queue, e)
  <2>1. /\ queue' = Append(queue, e) /\ e.call = c
        /\ e.provider = call[c].provider /\ e.via = call[c].via
        /\ e.complete = complete /\ e.whole = whole
        /\ call[c].keep
    BY <1>6
  <2> QED BY <1>2, <1>3, <2>1
<1> QED BY <1>4, <1>5, <1>6

\* A capture submitted keeps types and times.
LEMMA SubmitBase ==
    ASSUME ProxyBase, NEW c \in Calls, NEW complete \in BOOLEAN, NEW whole \in BOOLEAN,
           call[c].pc = "routed", Submit(c, complete, whole),
           UNCHANGED <<local, policy, active, file, setter, rows, boots>>
    PROVE  ProxyBase'
<1>0. ProxyTyped
  BY DEF ProxyBase
<1>1. call' \in [Calls -> CallRecord]
  BY <1>0, SubmitIs
<1>2. queue' \in Seq(Captured)
  <2>1. queue \in Seq(Captured)
    BY <1>0 DEF ProxyTyped
  <2>2. \A e \in Captured : Append(queue, e) \in Seq(Captured)
    BY <2>1, AppendProperties
  <2> QED BY <1>0, <2>1, <2>2, SubmitIs
<1>3. Timed'
  <2>1. /\ \A d \in Calls \ {c} : call'[d] = call[d]
        /\ call'[c].pc \in {"awaiting", "over"} /\ call'[c].start = call[c].start
    BY <1>0, SubmitIs
  <2> QED BY <2>1, TimedKept
<1> QED BY <1>0, <1>1, <1>2, <1>3 DEF ProxyTyped, ProxyBase

\* Newest is the id of a row, or 0 if no replay has one.
LEMMA NewestIs ==
    ASSUME ProxyBase
    PROVE  /\ Newest \in Nat
           /\ Replays # {} => /\ Newest \in Replays
                             /\ \A j \in Replays : Starts[j] <= Starts[Newest]
           /\ Replays = {} => Newest = 0
<1>0. ProxyTyped
  BY DEF ProxyBase
<1>1. PICK B \in Nat : \A c \in Calls : call[c].start <= B
  BY StartedFinite DEF ProxyBase, Timed
<1>2. \A i \in Replays : /\ i \in 1..Len(rows) /\ rows[i].call \in Calls
                          /\ call[rows[i].call].start \in Nat
  <2> TAKE i \in Replays
  <2>1. i \in 1..Len(rows) /\ rows \in Seq(Captured)
    BY <1>0 DEF Replays, ProxyTyped
  <2>2. rows[i] \in Captured
    BY <2>1, ElementOfSeq
  <2>3. rows[i].call \in Calls
    BY <2>2 DEF Captured
  <2> QED BY <1>0, <2>1, <2>3 DEF ProxyTyped, CallRecord
<1>3. Starts \in [Replays -> 0..B]
  BY <1>1, <1>2 DEF Starts
<1>4. Replays \subseteq Nat
  BY <1>0, <1>2 DEF ProxyTyped
<1>5. /\ Replays # {} => /\ LastStarted(Starts) \in Replays
                        /\ \A j \in Replays : Starts[j] <= Starts[LastStarted(Starts)]
      /\ Replays = {} => LastStarted(Starts) = 0
  BY <1>3, LastStartedIs
<1>6. Newest = LastStarted(Starts)
  BY DEF Newest
<1>7. Newest \in Nat
  <2>1. CASE Replays = {}
    BY <2>1, <1>5, <1>6
  <2>2. CASE Replays # {}
    <3>1. Newest \in Replays
      BY <2>2, <1>5, <1>6
    <3> QED BY <3>1, <1>4
  <2> QED BY <2>1, <2>2
<1> QED BY <1>5, <1>6, <1>7

\* What an upstream's answer submits.
LEMMA AnswerIs ==
    ASSUME NEW c \in Calls, Answer(c)
    PROVE  \E complete, whole \in BOOLEAN :
              /\ Submit(c, complete, whole)
              /\ ~EarlyAnswers => (complete => whole)
<1>1. PICK sent \in Sizes, seen \in Sizes, got \in Sizes, abort \in BOOLEAN :
        /\ seen = sent \/ (EarlyAnswers /\ seen < sent)
        /\ IF policy = "off" THEN Submit(c, ~ abort, ~ abort)
           ELSE Submit(c, Complete(Tee(seen), Tee(got), abort),
                       ~ abort /\ Tee(seen).len = sent /\ Tee(got).len = got)
  BY DEF Answer
<1>2. CASE policy = "off"
  <2>1. Submit(c, ~ abort, ~ abort) /\ (~ abort) \in BOOLEAN
    BY <1>1, <1>2
  <2> QED BY <2>1
<1>3. CASE policy # "off"
  <2> DEFINE complete == Complete(Tee(seen), Tee(got), abort)
             whole == ~ abort /\ Tee(seen).len = sent /\ Tee(got).len = got
  <2>1. Submit(c, complete, whole)
    BY <1>1, <1>3
  <2>2. complete \in BOOLEAN /\ whole \in BOOLEAN
    BY DEF Complete
  <2>3. ~EarlyAnswers => (complete => whole)
    <3>1. \A n \in Nat : ~ Tee(n).cut => Tee(n).len = n
      <4> TAKE n \in Nat
      <4>1. /\ Tee(n).len = (IF n <= Cap THEN n ELSE Cap)
            /\ Tee(n).cut = (n > Cap)
        BY DEF Tee
      <4> HIDE DEF Tee
      <4>2. n <= Cap \/ n > Cap
        BY ProxyAssumption DEF ProxyAssumption
      <4> QED BY <4>1, <4>2
    <3>2. /\ sent \in Nat /\ seen \in Nat /\ got \in Nat
          /\ ~EarlyAnswers => seen = sent
      BY <1>1, ProxyAssumption DEF ProxyAssumption
    <3>3. complete => ~ abort /\ ~ Tee(got).cut /\ ~ Tee(seen).cut
      BY DEF Complete
    <3>4. ASSUME ~EarlyAnswers, complete PROVE whole
      <4>1. Tee(seen).len = seen /\ Tee(got).len = got
        BY <3>1, <3>2, <3>3, <3>4
      <4> QED BY <3>2, <3>3, <3>4, <4>1
    <3> QED BY <3>4
  <2> HIDE DEF complete, whole
  <2> QED BY <2>1, <2>2, <2>3
<1> QED BY <1>2, <1>3

-----------------------------------------------------------------------------
\* Arrive numbers the call.
LEMMA ArriveIs ==
    ASSUME ProxyBase, NEW c \in Calls, Arrive(c)
    PROVE  /\ call' \in [Calls -> CallRecord]
           /\ \A d \in Calls \ {c} : call'[d] = call[d]
           /\ call'[c].pc = "arrived" /\ call'[c].start = 1 + Cardinality(Started)
           /\ call'[c].of = call[c].of /\ call'[c].alone = call[c].alone
           /\ call'[c].before = call[c].before
<1>0. ProxyTyped
  BY DEF ProxyBase
<1> DEFINE r == [[[call[c] EXCEPT !.pc = "arrived"] EXCEPT !.start = Now]
                    EXCEPT !.provider = active]
<1>1. call[c] \in CallRecord /\ active \in Providers /\ call \in [Calls -> CallRecord]
  BY <1>0 DEF ProxyTyped
<1>2. Now = 1 + Cardinality(Started) /\ Now \in Nat
  BY StartedFinite DEF Now, Started
<1>3. r \in CallRecord
  BY <1>1, <1>2 DEF CallRecord, CallPhases
<1>4. /\ r.pc = "arrived" /\ r.start = Now
      /\ r.of = call[c].of /\ r.alone = call[c].alone /\ r.before = call[c].before
  BY <1>1, <1>2 DEF CallRecord
<1>5. call' = [call EXCEPT ![c] = r]
  BY <1>1 DEF Arrive
<1> HIDE DEF r
<1>6. /\ call' \in [Calls -> CallRecord] /\ call'[c] = r
      /\ \A d \in Calls \ {c} : call'[d] = call[d]
  BY <1>1, <1>3, <1>5
<1> QED BY <1>2, <1>4, <1>6

\* A call that arrives starts after all others.
LEMMA ArriveTimed ==
    ASSUME ProxyBase, NEW c \in Calls, Arrive(c)
    PROVE  Timed'
<1>1. call[c].start = 0 /\ c \notin Started
  BY DEF Arrive, ProxyBase, Timed, Started
<1>2. Started' = Started \cup {c}
  <2>1. \A d \in Calls : call'[d].start > 0 <=> call[d].start > 0 \/ d = c
    BY ArriveIs, StartedFinite
  <2> QED BY <2>1 DEF Started
<1>3. Cardinality(Started') = Cardinality(Started) + 1
  BY <1>1, <1>2, StartedFinite, FS_AddElement
<1>4. \A d \in Calls : call[d].start \in Nat /\ call[d].start <= Cardinality(Started)
  BY DEF ProxyBase, ProxyTyped, CallRecord, Timed
<1>5. \A d \in Calls : call'[d].start <= Cardinality(Started')
  BY <1>3, <1>4, ArriveIs, StartedFinite
<1>6. \A d \in Calls : call'[d].pc \in {"idle", "snapped"} => call'[d].start = 0
  BY ArriveIs DEF ProxyBase, Timed
<1>7. \A d \in Calls : call'[d].pc = "idle" => ~ call'[d].of
  BY ArriveIs DEF ProxyBase, Timed
<1> QED BY <1>5, <1>6, <1>7 DEF Timed

\* Snapshot makes c a replay and ends the solitude of the pending ones.
LEMMA SnapshotIs ==
    ASSUME ProxyBase, NEW c \in Calls, Snapshot(c)
    PROVE  /\ call' \in [Calls -> CallRecord]
           /\ \A d \in Calls \ {c} :
                 /\ call'[d].pc = call[d].pc /\ call'[d].of = call[d].of
                 /\ call'[d].start = call[d].start /\ call'[d].before = call[d].before
                 /\ call'[d].row = call[d].row /\ call'[d].provider = call[d].provider
                 /\ call'[d].via = call[d].via
                 /\ call'[d].alone = (call[d].alone /\ d \notin Pending)
           /\ call'[c].pc = "snapped" /\ call'[c].of /\ call'[c].start = 0
           /\ call'[c].before = Newest /\ call'[c].alone = (Pending = {})
<1>1. PICK keep \in BOOLEAN :
         call' = [d \in Calls |->
            IF d = c THEN [NoCall EXCEPT !.pc = "snapped", !.of = TRUE,
                             !.keep = keep, !.before = Newest,
                             !.alone = (Pending = {})]
            ELSE [call[d] EXCEPT !.alone = @ /\ d \notin Pending]]
  BY DEF Snapshot
<1>2. \A d \in Calls : call[d] \in CallRecord
  BY DEF ProxyBase, ProxyTyped
<1>3. \A d \in Calls \ {c} :
         /\ call'[d] \in CallRecord
         /\ call'[d].pc = call[d].pc /\ call'[d].of = call[d].of
         /\ call'[d].start = call[d].start /\ call'[d].before = call[d].before
         /\ call'[d].row = call[d].row /\ call'[d].provider = call[d].provider
         /\ call'[d].via = call[d].via
         /\ call'[d].alone = (call[d].alone /\ d \notin Pending)
  <2> TAKE d \in Calls \ {c}
  <2>1. call'[d] = [call[d] EXCEPT !.alone = call[d].alone /\ d \notin Pending]
    BY <1>1
  <2>2. call[d] \in CallRecord /\ (call[d].alone /\ d \notin Pending) \in BOOLEAN
    BY <1>2
  <2> QED BY <2>1, <2>2 DEF CallRecord
<1>4. /\ call'[c] \in CallRecord
      /\ call'[c].pc = "snapped" /\ call'[c].of /\ call'[c].start = 0
      /\ call'[c].before = Newest /\ call'[c].alone = (Pending = {})
  <2>1. call'[c] = [NoCall EXCEPT !.pc = "snapped", !.of = TRUE,
                             !.keep = keep, !.before = Newest,
                             !.alone = (Pending = {})]
    BY <1>1
  <2>2. PICK n \in Nat, b \in BOOLEAN : n = Newest /\ b = (Pending = {})
    BY NewestIs
  <2>3. call'[c] = [NoCall EXCEPT !.pc = "snapped", !.of = TRUE,
                             !.keep = keep, !.before = n, !.alone = b]
    BY <2>1, <2>2
  <2>4. /\ call'[c] \in CallRecord
        /\ call'[c].pc = "snapped" /\ call'[c].of = TRUE /\ call'[c].start = 0
        /\ call'[c].before = n /\ call'[c].alone = b
    <3>1. call'[c] = [pc |-> "snapped", of |-> TRUE, keep |-> keep, alone |-> b,
              before |-> n, start |-> 0, provider |-> "cloud", via |-> "none", row |-> 0]
      BY <2>3 DEF NoCall
    <3> QED BY <3>1 DEF CallRecord, CallPhases, Providers
  <2> QED BY <2>2, <2>4
<1>5. call' \in [Calls -> CallRecord]
  BY <1>1, <1>3, <1>4
<1> QED BY <1>3, <1>4, <1>5

\* A reboot ends every call that is not answered yet.
LEMMA RebootIs ==
    ASSUME ProxyTyped, Reboot, NEW c \in Calls
    PROVE  /\ call'[c] \in CallRecord
           /\ call'[c].start = call[c].start /\ call'[c].of = call[c].of
           /\ \/ /\ call[c].pc \in {"idle", "answered", "timedOut"} /\ call'[c] = call[c]
              \/ /\ call[c].pc \notin {"idle", "answered", "timedOut"}
                 /\ call'[c].pc = "over"
<1>1. call[c] \in CallRecord
  BY DEF ProxyTyped
<1>2. CASE call[c].pc \in {"idle", "answered", "timedOut"}
  <2>1. call'[c] = call[c]
    BY <1>2 DEF Reboot
  <2> QED BY <1>1, <1>2, <2>1
<1>3. CASE call[c].pc \notin {"idle", "answered", "timedOut"}
  <2>1. call'[c] = [NoCall EXCEPT !.pc = "over", !.of = call[c].of, !.start = call[c].start]
    BY <1>3 DEF Reboot
  <2>2. PICK of \in BOOLEAN, t \in Nat : of = call[c].of /\ t = call[c].start
    BY <1>1 DEF CallRecord
  <2>3. call'[c] = [NoCall EXCEPT !.pc = "over", !.of = of, !.start = t]
    BY <2>1, <2>2
  <2>4. /\ call'[c] \in CallRecord /\ call'[c].pc = "over"
        /\ call'[c].of = of /\ call'[c].start = t
    <3>1. call'[c] = [pc |-> "over", of |-> of, keep |-> TRUE, alone |-> TRUE,
              before |-> 0, start |-> t, provider |-> "cloud", via |-> "none", row |-> 0]
      BY <2>3 DEF NoCall
    <3> QED BY <3>1 DEF CallRecord, CallPhases, Providers
  <2> QED BY <1>3, <2>2, <2>4
<1> QED BY <1>2, <1>3

\* Route, Found and TimesOut move one call and keep what identifies it.
LEMMA RouteIs ==
    ASSUME ProxyTyped, NEW c \in Calls, Route(c)
    PROVE  /\ call' \in [Calls -> CallRecord]
           /\ \A d \in Calls \ {c} : call'[d] = call[d]
           /\ call'[c].pc = "routed" /\ call'[c].via = call'[c].provider
           /\ call'[c].of = call[c].of /\ call'[c].start = call[c].start
           /\ call'[c].alone = call[c].alone /\ call'[c].before = call[c].before
<1> DEFINE r == [[call[c] EXCEPT !.pc = "routed"] EXCEPT !.via = call[c].provider]
<1>1. call[c] \in CallRecord /\ call \in [Calls -> CallRecord]
  BY DEF ProxyTyped
<1>2. r \in CallRecord
  BY <1>1 DEF CallRecord, CallPhases
<1>3. /\ r.pc = "routed" /\ r.via = r.provider
      /\ r.of = call[c].of /\ r.start = call[c].start
      /\ r.alone = call[c].alone /\ r.before = call[c].before
  BY <1>1 DEF CallRecord
<1>4. call' = [call EXCEPT ![c] = r]
  BY <1>1 DEF Route
<1> HIDE DEF r
<1>5. /\ call' \in [Calls -> CallRecord] /\ call'[c] = r
      /\ \A d \in Calls \ {c} : call'[d] = call[d]
  BY <1>1, <1>2, <1>4
<1> QED BY <1>3, <1>5

\* A replay that finds a newer row than before it takes the newest.
LEMMA FoundIs ==
    ASSUME ProxyBase, NEW c \in Calls, Found(c)
    PROVE  /\ call' \in [Calls -> CallRecord]
           /\ \A d \in Calls \ {c} : call'[d] = call[d]
           /\ call'[c].pc = "answered" /\ call'[c].row = Newest
           /\ call'[c].of = call[c].of /\ call'[c].start = call[c].start
           /\ call'[c].alone = call[c].alone /\ call'[c].before = call[c].before
<1>0. PICK n \in Nat : n = Newest
  BY NewestIs
<1> DEFINE r == [[call[c] EXCEPT !.pc = "answered"] EXCEPT !.row = n]
<1>1. call[c] \in CallRecord /\ call \in [Calls -> CallRecord]
  BY DEF ProxyBase, ProxyTyped
<1>2. r \in CallRecord
  BY <1>1 DEF CallRecord, CallPhases
<1>3. /\ r.pc = "answered" /\ r.row = n
      /\ r.of = call[c].of /\ r.start = call[c].start
      /\ r.alone = call[c].alone /\ r.before = call[c].before
  BY <1>1 DEF CallRecord
<1>4. call' = [call EXCEPT ![c] = r]
  BY <1>0, <1>1 DEF Found
<1> HIDE DEF r
<1>5. /\ call' \in [Calls -> CallRecord] /\ call'[c] = r
      /\ \A d \in Calls \ {c} : call'[d] = call[d]
  BY <1>1, <1>2, <1>4
<1> QED BY <1>0, <1>3, <1>5

\* A replay that times out answers without a row.
LEMMA TimesOutIs ==
    ASSUME ProxyTyped, NEW c \in Calls, TimesOut(c)
    PROVE  /\ call' \in [Calls -> CallRecord]
           /\ \A d \in Calls \ {c} : call'[d] = call[d]
           /\ call'[c].pc = "timedOut"
           /\ call'[c].of = call[c].of /\ call'[c].start = call[c].start
           /\ call'[c].alone = call[c].alone /\ call'[c].before = call[c].before
<1> DEFINE r == [call[c] EXCEPT !.pc = "timedOut"]
<1>1. call[c] \in CallRecord /\ call \in [Calls -> CallRecord]
  BY DEF ProxyTyped
<1>2. r \in CallRecord
  BY <1>1 DEF CallRecord, CallPhases
<1>3. /\ r.pc = "timedOut" /\ r.of = call[c].of /\ r.start = call[c].start
      /\ r.alone = call[c].alone /\ r.before = call[c].before
  BY <1>1 DEF CallRecord
<1>4. call' = [call EXCEPT ![c] = r]
  BY <1>1 DEF TimesOut
<1> HIDE DEF r
<1>5. /\ call' \in [Calls -> CallRecord] /\ call'[c] = r
      /\ \A d \in Calls \ {c} : call'[d] = call[d]
  BY <1>1, <1>2, <1>4
<1> QED BY <1>3, <1>5

\* Every record the model keeps is well formed, and the times are right.
LEMMA ProxyBaseKept == ASSUME ProxyBase, [ProxyNext]_proxyVars PROVE ProxyBase'
<1>0. ProxyTyped
  BY DEF ProxyBase
<1>a. \A c \in Calls : call[c] \in CallRecord
  BY <1>0 DEF ProxyTyped
<1>1. ASSUME NEW s \in Setters, Lock(s) PROVE ProxyBase'
  <2>1. ProxyTyped'
    BY <1>0, <1>1 DEF ProxyTyped, Lock, SetterRecord
  <2> QED BY <1>1, <2>1 DEF ProxyBase, Timed, Started, Lock
<1>2. ASSUME NEW s \in Setters, Persist(s) PROVE ProxyBase'
  <2>1. setter' \in [Setters -> SetterRecord] /\ file' \in Providers \cup {"none"}
    BY <1>0, <1>2 DEF ProxyTyped, Persist, SetterRecord
  <2>2. ProxyTyped'
    BY <1>0, <1>2, <2>1 DEF ProxyTyped, Persist
  <2> QED BY <1>2, <2>2 DEF ProxyBase, Timed, Started, Persist
<1>3. ASSUME NEW s \in Setters, Switch(s) PROVE ProxyBase'
  <2>1. ProxyTyped'
    BY <1>0, <1>3 DEF ProxyTyped, Switch, SetterRecord
  <2> QED BY <1>3, <2>1 DEF ProxyBase, Timed, Started, Switch
<1>4. ASSUME NEW c \in Calls, Snapshot(c) PROVE ProxyBase'
  <2>1. ProxyTyped'
    BY <1>0, <1>4, SnapshotIs DEF ProxyTyped, Snapshot
  <2>2. Timed'
    <3>1. call[c].pc = "idle" /\ call[c].start = 0
      BY <1>4 DEF Snapshot, ProxyBase, Timed
    <3> QED BY <3>1, <1>4, SnapshotIs, TimedKept
  <2> QED BY <2>1, <2>2 DEF ProxyBase
<1>5. ASSUME NEW c \in Calls, Arrive(c) PROVE ProxyBase'
  <2>1. ProxyTyped'
    BY <1>0, <1>5, ArriveIs DEF ProxyTyped, Arrive
  <2> QED BY <1>5, <2>1, ArriveTimed DEF ProxyBase
<1>6. ASSUME NEW c \in Calls, Route(c) PROVE ProxyBase'
  <2>1. ProxyTyped'
    BY <1>0, <1>6, RouteIs DEF ProxyTyped, Route
  <2> QED BY <1>0, <1>6, <2>1, RouteIs, TimedKept DEF ProxyBase
<1>7. ASSUME NEW c \in Calls, Unreachable(c) PROVE ProxyBase'
  BY <1>7, SubmitBase DEF Unreachable
<1>8. ASSUME NEW c \in Calls, Answer(c) PROVE ProxyBase'
  <2>1. PICK complete, whole \in BOOLEAN : Submit(c, complete, whole)
    BY <1>8, AnswerIs
  <2> QED BY <1>8, <2>1, SubmitBase DEF Answer
<1>9. ASSUME NEW c \in Calls, Found(c) PROVE ProxyBase'
  <2>1. ProxyTyped'
    BY <1>0, <1>9, FoundIs DEF ProxyTyped, Found
  <2> QED BY <1>0, <1>9, <2>1, FoundIs, TimedKept DEF ProxyBase
<1>10. ASSUME NEW c \in Calls, TimesOut(c) PROVE ProxyBase'
  <2>1. ProxyTyped'
    BY <1>0, <1>10, TimesOutIs DEF ProxyTyped, TimesOut
  <2> QED BY <1>0, <1>10, <2>1, TimesOutIs, TimedKept DEF ProxyBase
<1>11. CASE WriteRow
  <2>1. queue' \in Seq(Captured) /\ rows' \in Seq(Captured)
    BY <1>0, <1>11, HeadTailProperties, AppendProperties DEF ProxyTyped, WriteRow
  <2>2. ProxyTyped'
    BY <1>0, <1>11, <2>1 DEF ProxyTyped, WriteRow
  <2> QED BY <1>11, <2>2 DEF ProxyBase, Timed, Started, WriteRow
<1>12. CASE Reboot
  <2>1. \A d \in Calls : /\ call'[d] \in CallRecord
                         /\ call'[d].start = call[d].start
                         /\ call'[d].pc \in {"idle", "snapped"} => call'[d].pc = call[d].pc
                         /\ call'[d].of = call[d].of
    BY <1>0, <1>12, RebootIs
  <2>2. ProxyTyped'
    <3>1. call' \in [Calls -> CallRecord]
      BY <1>12, <2>1 DEF Reboot
    <3>2. /\ setter' \in [Setters -> SetterRecord] /\ active' \in Providers
          /\ local' \in BOOLEAN /\ queue' \in Seq(Captured)
      <4>1. setter' = [s \in Setters |-> [pc |-> "idle", which |-> "cloud"]]
        BY <1>12 DEF Reboot
      <4>2. [pc |-> "idle", which |-> "cloud"] \in SetterRecord
        BY DEF SetterRecord, Providers
      <4>3. setter' \in [Setters -> SetterRecord]
        BY <4>1, <4>2
      <4>4. active' \in Providers /\ local' \in BOOLEAN
        BY <1>12 DEF Reboot, Providers, Booted
      <4>5. queue' \in Seq(Captured)
        BY <1>12, EmptySeq DEF Reboot
      <4> QED BY <4>3, <4>4, <4>5
    <3> QED BY <1>0, <1>12, <3>1, <3>2 DEF ProxyTyped, Reboot
  <2> QED BY <2>1, <2>2, TimedKept DEF ProxyBase
<1>13. CASE UNCHANGED proxyVars
  BY <1>13 DEF ProxyTyped, Timed, Started, ProxyBase, proxyVars
<1> QED BY <1>1, <1>2, <1>3, <1>4, <1>5, <1>6, <1>7, <1>8, <1>9, <1>10, <1>11, <1>12, <1>13
        DEF ProxyNext
-----------------------------------------------------------------------------
(* The provider in use.                                                    *)

OneSwitch == \A s, t \in Setters :
                setter[s].pc # "idle" /\ setter[t].pc # "idle" => s = t
Offered == \A s \in Setters :
              setter[s].pc # "idle" /\ setter[s].which = "local" => local
Persisted == \A s \in Setters : setter[s].pc = "saved" => file = setter[s].which

ProviderInv == ProxyBase /\ OneSwitch /\ Offered /\ Persisted /\ ChoiceOutlivesServe

\* At the first start the pointer is what the file says.
LEMMA ProviderStarts == ASSUME ProxyInit PROVE ProviderInv
<1>1. ProxyBase
  BY ProxyStarts
<1>2. \A s \in Setters : setter[s].pc = "idle"
  BY DEF ProxyInit
<1>3. active = Booted(file, local)
  BY DEF ProxyInit
<1> QED BY <1>1, <1>2, <1>3
        DEF ProviderInv, OneSwitch, Offered, Persisted, ChoiceOutlivesServe

\* Every step keeps pointer, file and calls together.
LEMMA ProviderKept == ASSUME ProviderInv, [ProxyNext]_proxyVars PROVE ProviderInv'
<1>0. ProxyBase /\ ProxyBase' /\ setter \in [Setters -> SetterRecord]
      /\ file \in Providers \cup {"none"} /\ local \in BOOLEAN
  BY ProxyBaseKept DEF ProviderInv, ProxyBase, ProxyTyped
<1> SUFFICES (OneSwitch /\ Offered /\ Persisted /\ ChoiceOutlivesServe)'
  BY <1>0 DEF ProviderInv
<1>1. ASSUME NEW s \in Setters, Lock(s)
      PROVE (OneSwitch /\ Offered /\ Persisted /\ ChoiceOutlivesServe)'
  <2>1. PICK w \in Providers :
          /\ w = "local" => local
          /\ setter' = [setter EXCEPT ![s] = [pc |-> "locked", which |-> w]]
    BY <1>1 DEF Lock
  <2>2. \A t \in Setters \ {s} : setter'[t] = setter[t] /\ setter[t].pc = "idle"
    BY <1>0, <1>1, <2>1 DEF Lock
  <2>3. setter'[s].pc = "locked" /\ setter'[s].which = w /\ setter[s].pc = "idle"
    BY <1>0, <1>1, <2>1 DEF Lock
  <2>4. UNCHANGED <<local, active, file>>
    BY <1>1 DEF Lock
  <2> QED BY <2>1, <2>2, <2>3, <2>4
          DEF ProviderInv, OneSwitch, Offered, Persisted, ChoiceOutlivesServe, Booted
<1>2. ASSUME NEW s \in Setters, Persist(s)
      PROVE (OneSwitch /\ Offered /\ Persisted /\ ChoiceOutlivesServe)'
  <2>1. \A t \in Setters \ {s} : setter'[t] = setter[t] /\ setter[t].pc = "idle"
    BY <1>0, <1>2 DEF Persist, ProviderInv, OneSwitch
  <2>2. \/ /\ file' = setter[s].which
           /\ setter'[s].pc = "saved" /\ setter'[s].which = setter[s].which
        \/ file' = file /\ setter'[s].pc = "idle"
    BY <1>0, <1>2 DEF Persist, SetterRecord
  <2>3. UNCHANGED <<local, active>> /\ setter[s].pc = "locked"
    BY <1>2 DEF Persist
  <2>4. active = Booted(file, local)
    BY <2>1, <2>3 DEF ProviderInv, ChoiceOutlivesServe
  <2> QED BY <2>1, <2>2, <2>3, <2>4
          DEF ProviderInv, OneSwitch, Offered, Persisted, ChoiceOutlivesServe, Booted
<1>3. ASSUME NEW s \in Setters, Switch(s)
      PROVE (OneSwitch /\ Offered /\ Persisted /\ ChoiceOutlivesServe)'
  <2>1. \A t \in Setters \ {s} : setter'[t] = setter[t] /\ setter[t].pc = "idle"
    BY <1>0, <1>3 DEF Switch, ProviderInv, OneSwitch
  <2>2. setter'[s].pc = "idle" /\ active' = setter[s].which /\ UNCHANGED <<local, file>>
    BY <1>0, <1>3 DEF Switch, SetterRecord
  <2>3. /\ file = setter[s].which /\ setter[s].which \in Providers
        /\ setter[s].which = "local" => local
    BY <1>0, <1>3 DEF Switch, SetterRecord, ProviderInv, Persisted, Offered
  <2>4. active' = Booted(file', local')
    BY <2>2, <2>3 DEF Booted, Providers
  <2> QED BY <2>1, <2>2, <2>4
          DEF OneSwitch, Offered, Persisted, ChoiceOutlivesServe
<1>4. CASE UNCHANGED <<local, active, file, setter>>
  BY <1>4 DEF ProviderInv, OneSwitch, Offered, Persisted, ChoiceOutlivesServe, Booted
<1>5. CASE Reboot
  <2>1. \A s \in Setters : setter'[s].pc = "idle"
    BY <1>5 DEF Reboot
  <2>2. active' = Booted(file', local')
    BY <1>5 DEF Reboot, Booted
  <2> QED BY <2>1, <2>2 DEF OneSwitch, Offered, Persisted, ChoiceOutlivesServe
<1>6. ASSUME NEW c \in Calls, Snapshot(c) \/ Arrive(c) \/ Route(c) \/ Unreachable(c)
                                \/ Answer(c) \/ Found(c) \/ TimesOut(c)
      PROVE UNCHANGED <<local, active, file, setter>>
  BY <1>6 DEF Snapshot, Arrive, Route, Unreachable, Answer, Found, TimesOut
<1>7. CASE WriteRow
  BY <1>4, <1>7 DEF WriteRow
<1>8. CASE UNCHANGED proxyVars
  BY <1>4, <1>8 DEF proxyVars
<1> QED BY <1>1, <1>2, <1>3, <1>4, <1>5, <1>6, <1>7, <1>8 DEF ProxyNext

\* The provider in use is the one a restart would boot to, whenever no switch
\* is between its write and its move of the pointer (Targets.Set): for every
\* number of concurrent switches, failed writes and crashes.
THEOREM ChoiceAlwaysOutlivesServe == ProxySpec => []ChoiceOutlivesServe
<1>1. ProxyInit => ProviderInv
  BY ProviderStarts
<1>2. ProviderInv /\ [ProxyNext]_proxyVars => ProviderInv'
  BY ProviderKept
<1>3. ProviderInv => ChoiceOutlivesServe
  BY DEF ProviderInv
<1> QED BY <1>1, <1>2, <1>3, PTL DEF ProxySpec

-----------------------------------------------------------------------------
(* The rows.                                                               *)

Entry(e) == /\ e.via # "none" => e.provider = e.via
            /\ e.complete => e.whole

\* A call is served where it is stamped, and every captured call is true.
CaptureInv ==
    /\ ProxyBase
    /\ \A c \in Calls : call[c].pc = "routed" => call[c].via = call[c].provider
    /\ \A i \in 1..Len(queue) : Entry(queue[i])
    /\ \A i \in 1..Len(rows) : Entry(rows[i])

\* At the start nothing was captured.
LEMMA CaptureStarts == ASSUME ProxyInit PROVE CaptureInv
<1>1. ProxyBase
  BY ProxyStarts
<1> QED BY <1>1 DEF ProxyInit, CaptureInv, NoCall

\* A capture that is whole when it says so keeps the rows true.
LEMMA CaptureSubmits ==
    ASSUME CaptureInv, ProxyBase', NEW c \in Calls, call[c].pc = "routed",
           NEW complete \in BOOLEAN, NEW whole \in BOOLEAN, complete => whole,
           Submit(c, complete, whole), rows' = rows
    PROVE  CaptureInv'
<1>0. ProxyTyped /\ queue \in Seq(Captured)
  BY DEF CaptureInv, ProxyBase, ProxyTyped
<1>1. /\ \A d \in Calls \ {c} : call'[d] = call[d]
      /\ call'[c].pc \in {"awaiting", "over"}
  BY <1>0, SubmitIs
<1>2. \A d \in Calls : call'[d].pc = "routed" => call'[d].via = call'[d].provider
  BY <1>1 DEF CaptureInv
<1>3. \A i \in 1..Len(queue') : Entry(queue'[i])
  <2>1. CASE queue' = queue
    BY <2>1 DEF CaptureInv
  <2>2. CASE queue' # queue
    <3>1. PICK e \in Captured :
            /\ queue' = Append(queue, e)
            /\ e.provider = call[c].provider /\ e.via = call[c].via
            /\ e.complete = complete /\ e.whole = whole
      BY <1>0, <2>2, SubmitIs
    <3>2. call[c].via = call[c].provider
      BY DEF CaptureInv
    <3>3. Entry(e)
      BY <3>1, <3>2 DEF Entry
    <3>4. /\ Len(queue') = Len(queue) + 1 /\ queue'[Len(queue) + 1] = e
          /\ \A i \in 1..Len(queue) : queue'[i] = queue[i]
      BY <1>0, <3>1, AppendProperties
    <3>5. \A i \in 1..Len(queue) : Entry(queue[i])
      BY DEF CaptureInv
    <3>6. \A i \in 1..(Len(queue) + 1) : i \in 1..Len(queue) \/ i = Len(queue) + 1
      BY <1>0, LenProperties
    <3> QED BY <3>3, <3>4, <3>5, <3>6
  <2> QED BY <2>1, <2>2
<1> QED BY <1>2, <1>3 DEF CaptureInv

\* Every step keeps what is queued and stored true.
LEMMA CaptureKept ==
    ASSUME ~EarlyAnswers, CaptureInv, [ProxyNext]_proxyVars
    PROVE  CaptureInv'
<1>0. ProxyBase' /\ ProxyTyped
  BY ProxyBaseKept DEF CaptureInv, ProxyBase
<1>a. \A c \in Calls : call[c] \in CallRecord
  BY <1>0 DEF ProxyTyped
<1>1. CASE UNCHANGED <<call, queue, rows>>
  BY <1>0, <1>1 DEF CaptureInv
<1>2. ASSUME NEW c \in Calls, UNCHANGED <<queue, rows>>,
             \A d \in Calls : call'[d].pc = "routed" =>
                \/ call'[d].via = call'[d].provider
                \/ /\ call[d].pc = "routed" /\ call'[d].via = call[d].via
                   /\ call'[d].provider = call[d].provider
      PROVE  CaptureInv'
  BY <1>0, <1>2 DEF CaptureInv
<1>3. ASSUME NEW c \in Calls, Snapshot(c) PROVE CaptureInv'
  <2>1. /\ call'[c].pc = "snapped"
        /\ \A d \in Calls \ {c} : /\ call'[d].pc = call[d].pc /\ call'[d].via = call[d].via
                                  /\ call'[d].provider = call[d].provider
    BY <1>3, SnapshotIs DEF CaptureInv
  <2> QED BY <1>2, <1>3, <2>1 DEF Snapshot
<1>4. ASSUME NEW c \in Calls, Arrive(c) PROVE CaptureInv'
  <2>1. call'[c].pc = "arrived" /\ \A d \in Calls \ {c} : call'[d] = call[d]
    BY <1>4, ArriveIs DEF CaptureInv
  <2> QED BY <1>2, <1>4, <2>1 DEF Arrive
<1>5. ASSUME NEW c \in Calls, Route(c) PROVE CaptureInv'
  <2>1. call'[c].via = call'[c].provider /\ \A d \in Calls \ {c} : call'[d] = call[d]
    BY <1>0, <1>5, RouteIs
  <2> QED BY <1>2, <1>5, <2>1 DEF Route
<1>6. ASSUME NEW c \in Calls, Unreachable(c) PROVE CaptureInv'
  BY <1>0, <1>6, CaptureSubmits DEF Unreachable
<1>7. ASSUME NEW c \in Calls, Answer(c) PROVE CaptureInv'
  <2>1. PICK complete, whole \in BOOLEAN :
          Submit(c, complete, whole) /\ (complete => whole)
    BY <1>7, AnswerIs
  <2> QED BY <1>0, <1>7, <2>1, CaptureSubmits DEF Answer
<1>8. ASSUME NEW c \in Calls, Found(c) \/ TimesOut(c) PROVE CaptureInv'
  <2>1. call'[c].pc # "routed" /\ \A d \in Calls \ {c} : call'[d] = call[d]
    BY <1>0, <1>8, FoundIs, TimesOutIs DEF CaptureInv
  <2> QED BY <1>2, <1>8, <2>1 DEF Found, TimesOut
<1>9. CASE WriteRow
  <2>1. /\ queue \in Seq(Captured) /\ rows \in Seq(Captured) /\ queue # <<>>
        /\ rows' = Append(rows, Head(queue)) /\ queue' = Tail(queue) /\ call' = call
    BY <1>0, <1>9 DEF ProxyTyped, WriteRow
  <2>2. /\ Head(queue) \in Captured /\ Len(queue') = Len(queue) - 1
        /\ \A i \in 1..Len(queue') : queue'[i] = queue[i + 1]
    BY <2>1, HeadTailProperties
  <2>3. /\ Len(rows') = Len(rows) + 1 /\ rows'[Len(rows) + 1] = Head(queue)
        /\ \A i \in 1..Len(rows) : rows'[i] = rows[i]
    BY <2>1, <2>2, AppendProperties
  <2>4. Head(queue) = queue[1] /\ Len(queue) \in Nat /\ Len(rows) \in Nat /\ Len(queue) # 0
    BY <2>1
  <2>5. \A i \in 1..Len(queue') : Entry(queue'[i])
    BY <2>2, <2>4 DEF CaptureInv
  <2>6. Entry(queue[1])
    BY <2>4 DEF CaptureInv
  <2>7. \A i \in 1..Len(rows') : i \in 1..Len(rows) \/ i = Len(rows) + 1
    BY <2>3, <2>4
  <2>8. \A i \in 1..Len(rows') : Entry(rows'[i])
    BY <2>3, <2>4, <2>6, <2>7 DEF CaptureInv
  <2> QED BY <1>0, <2>1, <2>5, <2>8 DEF CaptureInv
<1>10. CASE Reboot
  <2>1. \A d \in Calls : call'[d].pc # "routed"
    BY <1>0, <1>10, RebootIs
  <2>2. queue' = <<>> /\ rows' = rows
    BY <1>10 DEF Reboot
  <2> QED BY <1>0, <2>1, <2>2 DEF CaptureInv
<1>11. ASSUME NEW s \in Setters, Lock(s) \/ Persist(s) \/ Switch(s) PROVE CaptureInv'
  BY <1>1, <1>11 DEF Lock, Persist, Switch
<1>12. CASE UNCHANGED proxyVars
  BY <1>1, <1>12 DEF proxyVars
<1> QED BY <1>3, <1>4, <1>5, <1>6, <1>7, <1>8, <1>9, <1>10, <1>11, <1>12 DEF ProxyNext

\* Where no upstream answers before it has read the request, a row is true to
\* its call: stamped with the upstream that served it (Targets.Route), and
\* complete only if everything delivered was kept (the tee of proxy.go).
THEOREM RowsAlwaysTrue == ASSUME ~EarlyAnswers PROVE ProxySpec => []RowsAreTrue
<1>1. ProxyInit => CaptureInv
  BY CaptureStarts
<1>2. CaptureInv /\ [ProxyNext]_proxyVars => CaptureInv'
  BY CaptureKept
<1>3. CaptureInv => RowsAreTrue
  BY DEF CaptureInv, Entry, RowsAreTrue
<1> QED BY <1>1, <1>2, <1>3, PTL DEF ProxySpec

-----------------------------------------------------------------------------
(* The replay's row.                                                       *)

Settled == {"over", "awaiting", "answered", "timedOut"}

\* A replay under way that has been alone since its snapshot.
Lone(c) == /\ call[c].of /\ call[c].alone
           /\ call[c].pc \in {"snapped", "arrived", "routed", "awaiting"}

\* Of a lone replay: no other one is pending, the rows of the others are older,
\* and the newest row is its own as soon as it has one, and until then the one
\* its snapshot saw.
Newer(c) == \A i \in Replays :
               rows[i].call # c => call[rows[i].call].start < call[c].start
Sees(c) == IF \E i \in Replays : rows[i].call = c THEN rows[Newest].call = c
           ELSE Newest = call[c].before
LoneOK(c) == /\ Pending \subseteq {c}
             /\ call[c].pc = "snapped" \/ Newer(c)
             /\ Sees(c)

ReplayInv ==
    /\ ProxyBase
    /\ \A i \in 1..Len(queue) : call[queue[i].call].pc \in Settled
    /\ \A i \in 1..Len(rows) : call[rows[i].call].pc \in Settled
    /\ \A c \in Calls : call[c].pc = "awaiting" => call[c].of
    /\ \A c \in Calls : Lone(c) => LoneOK(c)
    /\ \A c \in Calls : call[c].pc = "answered" => call[c].row \in 1..Len(rows)
    /\ ReplayFindsItself

\* Every row is a call's.
LEMMA RowCalls ==
    ASSUME ProxyTyped
    PROVE  /\ \A i \in 1..Len(rows) : rows[i].call \in Calls
           /\ \A i \in 1..Len(queue) : queue[i].call \in Calls
<1>1. \A q \in Seq(Captured) : \A i \in 1..Len(q) : q[i] \in Captured
  BY ElementOfSeq
<1>2. rows \in Seq(Captured) /\ queue \in Seq(Captured)
  BY DEF ProxyTyped
<1>3. /\ \A i \in 1..Len(rows) : rows[i] \in Captured
      /\ \A i \in 1..Len(queue) : queue[i] \in Captured
  BY <1>1, <1>2
<1> QED BY <1>3 DEF Captured

\* A step that moves no call that has a row keeps the newest row.
LEMMA NewestKept ==
    ASSUME ReplayInv, rows' = rows,
           \A d \in Calls : call[d].pc \in Settled =>
              call'[d].of = call[d].of /\ call'[d].start = call[d].start
    PROVE  /\ Replays' = Replays /\ Newest' = Newest
           /\ \A i \in Replays : call'[rows[i].call].start = call[rows[i].call].start
<1>1. \A i \in 1..Len(rows) : /\ call'[rows[i].call].of = call[rows[i].call].of
                              /\ call'[rows[i].call].start = call[rows[i].call].start
  BY RowCalls DEF ReplayInv, ProxyBase
<1>2. Replays' = Replays
  BY <1>1 DEF Replays
<1>3. \A i \in Replays : call'[rows[i].call].start = call[rows[i].call].start
  BY <1>1 DEF Replays
<1>4. Starts' = Starts
  BY <1>2, <1>3 DEF Starts
<1> QED BY <1>2, <1>3, <1>4 DEF Newest

\* A lone replay that stays one and whose row does not appear in this step.
LEMMA LoneKept ==
    ASSUME ReplayInv, rows' = rows, NEW c \in Calls, Lone(c),
           \A d \in Calls : call[d].pc \in Settled =>
              call'[d].of = call[d].of /\ call'[d].start = call[d].start,
           Pending' \subseteq Pending, call'[c].before = call[c].before,
           \/ /\ call'[c].start = call[c].start
              /\ call[c].pc = "snapped" => call'[c].pc = "snapped"
           \/ call'[c].start = 1 + Cardinality(Started)
    PROVE  LoneOK(c)'
<1>1. LoneOK(c)
  BY DEF ReplayInv
<1>2. /\ Replays' = Replays /\ Newest' = Newest
      /\ \A i \in Replays : call'[rows[i].call].start = call[rows[i].call].start
  BY NewestKept
<1>3. Sees(c)'
  BY <1>1, <1>2 DEF LoneOK, Sees
<1>4. \A i \in Replays : /\ call[rows[i].call].start \in Nat
                          /\ call[rows[i].call].start <= Cardinality(Started)
  <2> TAKE i \in Replays
  <2>1. rows[i].call \in Calls
    BY RowCalls DEF Replays, ReplayInv, ProxyBase
  <2> QED BY <2>1 DEF ReplayInv, ProxyBase, ProxyTyped, CallRecord, Timed
<1>5. (call[c].pc = "snapped" \/ Newer(c))'
  <2>1. CASE call'[c].start = 1 + Cardinality(Started)
    <3>1. \A i \in Replays : call'[rows[i].call].start < call'[c].start
      BY <1>2, <1>4, <2>1, StartedFinite
    <3> QED BY <1>2, <3>1 DEF Newer
  <2>2. CASE /\ call'[c].start = call[c].start
             /\ call[c].pc = "snapped" => call'[c].pc = "snapped"
    BY <1>1, <1>2, <2>2 DEF LoneOK, Newer
  <2> QED BY <2>1, <2>2
<1> QED BY <1>1, <1>3, <1>5 DEF LoneOK

\* At the start no replay has been answered.
LEMMA ReplayStarts == ASSUME ProxyInit PROVE ReplayInv
<1>1. ProxyBase
  BY ProxyStarts
<1>2. queue = <<>> /\ rows = <<>> /\ \A c \in Calls : call[c].pc = "idle"
  BY DEF ProxyInit, NoCall
<1> QED BY <1>1, <1>2 DEF ReplayInv, Lone, ReplayFindsItself

\* A call's way through the proxy: rows stay, and at most its own entry joins
\* the queue.
LEMMA ReplayMoves ==
    ASSUME ReplayInv, ProxyBase', rows' = rows, NEW c \in Calls,
           \A d \in Calls \ {c} : call'[d] = call[d],
           call'[c].of = call[c].of, call'[c].alone = call[c].alone,
           call'[c].before = call[c].before,
           \/ call'[c].start = call[c].start /\ call[c].pc # "snapped"
           \/ /\ call'[c].start = 1 + Cardinality(Started)
              /\ call[c].pc \in {"idle", "snapped"},
           \/ call[c].pc \in {"idle", "snapped", "arrived"} /\ call'[c].pc \in {"arrived", "routed"}
           \/ call[c].pc = "routed" /\ call'[c].pc \in {"awaiting", "over"}
           \/ call[c].pc = "awaiting" /\ call'[c].pc = "timedOut",
           call'[c].pc = "awaiting" => call[c].of,
           \/ queue' = queue
           \/ /\ call'[c].pc \in Settled
              /\ call'[c].of => call'[c].pc = "awaiting"
              /\ \E e \in Captured : e.call = c /\ queue' = Append(queue, e)
    PROVE  ReplayInv'
<1>0. ProxyTyped /\ queue \in Seq(Captured) /\ Len(queue) \in Nat
  BY DEF ReplayInv, ProxyBase, ProxyTyped
<1>1. \A d \in Calls : call[d].pc \in Settled =>
         /\ call'[d].of = call[d].of /\ call'[d].start = call[d].start
         /\ call'[d].pc \in Settled
  BY DEF Settled
<1>2. \A i \in 1..Len(queue') : \/ i \in 1..Len(queue) /\ queue'[i] = queue[i]
                                \/ /\ queue'[i].call = c /\ call'[c].pc \in Settled
                                   /\ call'[c].of => call'[c].pc = "awaiting"
  <2>1. CASE queue' = queue
    BY <2>1
  <2>2. CASE queue' # queue
    <3>1. PICK e \in Captured : e.call = c /\ queue' = Append(queue, e)
      BY <2>2
    <3>2. /\ Len(queue') = Len(queue) + 1 /\ queue'[Len(queue) + 1] = e
          /\ \A i \in 1..Len(queue) : queue'[i] = queue[i]
      BY <1>0, <3>1, AppendProperties
    <3>3. \A i \in 1..(Len(queue) + 1) : i \in 1..Len(queue) \/ i = Len(queue) + 1
      BY <1>0
    <3>4. /\ call'[c].pc \in Settled
          /\ call'[c].of => call'[c].pc = "awaiting"
      BY <2>2
    <3> QED BY <3>1, <3>2, <3>3, <3>4
  <2> QED BY <2>1, <2>2
<1>3. \A i \in 1..Len(queue') : call'[queue'[i].call].pc \in Settled
  <2> TAKE i \in 1..Len(queue')
  <2>1. CASE i \in 1..Len(queue) /\ queue'[i] = queue[i]
    <3>1. queue[i].call \in Calls /\ call[queue[i].call].pc \in Settled
      BY <1>0, <2>1, RowCalls DEF ReplayInv
    <3> QED BY <1>1, <2>1, <3>1
  <2>2. CASE queue'[i].call = c /\ call'[c].pc \in Settled
    BY <2>2
  <2> QED BY <1>2, <2>1, <2>2
<1>4. \A i \in 1..Len(rows') : call'[rows'[i].call].pc \in Settled
  BY <1>0, <1>1, RowCalls DEF ReplayInv
<1>5. \A d \in Calls : call'[d].pc = "awaiting" => call'[d].of
  BY DEF ReplayInv
<1>6. Pending' \subseteq Pending
  <2> SUFFICES ASSUME NEW d \in Calls, d \in Pending' PROVE d \in Pending
    BY DEF Pending
  <2>1. /\ call'[d].of
        /\ \/ call'[d].pc \notin {"idle", "over", "answered", "timedOut"}
           \/ \E i \in 1..Len(queue') : queue'[i].call = d
    BY DEF Pending
  <2>2. CASE d # c
    <3>1. call'[d] = call[d]
      BY <2>2
    <3>2. (\E i \in 1..Len(queue') : queue'[i].call = d) => \E i \in 1..Len(queue) : queue[i].call = d
      BY <1>2, <2>2
    <3> QED BY <2>1, <3>1, <3>2 DEF Pending
  <2>3. CASE d = c
    <3>1. call[c].of
      BY <2>1, <2>3
    <3>2. call[c].pc # "idle"
      BY <3>1 DEF ReplayInv, ProxyBase, Timed
    <3>3. call[c].pc \in {"snapped", "arrived", "routed", "awaiting"}
      BY <3>2
    <3> QED BY <2>3, <3>1, <3>3 DEF Pending
  <2> QED BY <2>2, <2>3
<1>7. ASSUME NEW d \in Calls, Lone(d)' PROVE LoneOK(d)'
  <2>1. Lone(d)
    <3>1. CASE d # c
      BY <1>7, <3>1 DEF Lone
    <3>2. CASE d = c
      <4>1. call[c].of /\ call[c].alone
        BY <1>7, <3>2 DEF Lone
      <4>2. call[c].pc # "idle"
        BY <4>1 DEF ReplayInv, ProxyBase, Timed
      <4> QED BY <3>2, <4>1, <4>2 DEF Lone
    <3> QED BY <3>1, <3>2
  <2>2. /\ call'[d].before = call[d].before
        /\ \/ /\ call'[d].start = call[d].start
              /\ call[d].pc = "snapped" => call'[d].pc = "snapped"
           \/ call'[d].start = 1 + Cardinality(Started)
    OBVIOUS
  <2> QED BY <1>1, <1>6, <2>1, <2>2, LoneKept
<1>8. \A d \in Calls : call'[d].pc = "answered" => call'[d].row \in 1..Len(rows')
  BY DEF ReplayInv
<1>9. ReplayFindsItself'
  BY DEF ReplayInv, ReplayFindsItself
<1> QED BY <1>3, <1>4, <1>5, <1>7, <1>8, <1>9 DEF ReplayInv

\* The handler takes its snapshot: no row of c exists yet, and no other lone
\* replay survives the step.
LEMMA ReplaySnapshots ==
    ASSUME ReplayInv, ProxyBase', NEW c \in Calls, Snapshot(c)
    PROVE  ReplayInv'
<1>0. ProxyBase /\ ProxyTyped
  BY DEF ReplayInv, ProxyBase
<1>1. call[c].pc = "idle" /\ UNCHANGED <<queue, rows>>
  BY DEF Snapshot
<1>2. \A d \in Calls \ {c} : /\ call'[d].pc = call[d].pc /\ call'[d].of = call[d].of
                            /\ call'[d].start = call[d].start /\ call'[d].row = call[d].row
                            /\ call'[d].alone = (call[d].alone /\ d \notin Pending)
  BY <1>0, SnapshotIs
<1>3. /\ call'[c].pc = "snapped" /\ call'[c].of /\ call'[c].before = Newest
      /\ call'[c].alone = (Pending = {})
  BY <1>0, SnapshotIs
<1>4. \A d \in Calls : call[d].pc \in Settled =>
         /\ call'[d].of = call[d].of /\ call'[d].start = call[d].start
         /\ call'[d].pc = call[d].pc
  BY <1>1, <1>2 DEF Settled
<1>5. /\ \A i \in 1..Len(queue') : call'[queue'[i].call].pc \in Settled
      /\ \A i \in 1..Len(rows') : call'[rows'[i].call].pc \in Settled
  BY <1>0, <1>1, <1>4, RowCalls DEF ReplayInv
<1>6. \A d \in Calls : call'[d].pc = "awaiting" => call'[d].of
  BY <1>2, <1>3 DEF ReplayInv
<1>7. ASSUME NEW d \in Calls, Lone(d)' PROVE LoneOK(d)'
  <2>1. CASE d # c
    <3>1. Lone(d) /\ d \notin Pending
      BY <1>2, <1>7, <2>1 DEF Lone
    <3>2. d \in Pending
      BY <3>1 DEF Lone, Pending
    <3> QED BY <3>1, <3>2
  <2>2. CASE d = c
    <3>1. Pending = {}
      BY <1>3, <1>7, <2>2 DEF Lone
    <3>2. Pending' \subseteq {c}
      <4>1. \A x \in Calls : x \in Pending' /\ x # c => x \in Pending
        BY <1>1, <1>2 DEF Pending
      <4> QED BY <3>1, <4>1 DEF Pending
    <3>3. Replays' = Replays /\ Newest' = Newest
      BY <1>1, <1>4, NewestKept
    <3>4. \A i \in Replays : rows[i].call # c
      BY <1>1 DEF Replays, ReplayInv, Settled
    <3>5. Sees(c)'
      BY <1>1, <1>3, <3>3, <3>4 DEF Sees
    <3> QED BY <1>3, <2>2, <3>2, <3>5 DEF LoneOK
  <2> QED BY <2>1, <2>2
<1>8. /\ \A d \in Calls : call'[d].pc = "answered" => call'[d].row \in 1..Len(rows')
      /\ \A d \in Calls : call'[d].pc = "answered" /\ call'[d].alone
            => call[d].pc = "answered" /\ call[d].alone /\ call'[d].row = call[d].row
  BY <1>1, <1>2, <1>3 DEF ReplayInv
<1>9. ReplayFindsItself'
  BY <1>1, <1>8 DEF ReplayInv, ReplayFindsItself
<1> QED BY <1>5, <1>6, <1>7, <1>8, <1>9 DEF ReplayInv

\* awaitReplayRow finds a row above the snapshot's: of a lone replay, its own.
LEMMA ReplayFinds ==
    ASSUME ReplayInv, ProxyBase', NEW c \in Calls, Found(c)
    PROVE  ReplayInv'
<1>0. ProxyBase /\ ProxyTyped /\ call[c] \in CallRecord /\ call \in [Calls -> CallRecord]
  BY DEF ReplayInv, ProxyBase, ProxyTyped
<1>1. /\ call[c].pc = "awaiting" /\ Newest > call[c].before /\ UNCHANGED <<queue, rows>>
      /\ Newest \in Nat /\ call[c].before \in Nat /\ call[c].of
  BY <1>0, NewestIs DEF Found, CallRecord, ReplayInv
<1>2. /\ \A d \in Calls \ {c} : call'[d] = call[d]
      /\ call'[c].pc = "answered" /\ call'[c].row = Newest /\ call'[c].of = call[c].of
      /\ call'[c].start = call[c].start /\ call'[c].alone = call[c].alone
  BY <1>0, FoundIs
<1>3. \A d \in Calls : /\ call[d].pc \in Settled => call'[d].pc \in Settled
                       /\ call'[d].of = call[d].of /\ call'[d].start = call[d].start
  BY <1>1, <1>2 DEF Settled
<1>4. /\ \A i \in 1..Len(queue') : call'[queue'[i].call].pc \in Settled
      /\ \A i \in 1..Len(rows') : call'[rows'[i].call].pc \in Settled
  BY <1>0, <1>1, <1>3, RowCalls DEF ReplayInv
<1>5. Pending' \subseteq Pending
  BY <1>1, <1>2 DEF Pending
<1>6. ASSUME NEW d \in Calls, Lone(d)' PROVE LoneOK(d)'
  <2>1. d # c /\ Lone(d)
    BY <1>2, <1>6 DEF Lone
  <2> QED BY <1>1, <1>2, <1>3, <1>5, <2>1, LoneKept
<1>7. Newest \in Replays /\ Newest \in 1..Len(rows)
  BY <1>0, <1>1, NewestIs DEF Replays
<1>8. \A d \in Calls : call'[d].pc = "answered" => call'[d].row \in 1..Len(rows')
  BY <1>1, <1>2, <1>7 DEF ReplayInv
<1>9. call[c].alone => rows[Newest].call = c
  <2>1. ASSUME call[c].alone PROVE rows[Newest].call = c
    <3>1. Sees(c)
      BY <1>1, <2>1 DEF Lone, LoneOK, ReplayInv
    <3>2. Newest # call[c].before
      BY <1>1
    <3> QED BY <3>1, <3>2 DEF Sees
  <2> QED BY <2>1
<1>10. ReplayFindsItself'
  BY <1>1, <1>2, <1>9 DEF ReplayInv, ReplayFindsItself
<1>11. \A d \in Calls : call'[d].pc = "awaiting" => call'[d].of
  BY <1>2 DEF ReplayInv
<1> QED BY <1>4, <1>6, <1>8, <1>10, <1>11 DEF ReplayInv

\* The consumer writes a row.  If it is a replay's, that is the only one that
\* can be lone, and the row is newer than all others.
LEMMA ReplayWrites ==
    ASSUME ReplayInv, ProxyBase', WriteRow
    PROVE  ReplayInv'
<1>0. ProxyBase /\ ProxyTyped /\ call \in [Calls -> CallRecord]
  BY DEF ReplayInv, ProxyBase, ProxyTyped
<1>1. /\ queue \in Seq(Captured) /\ rows \in Seq(Captured) /\ queue # <<>>
      /\ rows' = Append(rows, Head(queue)) /\ queue' = Tail(queue) /\ call' = call
  BY <1>0 DEF ProxyTyped, WriteRow
<1>2. /\ Head(queue) \in Captured /\ Len(queue') = Len(queue) - 1
      /\ \A i \in 1..Len(queue') : queue'[i] = queue[i + 1]
      /\ Head(queue) = queue[1] /\ Len(queue) \in Nat /\ Len(rows) \in Nat /\ Len(queue) # 0
  BY <1>1, HeadTailProperties
<1>3. /\ Len(rows') = Len(rows) + 1 /\ rows'[Len(rows) + 1] = queue[1]
      /\ \A i \in 1..Len(rows) : rows'[i] = rows[i]
  BY <1>1, <1>2, AppendProperties
<1>a. \A i \in 1..Len(rows') : i \in 1..Len(rows) \/ i = Len(rows) + 1
  BY <1>2, <1>3
<1>b. 1 \in 1..Len(queue) /\ \A i \in 1..Len(queue') : i + 1 \in 1..Len(queue)
  BY <1>2
<1> DEFINE c == queue[1].call
<1>4. c \in Calls /\ call[c].pc \in Settled /\ (call[c].of => c \in Pending)
  BY <1>0, <1>b, RowCalls DEF ReplayInv, Pending
<1> HIDE DEF c
<1>5. /\ \A i \in 1..Len(queue') : call'[queue'[i].call].pc \in Settled
      /\ \A i \in 1..Len(rows') : call'[rows'[i].call].pc \in Settled
  <2>1. \A i \in 1..Len(queue') : call[queue'[i].call].pc \in Settled
    BY <1>2, <1>b DEF ReplayInv
  <2>2. \A i \in 1..Len(rows') : call[rows'[i].call].pc \in Settled
    BY <1>3, <1>4, <1>a DEF ReplayInv, c
  <2> QED BY <1>1, <2>1, <2>2
<1>6. Pending' \subseteq Pending
  <2>1. \A d \in Calls : (\E i \in 1..Len(queue') : queue'[i].call = d)
                           => \E i \in 1..Len(queue) : queue[i].call = d
    BY <1>2, <1>b
  <2> QED BY <1>1, <2>1 DEF Pending
<1>7. ASSUME NEW d \in Calls, Lone(d)' PROVE LoneOK(d)'
  <2>1. Lone(d) /\ LoneOK(d)
    BY <1>1, <1>7 DEF Lone, ReplayInv
  <2>2. CASE ~ call[c].of
    <3>1. Replays' = Replays
      <4>1. \A i \in 1..Len(rows') : call'[rows'[i].call].of
                                        <=> i \in 1..Len(rows) /\ call[rows[i].call].of
        BY <1>1, <1>2, <1>3, <1>a, <2>2 DEF c
      <4>2. 1..Len(rows) \subseteq 1..Len(rows')
        BY <1>2, <1>3
      <4> QED BY <4>1, <4>2 DEF Replays
    <3>2. \A i \in Replays : rows'[i] = rows[i]
      BY <1>3 DEF Replays
    <3>3. Starts' = Starts
      BY <1>1, <3>1, <3>2 DEF Starts
    <3>4. Newest' = Newest
      BY <3>3 DEF Newest
    <3>5. Newest \in Replays \/ Replays = {}
      BY <1>0, NewestIs
    <3>6. Sees(d)'
      BY <1>1, <2>1, <3>1, <3>2, <3>4, <3>5 DEF LoneOK, Sees
    <3>7. (call[d].pc = "snapped" \/ Newer(d))'
      BY <1>1, <2>1, <3>1, <3>2 DEF LoneOK, Newer
    <3> QED BY <1>6, <2>1, <3>6, <3>7 DEF LoneOK
  <2>3. CASE call[c].of
    <3>1. c = d
      BY <1>4, <2>1, <2>3 DEF LoneOK
    <3>2. Replays' = Replays \cup {Len(rows) + 1}
      <4>1. \A i \in 1..Len(rows) : call'[rows'[i].call].of <=> call[rows[i].call].of
        BY <1>1, <1>3
      <4>2. call'[rows'[Len(rows) + 1].call].of
        BY <1>1, <1>3, <2>3 DEF c
      <4>3. 1..Len(rows') = 1..Len(rows) \cup {Len(rows) + 1}
        BY <1>2, <1>3
      <4> QED BY <4>1, <4>2, <4>3 DEF Replays
    <3>3. \A i \in Replays' : /\ i \in 1..(Len(rows) + 1) /\ rows'[i].call \in Calls
                              /\ rows'[i].call # d => /\ i \in Replays
                                                      /\ rows'[i].call = rows[i].call
      <4>1. \A i \in Replays : i \in 1..Len(rows) /\ rows'[i] = rows[i] /\ rows[i].call \in Calls
        BY <1>0, <1>3, RowCalls DEF Replays
      <4>2. rows'[Len(rows) + 1].call = d
        BY <1>3, <3>1 DEF c
      <4> QED BY <1>2, <3>2, <4>1, <4>2
    <3>4. \A i \in Replays' : rows'[i].call # d => call[rows'[i].call].start < call[d].start
      <4>1. Newer(d)
        BY <1>4, <2>1, <3>1 DEF LoneOK, Settled
      <4> QED BY <3>3, <4>1 DEF Newer
    <3>5. PICK B \in Nat : \A x \in Calls : call[x].start \in Nat /\ call[x].start <= B
      BY <1>0, StartedFinite DEF ProxyBase, Timed, CallRecord
    <3>6. Starts' \in [Replays' -> 0..B]
      BY <1>1, <3>3, <3>5 DEF Starts
    <3>7. Newest' \in Replays' /\ \A j \in Replays' : Starts'[j] <= Starts'[Newest']
      <4>1. Replays' # {}
        BY <3>2
      <4>2. LastStarted(Starts') \in Replays' /\ \A j \in Replays' : Starts'[j] <= Starts'[LastStarted(Starts')]
        BY <3>6, <4>1, LastStartedIs
      <4>3. Newest' = LastStarted(Starts')
        BY DEF Newest
      <4> QED BY <4>2, <4>3
    <3>8. rows'[Newest'].call = d
      <4>1. Starts'[Len(rows) + 1] = call[d].start
        BY <1>1, <1>3, <3>1, <3>2 DEF Starts, c
      <4>2. Starts'[Newest'] = call[rows'[Newest'].call].start /\ rows'[Newest'].call \in Calls
        BY <1>1, <3>3, <3>7 DEF Starts
      <4>3. call[d].start <= call[rows'[Newest'].call].start
        BY <3>2, <3>7, <4>1, <4>2
      <4>4. call[d].start \in Nat /\ call[rows'[Newest'].call].start \in Nat
        BY <3>5, <4>2
      <4>5. rows'[Newest'].call # d => call[rows'[Newest'].call].start < call[d].start
        BY <3>4, <3>7
      <4> QED BY <4>3, <4>4, <4>5
    <3>9. Sees(d)'
      <4>1. \E i \in Replays' : rows'[i].call = d
        BY <3>7, <3>8
      <4> QED BY <3>8, <4>1 DEF Sees
    <3>10. Newer(d)'
      BY <1>1, <3>4 DEF Newer
    <3> QED BY <1>6, <2>1, <3>9, <3>10 DEF LoneOK
  <2> QED BY <2>2, <2>3
<1>8. \A d \in Calls : call'[d].pc = "answered" =>
         call'[d].row \in 1..Len(rows') /\ call'[d].row \in 1..Len(rows)
  BY <1>1, <1>2, <1>3 DEF ReplayInv
<1>9. ReplayFindsItself'
  BY <1>1, <1>3, <1>8 DEF ReplayInv, ReplayFindsItself
<1>10. \A d \in Calls : call'[d].pc = "awaiting" => call'[d].of
  BY <1>1 DEF ReplayInv
<1> QED BY <1>5, <1>7, <1>8, <1>9, <1>10 DEF ReplayInv

\* Every step keeps what a replay may take for its own.
LEMMA ReplayKept == ASSUME ReplayInv, [ProxyNext]_proxyVars PROVE ReplayInv'
<1>0. ProxyBase /\ ProxyBase' /\ ProxyTyped /\ call \in [Calls -> CallRecord]
  BY ProxyBaseKept DEF ReplayInv, ProxyBase, ProxyTyped
<1>1. ASSUME NEW c \in Calls, Snapshot(c) PROVE ReplayInv'
  BY <1>0, <1>1, ReplaySnapshots
<1>2. ASSUME NEW c \in Calls, Arrive(c) PROVE ReplayInv'
  <2>1. /\ call[c].pc \in {"idle", "snapped"} /\ UNCHANGED <<queue, rows>>
        /\ \A d \in Calls \ {c} : call'[d] = call[d]
        /\ call'[c].pc = "arrived" /\ call'[c].start = 1 + Cardinality(Started)
        /\ call'[c].of = call[c].of /\ call'[c].alone = call[c].alone
        /\ call'[c].before = call[c].before
    BY <1>0, <1>2, ArriveIs DEF Arrive
  <2> QED BY <1>0, <2>1, ReplayMoves
<1>3. ASSUME NEW c \in Calls, Route(c) PROVE ReplayInv'
  <2>1. /\ call[c].pc = "arrived" /\ UNCHANGED <<queue, rows>>
        /\ \A d \in Calls \ {c} : call'[d] = call[d]
        /\ call'[c].pc = "routed" /\ call'[c].start = call[c].start
        /\ call'[c].of = call[c].of /\ call'[c].alone = call[c].alone
        /\ call'[c].before = call[c].before
    BY <1>0, <1>3, RouteIs DEF Route
  <2> QED BY <1>0, <2>1, ReplayMoves
<1>4. ASSUME NEW c \in Calls, NEW complete \in BOOLEAN, NEW whole \in BOOLEAN,
             call[c].pc = "routed", Submit(c, complete, whole), rows' = rows
      PROVE ReplayInv'
  <2>1. /\ \A d \in Calls \ {c} : call'[d] = call[d]
        /\ call'[c].pc = IF call[c].of /\ call[c].keep THEN "awaiting" ELSE "over"
        /\ call'[c].of = call[c].of /\ call'[c].start = call[c].start
        /\ call'[c].alone = call[c].alone /\ call'[c].before = call[c].before
        /\ \/ queue' = queue
           \/ call[c].keep /\ \E e \in Captured : e.call = c /\ queue' = Append(queue, e)
    BY <1>0, <1>4, SubmitIs
  <2>2. \/ queue' = queue
        \/ /\ call'[c].pc \in Settled
           /\ call'[c].of => call'[c].pc = "awaiting"
           /\ \E e \in Captured : e.call = c /\ queue' = Append(queue, e)
    BY <2>1 DEF Settled
  <2> QED BY <1>0, <1>4, <2>1, <2>2, ReplayMoves
<1>5. ASSUME NEW c \in Calls, Unreachable(c) PROVE ReplayInv'
  BY <1>4, <1>5 DEF Unreachable
<1>6. ASSUME NEW c \in Calls, Answer(c) PROVE ReplayInv'
  <2>1. PICK complete, whole \in BOOLEAN : Submit(c, complete, whole)
    BY <1>6, AnswerIs
  <2> QED BY <1>4, <1>6, <2>1 DEF Answer
<1>7. ASSUME NEW c \in Calls, Found(c) PROVE ReplayInv'
  BY <1>0, <1>7, ReplayFinds
<1>8. ASSUME NEW c \in Calls, TimesOut(c) PROVE ReplayInv'
  <2>1. /\ call[c].pc = "awaiting" /\ UNCHANGED <<queue, rows>>
        /\ \A d \in Calls \ {c} : call'[d] = call[d]
        /\ call'[c].pc = "timedOut" /\ call'[c].start = call[c].start
        /\ call'[c].of = call[c].of /\ call'[c].alone = call[c].alone
        /\ call'[c].before = call[c].before
    BY <1>0, <1>8, TimesOutIs DEF TimesOut
  <2> QED BY <1>0, <2>1, ReplayMoves
<1>9. CASE WriteRow
  BY <1>0, <1>9, ReplayWrites
<1>10. CASE Reboot
  <2>1. \A d \in Calls :
          /\ call'[d].start = call[d].start /\ call'[d].of = call[d].of
          /\ \/ /\ call[d].pc \in {"idle", "answered", "timedOut"} /\ call'[d] = call[d]
             \/ /\ call[d].pc \notin {"idle", "answered", "timedOut"}
                /\ call'[d].pc = "over"
    BY <1>0, <1>10, RebootIs
  <2>2. queue' = <<>> /\ rows' = rows
    BY <1>10 DEF Reboot
  <2>3. \A i \in 1..Len(rows') : call'[rows'[i].call].pc \in Settled
    <3>1. \A d \in Calls : call[d].pc \in Settled => call'[d].pc \in Settled
      BY <2>1 DEF Settled
    <3> QED BY <1>0, <2>2, <3>1, RowCalls DEF ReplayInv
  <2>4. \A d \in Calls : ~ Lone(d)'
    BY <2>1 DEF Lone
  <2>5. \A d \in Calls : call'[d].pc \in {"awaiting", "answered"} =>
          call'[d] = call[d] /\ call'[d].pc = "answered"
    BY <2>1
  <2> QED BY <1>0, <2>2, <2>3, <2>4, <2>5 DEF ReplayInv, ReplayFindsItself
<1>11. CASE UNCHANGED <<call, queue, rows>>
  <2>1. Pending' = Pending /\ Replays' = Replays
    BY <1>11 DEF Pending, Replays
  <2>2. Starts' = Starts
    BY <1>11, <2>1 DEF Starts
  <2>3. Newest' = Newest
    BY <2>2 DEF Newest
  <2>4. \A d \in Calls : Lone(d)' => LoneOK(d)'
    BY <1>11, <2>1, <2>3 DEF ReplayInv, Lone, LoneOK, Newer, Sees
  <2> QED BY <1>0, <1>11, <2>4 DEF ReplayInv, ReplayFindsItself
<1>12. ASSUME NEW s \in Setters, Lock(s) \/ Persist(s) \/ Switch(s) PROVE ReplayInv'
  BY <1>11, <1>12 DEF Lock, Persist, Switch
<1>13. CASE UNCHANGED proxyVars
  BY <1>11, <1>13 DEF proxyVars
<1> QED BY <1>1, <1>2, <1>3, <1>5, <1>6, <1>7, <1>8, <1>9, <1>10, <1>12, <1>13 DEF ProxyNext

\* A replay that no other replay has overlapped is answered with its own row
\* (api/replay.go: the snapshot of the newest row, the send, awaitReplayRow),
\* however many calls and restarts there are.
THEOREM ReplaysFindThemselves == ProxySpec => []ReplayFindsItself
<1>1. ProxyInit => ReplayInv
  BY ReplayStarts
<1>2. ReplayInv /\ [ProxyNext]_proxyVars => ReplayInv'
  BY ReplayKept
<1>3. ReplayInv => ReplayFindsItself
  BY DEF ReplayInv
<1> QED BY <1>1, <1>2, <1>3, PTL DEF ProxySpec
================================================================================
