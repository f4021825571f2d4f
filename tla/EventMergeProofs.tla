--------------------------- MODULE EventMergeProofs ---------------------------
(***************************************************************************)
(* What merging makes of rows, for every instance: of the figures of one   *)
(* (EventMerge), and of captures, sessions and replays when `clens rekey`  *)
(* merges and moves them beside serve (RekeyPasses).                       *)
(***************************************************************************)
EXTENDS EventMerge, RekeyPasses, TLAPS

USE MergeAssumption

-----------------------------------------------------------------------------
(* What each collector's row is, and that mergeEvents keeps it so. *)

\* What is true of every row, built or merged.
Sound(e) == e \in Row /\ CostFits(e) /\ HonestFlag(e) /\ LocalTogether(e)

\* A row as a source builds it is sound.
LEMMA SoundWhenBuilt ==
    ASSUME NEW source \in Sources, NEW mode \in Modes, NEW usage \in Usages,
           NEW complete \in BOOLEAN, NEW req \in Bodies, NEW resp \in Bodies,
           complete => "cut" \notin {req, resp}
    PROVE  Sound(Unpriced(source, mode, usage, complete, req, resp))
BY DEF Sound, Unpriced, Row, Sources, Modes, Rates, CostFits, HonestFlag,
       LocalTogether, AccountOf

\* Two rows that differ in their cost at most.
SameCall(e, f) ==
    /\ e.source = f.source /\ e.refs = f.refs /\ e.complete = f.complete
    /\ e.usage = f.usage /\ e.mode = f.mode /\ e.account = f.account
    /\ e.req = f.req /\ e.resp = f.resp

\* Pricing a sound row leaves it sound and the same call.
LEMMA SoundWhenPriced ==
    ASSUME NEW e, Sound(e)
    PROVE  /\ Sound(WithCost(e))
           /\ SameCall(WithCost(e), e)
<1>1. WithCost(e) \in Row
  BY DEF Sound, WithCost, Row, Rates, RatesOf
<1>2. SameCall(WithCost(e), e)
  BY DEF Sound, WithCost, Row, SameCall
<1>3. /\ WithCost(e).usd = IF Hypothetical(e.mode) THEN "" ELSE RatesOf(e.mode)
      /\ WithCost(e).equiv = IF Hypothetical(e.mode) THEN RatesOf(e.mode) ELSE ""
  BY DEF Sound, WithCost, Row
<1>. QED BY <1>1, <1>2, <1>3 DEF Sound, CostFits, HonestFlag, LocalTogether, SameCall

\* A captured row: the proxy's, with usage only if it kept a response body.
LEMMA CapturedRow ==
    ASSUME NEW e \in MaybePriced(ProxyRows)
    PROVE  /\ Sound(e)
           /\ e.source = "proxy"
           /\ e.resp = "none" => e.usage = 0
<1>1. ASSUME NEW r \in ProxyRows
      PROVE  Sound(r) /\ r.source = "proxy" /\ (r.resp = "none" => r.usage = 0)
  <2>1. PICK mode \in Modes, usage \in Usages, aborted \in BOOLEAN,
             req \in Bodies, resp \in Bodies :
               r = Captured(mode, usage, aborted, req, resp)
    BY DEF ProxyRows
  <2>2. Sound(r)
    BY <2>1, SoundWhenBuilt DEF Captured, Sources
  <2>3. r.source = "proxy"
    BY <2>1 DEF Captured, Unpriced
  <2>4. r.resp = "none" => r.usage = 0
    BY DEF ProxyRows
  <2>. QED BY <2>2, <2>3, <2>4
<1>2. CASE e \in ProxyRows
  BY <1>1, <1>2
<1>3. CASE \E r \in ProxyRows : e = WithCost(r)
  BY <1>1, <1>3, SoundWhenPriced DEF SameCall
<1>. QED BY <1>2, <1>3 DEF MaybePriced

\* A transcript's row: complete, without bodies, with a mode.
Transcript(e) ==
    /\ Sound(e)
    /\ e.source = "jsonl" /\ e.refs = {}
    /\ e.complete /\ e.req = "none" /\ e.resp = "none"
    /\ e.mode # ""

\* A row from the transcript is one, priced or not.
LEMMA TranscriptRow ==
    ASSUME NEW e \in MaybePriced(TranscriptRows)
    PROVE  Transcript(e)
<1>1. ASSUME NEW r \in TranscriptRows
      PROVE  Transcript(r)
  <2>1. PICK mode \in Guesses, usage \in Usages : r = Reported(mode, usage)
    BY DEF TranscriptRows
  <2>2. Sound(r)
    BY <2>1, SoundWhenBuilt DEF Guesses, Modes, Sources, Bodies, Reported
  <2>. QED BY <2>1, <2>2 DEF Guesses, Unpriced, Reported, Transcript
<1>2. CASE e \in TranscriptRows
  BY <1>1, <1>2
<1>3. CASE \E r \in TranscriptRows : e = WithCost(r)
  <2>1. PICK r \in TranscriptRows : e = WithCost(r)
    BY <1>3
  <2>2. Transcript(r)
    BY <1>1
  <2>. QED BY <2>1, <2>2, SoundWhenPriced DEF Transcript, SameCall
<1>. QED BY <1>2, <1>3 DEF MaybePriced

\* The row whose figures stay is one of the two.
LEMMA WinnerIsOne ==
    ASSUME NEW old, NEW new
    PROVE  Winner(old, new) \in {old, new}
BY DEF Winner, ByFlag

\* The merge of two sound rows is a row.
LEMMA MergedRow ==
    ASSUME NEW old, Sound(old), NEW new, Sound(new)
    PROVE  mergeEvents(old, new) \in Row
<1>. DEFINE m == mergeEvents(old, new)
            w == Winner(old, new)
<1>1. w \in Row
  BY WinnerIsOne DEF Sound
<1>2. BillingMode(old, new) \in Modes
  BY <1>1 DEF BillingMode, ModeOf, proxySide, Sound, Row, Modes
<1>3. Account(old, new) \in Named \cup {"", "local"}
  BY DEF Account, Picked, Real, preferNonEmpty, proxySide, Sound, Row
<1>4. captureCompleteFromBodies(old, new) \in BOOLEAN
  BY DEF captureCompleteFromBodies
<1>5. old.refs \cup {old.source, new.source} \in SUBSET Sources
  BY DEF Sound, Row
<1>6. /\ Backfilled(old.req, new.req) \in Bodies
      /\ Backfilled(old.resp, new.resp) \in Bodies
  BY DEF Sound, Row, Backfilled
<1>7. /\ (IF KeepsCost(old, new) THEN w.usd ELSE "") \in Rates
      /\ (IF KeepsCost(old, new) THEN w.equiv ELSE "") \in Rates
  BY <1>1 DEF Row, Rates
<1>8. w.usage \in Usages /\ old.source \in Sources
  BY <1>1 DEF Row, Sound
<1>. HIDE DEF w
<1>. QED BY <1>2, <1>3, <1>4, <1>5, <1>6, <1>7, <1>8 DEF mergeEvents, w, Row

\* A merge leaves the cost in the column of the row's mode.
LEMMA MergedCost ==
    ASSUME NEW old, Sound(old), NEW new, Sound(new)
    PROVE  CostFits(mergeEvents(old, new))
<1>. DEFINE m == mergeEvents(old, new)
            w == Winner(old, new)
<1>1. CostFits(w) /\ w \in Row
  BY WinnerIsOne DEF Sound
<1>2. CASE Arbitrated(old, new) /\ w.mode # proxySide(old, new).mode
  <2>1. m.usd = "" /\ m.equiv = ""
    BY <1>2 DEF mergeEvents, KeepsCost
  <2>. QED BY <2>1 DEF CostFits
<1>3. CASE Arbitrated(old, new) /\ w.mode = proxySide(old, new).mode
  <2>1. m.usd = w.usd /\ m.equiv = w.equiv /\ m.mode = w.mode
    BY <1>3 DEF mergeEvents, KeepsCost, BillingMode
  <2>. QED BY <2>1, <1>1 DEF CostFits
<1>4. CASE ~Arbitrated(old, new)
  <2>1. m.usd = w.usd /\ m.equiv = w.equiv /\ m.mode = ModeOf(w, old)
    BY <1>4 DEF mergeEvents, KeepsCost, BillingMode
  <2>2. CASE w.mode # ""
    BY <2>1, <2>2, <1>1 DEF CostFits, ModeOf
  <2>3. CASE w.mode = "" /\ w.usd # ""
    BY <2>1, <2>3, <1>1 DEF CostFits, ModeOf, Hypothetical, RatesOf
  <2>4. CASE w.mode = "" /\ w.usd = ""
    BY <2>1, <2>4, <1>1 DEF CostFits, Hypothetical
  <2>. QED BY <2>2, <2>3, <2>4
<1>. QED BY <1>2, <1>3, <1>4

\* A merge leaves mode and account local together.
LEMMA MergedAccount ==
    ASSUME NEW old, Sound(old), NEW new, Sound(new)
    PROVE  LocalTogether(mergeEvents(old, new))
<1>1. Real(old.account) # "local" /\ Real(new.account) # "local"
  BY DEF Real
<1>2. /\ mergeEvents(old, new).mode = BillingMode(old, new)
      /\ mergeEvents(old, new).account = Account(old, new)
  BY DEF mergeEvents
<1>. QED BY <1>1, <1>2 DEF LocalTogether, Account, preferNonEmpty

\* A merged row that calls itself complete holds no cut body.
LEMMA MergedFlag ==
    ASSUME NEW old, Sound(old), NEW new, Sound(new)
    PROVE  HonestFlag(mergeEvents(old, new))
<1>1. /\ HonestFlag(old) /\ HonestFlag(new)
      /\ {old.req, old.resp, new.req, new.resp} \subseteq Bodies
      /\ old.complete \in BOOLEAN /\ new.complete \in BOOLEAN
  BY DEF Sound, Row
<1>2. ASSUME captureCompleteFromBodies(old, new)
      PROVE  Backfilled(old.req, new.req) # "cut" /\ Backfilled(old.resp, new.resp) # "cut"
  BY <1>1, <1>2 DEF captureCompleteFromBodies, OldHasBody, NewGivesBody,
                    Backfilled, HonestFlag, Bodies
<1>3. /\ mergeEvents(old, new).complete = captureCompleteFromBodies(old, new)
      /\ mergeEvents(old, new).req = Backfilled(old.req, new.req)
      /\ mergeEvents(old, new).resp = Backfilled(old.resp, new.resp)
  BY DEF mergeEvents
<1>. QED BY <1>2, <1>3 DEF HonestFlag

\* The merge of two sound rows is sound.
LEMMA SoundWhenMerged ==
    ASSUME NEW old, Sound(old), NEW new, Sound(new)
    PROVE  Sound(mergeEvents(old, new))
BY MergedRow, MergedCost, MergedAccount, MergedFlag DEF Sound

-----------------------------------------------------------------------------
(* What one merge does to the mode, the usage and the flag. *)

\* A merge loses no billing mode.
LEMMA MergedMode ==
    ASSUME NEW old, NEW new
    PROVE  mergeEvents(old, new).mode = "" => old.mode = ""
<1>1. mergeEvents(old, new).mode = BillingMode(old, new)
  BY DEF mergeEvents
<1>2. Arbitrated(old, new) => BillingMode(old, new) # ""
  BY DEF Arbitrated, BillingMode
<1>3. ModeOf(Winner(old, new), old) = "" => old.mode = ""
  BY WinnerIsOne DEF ModeOf
<1>. QED BY <1>1, <1>2, <1>3 DEF BillingMode

\* Exactly one side is the proxy's and it has a mode: it decides.
LEMMA MergedLocal ==
    ASSUME NEW old, Sound(old), NEW new, Sound(new),
           proxyInvolved(old) # proxyInvolved(new),
           proxySide(old, new).mode # ""
    PROVE  mergeEvents(old, new).mode = "local" <=> proxySide(old, new).mode = "local"
<1>1. mergeEvents(old, new).mode = BillingMode(old, new)
  BY DEF mergeEvents
<1>2. CASE Arbitrated(old, new)
  BY <1>1, <1>2 DEF BillingMode
<1>3. CASE ~Arbitrated(old, new)
  <2>1. old.mode # "local" /\ new.mode # "local"
    BY <1>3 DEF Arbitrated
  <2>2. ModeOf(Winner(old, new), old) # "local"
    BY <2>1, WinnerIsOne DEF ModeOf
  <2>. QED BY <1>1, <1>3, <2>1, <2>2 DEF BillingMode, proxySide
<1>. QED BY <1>2, <1>3

\* Whose usage a merged row has.
LEMMA MergedUsage ==
    ASSUME NEW old, NEW new, Sound(old), Sound(new)
    PROVE  LET u == mergeEvents(old, new).usage IN
           /\ u = IF usageObserved(old) = usageObserved(new)
                  THEN (IF new.complete THEN new.usage ELSE old.usage)
                  ELSE (IF usageObserved(new) THEN new.usage ELSE old.usage)
           /\ old.usage # 0 => u # 0
<1>1. mergeEvents(old, new).usage = Winner(old, new).usage
  BY DEF mergeEvents
<1>. QED BY <1>1 DEF Winner, ByFlag, usageObserved

\* The invariant.  TypeOK and Sound(row) speak of single states of the row;
\* the rest ties the row to what the two collectors have said so far.
Known ==
    /\ TypeOK
    /\ Stored => Sound(row)
    /\ told # {} => Stored
    /\ seen # NoRow => /\ Stored /\ proxyInvolved(row)
                       /\ Sound(seen) /\ seen.source = "proxy"
                       /\ seen.resp = "none" => seen.usage = 0
    /\ Stored /\ seen = NoRow => /\ ~proxyInvolved(row) /\ row.complete
                                 /\ row.req = "none" /\ row.resp = "none"
    /\ Stored /\ row.mode = "" => seen # NoRow /\ seen.mode = ""

\* The figure of a complete row is a complete record's, and the row stays
\* complete as long as every record was.
Traced ==
    /\ Stored /\ row.complete /\ row.usage # 0 => row.usage \in Measured
    /\ Stored /\ (seen # NoRow => seen.complete) => row.complete

IInv ==
    /\ Known
    /\ ProxyDecidesLocal
    /\ Traced
    /\ CompleteUsageWins
    /\ DisagreementIsReported
    /\ MismatchIsReal

\* Before any arrival the invariant holds.
LEMMA InitInv == Init => IInv
BY DEF Init, IInv, Known, TypeOK, ProxyDecidesLocal, Traced, CompleteUsageWins,
       DisagreementIsReported, MismatchIsReal, Measured, Disagree, Stored

\* No row is the absent one.
LEMMA NotARow == NoRow \notin Row
BY DEF NoRow, Row, Sources

-----------------------------------------------------------------------------
(* The proxy's capture arrives. *)

\* After the capture what was said and seen is known, and its mode decides.
LEMMA ProxyKnown ==
    ASSUME Known, ProxyDecidesLocal, seen = NoRow, UNCHANGED told,
           NEW e \in MaybePriced(ProxyRows), insertOrMerge(e), seen' = e
    PROVE  Known' /\ ProxyDecidesLocal'
<1>1. Sound(e) /\ e \in Row /\ e.source = "proxy" /\ (e.resp = "none" => e.usage = 0)
  BY CapturedRow DEF Sound
<1>2. seen' # NoRow /\ proxyInvolved(e)
  BY <1>1, NotARow DEF proxyInvolved
<1>3. warned' \in BOOLEAN
  BY DEF insertOrMerge, Known, TypeOK, Mismatch
<1>4. CASE ~Stored
  <2>1. row' = e
    BY <1>4 DEF insertOrMerge, Stored
  <2>. QED BY <1>1, <1>2, <1>3, <2>1 DEF Known, TypeOK, Stored, ProxyDecidesLocal
<1>5. CASE Stored
  <2>1. row' = mergeEvents(row, e) /\ Sound(row) /\ ~proxyInvolved(row) /\ row.mode # ""
    BY <1>5 DEF insertOrMerge, Stored, Known
  <2>2. Sound(row') /\ row' \in Row /\ row' # NoRow
    BY <1>1, <2>1, SoundWhenMerged, NotARow DEF Sound
  <2>3. row'.mode # ""
    BY <2>1, MergedMode
  <2>4. proxyInvolved(row')
    BY <1>1, <2>1 DEF proxyInvolved, mergeEvents
  <2>5. e.mode # "" => (row'.mode = "local" <=> e.mode = "local")
    BY <1>1, <1>2, <2>1, MergedLocal DEF proxySide
  <2>. QED
    BY <1>1, <1>2, <1>3, <2>2, <2>3, <2>4, <2>5
    DEF Known, TypeOK, Stored, ProxyDecidesLocal
<1>. QED BY <1>4, <1>5

\* The arrival of the capture keeps what the rows' measurements say.
LEMMA ProxyMeasures ==
    ASSUME IInv, seen = NoRow, UNCHANGED told,
           NEW e \in MaybePriced(ProxyRows), insertOrMerge(e), seen' = e
    PROVE  Traced' /\ CompleteUsageWins' /\ DisagreementIsReported' /\ MismatchIsReal'
<1>1. Sound(e) /\ e \in Row /\ (e.resp = "none" => e.usage = 0) /\ e # NoRow
  BY CapturedRow, NotARow DEF Sound
<1>2. e.usage \in Usages /\ e.complete \in BOOLEAN
  BY <1>1 DEF Row
<1>3. Measured = told
  BY DEF Measured
<1>4. Measured' = told \cup (IF e.complete THEN {e.usage} \ {0} ELSE {})
  BY <1>1 DEF Measured
<1>5. CASE ~Stored
  <2>1. row' = e /\ UNCHANGED warned /\ told = {} /\ ~warned
    BY <1>3, <1>5 DEF insertOrMerge, Stored, IInv, Known, MismatchIsReal, Disagree, TypeOK
  <2>2. ~Disagree(Measured)'
    BY <1>4, <2>1 DEF Disagree
  <2>. QED
    BY <1>1, <1>4, <2>1, <2>2
    DEF Traced, CompleteUsageWins, DisagreementIsReported, MismatchIsReal, Stored
<1>6. CASE Stored
  <2>1. /\ row' = mergeEvents(row, e)
        /\ warned' = (warned \/ Mismatch(row, e))
        /\ Sound(row) /\ row.complete /\ row.req = "none" /\ row.resp = "none"
    BY <1>6 DEF insertOrMerge, Stored, IInv, Known
  <2>2. /\ row.usage # 0 => row.usage \in told
        /\ told # {} => row.usage \in told
        /\ 0 \notin told
    BY <1>3, <1>6, <2>1 DEF IInv, Traced, CompleteUsageWins, Known, TypeOK
  <2>3. row'.usage = IF usageObserved(row) = usageObserved(e)
                     THEN (IF e.complete THEN e.usage ELSE row.usage)
                     ELSE (IF usageObserved(e) THEN e.usage ELSE row.usage)
    BY <1>1, <2>1, MergedUsage
  <2>4. /\ row'.complete \in BOOLEAN
        /\ row'.complete => e.complete \/ e.resp = "none"
        /\ e.complete => row'.complete
    BY <1>1, <2>1 DEF mergeEvents, captureCompleteFromBodies, OldHasBody, NewGivesBody
  <2>5. Traced'
    BY <1>1, <1>4, <2>2, <2>3, <2>4 DEF Traced, Stored, usageObserved
  <2>6. CompleteUsageWins'
    BY <1>4, <2>2, <2>3 DEF CompleteUsageWins, usageObserved
  <2>7. DisagreementIsReported'
    <3>. SUFFICES ASSUME e.complete, Disagree(Measured)'
                  PROVE  warned'
      BY <1>1 DEF DisagreementIsReported
    <3>1. CASE Disagree(told)
      BY <1>3, <2>1, <3>1 DEF IInv, DisagreementIsReported
    <3>2. CASE ~Disagree(told)
      <4>1. e.usage # 0 /\ e.usage \notin told /\ told # {}
        BY <1>4, <3>2 DEF Disagree
      <4>. QED BY <2>1, <2>2, <4>1 DEF Mismatch, usageObserved
    <3>. QED BY <3>1, <3>2
  <2>8. MismatchIsReal'
    <3>1. CASE warned
      BY <1>3, <1>4, <3>1 DEF IInv, MismatchIsReal, Disagree
    <3>2. CASE Mismatch(row, e)
      <4>1. row.usage \in Measured' /\ e.usage \in Measured' /\ row.usage # e.usage
        BY <1>4, <2>2, <3>2 DEF Mismatch, usageObserved
      <4>. QED BY <4>1 DEF MismatchIsReal, Disagree
    <3>. QED BY <2>1, <3>1, <3>2 DEF MismatchIsReal
  <2>. QED BY <2>5, <2>6, <2>7, <2>8
<1>. QED BY <1>5, <1>6

-----------------------------------------------------------------------------
(* The transcript reports the call. *)

\* So after a transcript's report.
LEMMA TranscriptKnown ==
    ASSUME Known, ProxyDecidesLocal, UNCHANGED seen,
           NEW e \in MaybePriced(TranscriptRows), insertOrMerge(e),
           told' = told \cup ({e.usage} \ {0})
    PROVE  Known' /\ ProxyDecidesLocal'
<1>1. Transcript(e) /\ Sound(e) /\ e \in Row /\ ~proxyInvolved(e)
  BY TranscriptRow DEF Transcript, Sound, proxyInvolved
<1>2. warned' \in BOOLEAN
  BY DEF insertOrMerge, Known, TypeOK, Mismatch
<1>3. told' \subseteq Usages \ {0}
  BY <1>1 DEF Known, TypeOK, Row
<1>4. CASE ~Stored
  <2>1. row' = e /\ seen = NoRow /\ e # NoRow
    BY <1>1, <1>4, NotARow DEF insertOrMerge, Stored, Known
  <2>. QED
    BY <1>1, <1>2, <1>3, <2>1
    DEF Known, TypeOK, Stored, ProxyDecidesLocal, Transcript
<1>5. CASE Stored
  <2>1. row' = mergeEvents(row, e) /\ Sound(row)
    BY <1>5 DEF insertOrMerge, Stored, Known
  <2>2. Sound(row') /\ row' \in Row /\ row' # NoRow
    BY <1>1, <2>1, SoundWhenMerged, NotARow DEF Sound
  <2>3. row'.mode = "" => row.mode = ""
    BY <2>1, MergedMode
  <2>4. proxyInvolved(row') <=> proxyInvolved(row)
    BY <1>1, <2>1 DEF proxyInvolved, mergeEvents, Transcript
  <2>5. row.complete /\ row.req = "none" /\ row.resp = "none"
          => row'.complete /\ row'.req = "none" /\ row'.resp = "none"
    BY <1>1, <2>1 DEF mergeEvents, captureCompleteFromBodies, OldHasBody,
                      NewGivesBody, Backfilled, Transcript
  <2>6. proxyInvolved(row) /\ row.mode # "" => (row'.mode = "local" <=> row.mode = "local")
    BY <1>1, <2>1, MergedLocal DEF proxySide
  <2>. QED
    BY <1>2, <1>3, <1>5, <2>2, <2>3, <2>4, <2>5, <2>6
    DEF Known, TypeOK, Stored, ProxyDecidesLocal
<1>. QED BY <1>4, <1>5

\* The arrival of a transcript line keeps what the rows' measurements say.
LEMMA TranscriptMeasures ==
    ASSUME IInv, UNCHANGED seen,
           NEW e \in MaybePriced(TranscriptRows), insertOrMerge(e),
           told' = told \cup ({e.usage} \ {0})
    PROVE  Traced' /\ CompleteUsageWins' /\ DisagreementIsReported' /\ MismatchIsReal'
<1>1. Transcript(e) /\ Sound(e) /\ e \in Row /\ e # NoRow /\ e.complete
  BY TranscriptRow, NotARow DEF Transcript, Sound
<1>2. Measured' = Measured \cup ({e.usage} \ {0})
  BY DEF Measured
<1>3. 0 \notin Measured
  BY DEF IInv, Known, TypeOK, Measured
<1>4. CASE ~Stored
  <2>1. row' = e /\ UNCHANGED warned /\ Measured = {} /\ ~warned
    BY <1>4 DEF insertOrMerge, Stored, IInv, Known, MismatchIsReal, Disagree, TypeOK, Measured
  <2>2. ~Disagree(Measured)'
    BY <1>2, <2>1 DEF Disagree
  <2>. QED
    BY <1>1, <1>2, <2>1, <2>2
    DEF Traced, CompleteUsageWins, DisagreementIsReported, MismatchIsReal, Stored
<1>5. CASE Stored
  <2>1. /\ row' = mergeEvents(row, e)
        /\ warned' = (warned \/ Mismatch(row, e))
        /\ Sound(row)
    BY <1>5 DEF insertOrMerge, Stored, IInv, Known
  <2>2. /\ row.complete /\ row.usage # 0 => row.usage \in Measured
        /\ Measured # {} => row.usage \in Measured
        /\ (seen # NoRow => seen.complete) => row.complete
    BY <1>5 DEF IInv, Traced, CompleteUsageWins
  <2>3. row'.usage = IF usageObserved(e) THEN e.usage
                     ELSE IF usageObserved(row) THEN row.usage ELSE e.usage
    BY <1>1, <2>1, MergedUsage DEF usageObserved
  <2>4. row'.complete <=> row.complete
    <3>1. row'.complete = captureCompleteFromBodies(row, e)
      BY <2>1 DEF mergeEvents
    <3>2. ~NewGivesBody(row, e)
      BY <1>1 DEF NewGivesBody, Transcript
    <3>3. captureCompleteFromBodies(row, e) <=> row.complete
      BY <3>2 DEF captureCompleteFromBodies
    <3>. QED BY <3>1, <3>3
  <2>5. Traced'
    BY <1>2, <2>2, <2>3, <2>4 DEF Traced, Stored, usageObserved, IInv
  <2>6. CompleteUsageWins'
    BY <1>2, <1>3, <2>2, <2>3 DEF CompleteUsageWins, usageObserved
  <2>7. DisagreementIsReported'
    <3>. SUFFICES ASSUME seen # NoRow => seen.complete, Disagree(Measured)'
                  PROVE  warned'
      BY DEF DisagreementIsReported
    <3>1. CASE Disagree(Measured)
      BY <2>1, <3>1 DEF IInv, DisagreementIsReported
    <3>2. CASE ~Disagree(Measured)
      <4>1. e.usage # 0 /\ e.usage \notin Measured /\ Measured # {}
        BY <1>2, <3>2 DEF Disagree
      <4>. QED BY <1>1, <1>3, <2>1, <2>2, <4>1 DEF Mismatch, usageObserved
    <3>. QED BY <3>1, <3>2
  <2>8. MismatchIsReal'
    <3>1. CASE warned
      BY <1>2, <3>1 DEF IInv, MismatchIsReal, Disagree
    <3>2. CASE Mismatch(row, e)
      <4>1. row.usage \in Measured' /\ e.usage \in Measured' /\ row.usage # e.usage
        BY <1>2, <2>2, <3>2 DEF Mismatch, usageObserved
      <4>. QED BY <4>1 DEF MismatchIsReal, Disagree
    <3>. QED BY <2>1, <3>1, <3>2 DEF MismatchIsReal
  <2>. QED BY <2>5, <2>6, <2>7, <2>8
<1>. QED BY <1>4, <1>5

-----------------------------------------------------------------------------
(* The three steps together, and a reprice in between. *)

\* A reprice between arrivals keeps the invariant.
LEMMA RepriceInv ==
    ASSUME IInv, NEW byModel \in BOOLEAN, Reprice(byModel)
    PROVE  IInv'
<1>1. Stored /\ Sound(row) /\ row' = WithCost(row) /\ UNCHANGED <<seen, told, warned>>
  BY DEF Reprice, Stored, IInv, Known
<1>2. Sound(row') /\ SameCall(row', row) /\ row' \in Row /\ row' # NoRow
  BY <1>1, SoundWhenPriced, NotARow DEF Sound
<1>3. Known'
  BY <1>1, <1>2 DEF IInv, Known, TypeOK, Stored, proxyInvolved, SameCall
<1>4. ProxyDecidesLocal'
  BY <1>1, <1>2 DEF IInv, ProxyDecidesLocal, SameCall
<1>5. Measured' = Measured
  BY <1>1 DEF Measured
<1>6. Traced' /\ CompleteUsageWins'
  BY <1>1, <1>2, <1>5 DEF IInv, Traced, CompleteUsageWins, Stored, SameCall
<1>7. DisagreementIsReported' /\ MismatchIsReal'
  BY <1>1, <1>5 DEF IInv, DisagreementIsReported, MismatchIsReal
<1>. QED BY <1>3, <1>4, <1>6, <1>7 DEF IInv

\* Every arrival and reprice keeps the invariant.
LEMMA StepInv == IInv /\ [Next]_vars => IInv'
<1>. SUFFICES ASSUME IInv, [Next]_vars PROVE IInv'
  OBVIOUS
<1>1. CASE ProxyArrives
  <2>1. PICK e \in MaybePriced(ProxyRows) : insertOrMerge(e) /\ seen' = e
    BY <1>1 DEF ProxyArrives
  <2>. QED BY <1>1, <2>1, ProxyKnown, ProxyMeasures DEF ProxyArrives, IInv
<1>2. CASE TranscriptArrives
  <2>1. PICK e \in MaybePriced(TranscriptRows) :
               insertOrMerge(e) /\ told' = told \cup ({e.usage} \ {0})
    BY <1>2 DEF TranscriptArrives
  <2>. QED BY <1>2, <2>1, TranscriptKnown, TranscriptMeasures DEF TranscriptArrives, IInv
<1>3. CASE \E byModel \in BOOLEAN : Reprice(byModel)
  BY <1>3, RepriceInv
<1>4. CASE UNCHANGED vars
  BY <1>4 DEF vars, IInv, Known, TypeOK, Stored, ProxyDecidesLocal, Traced,
              CompleteUsageWins, DisagreementIsReported, MismatchIsReal, Measured
<1>. QED BY <1>1, <1>2, <1>3, <1>4 DEF Next

\* The invariant holds throughout.
LEMMA Invariant == Spec => []IInv
BY InitInv, StepInv, PTL DEF Spec

-----------------------------------------------------------------------------
(* The theorems. *)

\* Every reachable row is one the table's columns can hold, and every figure
\* the transcript has told is a real one.
THEOREM Typing == Spec => []TypeOK
BY Invariant, PTL DEF IInv, Known

\* The cost of a row fits its billing mode after any merges and reprices.
THEOREM CostStaysInItsMode == Spec => []CostFitsMode
<1>1. IInv => CostFitsMode
  BY DEF IInv, Known, Sound, CostFitsMode
<1>. QED BY <1>1, Invariant, PTL

\* A row that calls itself complete never holds a truncated body.
THEOREM FlagIsHonest == Spec => []CompleteMeansWhole
<1>1. IInv => CompleteMeansWhole
  BY DEF IInv, Known, Sound, CompleteMeansWhole
<1>. QED BY <1>1, Invariant, PTL

\* Local mode and local account are the same statement about a row.
THEOREM LocalIsOneThing == Spec => []LocalAccountIsLocal
<1>1. IInv => LocalAccountIsLocal
  BY DEF IInv, Known, Sound, LocalAccountIsLocal
<1>. QED BY <1>1, Invariant, PTL

\* The transcript never overrules the proxy on whether a call was local.
THEOREM ProxyHasTheLastWord == Spec => []ProxyDecidesLocal
BY Invariant, PTL DEF IInv

\* A complete record's usage is never displaced by a truncated capture's.
THEOREM CompleteUsage == Spec => []CompleteUsageWins
BY Invariant, PTL DEF IInv

\* With a complete capture a mismatch warning says that two complete records
\* differ, and is there whenever they do.
THEOREM Mismatches == Spec => [](DisagreementIsReported /\ MismatchIsReal)
BY Invariant, PTL DEF IInv

\* A measured figure is never zeroed.
THEOREM UsageIsKept == Spec => UsageNeverLost
<1>1. ASSUME IInv, [Next]_vars, Stored, row.usage # 0
      PROVE  row'.usage # 0
  <2>1. Sound(row)
    BY <1>1 DEF IInv, Known
  <2>2. CASE ProxyArrives
    <3>1. PICK e \in MaybePriced(ProxyRows) : insertOrMerge(e)
      BY <2>2 DEF ProxyArrives
    <3>. QED BY <1>1, <2>1, <3>1, CapturedRow, MergedUsage DEF insertOrMerge, Stored
  <2>3. CASE TranscriptArrives
    <3>1. PICK e \in MaybePriced(TranscriptRows) : insertOrMerge(e)
      BY <2>3 DEF TranscriptArrives
    <3>2. Sound(e)
      BY TranscriptRow DEF Transcript
    <3>3. row' = mergeEvents(row, e)
      BY <1>1, <3>1 DEF insertOrMerge, Stored
    <3>. QED BY <1>1, <2>1, <3>2, <3>3, MergedUsage
  <2>4. CASE \E byModel \in BOOLEAN : Reprice(byModel)
    BY <1>1, <2>1, <2>4, SoundWhenPriced DEF Reprice, SameCall
  <2>5. CASE UNCHANGED vars
    BY <1>1, <2>5 DEF vars
  <2>. QED BY <1>1, <2>2, <2>3, <2>4, <2>5 DEF Next
<1>2. IInv /\ [Next]_vars => [Stored /\ row.usage # 0 => row'.usage # 0]_vars
  BY <1>1
<1>. QED BY <1>2, Invariant, PTL DEF Spec, UsageNeverLost

\* Proxy first or transcript first: the same usage or a mismatch in both
\* orders, and the same side of local.
THEOREM OrderIsMoot == Spec => []ArrivalOrderIsMoot
<1>1. ASSUME IInv, seen # NoRow, NEW e \in TranscriptRows
      PROVE  /\ \/ mergeEvents(seen, e).usage = mergeEvents(e, seen).usage
                \/ Mismatch(seen, e) /\ Mismatch(e, seen)
             /\ seen.mode # "" =>
                   (mergeEvents(seen, e).mode = "local" <=> mergeEvents(e, seen).mode = "local")
  <2>1. Sound(seen) /\ proxyInvolved(seen)
    BY <1>1 DEF IInv, Known, proxyInvolved
  <2>2. Transcript(e) /\ Sound(e) /\ ~proxyInvolved(e)
    BY TranscriptRow DEF MaybePriced, Transcript, proxyInvolved
  <2>3. e.complete /\ seen.complete \in BOOLEAN
    BY <2>1, <2>2 DEF Transcript, Sound, Row
  <2>4. \/ mergeEvents(seen, e).usage = mergeEvents(e, seen).usage
        \/ Mismatch(seen, e) /\ Mismatch(e, seen)
    <3>1. mergeEvents(seen, e).usage = IF usageObserved(e) THEN e.usage ELSE seen.usage
      BY <2>1, <2>2, <2>3, MergedUsage DEF usageObserved
    <3>2. mergeEvents(e, seen).usage = IF usageObserved(e) = usageObserved(seen)
                                       THEN (IF seen.complete THEN seen.usage ELSE e.usage)
                                       ELSE (IF usageObserved(seen) THEN seen.usage ELSE e.usage)
      BY <2>1, <2>2, MergedUsage
    <3>. QED BY <2>3, <3>1, <3>2 DEF Mismatch, usageObserved
  <2>5. seen.mode # "" =>
           (mergeEvents(seen, e).mode = "local" <=> mergeEvents(e, seen).mode = "local")
    BY <2>1, <2>2, MergedLocal DEF proxySide
  <2>. QED BY <2>4, <2>5
<1>2. IInv => ArrivalOrderIsMoot
  BY <1>1 DEF ArrivalOrderIsMoot
<1>. QED BY <1>2, Invariant, PTL

HIDE MergeAssumption

-----------------------------------------------------------------------------
(* Re-keying: what is true of the rows all along.                          *)

Names == DOMAIN Old \cup DOMAIN Spoken
Keys == {ProxyKey(c) : c \in DOMAIN Old}
        \cup {MessageKey(m) : m \in DOMAIN Spoken \cup {Old[c].id : c \in DOMAIN Old}}
Sessions == {Old[c].session : c \in DOMAIN Old} \cup {Old[c].header : c \in DOMAIN Old}
            \cup {Spoken[m] : m \in DOMAIN Spoken}
Kinds == UNION {Old[c].kinds : c \in DOMAIN Old}

EventRow == [key : Keys, source : {"proxy", "jsonl"}, body : {""} \cup DOMAIN Old,
             holds : SUBSET DOMAIN Old, session : Sessions, kinds : SUBSET Kinds, of : {""} \cup Names]

RowMap(f) == DOMAIN f \subseteq Names /\ f \in [DOMAIN f -> EventRow]

Synthetic(r) == events[r].key = ProxyKey(r)

\* A capture's own row has its body, and is as it was captured until it is
\* keyed by its message.
OwnRow(r) ==
    /\ events[r].source = "proxy" /\ events[r].body = r
    /\ r \in events[r].holds /\ Old[r].kinds \subseteq events[r].kinds
    /\ \/ Synthetic(r) /\ events[r].holds = {r}
       \/ Old[r].id # "" /\ events[r].key = MessageKey(Old[r].id)

LineRow(r) ==
    /\ events[r].source = "jsonl" /\ events[r].key = MessageKey(r)
    /\ r \notin unsaid

\* What a row holds is of one message, and is there with its body and findings.
Answered(r) == \A c \in events[r].holds :
    /\ events[r].body # ""
    /\ c \in Kept => Old[c].kinds \subseteq events[r].kinds
    /\ c # r => Old[c].id # "" /\ events[r].key = MessageKey(Old[c].id)

RowsShaped ==
    /\ RowMap(events)
    /\ \A r \in DOMAIN events :
          /\ Answered(r)
          /\ r \in DOMAIN Old => OwnRow(r)
          /\ r \notin DOMAIN Old => r \in DOMAIN Spoken /\ LineRow(r)

\* A capture is in a row, and in one.
CapturesHeld ==
    /\ \A c \in Kept : \E r \in DOMAIN events : c \in events[r].holds
    /\ \A c \in Kept : \A r, x \in DOMAIN events :
          c \in events[r].holds /\ c \in events[x].holds => r = x

\* Only a replay names an original, and while that one is kept, it names its row.
OriginalsNamed == \A r \in DOMAIN events : events[r].of # "" =>
    /\ r \in DOMAIN Old /\ Old[r].of # ""
    /\ Old[r].of \in Kept => /\ events[r].of \in DOMAIN events
                             /\ Old[r].of \in events[events[r].of].holds

ReplaysNamed == \A r \in DOMAIN events \cap DOMAIN Old : Old[r].of # "" => events[r].of # ""

-----------------------------------------------------------------------------
(* What the command holds of them.                                         *)

Passes == {"idle", "markers", "rekey", "move", "done"}

InPass1 == rekey.pc \in {"markers", "rekey"}

\* A row in hand is as the database has it, but for a replay's original.
InHand(r) ==
    LET ev == rekey.todo[r] IN
    /\ r \in DOMAIN Old /\ (r \notin DOMAIN events => r \in purged)
    /\ r \in DOMAIN events => ev.session = events[r].session
    /\ InPass1 => /\ ev.holds = {r} /\ ev.body \in {"", r}
                  /\ ev.body = "" => r \in markers \/ r \notin DOMAIN events
                  /\ Old[r].of = "" => ev.of = ""
                  /\ r \in DOMAIN events => Synthetic(r)
    /\ ~ InPass1 => ev.body = r

TodoHeld ==
    /\ rekey \in [pc : Passes, todo : {rekey.todo}, archived : SUBSET Names]
    /\ RowMap(rekey.todo)
    /\ markers \subseteq Names
    /\ \A r \in DOMAIN rekey.todo : InHand(r)
    /\ \A r \in rekey.archived \cap DOMAIN Old : r \in markers \/ r \notin DOMAIN events

\* What the passes have left behind them, among the rows of captures.
KeyedBehind == \A r \in DOMAIN events \cap DOMAIN Old :
    r \notin markers /\ Old[r].id # "" =>
        \/ events[r].key = MessageKey(Old[r].id)
        \/ rekey.pc = "idle" \/ (InPass1 /\ r \in DOMAIN rekey.todo)

MovedBehind == \A r \in DOMAIN events \cap DOMAIN Old :
    \/ Old[r].header \in {"", events[r].session}
    \/ rekey.pc \in {"idle", "markers", "rekey"} \/ (rekey.pc = "move" /\ r \in DOMAIN rekey.todo)

IsFunction(f) == f = [x \in DOMAIN f |-> f[x]]

SessionsKnown == IsFunction(totals) /\ SessionsOf(events) \subseteq DOMAIN totals \cup unfolded

RowsInv == RowsShaped /\ KeyedApart /\ CapturesHeld /\ OriginalsNamed /\ ReplaysNamed
HandInv == TodoHeld /\ KeyedBehind /\ MovedBehind
SessionsInv == SessionsKnown /\ TotalsAdd

RekeyInv == RowsInv /\ HandInv /\ SessionsInv

-----------------------------------------------------------------------------
(* Keys, and the sets that the parts of a row are from.                    *)

\* A key says what it was made of.
LEMMA KeyParts ==
    /\ \A x, y : ProxyKey(x) # MessageKey(y)
    /\ \A x, y : ProxyKey(x) = ProxyKey(y) => x = y
    /\ \A x, y : MessageKey(x) = MessageKey(y) => x = y
    /\ \A x : IsProxyKey(ProxyKey(x)) /\ ~ IsProxyKey(MessageKey(x))
  <1>1. ASSUME NEW x, NEW y, <<"id", x>> = <<"id", y>> PROVE x = y
    BY <1>1, SMT
  <1>2. ASSUME NEW x, NEW y, <<"proxy", x>> = <<"proxy", y>> PROVE x = y
    BY <1>2, SMT
  <1>3. ASSUME NEW x, NEW y PROVE <<"proxy", x>> # <<"id", y>>
    BY SMT
  <1>4. ASSUME NEW x PROVE IsProxyKey(ProxyKey(x)) /\ ~ IsProxyKey(MessageKey(x))
    BY SMT DEF IsProxyKey, ProxyKey, MessageKey
  <1>. QED BY <1>1, <1>2, <1>3, <1>4, Zenon DEF ProxyKey, MessageKey

\* Captures and messages have different names, none of them blank.
LEMMA NamesApart ==
    /\ \A c \in DOMAIN Old : c \notin DOMAIN Spoken /\ c # ""
    /\ \A m \in DOMAIN Spoken : m # ""
  BY OldAssumption DEF OldAssumption

\* A replay names a capture, and is in no transcript.
LEMMA Replays ==
    ASSUME NEW c \in DOMAIN Old, Old[c].of # ""
    PROVE  /\ Old[c].of \in DOMAIN Old /\ Old[c].id \notin DOMAIN Spoken
           /\ Old[c].id # "" => \A d \in DOMAIN Old : Old[d].id = Old[c].id => d = c
  BY OldAssumption DEF OldAssumption

\* A capture's parts are names, keys, sessions and kinds.
LEMMA OldParts ==
    ASSUME NEW c \in DOMAIN Old
    PROVE  /\ c \in Names /\ ProxyKey(c) \in Keys /\ MessageKey(Old[c].id) \in Keys
           /\ Old[c].session \in Sessions /\ Old[c].header \in Sessions
           /\ Old[c].kinds \subseteq Kinds
           /\ Old[c].of \in {""} \cup Names
  <1>1. Old[c].of \in {""} \cup Names
    BY Replays DEF Names
  <1>. QED BY <1>1 DEF Names, Keys, Sessions, Kinds

\* A message's parts are a name, a key and a session.
LEMMA LineParts ==
    ASSUME NEW m \in DOMAIN Spoken
    PROVE  m \in Names /\ MessageKey(m) \in Keys /\ Spoken[m] \in Sessions
  BY DEF Names, Keys, Sessions

\* The row of a capture.
LEMMA CaptureIs ==
    ASSUME NEW c \in DOMAIN Old
    PROVE  /\ Capture(c) \in EventRow
           /\ Capture(c).key = ProxyKey(c) /\ Capture(c).source = "proxy" /\ Capture(c).body = c
           /\ Capture(c).holds = {c} /\ Capture(c).session = Old[c].session
           /\ Capture(c).kinds = Old[c].kinds /\ Capture(c).of = Old[c].of
  BY OldParts DEF EventRow, Capture

\* The row of a transcript line.
LEMMA LineIs ==
    ASSUME NEW m \in DOMAIN Spoken
    PROVE  /\ RowOfLine(m) \in EventRow
           /\ RowOfLine(m).key = MessageKey(m) /\ RowOfLine(m).source = "jsonl"
           /\ RowOfLine(m).body = "" /\ RowOfLine(m).holds = {}
           /\ RowOfLine(m).session = Spoken[m] /\ RowOfLine(m).kinds = {} /\ RowOfLine(m).of = ""
  BY LineParts DEF EventRow, RowOfLine

-----------------------------------------------------------------------------
(* What the invariant says of replays and of sums.                         *)

\* A replay is in its own row.
LEMMA ReplayAlone ==
    ASSUME RowsShaped, NEW c \in DOMAIN Old, Old[c].of # "",
           NEW r \in DOMAIN events, c \in events[r].holds
    PROVE  r = c
  <1>. SUFFICES ASSUME r # c PROVE FALSE
    OBVIOUS
  <1>1. Old[c].id # "" /\ events[r].key = MessageKey(Old[c].id)
    BY DEF RowsShaped, Answered
  <1>2. CASE r \in DOMAIN Old
    <2>1. OwnRow(r)
      BY <1>2 DEF RowsShaped
    <2>2. CASE events[r].holds = {r}
      BY <2>2
    <2>3. CASE events[r].key = MessageKey(Old[r].id)
      BY <1>1, <1>2, <2>3, KeyParts, Replays
    <2>. QED BY <2>1, <2>2, <2>3 DEF OwnRow
  <1>3. CASE r \notin DOMAIN Old
    <2>1. r \in DOMAIN Spoken /\ events[r].key = MessageKey(r)
      BY <1>3 DEF RowsShaped, LineRow
    <2>. QED BY <1>1, <2>1, KeyParts, Replays
  <1>. QED BY <1>2, <1>3

\* A sum depends on the rows of the session and on their findings.
SameIn(es, fs, s) ==
    /\ \A r : (r \in DOMAIN es /\ es[r].session = s) <=> (r \in DOMAIN fs /\ fs[r].session = s)
    /\ \A r \in DOMAIN es : es[r].session = s => es[r].kinds = fs[r].kinds

\* Two tables with the same rows in a session have the same totals for it.
LEMMA SumOfSame ==
    ASSUME NEW es, NEW fs, NEW s, SameIn(es, fs, s)
    PROVE  Sum(es, s) = Sum(fs, s)
  <1>. DEFINE R == {r \in DOMAIN es : es[r].session = s}
              Q == {r \in DOMAIN fs : fs[r].session = s}
              A(r) == {<<r, k>> : k \in es[r].kinds}
              B(r) == {<<r, k>> : k \in fs[r].kinds}
  <1>1. R = Q
    BY DEF SameIn
  <1>2. \A r \in R : A(r) = B(r)
    BY DEF SameIn
  <1>3. Sum(es, s) = [rows |-> R, found |-> UNION {A(r) : r \in R}]
    BY DEF Sum
  <1>4. Sum(fs, s) = [rows |-> Q, found |-> UNION {B(r) : r \in Q}]
    BY DEF Sum
  <1>. HIDE DEF R, Q, A, B
  <1>5. {A(r) : r \in R} = {B(r) : r \in R}
    BY <1>2
  <1>. QED BY <1>1, <1>3, <1>4, <1>5

\* The totals of a session are empty exactly if no row is in it.
LEMMA EmptySum ==
    ASSUME NEW es, NEW s PROVE (Sum(es, s).rows = {}) <=> (s \notin SessionsOf(es))
  BY DEF Sum, SessionsOf

-----------------------------------------------------------------------------
(* It holds at first, and the promise follows from it.                     *)

\* It holds of the rows before the first run.
LEMMA RekeyInvInit == ASSUME RekeyInit PROVE RekeyInv
  <1>1. PICK M \in SUBSET DOMAIN Spoken :
           /\ events = [r \in DOMAIN Old \cup M |-> IF r \in M THEN RowOfLine(r) ELSE Capture(r)]
           /\ unsaid = DOMAIN Spoken \ M
           /\ totals = [s \in SessionsOf(events) |-> Sum(events, s)]
    BY DEF RekeyInit
  <1>2. /\ DOMAIN events = DOMAIN Old \cup M
        /\ \A r \in DOMAIN Old : events[r] = Capture(r)
        /\ \A r \in M : events[r] = RowOfLine(r)
        /\ RowMap(events)
    <2>4. \A x \in M : x \notin DOMAIN Old
      BY NamesApart
    <2>5. DOMAIN events = DOMAIN Old \cup M
      BY <1>1
    <2>6. \A r \in DOMAIN Old : events[r] = Capture(r)
      BY <1>1, <2>4
    <2>7. \A r \in M : events[r] = RowOfLine(r)
      BY <1>1
    <2>8. events = [x \in DOMAIN events |-> events[x]]
      BY <1>1
    <2>9. ASSUME NEW r \in DOMAIN events PROVE events[r] \in EventRow
      <3>1. CASE r \in DOMAIN Old
        BY <2>6, <3>1, CaptureIs
      <3>2. CASE r \in M
        BY <2>7, <3>2, LineIs
      <3>. QED BY <2>5, <3>1, <3>2
    <2>10. RowMap(events)
      BY <2>5, <2>8, <2>9 DEF RowMap, Names
    <2>. QED BY <2>5, <2>6, <2>7, <2>10
  <1>3. markers = {} /\ unfolded = {} /\ purged = {} /\ behind = {} /\ remade = {} /\ rekey = NotRunning
    BY DEF RekeyInit
  <1>4. \A r \in DOMAIN Old : /\ events[r].key = ProxyKey(r) /\ events[r].source = "proxy"
                              /\ events[r].body = r /\ events[r].holds = {r}
                              /\ events[r].kinds = Old[r].kinds /\ events[r].of = Old[r].of
    <2>1. ASSUME NEW r \in DOMAIN Old
          PROVE  /\ events[r].key = ProxyKey(r) /\ events[r].source = "proxy"
                 /\ events[r].body = r /\ events[r].holds = {r}
                 /\ events[r].kinds = Old[r].kinds /\ events[r].of = Old[r].of
      <3>1. events[r] = Capture(r)
        BY <1>2
      <3>. QED BY <3>1, CaptureIs
    <2>. QED BY <2>1
  <1>5. \A r \in M : /\ events[r].key = MessageKey(r) /\ events[r].source = "jsonl"
                     /\ events[r].holds = {} /\ events[r].of = ""
    <2>1. ASSUME NEW r \in M
          PROVE  /\ events[r].key = MessageKey(r) /\ events[r].source = "jsonl"
                 /\ events[r].holds = {} /\ events[r].of = ""
      <3>1. r \in DOMAIN Spoken /\ events[r] = RowOfLine(r)
        BY <1>2
      <3>. QED BY <3>1, LineIs
    <2>. QED BY <2>1
  <1>6. RowsShaped
    <2>1. ASSUME NEW r \in DOMAIN Old PROVE Answered(r) /\ OwnRow(r)
      <3>1. /\ events[r].key = ProxyKey(r) /\ events[r].source = "proxy"
            /\ events[r].body = r /\ events[r].holds = {r} /\ events[r].kinds = Old[r].kinds /\ r # ""
        BY <1>4, NamesApart
      <3>. QED BY <3>1 DEF Answered, OwnRow, Synthetic
    <2>2. \A r \in M : Answered(r) /\ LineRow(r)
      BY <1>1, <1>5 DEF Answered, LineRow
    <2>3. \A r \in M : r \notin DOMAIN Old
      BY NamesApart
    <2>. QED BY <1>2, <2>1, <2>2, <2>3 DEF RowsShaped
  <1>7. KeyedApart
    <2>. SUFFICES ASSUME NEW r \in DOMAIN events, NEW x \in DOMAIN events, events[r].key = events[x].key
                  PROVE  r = x
      BY DEF KeyedApart
    <2>1. \A y \in DOMAIN events : \/ events[y].key = ProxyKey(y)
                                    \/ events[y].key = MessageKey(y)
      BY <1>2, <1>4, <1>5
    <2>. QED BY <2>1, KeyParts
  <1>8. CapturesHeld
    <2>1. \A r \in DOMAIN Old : r \in DOMAIN events /\ events[r].holds = {r}
      BY <1>2, <1>4
    <2>2. \A r \in DOMAIN events : events[r].holds \in {{r}, {}}
      BY <1>2, <1>5, <2>1
    <2>. QED BY <2>1, <2>2 DEF CapturesHeld, Kept
  <1>9. OriginalsNamed
    <2>. SUFFICES ASSUME NEW r \in DOMAIN events, events[r].of # ""
                  PROVE  /\ r \in DOMAIN Old /\ Old[r].of # "" /\ events[r].of \in DOMAIN events
                         /\ Old[r].of \in events[events[r].of].holds
      BY DEF OriginalsNamed
    <2>1. r \in DOMAIN Old /\ events[r].of = Old[r].of
      BY <1>2, <1>4, <1>5
    <2>2. Old[r].of \in DOMAIN Old
      BY <2>1, Replays
    <2>. QED BY <1>2, <1>4, <2>1, <2>2
  <1>10. ReplaysNamed
    BY <1>4 DEF ReplaysNamed
  <1>11. TodoHeld /\ KeyedBehind /\ MovedBehind
    BY <1>3 DEF TodoHeld, KeyedBehind, MovedBehind, NotRunning, Passes, RowMap
  <1>12. SessionsKnown /\ TotalsAdd
    BY <1>1, <1>3 DEF SessionsKnown, TotalsAdd, IsFunction
  <1>. QED BY <1>6, <1>7, <1>8, <1>9, <1>10, <1>11, <1>12 DEF RekeyInv, RowsInv, HandInv, SessionsInv

\* The inductive invariant implies RekeyKeepsAll.
LEMMA RekeyInvSuffices == ASSUME RekeyInv PROVE RekeyKeepsAll
  <1>. USE DEF RekeyInv, RowsInv, HandInv, SessionsInv
  <1>1. HeldOnce
    BY DEF HeldOnce, CapturesHeld, RowsShaped, Answered
  <1>2. LineageHolds
    <2>. SUFFICES ASSUME NEW c \in Kept, Old[c].of \in Kept
                  PROVE  events[RowOf(c)].of = RowOf(Old[c].of)
      BY DEF LineageHolds
    <2>1. c \in DOMAIN Old /\ Old[c].of \in DOMAIN Old /\ Old[c].of # ""
      BY NamesApart DEF Kept
    <2>2. \A d \in Kept : \A r \in DOMAIN events : d \in events[r].holds => RowOf(d) = r
      BY DEF CapturesHeld, RowOf
    <2>3. c \in DOMAIN events /\ RowOf(c) = c
      <3>1. PICK r \in DOMAIN events : c \in events[r].holds
        BY DEF CapturesHeld
      <3>2. r = c
        BY <2>1, <3>1, ReplayAlone
      <3>. QED BY <2>2, <3>1, <3>2
    <2>4. events[c].of \in DOMAIN events /\ Old[c].of \in events[events[c].of].holds
      BY <2>1, <2>3 DEF OriginalsNamed, ReplaysNamed
    <2>. QED BY <2>2, <2>3, <2>4
  <1>3. AllRepaired
    <2>. SUFFICES ASSUME rekey.pc = "done", NEW r \in DOMAIN events \ markers, events[r].source = "proxy"
                  PROVE  /\ BodyID(events[r]) # "" => events[r].key = MessageKey(BodyID(events[r]))
                         /\ Conversation(events[r]) \in {"", events[r].session}
      BY DEF AllRepaired
    <2>1. r \in DOMAIN Old /\ events[r].body = r /\ r # ""
      BY NamesApart DEF RowsShaped, OwnRow, LineRow
    <2>2. BodyID(events[r]) = Old[r].id /\ Conversation(events[r]) = Old[r].header
      BY <2>1 DEF BodyID, Conversation
    <2>. QED BY <2>1, <2>2 DEF KeyedBehind, MovedBehind, InPass1
  <1>. QED BY <1>1, <1>2, <1>3 DEF RekeyKeepsAll

-----------------------------------------------------------------------------
(* Steps that leave the rows as they are.                                  *)

\* What is said of the rows goes on.
LEMMA RowsStay ==
    ASSUME RowsInv, UNCHANGED <<events, unsaid, purged>> PROVE RowsInv'
  <1>1. Kept' = Kept
    BY DEF Kept
  <1>2. \A r : /\ Answered(r) => Answered(r)'
               /\ OwnRow(r) => OwnRow(r)'
               /\ LineRow(r) => LineRow(r)'
    BY <1>1, Zenon DEF Answered, OwnRow, LineRow, Synthetic
  <1>3. RowsShaped'
    BY <1>2 DEF RowsInv, RowsShaped
  <1>4. KeyedApart' /\ ReplaysNamed'
    BY DEF RowsInv, KeyedApart, ReplaysNamed
  <1>5. CapturesHeld' /\ OriginalsNamed'
    BY <1>1 DEF RowsInv, CapturesHeld, OriginalsNamed
  <1>. QED BY <1>3, <1>4, <1>5 DEF RowsInv

\* A step that moves no row and no total keeps what is known of the sessions.
LEMMA SessionsStay ==
    ASSUME SessionsInv, UNCHANGED <<events, totals, unfolded, behind, purged, remade>>
    PROVE  SessionsInv'
  BY DEF SessionsInv, SessionsKnown, TotalsAdd

\* A step outside the passes keeps what the command has in hand.
LEMMA HandStays ==
    ASSUME HandInv, UNCHANGED <<events, markers, purged, rekey>> PROVE HandInv'
  <1>1. TodoHeld'
    BY DEF HandInv, TodoHeld, InHand, InPass1, Synthetic
  <1>2. KeyedBehind' /\ MovedBehind'
    BY DEF HandInv, KeyedBehind, MovedBehind, InPass1
  <1>. QED BY <1>1, <1>2 DEF HandInv

\* The archiver beside rekey keeps the invariant.
LEMMA ArchivesKeeps ==
    ASSUME RekeyInv, NEW q \in DOMAIN events, Archives(q) PROVE RekeyInv'
  <1>1. /\ markers' = markers \cup {q}
        /\ UNCHANGED <<events, totals, unsaid, unfolded, purged, behind, remade, rekey>>
    BY DEF Archives
  <1>2. TodoHeld'
    <2>1. q \in Names
      BY DEF RekeyInv, RowsInv, HandInv, SessionsInv, RowsShaped, RowMap
    <2>2. \A r : InHand(r) => InHand(r)'
      BY <1>1 DEF InHand, InPass1, Synthetic
    <2>. QED BY <1>1, <2>1, <2>2 DEF RekeyInv, RowsInv, HandInv, SessionsInv, TodoHeld
  <1>3. KeyedBehind' /\ MovedBehind'
    BY <1>1 DEF RekeyInv, RowsInv, HandInv, SessionsInv, KeyedBehind, MovedBehind, InPass1
  <1>. QED BY <1>1, <1>2, <1>3, RowsStay, SessionsStay DEF RekeyInv, HandInv

\* What a re-derivation leaves of the sessions, when the rows stay.
LEMMA FoldKeeps ==
    ASSUME RekeyInv, NEW s \in unfolded, TailFolds(s) PROVE RekeyInv'
  <1>1. /\ UNCHANGED <<events, markers, unsaid, purged, rekey>>
        /\ unfolded' = unfolded \ {s} /\ behind' = behind \ {s}
        /\ totals' = [x \in DOMAIN totals \cup {s} |-> IF x = s THEN Sum(events, s) ELSE totals[x]]
        /\ remade' = IF s \in SessionsOf(events) THEN remade ELSE remade \cup {s}
    BY DEF TailFolds
  <1>2. SessionsOf(events)' = SessionsOf(events) /\ \A x : Sum(events, x)' = Sum(events, x)
    BY <1>1 DEF SessionsOf, Sum
  <1>3. SessionsKnown'
    BY <1>1, <1>2 DEF RekeyInv, RowsInv, HandInv, SessionsInv, SessionsKnown, IsFunction
  <1>4. TotalsAdd'
    BY <1>1, <1>2 DEF RekeyInv, RowsInv, HandInv, SessionsInv, TotalsAdd
  <1>. QED BY <1>1, <1>3, <1>4, RowsStay, HandStays DEF RekeyInv, SessionsInv

-----------------------------------------------------------------------------
(* The command loads, leaves and ends.                                     *)

\* The first load keeps the invariant.
LEMMA LoadSyntheticKeeps == ASSUME RekeyInv, LoadSynthetic PROVE RekeyInv'
  <1>. DEFINE R == {r \in DOMAIN events : events[r].source = "proxy" /\ IsProxyKey(events[r].key)}
  <1>1. /\ rekey.pc = "idle" /\ UNCHANGED <<events, markers, totals, unsaid, unfolded, purged, behind, remade>>
        /\ rekey' = [rekey EXCEPT !.pc = "markers", !.todo = Loaded(R)]
    BY DEF LoadSynthetic
  <1>2. /\ rekey'.pc = "markers" /\ rekey'.todo = Loaded(R) /\ rekey'.archived = rekey.archived
        /\ rekey' \in [pc : Passes, todo : {rekey'.todo}, archived : SUBSET Names]
    BY <1>1 DEF RekeyInv, RowsInv, HandInv, SessionsInv, TodoHeld, Passes
  <1>. HIDE DEF R
  <1>3. /\ DOMAIN Loaded(R) = R
        /\ \A r \in R : Loaded(R)[r] = IF r \in markers THEN [events[r] EXCEPT !.body = ""] ELSE events[r]
        /\ Loaded(R) = [r \in R |-> Loaded(R)[r]]
    BY DEF Loaded
  <1>4. RowMap(events) /\ R \subseteq DOMAIN events
    BY DEF RekeyInv, RowsInv, HandInv, SessionsInv, RowsShaped, R
  <1>5. ASSUME NEW r \in R
        PROVE  /\ Loaded(R)[r] \in EventRow
               /\ Loaded(R)[r].holds = events[r].holds /\ Loaded(R)[r].session = events[r].session
               /\ Loaded(R)[r].of = events[r].of
               /\ Loaded(R)[r].body = IF r \in markers THEN "" ELSE events[r].body
    <2>1. events[r] \in EventRow
      BY <1>4 DEF RowMap
    <2>2. Loaded(R)[r] = IF r \in markers THEN [events[r] EXCEPT !.body = ""] ELSE events[r]
      BY <1>3
    <2>. QED BY <2>1, <2>2 DEF EventRow
  <1>6. RowMap(Loaded(R))
    BY <1>3, <1>4, <1>5 DEF RowMap
  <1>7. ASSUME NEW r \in R
        PROVE  /\ r \in DOMAIN Old /\ events[r].holds = {r} /\ events[r].body = r /\ Synthetic(r)
               /\ Old[r].of = "" => events[r].of = ""
               /\ r # ""
    <2>1. r \in DOMAIN events /\ IsProxyKey(events[r].key)
      BY DEF R
    <2>2. r \in DOMAIN Old /\ OwnRow(r)
      BY <2>1, KeyParts DEF RekeyInv, RowsInv, HandInv, SessionsInv, RowsShaped, LineRow
    <2>3. Synthetic(r) /\ events[r].holds = {r} /\ events[r].body = r
      <3>1. events[r].key # MessageKey(Old[r].id)
        <4>1. ~ IsProxyKey(MessageKey(Old[r].id))
          BY KeyParts
        <4>. QED BY <2>1, <4>1
      <3>. QED BY <2>2, <3>1 DEF OwnRow
    <2>4. Old[r].of = "" => events[r].of = ""
      BY <2>1 DEF RekeyInv, RowsInv, OriginalsNamed
    <2>. QED BY <2>2, <2>3, <2>4, NamesApart
  <1>8. TodoHeld'
    <2>1. ASSUME NEW r \in R PROVE InHand(r)'
      <3>1. rekey'.todo[r] = Loaded(R)[r] /\ events' = events /\ markers' = markers /\ purged' = purged
        BY <1>1, <1>2
      <3>2. r \in DOMAIN events
        BY <1>4
      <3>3. /\ rekey'.todo[r].holds = {r} /\ rekey'.todo[r].session = events[r].session
            /\ rekey'.todo[r].of = events[r].of
            /\ rekey'.todo[r].body \in {"", r} /\ (rekey'.todo[r].body = "" => r \in markers)
        <4>1. /\ Loaded(R)[r].holds = {r} /\ Loaded(R)[r].session = events[r].session
              /\ Loaded(R)[r].of = events[r].of
          BY <1>5, <1>7
        <4>2. Loaded(R)[r].body = IF r \in markers THEN "" ELSE r
          BY <1>5, <1>7
        <4>3. r # ""
          BY <1>7
        <4>. QED BY <3>1, <4>1, <4>2, <4>3
      <3>4. r \in DOMAIN Old /\ Synthetic(r)' /\ (Old[r].of = "" => events[r].of = "")
        BY <1>7, <3>1 DEF Synthetic
      <3>. QED BY <1>2, <3>1, <3>2, <3>3, <3>4 DEF InHand, InPass1
    <2>. QED BY <1>1, <1>2, <1>3, <1>6, <2>1 DEF RekeyInv, RowsInv, HandInv, SessionsInv, TodoHeld
  <1>9. KeyedBehind'
    <2>. SUFFICES ASSUME NEW r \in DOMAIN events \cap DOMAIN Old, Old[r].id # "",
                         events[r].key # MessageKey(Old[r].id)
                  PROVE  r \in R
      BY <1>1, <1>2, <1>3 DEF KeyedBehind, InPass1
    <2>1. OwnRow(r)
      BY DEF RekeyInv, RowsInv, RowsShaped
    <2>2. events[r].source = "proxy" /\ events[r].key = ProxyKey(r)
      BY <2>1 DEF OwnRow, Synthetic
    <2>3. IsProxyKey(events[r].key)
      BY <2>2, KeyParts
    <2>. QED BY <2>2, <2>3 DEF R
  <1>10. MovedBehind'
    BY <1>1, <1>2 DEF MovedBehind
  <1>. QED BY <1>1, <1>8, <1>9, <1>10, RowsStay, SessionsStay DEF RekeyInv, HandInv

\* Reading the markers keeps the invariant.
LEMMA ReadMarkersKeeps == ASSUME RekeyInv, ReadMarkers PROVE RekeyInv'
  <1>1. /\ rekey.pc = "markers" /\ UNCHANGED <<events, markers, totals, unsaid, unfolded, purged, behind, remade>>
        /\ rekey' = [rekey EXCEPT !.pc = "rekey", !.archived = markers]
    BY DEF ReadMarkers
  <1>2. /\ rekey'.pc = "rekey" /\ rekey'.todo = rekey.todo /\ rekey'.archived = markers
        /\ rekey' \in [pc : Passes, todo : {rekey'.todo}, archived : SUBSET Names]
    BY <1>1 DEF RekeyInv, RowsInv, HandInv, SessionsInv, TodoHeld, Passes
  <1>3. TodoHeld'
    <2>1. \A r : InHand(r) => InHand(r)'
      BY <1>1, <1>2 DEF InHand, InPass1, Synthetic
    <2>. QED BY <1>1, <1>2, <2>1 DEF RekeyInv, RowsInv, HandInv, SessionsInv, TodoHeld
  <1>4. KeyedBehind' /\ MovedBehind'
    BY <1>1, <1>2 DEF RekeyInv, RowsInv, HandInv, SessionsInv, KeyedBehind, MovedBehind, InPass1
  <1>. QED BY <1>1, <1>3, <1>4, RowsStay, SessionsStay DEF RekeyInv, HandInv

\* Selecting the rows of pass two keeps the invariant.
LEMMA LoadProxiedKeeps == ASSUME RekeyInv, LoadProxied PROVE RekeyInv'
  <1>. DEFINE R == {r \in DOMAIN events : events[r].source = "proxy"}
              T == [r \in R |-> events[r]]
  <1>1. /\ rekey.pc = "rekey" /\ DOMAIN rekey.todo = {}
        /\ UNCHANGED <<events, markers, totals, unsaid, unfolded, purged, behind, remade>>
        /\ rekey' = [rekey EXCEPT !.pc = "move", !.todo = T]
    BY DEF LoadProxied
  <1>2. R \subseteq DOMAIN events /\ DOMAIN T = R /\ \A r \in R : T[r] = events[r]
    OBVIOUS
  <1>3. RowMap(T)
    BY <1>2 DEF RekeyInv, RowsInv, HandInv, SessionsInv, RowsShaped, RowMap
  <1>4. \A r \in DOMAIN events : r \in DOMAIN Old <=> r \in R
    BY DEF RekeyInv, RowsInv, HandInv, SessionsInv, RowsShaped, OwnRow, LineRow
  <1>5. \A r \in R : r \in DOMAIN events /\ r \in DOMAIN Old /\ events[r].body = r
    BY <1>4 DEF RekeyInv, RowsInv, HandInv, SessionsInv, RowsShaped, OwnRow
  <1>. HIDE DEF R, T
  <1>6. /\ rekey'.pc = "move" /\ rekey'.todo = T /\ rekey'.archived = rekey.archived
        /\ rekey' \in [pc : Passes, todo : {rekey'.todo}, archived : SUBSET Names]
    BY <1>1 DEF RekeyInv, RowsInv, HandInv, SessionsInv, TodoHeld, Passes
  <1>7. TodoHeld'
    <2>1. ASSUME NEW r \in R PROVE InHand(r)'
      BY <1>1, <1>2, <1>5, <1>6 DEF InHand, InPass1
    <2>. QED BY <1>1, <1>2, <1>3, <1>6, <2>1 DEF RekeyInv, RowsInv, HandInv, SessionsInv, TodoHeld
  <1>8. KeyedBehind'
    BY <1>1, <1>6 DEF RekeyInv, RowsInv, HandInv, SessionsInv, KeyedBehind, InPass1
  <1>9. MovedBehind'
    BY <1>1, <1>2, <1>4, <1>6 DEF MovedBehind
  <1>. QED BY <1>1, <1>7, <1>8, <1>9, RowsStay, SessionsStay DEF RekeyInv, HandInv

\* The end of the command, by any cause, keeps the invariant.
LEMMA CommandEnds == ASSUME RekeyInv, RekeyDone \/ RekeyEnds PROVE RekeyInv'
  <1>1. UNCHANGED <<events, markers, totals, unsaid, unfolded, purged, behind, remade>>
    BY DEF RekeyDone, RekeyEnds
  <1>2. \/ rekey'.pc = "idle"
        \/ rekey.pc = "move" /\ DOMAIN rekey.todo = {} /\ rekey'.pc = "done"
    BY DEF RekeyDone, RekeyEnds, NotRunning
  <1>3. TodoHeld'
    <2>1. /\ rekey' \in [pc : Passes, todo : {rekey'.todo}, archived : SUBSET Names]
          /\ DOMAIN rekey'.todo = {} /\ rekey'.archived = {}
          /\ rekey'.todo = [x \in {} |-> x]
      BY DEF RekeyDone, RekeyEnds, NotRunning, Passes
    <2>2. RowMap(rekey'.todo)
      BY <2>1 DEF RowMap
    <2>. QED BY <1>1, <2>1, <2>2 DEF RekeyInv, HandInv, TodoHeld
  <1>4. KeyedBehind' /\ MovedBehind'
    BY <1>1, <1>2 DEF RekeyInv, RowsInv, HandInv, SessionsInv, KeyedBehind, MovedBehind, InPass1
  <1>. QED BY <1>1, <1>3, <1>4, RowsStay, SessionsStay DEF RekeyInv, HandInv

\* A turn takes its row out of the command's hand, and leaves the others there.
LEMMA TurnKeeps ==
    ASSUME TodoHeld, NEW r, NEW pc, Turn(r, pc)
    PROVE  /\ r \in DOMAIN rekey.todo /\ rekey.pc = pc
           /\ rekey'.pc = rekey.pc /\ rekey'.archived = rekey.archived
           /\ DOMAIN rekey'.todo = DOMAIN rekey.todo \ {r}
           /\ \A x \in DOMAIN rekey.todo \ {r} : rekey'.todo[x] = rekey.todo[x]
           /\ rekey' \in [pc : Passes, todo : {rekey'.todo}, archived : SUBSET Names]
           /\ RowMap(rekey'.todo)
  <1>1. /\ r \in DOMAIN rekey.todo /\ rekey.pc = pc
        /\ rekey' = [rekey EXCEPT !.todo = Without(rekey.todo, r)]
    BY DEF Turn
  <1>2. /\ rekey'.pc = rekey.pc /\ rekey'.archived = rekey.archived
        /\ rekey'.todo = Without(rekey.todo, r)
        /\ rekey' \in [pc : Passes, todo : {rekey'.todo}, archived : SUBSET Names]
    BY <1>1 DEF TodoHeld
  <1>3. Without(rekey.todo, r) = [x \in DOMAIN rekey.todo \ {r} |-> rekey.todo[x]]
    BY DEF Without, Restrict
  <1>. QED BY <1>1, <1>2, <1>3 DEF TodoHeld, RowMap

\* A row that a pass leaves alone keeps the invariant.
LEMMA LeavesKeep ==
    ASSUME RekeyInv, NEW r, LeaveRow(r) \/ KeepSession(r) PROVE RekeyInv'
  <1>1. UNCHANGED <<events, markers, totals, unsaid, unfolded, purged, behind, remade>>
    BY DEF LeaveRow, KeepSession
  <1>2. PICK pc \in {"rekey", "move"} : Turn(r, pc)
    BY DEF LeaveRow, KeepSession
  <1>3. /\ r \in DOMAIN rekey.todo /\ rekey.pc \in {"rekey", "move"}
        /\ rekey'.pc = rekey.pc /\ rekey'.archived = rekey.archived
        /\ DOMAIN rekey'.todo = DOMAIN rekey.todo \ {r}
        /\ \A x \in DOMAIN rekey.todo \ {r} : rekey'.todo[x] = rekey.todo[x]
        /\ rekey' \in [pc : Passes, todo : {rekey'.todo}, archived : SUBSET Names]
        /\ RowMap(rekey'.todo)
    BY <1>2, TurnKeeps DEF RekeyInv, RowsInv, HandInv, SessionsInv
  <1>4. InHand(r)
    BY <1>3 DEF RekeyInv, RowsInv, HandInv, SessionsInv, TodoHeld
  <1>5. TodoHeld'
    <2>1. \A x \in DOMAIN rekey'.todo : InHand(x)'
      <3>. TAKE x \in DOMAIN rekey'.todo
      <3>1. InHand(x) /\ rekey'.todo[x] = rekey.todo[x]
        BY <1>3 DEF RekeyInv, RowsInv, HandInv, SessionsInv, TodoHeld
      <3>. QED BY <1>1, <1>3, <3>1 DEF InHand, InPass1, Synthetic
    <2>. QED BY <1>1, <1>3, <2>1 DEF RekeyInv, RowsInv, HandInv, SessionsInv, TodoHeld
  <1>6. KeyedBehind'
    <2>1. CASE LeaveRow(r)
      <3>1. rekey.pc = "rekey" /\ (r \in rekey.archived \/ BodyID(rekey.todo[r]) = "")
        BY <2>1 DEF LeaveRow, Turn
      <3>2. r \in markers \/ r \notin DOMAIN events \/ Old[r].id = ""
        BY <1>3, <1>4, <2>1, <3>1 DEF RekeyInv, RowsInv, HandInv, SessionsInv,
             TodoHeld, InHand, InPass1, BodyID, LeaveRow, Turn
      <3>. QED BY <1>1, <1>3, <3>2 DEF RekeyInv, RowsInv, HandInv, SessionsInv, KeyedBehind, InPass1
    <2>2. CASE KeepSession(r)
      BY <1>1, <1>3, <2>2 DEF RekeyInv, RowsInv, HandInv, SessionsInv, KeyedBehind, InPass1, KeepSession, Turn
    <2>. QED BY <2>1, <2>2
  <1>7. MovedBehind'
    <2>1. CASE LeaveRow(r)
      BY <1>1, <1>3, <2>1 DEF MovedBehind, LeaveRow, Turn
    <2>2. CASE KeepSession(r)
      <3>1. /\ Conversation(rekey.todo[r]) = Old[r].header
            /\ r \in DOMAIN events => rekey.todo[r].session = events[r].session
        BY <1>4, <2>2 DEF InHand, InPass1, KeepSession, Turn, Conversation
      <3>. QED BY <1>1, <1>3, <2>2, <3>1 DEF RekeyInv, RowsInv, HandInv, SessionsInv, MovedBehind, KeepSession
    <2>. QED BY <2>1, <2>2
  <1>. QED BY <1>1, <1>5, <1>6, <1>7, RowsStay, SessionsStay DEF RekeyInv, HandInv

-----------------------------------------------------------------------------
(* A purge, and the tailer's insertions.                                   *)

\* The sessions of the rows.
LEMMA SessionsOfIs ==
    ASSUME NEW es, NEW s PROVE s \in SessionsOf(es) <=> \E r \in DOMAIN es : es[r].session = s
  BY DEF SessionsOf

\* A purge beside rekey keeps the invariant.
LEMMA PurgesKeeps ==
    ASSUME RekeyInv, NEW q \in DOMAIN events, Purges(q) PROVE RekeyInv'
  <1>1. /\ events' = Without(events, q) /\ markers' = markers \ {q}
        /\ purged' = purged \cup {q} \cup events[q].holds
        /\ behind' = behind \cup {events[q].session}
        /\ UNCHANGED <<totals, unsaid, unfolded, remade, rekey>>
    BY DEF Purges
  <1>2. RowMap(events)
    BY DEF RekeyInv, RowsInv, RowsShaped
  <1>3. /\ DOMAIN events' = DOMAIN events \ {q}
        /\ \A x \in DOMAIN events' : events'[x] = events[x]
        /\ RowMap(events')
    <2>1. events' = [x \in DOMAIN events \ {q} |-> events[x]]
      BY <1>1 DEF Without, Restrict
    <2>. QED BY <1>2, <2>1 DEF RowMap
  <1>4. Kept' = Kept \ ({q} \cup events[q].holds) /\ Kept' \subseteq Kept
    BY <1>1 DEF Kept
  <1>5. RowsShaped'
    <2>. SUFFICES ASSUME NEW x \in DOMAIN events'
                  PROVE  /\ Answered(x)' /\ (x \in DOMAIN Old => OwnRow(x)')
                         /\ (x \notin DOMAIN Old => x \in DOMAIN Spoken /\ LineRow(x)')
      BY <1>3 DEF RowsShaped
    <2>1. /\ Answered(x) /\ (x \in DOMAIN Old => OwnRow(x))
          /\ (x \notin DOMAIN Old => x \in DOMAIN Spoken /\ LineRow(x))
      BY <1>3 DEF RekeyInv, RowsInv, RowsShaped
    <2>2. events'[x] = events[x]
      BY <1>3
    <2>3. Answered(x)'
      BY <1>4, <2>1, <2>2 DEF Answered
    <2>. QED BY <1>1, <2>1, <2>2, <2>3 DEF OwnRow, LineRow, Synthetic
  <1>6. KeyedApart'
    BY <1>3 DEF RekeyInv, RowsInv, KeyedApart
  <1>7. CapturesHeld'
    <2>. SUFFICES ASSUME NEW c \in Kept'
                  PROVE  /\ \E r \in DOMAIN events' : c \in events'[r].holds
                         /\ \A r, x \in DOMAIN events' :
                               c \in events'[r].holds /\ c \in events'[x].holds => r = x
      BY DEF CapturesHeld
    <2>1. c \in Kept /\ c \notin events[q].holds
      BY <1>4
    <2>. QED BY <1>3, <2>1 DEF RekeyInv, RowsInv, CapturesHeld
  <1>8. OriginalsNamed'
    <2>. SUFFICES ASSUME NEW r \in DOMAIN events', events'[r].of # ""
                  PROVE  /\ r \in DOMAIN Old /\ Old[r].of # ""
                         /\ Old[r].of \in Kept' => /\ events'[r].of \in DOMAIN events'
                                                   /\ Old[r].of \in events'[events'[r].of].holds
      BY DEF OriginalsNamed
    <2>1. /\ r \in DOMAIN Old /\ Old[r].of # "" /\ events'[r].of = events[r].of
          /\ Old[r].of \in Kept => /\ events[r].of \in DOMAIN events
                                   /\ Old[r].of \in events[events[r].of].holds
      BY <1>3 DEF RekeyInv, RowsInv, OriginalsNamed
    <2>. QED BY <1>3, <1>4, <2>1
  <1>9. ReplaysNamed'
    BY <1>3 DEF RekeyInv, RowsInv, ReplaysNamed
  <1>10. TodoHeld'
    <2>1. \A x : InHand(x) => InHand(x)'
      BY <1>1, <1>3 DEF InHand, InPass1, Synthetic
    <2>. QED BY <1>1, <1>3, <2>1 DEF RekeyInv, HandInv, TodoHeld
  <1>11. KeyedBehind' /\ MovedBehind'
    BY <1>1, <1>3 DEF RekeyInv, HandInv, KeyedBehind, MovedBehind, InPass1
  <1>12. SessionsKnown'
    BY <1>1, <1>3, SessionsOfIs DEF RekeyInv, SessionsInv, SessionsKnown
  <1>13. TotalsAdd'
    <2>1. purged' # {}
      BY <1>1
    <2>2. ASSUME NEW s \in SessionsOf(events'), s \notin unfolded' \cup behind'
          PROVE  s \in DOMAIN totals /\ totals[s] = Sum(events', s)
      <3>1. s \in SessionsOf(events) /\ s \notin unfolded \cup behind /\ s # events[q].session
        BY <1>1, <1>3, <2>2, SessionsOfIs
      <3>2. Sum(events, s) = Sum(events', s)
        <4>1. SameIn(events, events', s)
          BY <1>3, <3>1 DEF SameIn
        <4>. QED BY <4>1, SumOfSame
      <3>. QED BY <3>1, <3>2 DEF RekeyInv, SessionsInv, TotalsAdd
    <2>. QED BY <1>1, <2>1, <2>2 DEF TotalsAdd
  <1>. QED BY <1>5, <1>6, <1>7, <1>8, <1>9, <1>10, <1>11, <1>12, <1>13
       DEF RekeyInv, RowsInv, HandInv, SessionsInv

\* A line with a key of its own.
LEMMA NewLineKeeps ==
    ASSUME RekeyInv, NEW m \in DOMAIN Spoken, m \in unsaid, unsaid' = unsaid \ {m}, Keyed(m) = {},
           events' = [r \in DOMAIN events \cup {m} |-> IF r = m THEN RowOfLine(m) ELSE events[r]],
           unfolded' = unfolded \cup {Spoken[m]},
           UNCHANGED <<totals, behind, markers, purged, remade, rekey>>
    PROVE  RekeyInv'
  <1>1. RowMap(events) /\ m \notin DOMAIN Old
    BY NamesApart DEF RekeyInv, RowsInv, RowsShaped
  <1>2. m \notin DOMAIN events
    BY <1>1 DEF RekeyInv, RowsInv, RowsShaped, LineRow
  <1>3. /\ DOMAIN events' = DOMAIN events \cup {m} /\ events'[m] = RowOfLine(m)
        /\ \A x \in DOMAIN events : events'[x] = events[x]
    BY <1>2
  <1>4. RowMap(events')
    <2>1. \A x \in DOMAIN events \cup {m} : events'[x] \in EventRow
      BY <1>1, <1>3, LineIs DEF RowMap
    <2>. QED BY <1>1, <1>3, <2>1, LineParts DEF RowMap
  <1>5. Kept' = Kept
    BY DEF Kept
  <1>6. /\ events'[m].key = MessageKey(m) /\ events'[m].source = "jsonl" /\ events'[m].holds = {}
        /\ events'[m].of = "" /\ events'[m].session = Spoken[m]
    BY <1>3, LineIs
  <1>7. RowsShaped'
    <2>1. Answered(m)' /\ LineRow(m)'
      BY <1>6 DEF Answered, LineRow
    <2>2. ASSUME NEW x \in DOMAIN events
          PROVE  /\ Answered(x)' /\ (x \in DOMAIN Old => OwnRow(x)')
                 /\ (x \notin DOMAIN Old => x \in DOMAIN Spoken /\ LineRow(x)')
      <3>1. /\ Answered(x) /\ (x \in DOMAIN Old => OwnRow(x))
            /\ (x \notin DOMAIN Old => x \in DOMAIN Spoken /\ LineRow(x))
            /\ events'[x] = events[x]
        BY <1>3 DEF RekeyInv, RowsInv, RowsShaped
      <3>2. Answered(x)'
        BY <1>5, <3>1 DEF Answered
      <3>. QED BY <3>1, <3>2 DEF OwnRow, LineRow, Synthetic
    <2>. QED BY <1>1, <1>3, <1>4, <2>1, <2>2 DEF RowsShaped
  <1>8. KeyedApart'
    <2>1. \A x \in DOMAIN events : events[x].key # MessageKey(m)
      BY DEF Keyed
    <2>2. ASSUME NEW r \in DOMAIN events', NEW x \in DOMAIN events', events'[r].key = events'[x].key
          PROVE  r = x
      <3>1. CASE r = m \/ x = m
        BY <1>3, <1>6, <2>1, <2>2, <3>1
      <3>2. CASE r # m /\ x # m
        BY <1>3, <2>2, <3>2 DEF RekeyInv, RowsInv, KeyedApart
      <3>. QED BY <3>1, <3>2
    <2>. QED BY <2>2 DEF KeyedApart
  <1>9. CapturesHeld'
    BY <1>3, <1>5, <1>6, ZenonT(40) DEF RekeyInv, RowsInv, CapturesHeld
  <1>10. OriginalsNamed' /\ ReplaysNamed'
    BY <1>1, <1>3, <1>5, <1>6 DEF RekeyInv, RowsInv, OriginalsNamed, ReplaysNamed
  <1>11. TodoHeld'
    <2>1. \A x : InHand(x) => InHand(x)'
      BY <1>1, <1>3 DEF InHand, InPass1, Synthetic
    <2>2. \A x \in rekey.archived \cap DOMAIN Old : x \in markers \/ x \notin DOMAIN events'
      BY <1>1, <1>3 DEF RekeyInv, HandInv, TodoHeld
    <2>. QED BY <2>1, <2>2 DEF RekeyInv, HandInv, TodoHeld
  <1>12. KeyedBehind' /\ MovedBehind'
    BY <1>1, <1>3 DEF RekeyInv, HandInv, KeyedBehind, MovedBehind, InPass1
  <1>13. SessionsKnown'
    <2>1. ASSUME NEW s \in SessionsOf(events') PROVE s \in SessionsOf(events) \/ s = Spoken[m]
      <3>1. PICK x \in DOMAIN events' : events'[x].session = s
        BY SessionsOfIs
      <3>. QED BY <1>3, <1>6, <3>1, SessionsOfIs
    <2>. QED BY <2>1 DEF RekeyInv, SessionsInv, SessionsKnown
  <1>14. TotalsAdd'
    <2>1. SessionsOf(events) \subseteq SessionsOf(events')
      BY <1>3, SessionsOfIs
    <2>2. ASSUME NEW s \in SessionsOf(events'), s \notin unfolded' \cup behind'
          PROVE  s \in DOMAIN totals /\ totals[s] = Sum(events', s)
      <3>1. s \in SessionsOf(events) /\ s \notin unfolded \cup behind /\ s # Spoken[m]
        <4>1. PICK x \in DOMAIN events' : events'[x].session = s
          BY <2>2, SessionsOfIs
        <4>. QED BY <1>3, <1>6, <2>2, <4>1, SessionsOfIs
      <3>2. Sum(events, s) = Sum(events', s)
        <4>1. SameIn(events, events', s)
          BY <1>2, <1>3, <1>6, <3>1 DEF SameIn
        <4>. QED BY <4>1, SumOfSame
      <3>. QED BY <3>1, <3>2 DEF RekeyInv, SessionsInv, TotalsAdd
    <2>. QED BY <2>1, <2>2 DEF RekeyInv, SessionsInv, TotalsAdd
  <1>. QED BY <1>7, <1>8, <1>9, <1>10, <1>11, <1>12, <1>13, <1>14
       DEF RekeyInv, RowsInv, HandInv, SessionsInv

\* A transcript line stored beside rekey keeps the invariant.
LEMMA TailKeeps ==
    ASSUME RekeyInv, NEW m \in DOMAIN Spoken, TailInserts(m) PROVE RekeyInv'
  <1>1. m \in unsaid /\ unsaid' = unsaid \ {m} /\ UNCHANGED <<markers, purged, remade, rekey>>
    BY DEF TailInserts
  <1>2. CASE /\ Keyed(m) = {}
             /\ events' = [r \in DOMAIN events \cup {m} |-> IF r = m THEN RowOfLine(m) ELSE events[r]]
             /\ unfolded' = unfolded \cup {Spoken[m]} /\ UNCHANGED <<totals, behind>>
    BY <1>1, <1>2, NewLineKeeps
  <1>3. ASSUME NEW q \in Keyed(m), unfolded' = unfolded \cup {events[q].session},
               Rederived(events, {events[q].session}, {}), UNCHANGED events
        PROVE  RekeyInv'
    <2>1. /\ DOMAIN totals' = DOMAIN totals /\ IsFunction(totals')
          /\ \A s \in DOMAIN totals : s # events[q].session => totals'[s] = totals[s]
          /\ behind' = behind \ {events[q].session}
      BY <1>3 DEF Rederived, IsFunction
    <2>2. RowsInv'
      <3>1. \A r : LineRow(r) => LineRow(r)'
        BY <1>1, <1>3 DEF LineRow
      <3>2. \A r : (Answered(r) => Answered(r)') /\ (OwnRow(r) => OwnRow(r)')
        BY <1>1, <1>3 DEF Answered, OwnRow, Synthetic, Kept
      <3>3. RowsShaped'
        BY <1>3, <3>1, <3>2 DEF RekeyInv, RowsInv, RowsShaped
      <3>. QED BY <1>1, <1>3, <3>3 DEF RekeyInv, RowsInv, KeyedApart, CapturesHeld, OriginalsNamed, ReplaysNamed, Kept
    <2>3. SessionsInv'
      BY <1>1, <1>3, <2>1 DEF RekeyInv, SessionsInv, SessionsKnown, TotalsAdd
    <2>. QED BY <1>1, <1>3, <2>2, <2>3, HandStays DEF RekeyInv
  <1>. QED BY <1>2, <1>3 DEF TailInserts

-----------------------------------------------------------------------------
(* The command's own steps on the rows.                                    *)

\* Captures and lineage are in place when no row changes what it holds and names.
LEMMA HoldingsStay ==
    ASSUME RowsInv, DOMAIN events' = DOMAIN events, purged' = purged,
           \A x \in DOMAIN events : events'[x].holds = events[x].holds /\ events'[x].of = events[x].of
    PROVE  CapturesHeld' /\ OriginalsNamed' /\ ReplaysNamed'
  <1>1. Kept' = Kept
    BY DEF Kept
  <1>2. CapturesHeld'
    BY <1>1 DEF RowsInv, CapturesHeld
  <1>3. OriginalsNamed'
    <2>. SUFFICES ASSUME NEW r \in DOMAIN events, events'[r].of # ""
                  PROVE  /\ r \in DOMAIN Old /\ Old[r].of # ""
                         /\ Old[r].of \in Kept => /\ events'[r].of \in DOMAIN events
                                                  /\ Old[r].of \in events'[events'[r].of].holds
      BY <1>1 DEF OriginalsNamed
    <2>1. events'[r].of = events[r].of
      OBVIOUS
    <2>. QED BY <2>1 DEF RowsInv, OriginalsNamed
  <1>4. ReplaysNamed'
    BY DEF RowsInv, ReplaysNamed
  <1>. QED BY <1>2, <1>3, <1>4

\* The row in hand in pass 1, if it is there still: as it was captured.
LEMMA HandIs ==
    ASSUME RekeyInv, NEW r \in DOMAIN rekey.todo, rekey.pc = "rekey", BodyID(rekey.todo[r]) # ""
    PROVE  /\ r \in DOMAIN Old /\ rekey.todo[r].body = r /\ BodyID(rekey.todo[r]) = Old[r].id
           /\ Old[r].id # "" /\ rekey.todo[r].holds = {r}
           /\ Old[r].of = "" => rekey.todo[r].of = ""
           /\ r \notin DOMAIN events => r \in purged
           /\ r \in DOMAIN events => /\ OwnRow(r) /\ Synthetic(r) /\ events[r].holds = {r}
                                     /\ rekey.todo[r].session = events[r].session
  <1>1. InHand(r)
    BY DEF RekeyInv, HandInv, TodoHeld
  <1>2. /\ r \in DOMAIN Old /\ rekey.todo[r].body = r /\ BodyID(rekey.todo[r]) = Old[r].id
        /\ rekey.todo[r].holds = {r} /\ (Old[r].of = "" => rekey.todo[r].of = "")
    BY <1>1 DEF InHand, InPass1, BodyID
  <1>3. r \in DOMAIN events => /\ OwnRow(r) /\ Synthetic(r)
                               /\ rekey.todo[r].session = events[r].session
    BY <1>1 DEF InHand, InPass1, RekeyInv, RowsInv, RowsShaped
  <1>4. r \in DOMAIN events => events[r].holds = {r}
    BY <1>3, KeyParts DEF OwnRow, Synthetic
  <1>. QED BY <1>1, <1>2, <1>3, <1>4 DEF InHand

\* Giving a capture its message's key keeps the invariant.
LEMMA RekeyRowKeeps == ASSUME RekeyInv, NEW r, RekeyRow(r) PROVE RekeyInv'
  <1>1. /\ Turn(r, "rekey") /\ BodyID(rekey.todo[r]) # "" /\ Keyed(BodyID(rekey.todo[r])) = {}
        /\ UNCHANGED <<markers, totals, unsaid, unfolded, purged, behind, remade>>
        /\ events' = IF r \in DOMAIN events
                     THEN [events EXCEPT ![r].key = MessageKey(BodyID(rekey.todo[r]))] ELSE events
    BY DEF RekeyRow
  <1>2. /\ r \in DOMAIN rekey.todo /\ rekey.pc = "rekey"
        /\ rekey'.pc = rekey.pc /\ rekey'.archived = rekey.archived
        /\ DOMAIN rekey'.todo = DOMAIN rekey.todo \ {r}
        /\ \A x \in DOMAIN rekey.todo \ {r} : rekey'.todo[x] = rekey.todo[x]
        /\ rekey' \in [pc : Passes, todo : {rekey'.todo}, archived : SUBSET Names]
        /\ RowMap(rekey'.todo)
    BY <1>1, TurnKeeps DEF RekeyInv, HandInv
  <1>3. /\ r \in DOMAIN Old /\ BodyID(rekey.todo[r]) = Old[r].id /\ Old[r].id # ""
        /\ r \in DOMAIN events => OwnRow(r) /\ Synthetic(r) /\ events[r].holds = {r}
    BY <1>1, <1>2, HandIs
  <1>4. RowMap(events)
    BY DEF RekeyInv, RowsInv, RowsShaped
  <1>5. /\ DOMAIN events' = DOMAIN events
        /\ \A x \in DOMAIN events : x # r => events'[x] = events[x]
        /\ r \in DOMAIN events =>
              events'[r] = [events[r] EXCEPT !.key = MessageKey(Old[r].id)]
        /\ events' = [x \in DOMAIN events |-> events'[x]]
    BY <1>1, <1>3, <1>4 DEF RowMap
  <1>6. ASSUME r \in DOMAIN events
        PROVE  /\ events'[r] \in EventRow /\ events'[r].key = MessageKey(Old[r].id)
               /\ events'[r].source = events[r].source /\ events'[r].body = events[r].body
               /\ events'[r].holds = events[r].holds /\ events'[r].session = events[r].session
               /\ events'[r].kinds = events[r].kinds /\ events'[r].of = events[r].of
    <2>1. events[r] \in EventRow /\ MessageKey(Old[r].id) \in Keys
      BY <1>3, <1>4, <1>6, OldParts DEF RowMap
    <2>. QED BY <1>5, <1>6, <2>1 DEF EventRow
  <1>7. RowMap(events')
    <2>1. \A x \in DOMAIN events : events'[x] \in EventRow
      BY <1>4, <1>5, <1>6 DEF RowMap
    <2>. QED BY <1>4, <1>5, <2>1 DEF RowMap
  <1>8. \A x \in DOMAIN events : /\ events'[x].holds = events[x].holds /\ events'[x].of = events[x].of
                                 /\ events'[x].session = events[x].session /\ events'[x].kinds = events[x].kinds
    BY <1>5, <1>6
  <1>9. CapturesHeld' /\ OriginalsNamed' /\ ReplaysNamed'
    BY <1>1, <1>5, <1>8, HoldingsStay DEF RekeyInv
  <1>10. RowsShaped'
    <2>1. ASSUME NEW x \in DOMAIN events, x # r
          PROVE  /\ Answered(x)' /\ (x \in DOMAIN Old => OwnRow(x)')
                 /\ (x \notin DOMAIN Old => x \in DOMAIN Spoken /\ LineRow(x)')
      <3>1. /\ Answered(x) /\ (x \in DOMAIN Old => OwnRow(x))
            /\ (x \notin DOMAIN Old => x \in DOMAIN Spoken /\ LineRow(x))
            /\ events'[x] = events[x]
        BY <1>5, <2>1 DEF RekeyInv, RowsInv, RowsShaped
      <3>2. Answered(x)'
        BY <1>1, <3>1 DEF Answered, Kept
      <3>. QED BY <1>1, <3>1, <3>2 DEF OwnRow, LineRow, Synthetic
    <2>2. ASSUME r \in DOMAIN events PROVE Answered(r)' /\ OwnRow(r)'
      <3>1. OwnRow(r) /\ events[r].holds = {r} /\ r # ""
        BY <1>3, <2>2, NamesApart
      <3>2. OwnRow(r)'
        BY <1>3, <1>6, <2>2, <3>1 DEF OwnRow
      <3>3. Answered(r)'
        <4>1. events'[r].body = r /\ Old[r].kinds \subseteq events'[r].kinds /\ events'[r].holds = {r}
          BY <1>6, <2>2, <3>1 DEF OwnRow
        <4>. QED BY <3>1, <4>1 DEF Answered
      <3>. QED BY <3>2, <3>3
    <2>. QED BY <1>3, <1>5, <1>7, <2>1, <2>2 DEF RowsShaped
  <1>11. KeyedApart'
    <2>1. \A x \in DOMAIN events : events[x].key # MessageKey(Old[r].id)
      BY <1>1, <1>3 DEF Keyed
    <2>2. ASSUME NEW y \in DOMAIN events, NEW x \in DOMAIN events, events'[y].key = events'[x].key
          PROVE  y = x
      <3>1. CASE y = r \/ x = r
        BY <1>5, <1>6, <2>1, <2>2, <3>1
      <3>2. CASE y # r /\ x # r
        BY <1>5, <2>2, <3>2 DEF RekeyInv, RowsInv, KeyedApart
      <3>. QED BY <3>1, <3>2
    <2>. QED BY <1>5, <2>2 DEF KeyedApart
  <1>12. TodoHeld'
    <2>1. ASSUME NEW x \in DOMAIN rekey'.todo PROVE InHand(x)'
      <3>1. InHand(x) /\ rekey'.todo[x] = rekey.todo[x] /\ (x \in DOMAIN events => events'[x] = events[x])
        BY <1>2, <1>5 DEF RekeyInv, HandInv, TodoHeld
      <3>. QED BY <1>1, <1>2, <1>5, <3>1 DEF InHand, InPass1, Synthetic
    <2>. QED BY <1>1, <1>2, <1>5, <2>1 DEF RekeyInv, HandInv, TodoHeld
  <1>13. KeyedBehind' /\ MovedBehind'
    BY <1>1, <1>2, <1>5, <1>6 DEF RekeyInv, HandInv, KeyedBehind, MovedBehind, InPass1
  <1>14. SessionsKnown' /\ TotalsAdd'
    <2>1. \A s : s \in SessionsOf(events') <=> s \in SessionsOf(events)
      BY <1>5, <1>8, SessionsOfIs
    <2>2. ASSUME NEW s PROVE Sum(events, s) = Sum(events', s)
      <3>1. SameIn(events, events', s)
        BY <1>5, <1>8 DEF SameIn
      <3>. QED BY <3>1, SumOfSame
    <2>. QED BY <1>1, <2>1, <2>2 DEF RekeyInv, SessionsInv, SessionsKnown, TotalsAdd
  <1>. QED BY <1>9, <1>10, <1>11, <1>12, <1>13, <1>14 DEF RekeyInv, RowsInv, HandInv, SessionsInv

\* Moving a row to its conversation keeps the invariant.
LEMMA MoveRowKeeps == ASSUME RekeyInv, NEW r, MoveRow(r) PROVE RekeyInv'
  <1>. DEFINE s == Conversation(rekey.todo[r])
              o == rekey.todo[r].session
  <1>1. /\ Turn(r, "move") /\ s \notin {"", o}
        /\ UNCHANGED <<markers, unsaid, unfolded, purged, remade>>
        /\ events' = IF r \in DOMAIN events THEN [events EXCEPT ![r].session = s] ELSE events
        /\ behind' = behind \ {s, o}
        /\ totals' = [x \in (DOMAIN totals \cup {s}) \ (IF Sum(events', o).rows = {} THEN {o} ELSE {}) |->
                        IF x \in {s, o} THEN Sum(events', x) ELSE totals[x]]
    BY DEF MoveRow
  <1>2. /\ r \in DOMAIN rekey.todo /\ rekey.pc = "move"
        /\ rekey'.pc = rekey.pc /\ rekey'.archived = rekey.archived
        /\ DOMAIN rekey'.todo = DOMAIN rekey.todo \ {r}
        /\ \A x \in DOMAIN rekey.todo \ {r} : rekey'.todo[x] = rekey.todo[x]
        /\ rekey' \in [pc : Passes, todo : {rekey'.todo}, archived : SUBSET Names]
        /\ RowMap(rekey'.todo)
    BY <1>1, TurnKeeps DEF RekeyInv, HandInv
  <1>3. /\ r \in DOMAIN Old /\ s = Old[r].header
        /\ r \notin DOMAIN events => r \in purged
        /\ r \in DOMAIN events => events[r].session = o
    <2>1. InHand(r)
      BY <1>2 DEF RekeyInv, HandInv, TodoHeld
    <2>. QED BY <1>2, <2>1 DEF InHand, InPass1, Conversation
  <1>. HIDE DEF s, o
  <1>4. RowMap(events)
    BY DEF RekeyInv, RowsInv, RowsShaped
  <1>5. /\ DOMAIN events' = DOMAIN events
        /\ \A x \in DOMAIN events : x # r => events'[x] = events[x]
        /\ r \in DOMAIN events => events'[r] = [events[r] EXCEPT !.session = s]
        /\ events' = [x \in DOMAIN events |-> events'[x]]
    BY <1>1, <1>4 DEF RowMap
  <1>6. ASSUME r \in DOMAIN events
        PROVE  /\ events'[r] \in EventRow /\ events'[r].key = events[r].key
               /\ events'[r].source = events[r].source /\ events'[r].body = events[r].body
               /\ events'[r].holds = events[r].holds /\ events'[r].session = s
               /\ events'[r].kinds = events[r].kinds /\ events'[r].of = events[r].of
    <2>1. events[r] \in EventRow /\ s \in Sessions
      BY <1>3, <1>4, <1>6, OldParts DEF RowMap
    <2>. QED BY <1>5, <1>6, <2>1 DEF EventRow
  <1>7. RowMap(events')
    <2>1. \A x \in DOMAIN events : events'[x] \in EventRow
      BY <1>4, <1>5, <1>6 DEF RowMap
    <2>. QED BY <1>4, <1>5, <2>1 DEF RowMap
  <1>8. \A x \in DOMAIN events :
           /\ events'[x].key = events[x].key /\ events'[x].source = events[x].source
           /\ events'[x].body = events[x].body /\ events'[x].holds = events[x].holds
           /\ events'[x].kinds = events[x].kinds /\ events'[x].of = events[x].of
    BY <1>5, <1>6
  <1>9. CapturesHeld' /\ OriginalsNamed' /\ ReplaysNamed'
    BY <1>1, <1>5, <1>8, HoldingsStay DEF RekeyInv
  <1>10. RowsShaped'
    <2>1. ASSUME NEW x \in DOMAIN events
          PROVE  /\ Answered(x)' /\ (x \in DOMAIN Old => OwnRow(x)')
                 /\ (x \notin DOMAIN Old => x \in DOMAIN Spoken /\ LineRow(x)')
      <3>1. /\ Answered(x) /\ (x \in DOMAIN Old => OwnRow(x))
            /\ (x \notin DOMAIN Old => x \in DOMAIN Spoken /\ LineRow(x))
        BY DEF RekeyInv, RowsInv, RowsShaped
      <3>2. /\ events'[x].key = events[x].key /\ events'[x].source = events[x].source
            /\ events'[x].body = events[x].body /\ events'[x].holds = events[x].holds
            /\ events'[x].kinds = events[x].kinds
        BY <1>8
      <3>3. Answered(x)'
        BY <1>1, <3>1, <3>2 DEF Answered, Kept
      <3>. QED BY <1>1, <3>1, <3>2, <3>3 DEF OwnRow, LineRow, Synthetic
    <2>. QED BY <1>5, <1>7, <2>1 DEF RowsShaped
  <1>11. KeyedApart'
    BY <1>5, <1>8 DEF RekeyInv, RowsInv, KeyedApart
  <1>12. TodoHeld'
    <2>1. ASSUME NEW x \in DOMAIN rekey'.todo PROVE InHand(x)'
      <3>1. InHand(x) /\ rekey'.todo[x] = rekey.todo[x] /\ (x \in DOMAIN events => events'[x] = events[x])
        BY <1>2, <1>5 DEF RekeyInv, HandInv, TodoHeld
      <3>. QED BY <1>1, <1>2, <1>5, <3>1 DEF InHand, InPass1
    <2>. QED BY <1>1, <1>2, <1>5, <2>1 DEF RekeyInv, HandInv, TodoHeld
  <1>13. KeyedBehind'
    BY <1>1, <1>2, <1>5, <1>8, ZenonT(40) DEF RekeyInv, HandInv, KeyedBehind, InPass1
  <1>14. MovedBehind'
    <2>. SUFFICES ASSUME NEW x \in DOMAIN events, x \in DOMAIN Old
                  PROVE  Old[x].header \in {"", events'[x].session} \/ x \in DOMAIN rekey'.todo
      BY <1>2, <1>5 DEF MovedBehind
    <2>1. CASE x = r
      BY <1>3, <1>6, <2>1
    <2>2. CASE x # r
      BY <1>2, <1>5, <2>2 DEF RekeyInv, HandInv, MovedBehind
    <2>. QED BY <2>1, <2>2
  <1>15. SessionsKnown' /\ TotalsAdd'
    <2>1. ASSUME NEW z, z # s, z # o
          PROVE  /\ z \in SessionsOf(events') <=> z \in SessionsOf(events)
                 /\ Sum(events, z) = Sum(events', z)
      <3>1. SameIn(events, events', z)
        BY <1>3, <1>5, <1>6, <2>1 DEF SameIn
      <3>2. Sum(events, z) = Sum(events', z)
        BY <3>1, SumOfSame
      <3>. QED BY <3>2, EmptySum
    <2>2. /\ o \in SessionsOf(events') => o \in SessionsOf(events)
          /\ r \in DOMAIN events => s \in SessionsOf(events')
      <3>1. ASSUME o \in SessionsOf(events') PROVE o \in SessionsOf(events)
        <4>1. PICK x \in DOMAIN events' : events'[x].session = o
          BY <3>1, SessionsOfIs
        <4>2. x # r /\ x \in DOMAIN events /\ events'[x] = events[x]
          BY <1>1, <1>5, <1>6, <4>1
        <4>. QED BY <4>1, <4>2, SessionsOfIs
      <3>2. ASSUME r \in DOMAIN events PROVE s \in SessionsOf(events')
        BY <1>5, <1>6, <3>2, SessionsOfIs
      <3>. QED BY <3>1, <3>2
    <2>3. (Sum(events', o).rows = {}) <=> (o \notin SessionsOf(events'))
      BY EmptySum
    <2>4. s # o
      BY <1>1
    <2>5. SessionsKnown'
      <3>1. IsFunction(totals')
        BY <1>1 DEF IsFunction
      <3>. QED BY <1>1, <2>1, <2>2, <2>3, <2>4, <3>1 DEF RekeyInv, SessionsInv, SessionsKnown
    <2>6. ASSUME NEW z \in SessionsOf(events'), z \notin unfolded' \cup behind'
          PROVE  z \in DOMAIN totals' /\ totals'[z] = Sum(events', z)
      <3>1. z \in DOMAIN totals'
        BY <1>1, <2>5, <2>6 DEF SessionsKnown
      <3>2. CASE z \in {s, o}
        BY <1>1, <3>1, <3>2
      <3>3. CASE z \notin {s, o}
        <4>1. totals[z] = Sum(events, z) /\ Sum(events, z) = Sum(events', z)
          BY <1>1, <2>1, <2>6, <3>3 DEF RekeyInv, SessionsInv, TotalsAdd
        <4>. QED BY <1>1, <3>1, <3>3, <4>1
      <3>. QED BY <3>1, <3>2, <3>3
    <2>7. ASSUME purged = {} PROVE DOMAIN totals' \subseteq SessionsOf(events') \cup remade
      <3>1. DOMAIN totals \subseteq SessionsOf(events) \cup remade
        BY <2>7 DEF RekeyInv, SessionsInv, TotalsAdd
      <3>2. s \in SessionsOf(events')
        BY <1>3, <2>2, <2>7
      <3>. QED BY <1>1, <2>1, <2>3, <3>1, <3>2
    <2>. QED BY <1>1, <2>5, <2>6, <2>7 DEF TotalsAdd
  <1>. QED BY <1>9, <1>10, <1>11, <1>12, <1>13, <1>14, <1>15 DEF RekeyInv, RowsInv, HandInv, SessionsInv

\* The row that has the key is of the same message, and neither is a replay's.
LEMMA TakerIs ==
    ASSUME RekeyInv, NEW r \in DOMAIN rekey.todo, rekey.pc = "rekey", BodyID(rekey.todo[r]) # "",
           NEW t \in Keyed(BodyID(rekey.todo[r]))
    PROVE  /\ t \in DOMAIN events /\ t # r /\ events[t].key = MessageKey(Old[r].id)
           /\ Old[r].of = "" /\ rekey.todo[r].of = "" /\ events[t].of = "" /\ t # ""
           /\ t \in DOMAIN Old => Old[t].of = "" /\ Old[t].id = Old[r].id
  <1>1. /\ r \in DOMAIN Old /\ BodyID(rekey.todo[r]) = Old[r].id /\ Old[r].id # ""
        /\ Old[r].of = "" => rekey.todo[r].of = ""
        /\ r \in DOMAIN events => Synthetic(r)
    BY HandIs
  <1>2. t \in DOMAIN events /\ events[t].key = MessageKey(Old[r].id)
    BY <1>1 DEF Keyed
  <1>3. t # r
    BY <1>1, <1>2, KeyParts DEF Synthetic
  <1>4. CASE t \in DOMAIN Old
    <2>1. OwnRow(t)
      BY <1>2, <1>4 DEF RekeyInv, RowsInv, RowsShaped
    <2>2. Old[t].id = Old[r].id
      BY <1>2, <2>1, KeyParts DEF OwnRow, Synthetic
    <2>3. Old[r].of = "" /\ Old[t].of = ""
      BY <1>1, <1>3, <1>4, <2>2, Replays
    <2>4. events[t].of = ""
      BY <1>2, <2>3 DEF RekeyInv, RowsInv, OriginalsNamed
    <2>. QED BY <1>1, <1>2, <1>3, <1>4, <2>2, <2>3, <2>4, NamesApart
  <1>5. CASE t \notin DOMAIN Old
    <2>1. t \in DOMAIN Spoken /\ LineRow(t)
      BY <1>2, <1>5 DEF RekeyInv, RowsInv, RowsShaped
    <2>2. Old[r].id = t
      BY <1>2, <2>1, KeyParts DEF LineRow
    <2>3. Old[r].of = ""
      BY <1>1, <2>1, <2>2, Replays
    <2>4. events[t].of = ""
      BY <1>2, <1>5 DEF RekeyInv, RowsInv, OriginalsNamed
    <2>. QED BY <1>1, <1>2, <1>3, <1>5, <2>1, <2>3, <2>4, NamesApart
  <1>. QED BY <1>4, <1>5

\* What the rows are after row r, as it was loaded, has gone into row t.
Absorbed(r, t) ==
    /\ DOMAIN events' = DOMAIN events \ {r} /\ RowMap(events')
    /\ \A x \in DOMAIN events \ {r} :
          /\ events'[x].key = events[x].key /\ events'[x].source = events[x].source
          /\ events'[x].session = events[x].session
          /\ events'[x].of = IF events[x].of = r THEN t ELSE events[x].of
    /\ \A x \in DOMAIN events \ {r, t} :
          /\ events'[x].body = events[x].body /\ events'[x].holds = events[x].holds
          /\ events'[x].kinds = events[x].kinds
    /\ events'[t].body = preferred(events[t].body, r)
    /\ events'[t].holds = events[t].holds \cup {r}
    /\ events'[t].kinds = events[t].kinds \cup (IF r \in DOMAIN events THEN events[r].kinds ELSE {})

\* What a merge of a capture into its message's row leaves behind.
LEMMA AbsorbRowDoes ==
    ASSUME RekeyInv, NEW r, NEW t, AbsorbRow(r, t)
    PROVE  /\ Turn(r, "rekey") /\ BodyID(rekey.todo[r]) # "" /\ t \in Keyed(BodyID(rekey.todo[r]))
           /\ Absorbed(r, t) /\ markers' = markers \ {r}
           /\ Rederived(events', {rekey.todo[r].session, events[t].session},
                                 {rekey.todo[r].session} \ {events[t].session})
           /\ UNCHANGED <<unsaid, unfolded, purged, remade>>
  <1>. DEFINE ev == rekey.todo[r]
              es1 == [events EXCEPT ![t] = Joined(events[t], ev)]
              es2 == Reattached(es1, r, t)
              es3 == Without(es2, r)
  <1>1. /\ Turn(r, "rekey") /\ BodyID(ev) # "" /\ t \in Keyed(BodyID(ev))
        /\ events' = Repointed(es3, r, t) /\ markers' = markers \ {r}
        /\ Rederived(events', {ev.session, events[t].session}, {ev.session} \ {events[t].session})
        /\ UNCHANGED <<unsaid, unfolded, purged, remade>>
    BY DEF AbsorbRow
  <1>2. r \in DOMAIN rekey.todo /\ rekey.pc = "rekey"
    BY <1>1 DEF Turn
  <1>3. /\ t \in DOMAIN events /\ t # r /\ events[t].of = "" /\ ev.of = "" /\ t \in Names
        /\ r \in DOMAIN Old /\ ev.body = r /\ ev.holds = {r} /\ RowMap(events)
    <2>1. RowMap(events) /\ DOMAIN events \subseteq Names
      BY DEF RekeyInv, RowsInv, RowsShaped, RowMap
    <2>2. r \in DOMAIN Old /\ ev.body = r /\ ev.holds = {r}
      BY <1>1, <1>2, HandIs
    <2>3. t \in DOMAIN events /\ t # r /\ events[t].of = "" /\ ev.of = ""
      BY <1>1, <1>2, TakerIs
    <2>. QED BY <2>1, <2>2, <2>3
  <1>4. \A x \in DOMAIN events : events[x] \in EventRow
    BY <1>3 DEF RowMap
  <1>. HIDE DEF ev
  <1>5. /\ Joined(events[t], ev) = [events[t] EXCEPT !.body = preferred(@, r), !.of = "", !.holds = @ \cup {r}]
        /\ preferred(events[t].body, r) \in {""} \cup DOMAIN Old
    <2>1. events[t] \in EventRow
      BY <1>3, <1>4
    <2>2. events[t].body \in {""} \cup DOMAIN Old
      BY <2>1 DEF EventRow
    <2>. QED BY <1>3, <2>2 DEF Joined, preferred
  <1>6. /\ es1 = [x \in DOMAIN events |-> es1[x]] /\ es1[t] = Joined(events[t], ev)
        /\ \A x \in DOMAIN events : x # t => es1[x] = events[x]
    BY <1>3 DEF RowMap
  <1>7. /\ es1[t] \in EventRow /\ es1[t].key = events[t].key /\ es1[t].source = events[t].source
        /\ es1[t].body = preferred(events[t].body, r) /\ es1[t].holds = events[t].holds \cup {r}
        /\ es1[t].session = events[t].session /\ es1[t].kinds = events[t].kinds /\ es1[t].of = events[t].of
    <2>1. es1[t] = [events[t] EXCEPT !.body = preferred(@, r), !.of = "", !.holds = @ \cup {r}]
      BY <1>5, <1>6
    <2>2. events[t] \in EventRow
      BY <1>3, <1>4
    <2>. HIDE DEF es1
    <2>3. PICK b, h : b = preferred(events[t].body, r) /\ h = events[t].holds \cup {r}
      OBVIOUS
    <2>4. es1[t] = [events[t] EXCEPT !.body = b, !.of = "", !.holds = h]
      BY <2>1, <2>3
    <2>5. b \in {""} \cup DOMAIN Old /\ h \in SUBSET DOMAIN Old
      <3>1. events[t].holds \subseteq DOMAIN Old
        BY <2>2 DEF EventRow
      <3>. QED BY <1>3, <1>5, <2>3, <3>1
    <2>6. /\ es1[t] \in EventRow /\ es1[t].key = events[t].key /\ es1[t].source = events[t].source
          /\ es1[t].body = b /\ es1[t].holds = h /\ es1[t].session = events[t].session
          /\ es1[t].kinds = events[t].kinds /\ es1[t].of = ""
      BY <2>2, <2>4, <2>5 DEF EventRow
    <2>. QED BY <1>3, <2>3, <2>6
  <1>. HIDE DEF es1
  <1>8. /\ es2 = [x \in DOMAIN events |-> es2[x]]
        /\ \A x \in DOMAIN events : x # t => es2[x] = events[x]
        /\ es2[t] = IF r \in DOMAIN events THEN [es1[t] EXCEPT !.kinds = @ \cup events[r].kinds] ELSE es1[t]
    BY <1>3, <1>6 DEF Reattached
  <1>. HIDE DEF es2
  <1>9. /\ es2[t] \in EventRow /\ es2[t].key = events[t].key /\ es2[t].source = events[t].source
        /\ es2[t].body = preferred(events[t].body, r) /\ es2[t].holds = events[t].holds \cup {r}
        /\ es2[t].session = events[t].session /\ es2[t].of = events[t].of
        /\ es2[t].kinds = events[t].kinds \cup (IF r \in DOMAIN events THEN events[r].kinds ELSE {})
    <2>1. CASE r \in DOMAIN events
      <3>1. events[r].kinds \subseteq Kinds
        BY <1>4, <2>1 DEF EventRow
      <3>. QED BY <1>7, <1>8, <2>1, <3>1, ZenonT(40) DEF EventRow
    <2>2. CASE r \notin DOMAIN events
      BY <1>7, <1>8, <2>2
    <2>. QED BY <2>1, <2>2
  <1>10. /\ DOMAIN es3 = DOMAIN events \ {r}
         /\ \A x \in DOMAIN events \ {r} : es3[x] = es2[x]
    <2>1. es3 = [x \in DOMAIN events \ {r} |-> es2[x]]
      BY <1>8 DEF Without, Restrict
    <2>. HIDE DEF es3
    <2>. QED BY <2>1
  <1>. HIDE DEF es3
  <1>11. \A x \in DOMAIN es3 :
            /\ es3[x] \in EventRow /\ es3[x].key = events[x].key /\ es3[x].source = events[x].source
            /\ es3[x].session = events[x].session /\ es3[x].of = events[x].of
            /\ x # t => es3[x] = events[x]
    BY <1>3, <1>4, <1>8, <1>9, <1>10
  <1>12. /\ DOMAIN events' = DOMAIN es3 /\ events' = [x \in DOMAIN es3 |-> events'[x]]
         /\ \A x \in DOMAIN es3 :
               events'[x] = IF es3[x].of = r THEN [es3[x] EXCEPT !.of = t] ELSE es3[x]
    BY <1>1 DEF Repointed
  <1>13. ASSUME NEW x \in DOMAIN es3
         PROVE  /\ events'[x] \in EventRow /\ events'[x].key = es3[x].key /\ events'[x].source = es3[x].source
                /\ events'[x].body = es3[x].body /\ events'[x].holds = es3[x].holds
                /\ events'[x].session = es3[x].session /\ events'[x].kinds = es3[x].kinds
                /\ events'[x].of = IF es3[x].of = r THEN t ELSE es3[x].of
    <2>1. es3[x] \in EventRow /\ events'[x] = IF es3[x].of = r THEN [es3[x] EXCEPT !.of = t] ELSE es3[x]
      BY <1>11, <1>12
    <2>. QED BY <1>3, <2>1 DEF EventRow
  <1>14. RowMap(events')
    BY <1>3, <1>10, <1>12, <1>13 DEF RowMap
  <1>15. t \in DOMAIN es3 /\ es3[t] = es2[t]
    BY <1>3, <1>10
  <1>16. Absorbed(r, t)
    <2>1. \A x \in DOMAIN events \ {r} :
            /\ events'[x].key = events[x].key /\ events'[x].source = events[x].source
            /\ events'[x].session = events[x].session
            /\ events'[x].of = IF events[x].of = r THEN t ELSE events[x].of
      BY <1>10, <1>11, <1>13
    <2>2. \A x \in DOMAIN events \ {r, t} :
            /\ events'[x].body = events[x].body /\ events'[x].holds = events[x].holds
            /\ events'[x].kinds = events[x].kinds
      BY <1>10, <1>11, <1>13
    <2>3. /\ events'[t].body = preferred(events[t].body, r)
          /\ events'[t].holds = events[t].holds \cup {r}
          /\ events'[t].kinds = events[t].kinds \cup (IF r \in DOMAIN events THEN events[r].kinds ELSE {})
      BY <1>9, <1>13, <1>15
    <2>. QED BY <1>10, <1>12, <1>14, <2>1, <2>2, <2>3 DEF Absorbed
  <1>. QED BY <1>1, <1>16 DEF ev

\* Merging a capture into its message's row keeps the invariant.
LEMMA AbsorbRowKeeps == ASSUME RekeyInv, NEW r, NEW t, AbsorbRow(r, t) PROVE RekeyInv'
  <1>1. /\ Turn(r, "rekey") /\ BodyID(rekey.todo[r]) # "" /\ t \in Keyed(BodyID(rekey.todo[r]))
        /\ Absorbed(r, t) /\ markers' = markers \ {r}
        /\ UNCHANGED <<unsaid, unfolded, purged, remade>>
    BY AbsorbRowDoes
  <1>2. /\ r \in DOMAIN rekey.todo /\ rekey.pc = "rekey"
        /\ rekey'.pc = rekey.pc /\ rekey'.archived = rekey.archived
        /\ DOMAIN rekey'.todo = DOMAIN rekey.todo \ {r}
        /\ \A x \in DOMAIN rekey.todo \ {r} : rekey'.todo[x] = rekey.todo[x]
        /\ rekey' \in [pc : Passes, todo : {rekey'.todo}, archived : SUBSET Names]
        /\ RowMap(rekey'.todo)
    BY <1>1, TurnKeeps DEF RekeyInv, HandInv
  <1>3. /\ r \in DOMAIN Old /\ Old[r].id # "" /\ (r \notin DOMAIN events => r \in purged) /\ r # ""
        /\ r \in DOMAIN events => OwnRow(r) /\ events[r].holds = {r}
    BY <1>1, <1>2, HandIs, NamesApart
  <1>4. /\ t \in DOMAIN events /\ t # r /\ events[t].key = MessageKey(Old[r].id)
        /\ events[t].of = "" /\ t # ""
        /\ t \in DOMAIN Old => Old[t].of = "" /\ Old[t].id = Old[r].id
    BY <1>1, <1>2, TakerIs, ZenonT(40)
  <1>5. /\ DOMAIN events' = DOMAIN events \ {r} /\ RowMap(events')
        /\ \A x \in DOMAIN events \ {r} :
              /\ events'[x].key = events[x].key /\ events'[x].source = events[x].source
              /\ events'[x].session = events[x].session
              /\ events'[x].of = IF events[x].of = r THEN t ELSE events[x].of
        /\ \A x \in DOMAIN events \ {r, t} :
              /\ events'[x].body = events[x].body /\ events'[x].holds = events[x].holds
              /\ events'[x].kinds = events[x].kinds
        /\ events'[t].body = preferred(events[t].body, r)
        /\ events'[t].holds = events[t].holds \cup {r}
        /\ events'[t].kinds = events[t].kinds \cup (IF r \in DOMAIN events THEN events[r].kinds ELSE {})
    BY <1>1 DEF Absorbed
  <1>6. Kept' = Kept /\ (r \in Kept => r \in DOMAIN events)
    BY <1>1, <1>3 DEF Kept
  <1>7. RowsShaped'
    <2>1. ASSUME NEW x \in DOMAIN events \ {r, t}
          PROVE  /\ Answered(x)' /\ (x \in DOMAIN Old => OwnRow(x)')
                 /\ (x \notin DOMAIN Old => x \in DOMAIN Spoken /\ LineRow(x)')
      <3>1. /\ Answered(x) /\ (x \in DOMAIN Old => OwnRow(x))
            /\ (x \notin DOMAIN Old => x \in DOMAIN Spoken /\ LineRow(x))
        BY DEF RekeyInv, RowsInv, RowsShaped
      <3>2. /\ events'[x].key = events[x].key /\ events'[x].source = events[x].source
            /\ events'[x].body = events[x].body /\ events'[x].holds = events[x].holds
            /\ events'[x].kinds = events[x].kinds
        BY <1>5
      <3>3. Answered(x)'
        BY <1>6, <3>1, <3>2 DEF Answered
      <3>. QED BY <1>1, <3>1, <3>2, <3>3 DEF OwnRow, LineRow, Synthetic
    <2>2. /\ Answered(t) /\ (t \in DOMAIN Old => OwnRow(t))
          /\ (t \notin DOMAIN Old => t \in DOMAIN Spoken /\ LineRow(t))
      BY <1>4 DEF RekeyInv, RowsInv, RowsShaped
    <2>3. /\ events'[t].key = events[t].key /\ events'[t].source = events[t].source
          /\ events'[t].body # "" /\ (events[t].body # "" => events'[t].body = events[t].body)
          /\ events[t].kinds \subseteq events'[t].kinds
      BY <1>3, <1>4, <1>5 DEF preferred
    <2>4. Answered(t)'
      <3>. SUFFICES ASSUME NEW c \in events'[t].holds
                    PROVE  /\ events'[t].body # ""
                           /\ c \in Kept => Old[c].kinds \subseteq events'[t].kinds
                           /\ c # t => Old[c].id # "" /\ events'[t].key = MessageKey(Old[c].id)
        BY <1>6 DEF Answered
      <3>1. CASE c \in events[t].holds
        BY <2>2, <2>3, <3>1 DEF Answered
      <3>2. CASE c = r
        <4>1. r \in Kept => Old[r].kinds \subseteq events'[t].kinds
          BY <1>3, <1>5, <1>6 DEF OwnRow
        <4>. QED BY <1>3, <1>4, <2>3, <3>2, <4>1
      <3>. QED BY <1>5, <3>1, <3>2
    <2>5. t \in DOMAIN Old => OwnRow(t)'
      <3>. SUFFICES ASSUME t \in DOMAIN Old PROVE OwnRow(t)'
        OBVIOUS
      <3>1. OwnRow(t) /\ Old[t].id = Old[r].id
        BY <1>4, <2>2
      <3>2. t \in events'[t].holds /\ Old[t].kinds \subseteq events'[t].kinds
        BY <1>5, <2>3, <3>1 DEF OwnRow
      <3>. QED BY <1>3, <1>4, <2>3, <3>1, <3>2 DEF OwnRow
    <2>6. t \notin DOMAIN Old => t \in DOMAIN Spoken /\ LineRow(t)'
      BY <1>1, <2>2, <2>3 DEF LineRow
    <2>. QED BY <1>5, <2>1, <2>4, <2>5, <2>6 DEF RowsShaped
  <1>8. KeyedApart'
    BY <1>5 DEF RekeyInv, RowsInv, KeyedApart
  <1>9. \A x \in DOMAIN events' : events[x].holds \subseteq events'[x].holds
    BY <1>5
  <1>10. CapturesHeld'
    <2>. SUFFICES ASSUME NEW c \in Kept
                  PROVE  /\ \E x \in DOMAIN events' : c \in events'[x].holds
                         /\ \A x, y \in DOMAIN events' :
                               c \in events'[x].holds /\ c \in events'[y].holds => x = y
      BY <1>6 DEF CapturesHeld
    <2>1. PICK q \in DOMAIN events : c \in events[q].holds
      BY DEF RekeyInv, RowsInv, CapturesHeld
    <2>2. \A x \in DOMAIN events : c \in events[x].holds => x = q
      BY <2>1 DEF RekeyInv, RowsInv, CapturesHeld
    <2>3. CASE c # r
      <3>1. q # r
        <4>. SUFFICES ASSUME q = r PROVE FALSE
          OBVIOUS
        <4>1. r \in DOMAIN events /\ c \in events[r].holds
          BY <2>1
        <4>2. events[r].holds = {r}
          BY <1>3, <4>1
        <4>. QED BY <2>3, <4>1, <4>2
      <3>2. \A x \in DOMAIN events' : c \in events'[x].holds => c \in events[x].holds
        BY <1>4, <1>5, <2>3
      <3>. QED BY <1>5, <1>9, <2>1, <2>2, <3>1, <3>2
    <2>4. CASE c = r
      <3>1. q = r
        BY <1>3, <1>6, <2>2, <2>4
      <3>2. \A x \in DOMAIN events' : c \in events'[x].holds => x = t
        BY <1>5, <2>2, <3>1
      <3>. QED BY <1>4, <1>5, <2>4, <3>2
    <2>. QED BY <2>3, <2>4
  <1>11. OriginalsNamed'
    <2>. SUFFICES ASSUME NEW x \in DOMAIN events', events'[x].of # ""
                  PROVE  /\ x \in DOMAIN Old /\ Old[x].of # ""
                         /\ Old[x].of \in Kept => /\ events'[x].of \in DOMAIN events'
                                                  /\ Old[x].of \in events'[events'[x].of].holds
      BY <1>6 DEF OriginalsNamed
    <2>1. /\ x \in DOMAIN events \ {r} /\ events[x].of # ""
          /\ events'[x].of = IF events[x].of = r THEN t ELSE events[x].of
      BY <1>3, <1>5
    <2>2. /\ x \in DOMAIN Old /\ Old[x].of # ""
          /\ Old[x].of \in Kept => /\ events[x].of \in DOMAIN events
                                   /\ Old[x].of \in events[events[x].of].holds
      BY <2>1 DEF RekeyInv, RowsInv, OriginalsNamed
    <2>3. CASE events[x].of = r
      <3>1. Old[x].of \in Kept => Old[x].of = r
        BY <1>3, <2>2, <2>3
      <3>. QED BY <1>4, <1>5, <2>1, <2>2, <2>3, <3>1
    <2>4. CASE events[x].of # r
      BY <1>5, <1>9, <2>1, <2>2, <2>4
    <2>. QED BY <2>3, <2>4
  <1>12. ReplaysNamed'
    BY <1>4, <1>5 DEF RekeyInv, RowsInv, ReplaysNamed
  <1>13. TodoHeld'
    <2>1. ASSUME NEW x \in DOMAIN rekey'.todo PROVE InHand(x)'
      <3>1. InHand(x) /\ rekey'.todo[x] = rekey.todo[x] /\ x # r
        BY <1>2 DEF RekeyInv, HandInv, TodoHeld
      <3>2. /\ x \in DOMAIN events' <=> x \in DOMAIN events
            /\ x \in DOMAIN events => events'[x].key = events[x].key /\ events'[x].session = events[x].session
        BY <1>5, <3>1
      <3>. QED BY <1>1, <1>2, <3>1, <3>2 DEF InHand, InPass1, Synthetic
    <2>. QED BY <1>1, <1>2, <1>5, <2>1 DEF RekeyInv, HandInv, TodoHeld
  <1>14. KeyedBehind' /\ MovedBehind'
    BY <1>1, <1>2, <1>5 DEF RekeyInv, HandInv, KeyedBehind, MovedBehind, InPass1
  <1>. DEFINE o == rekey.todo[r].session
              s == events[t].session
  <1>15. /\ behind' = behind \ {o, s}
         /\ totals' = [z \in DOMAIN totals \ {z \in {o} \ {s} : Sum(events', z).rows = {}} |->
                         IF z \in {o, s} THEN Sum(events', z) ELSE totals[z]]
    BY AbsorbRowDoes, ZenonT(40) DEF Rederived
  <1>16. r \in DOMAIN events => events[r].session = o
    BY <1>1, <1>2, HandIs
  <1>. HIDE DEF o, s
  <1>17. ASSUME NEW z PROVE z \in SessionsOf(events') => z \in SessionsOf(events)
    <2>. SUFFICES ASSUME z \in SessionsOf(events') PROVE z \in SessionsOf(events)
      OBVIOUS
    <2>1. PICK x \in DOMAIN events' : events'[x].session = z
      BY SessionsOfIs
    <2>. QED BY <1>5, <2>1, SessionsOfIs
  <1>18. ASSUME NEW z, z \in SessionsOf(events), z # o \/ z = s PROVE z \in SessionsOf(events')
    <2>1. CASE z = s
      BY <1>4, <1>5, <2>1, SessionsOfIs DEF s
    <2>2. CASE z # o
      <3>1. PICK x \in DOMAIN events : events[x].session = z
        BY <1>18, SessionsOfIs
      <3>2. x # r
        BY <1>16, <2>2, <3>1
      <3>. QED BY <1>5, <3>1, <3>2, SessionsOfIs
    <2>. QED BY <1>18, <2>1, <2>2
  <1>19. (Sum(events', o).rows = {}) <=> (o \notin SessionsOf(events'))
    BY EmptySum
  <1>20. SessionsKnown'
    <2>1. IsFunction(totals')
      BY <1>15 DEF IsFunction
    <2>. QED BY <1>1, <1>15, <1>17, <1>19, <2>1 DEF RekeyInv, SessionsInv, SessionsKnown
  <1>21. TotalsAdd'
    <2>1. ASSUME NEW z \in SessionsOf(events'), z \notin unfolded' \cup behind'
          PROVE  z \in DOMAIN totals' /\ totals'[z] = Sum(events', z)
      <3>1. z \in DOMAIN totals'
        BY <1>20, <2>1 DEF SessionsKnown
      <3>2. CASE z \in {o, s}
        BY <1>15, <3>1, <3>2
      <3>3. CASE z \notin {o, s}
        <4>1. totals[z] = Sum(events, z)
          BY <1>1, <1>15, <1>17, <2>1, <3>3 DEF RekeyInv, SessionsInv, TotalsAdd
        <4>2. SameIn(events, events', z)
          BY <1>4, <1>5, <1>16, <3>3 DEF SameIn, s
        <4>. QED BY <1>15, <3>1, <3>3, <4>1, <4>2, SumOfSame
      <3>. QED BY <3>2, <3>3
    <2>2. ASSUME purged = {} PROVE DOMAIN totals' \subseteq SessionsOf(events') \cup remade
      <3>1. DOMAIN totals \subseteq SessionsOf(events) \cup remade
        BY <2>2 DEF RekeyInv, SessionsInv, TotalsAdd
      <3>. QED BY <1>15, <1>18, <1>19, <3>1
    <2>. QED BY <1>1, <2>1, <2>2 DEF TotalsAdd
  <1>. QED BY <1>7, <1>8, <1>10, <1>11, <1>12, <1>13, <1>14, <1>20, <1>21
       DEF RekeyInv, RowsInv, HandInv, SessionsInv

-----------------------------------------------------------------------------
(* While serve archives, purges and tails beside it, and wherever it dies, *)
(* `clens rekey` loses nothing.                                            *)

\* Every step keeps it.
LEMMA RekeyInvStep == ASSUME RekeyInv, [RekeyNext]_rekeyVars PROVE RekeyInv'
  <1>1. CASE \E r \in DOMAIN events : Archives(r) \/ Purges(r)
    BY <1>1, ArchivesKeeps, PurgesKeeps
  <1>2. CASE \E m \in DOMAIN Spoken : TailInserts(m)
    BY <1>2, TailKeeps
  <1>3. CASE \E s \in unfolded : TailFolds(s)
    BY <1>3, FoldKeeps
  <1>4. CASE LoadSynthetic \/ ReadMarkers \/ LoadProxied \/ RekeyDone \/ RekeyEnds
    BY <1>4, LoadSyntheticKeeps, ReadMarkersKeeps, LoadProxiedKeeps, CommandEnds
  <1>5. CASE \E r \in DOMAIN rekey.todo : LeaveRow(r) \/ RekeyRow(r) \/ KeepSession(r) \/ MoveRow(r)
    BY <1>5, LeavesKeep, RekeyRowKeeps, MoveRowKeeps
  <1>6. CASE \E r \in DOMAIN rekey.todo : \E t \in DOMAIN events : AbsorbRow(r, t)
    BY <1>6, AbsorbRowKeeps
  <1>7. CASE UNCHANGED rekeyVars
    BY <1>7, RowsStay, HandStays, SessionsStay DEF rekeyVars, RekeyInv
  <1>. QED BY <1>1, <1>2, <1>3, <1>4, <1>5, <1>6, <1>7 DEF RekeyNext

\* Each capture that was not purged is in one row, with its bodies and its
\* warnings, no two rows have one key, a replay names the row its original is
\* in, and the totals add up, wherever the command is, dies, or is run again
\* (rekeyOneProxyRow, reattributeOneProxyRow).
THEOREM RekeyAlwaysKeepsAll == RekeySpec => []RekeyKeepsAll
  <1>1. RekeyInit => RekeyInv
    BY RekeyInvInit
  <1>2. RekeyInv /\ [RekeyNext]_rekeyVars => RekeyInv'
    BY RekeyInvStep
  <1>3. RekeyInv => RekeyKeepsAll
    BY RekeyInvSuffices
  <1>. QED BY <1>1, <1>2, <1>3, PTL DEF RekeySpec
===============================================================================
