------------------------- MODULE CapturePipelineProofs -------------------------
(***************************************************************************)
(* CapturePipeline, for every number of calls, sessions and transcript     *)
(* lines, every capacity, batch and retry count, and a store that may fail *)
(* at every call: the session totals are those of the rows (TotalsAccurate), *)
(* and no call is counted twice or lost between the counters of the sink,  *)
(* those of the consumer and the rows (Accounted).                         *)
(***************************************************************************)
EXTENDS CapturePipeline, FiniteSetTheorems, TLAPS

USE PipelineAssumption

-----------------------------------------------------------------------------
(* The invariant. *)

\* The sessions the flush w has touched and not folded, but for the row in hand.
Pending(w) ==
    IF w.pc \in {"upsert", "derive"} THEN {w.order[i] : i \in w.at..Len(w.order)}
    ELSE {w.order[i] : i \in DOMAIN w.order}

\* A place in Run or flush that the code can reach, with b as its batch.
Placed(w, b) ==
    /\ w \in Work
    /\ w.pc \in {"select", "drain", "done"} => w.pos = 1 /\ w.order = <<>>
    /\ w.pc \in {"insert", "warn"} => w.pos \in 1..Len(b)
    /\ w.pc \in {"rule", "attach", "upsert", "derive"} => w.at \in 1..Len(w.order)

\* What the flush and the tailer hold names rows that exist, and the sessions
\* these are in: a row never moves once it is written.
WorkHolds ==
    /\ work.pc = "warn" => merged[batch[work.pos]] # {}
    /\ work.pc = "attach" =>
          \A c \in work.found : merged[c] # {} /\ owner[c] = work.order[work.at]

TailHolds ==
    /\ tail.pc = "warn" => merged[tail.call] # {} /\ owner[tail.call] \in tail.order
    /\ tail.pc \in {"upsert", "derive"} => tail.at \in tail.order

StoreTyped ==
    /\ merged \in [Calls -> SUBSET Sources] /\ owner \in [Calls -> Sessions]
    /\ warned \subseteq Calls /\ totals \in [Sessions -> Totals] /\ owed \subseteq Sessions
    /\ \A c \in warned : merged[c] # {}

\* The sessions some writer is still going to fold, or gave up.
Due == owed \cup Unfolded \cup tail.order

PipelineInv ==
    /\ TypeOK /\ StoreTyped
    /\ Placed(work, batch) /\ WorkHolds /\ TailHolds
    /\ TotalsAccurate

-----------------------------------------------------------------------------
(* The store. *)

\* What a step of the store that touches no session outside D guarantees.
Touches(D) ==
    /\ merged' \in [Calls -> SUBSET Sources] /\ owner' \in [Calls -> Sessions]
    /\ warned' \subseteq Calls /\ totals' \in [Sessions -> Totals] /\ owed' \subseteq Sessions
    /\ \A c \in Calls : merged[c] # {} => merged'[c] # {} /\ owner'[c] = owner[c]
    /\ \A c \in warned' : merged'[c] # {}
    /\ \A s \in Sessions \ D : Accurate(s) => Accurate(s)'
    /\ \A s \in owed : s \in owed' \/ Accurate(s)'

\* A snapshot of the present rows and warnings.
LEMMA DerivedTyped ==
    ASSUME NEW rows \in [Calls -> SUBSET Sources], NEW own, NEW warn \in SUBSET Calls, NEW s
    PROVE  Derived(rows, own, warn, s) \in Totals
  BY DEF Derived, Totals

\* Inserting or merging a row concerns the session it is in.
LEMMA InsertTouches ==
    ASSUME StoreTyped, NEW c \in Calls, NEW source \in Sources, NEW session \in Sessions,
           InsertEvent(c, source, session)
    PROVE  Touches({owner'[c]}) /\ merged'[c] # {}
<1>1. CASE merged[c] = {}
  <2>1. /\ merged' = [merged EXCEPT ![c] = {source}]
        /\ owner' = [owner EXCEPT ![c] = session]
        /\ UNCHANGED <<warned, totals, owed>>
    BY <1>1 DEF InsertEvent
  <2>2. c \notin warned
    BY <1>1 DEF StoreTyped
  <2>3. ASSUME NEW s \in Sessions \ {session}, Accurate(s)
        PROVE  Accurate(s)'
    <3>1. Derived(merged', owner', warned', s) = Derived(merged, owner, warned, s)
      BY <1>1, <2>1, <2>2, <2>3 DEF StoreTyped, Derived
    <3> QED
      BY <2>1, <2>3, <3>1 DEF Accurate
  <2>4. owner'[c] = session /\ merged'[c] = {source}
    BY <2>1 DEF StoreTyped
  <2>5. /\ merged' \in [Calls -> SUBSET Sources] /\ owner' \in [Calls -> Sessions]
        /\ \A d \in Calls : merged[d] # {} => merged'[d] # {} /\ owner'[d] = owner[d]
    BY <1>1, <2>1 DEF StoreTyped
  <2>6. /\ warned' \subseteq Calls /\ totals' \in [Sessions -> Totals] /\ owed' \subseteq Sessions
        /\ \A d \in warned' : merged'[d] # {}
        /\ \A s \in owed : s \in owed'
    BY <2>1, <2>5 DEF StoreTyped
  <2> QED
    BY <2>3, <2>4, <2>5, <2>6 DEF Touches
<1>2. CASE merged[c] # {}
  <2>1. PICK mismatch \in BOOLEAN :
          /\ merged' = [merged EXCEPT ![c] = @ \cup {source}]
          /\ warned' = IF mismatch THEN warned \cup {c} ELSE warned
          /\ IF totals[owner[c]].known
             THEN /\ totals' = [totals EXCEPT ![owner[c]] =
                                  Derived(merged', owner, warned', owner[c])]
                  /\ owed' = owed \ {owner[c]}
             ELSE UNCHANGED <<totals, owed>>
          /\ UNCHANGED owner
    BY <1>2 DEF InsertEvent
  <2>2. /\ merged' \in [Calls -> SUBSET Sources] /\ warned' \in SUBSET Calls
        /\ merged'[c] # {}
        /\ \A d \in Calls \ {c} : merged'[d] = merged[d]
    BY <2>1 DEF StoreTyped
  <2>3. Derived(merged', owner, warned', owner[c]) \in Totals
    BY <2>2, DerivedTyped
  <2>4. totals' \in [Sessions -> Totals] /\ owed' \subseteq Sessions
    BY <2>1, <2>3 DEF StoreTyped
  <2>5. ASSUME NEW s \in Sessions \ {owner[c]}, Accurate(s)
        PROVE  Accurate(s)'
    <3>1. Derived(merged', owner', warned', s) = Derived(merged, owner, warned, s)
      BY <2>1, <2>2 DEF StoreTyped, Derived
    <3>2. totals'[s] = totals[s]
      BY <2>1 DEF StoreTyped
    <3> QED
      BY <2>5, <3>1, <3>2 DEF Accurate
  <2>6. ASSUME NEW s \in owed, s \notin owed'
        PROVE  Accurate(s)'
    <3>1. s = owner[c] /\ totals'[s] = Derived(merged', owner', warned', s)
      BY <2>1, <2>6 DEF StoreTyped
    <3>2. totals'[s].known
      BY <3>1 DEF Derived
    <3> QED
      BY <3>1, <3>2 DEF Accurate
  <2> QED
    BY <2>1, <2>2, <2>4, <2>5, <2>6 DEF StoreTyped, Touches
<1> QED
  BY <1>1, <1>2

\* Storing a call's warnings touches its session only.
LEMMA WarningsTouch ==
    ASSUME StoreTyped, NEW c \in Calls, merged[c] # {}, UpsertWarnings(c)
    PROVE  Touches({owner[c]})
<1>1. ASSUME NEW s \in Sessions \ {owner[c]}, Accurate(s)
      PROVE  Accurate(s)'
  <2>1. Derived(merged', owner', warned', s) = Derived(merged, owner, warned, s)
    BY DEF StoreTyped, UpsertWarnings, Derived
  <2> QED
    BY <1>1, <2>1 DEF Accurate, UpsertWarnings
<1>2. /\ merged' = merged /\ owner' = owner /\ totals' = totals /\ owed' = owed
      /\ warned' = warned \cup {c}
  BY DEF UpsertWarnings
<1>3. /\ warned' \subseteq Calls
      /\ \A d \in warned' : merged'[d] # {}
  BY <1>2 DEF StoreTyped
<1> QED
  BY <1>1, <1>2, <1>3 DEF StoreTyped, Touches

\* Making sure that a session exists touches no total.
LEMMA UpsertTouches ==
    ASSUME StoreTyped, NEW t \in Sessions, UpsertSession(t)
    PROVE  Touches({})
<1> DEFINE known == [totals[t] EXCEPT !.known = TRUE]
<1>1. known \in Totals
  <2>1. totals[t] \in Totals
    BY DEF StoreTyped
  <2> QED
    BY <2>1 DEF Totals
<1>2. totals' = [totals EXCEPT ![t] = known]
  BY DEF UpsertSession
<1>3. totals' \in [Sessions -> Totals]
  <2> HIDE DEF known
  <2> QED
    BY <1>1, <1>2 DEF StoreTyped
<1>4. ASSUME NEW s \in Sessions, Accurate(s)
      PROVE  Accurate(s)'
  <2>1. /\ totals'[s].rows = totals[s].rows /\ totals'[s].warned = totals[s].warned
        /\ totals[s].known => totals'[s].known
    BY <1>2 DEF StoreTyped, Totals
  <2> QED
    BY <1>4, <2>1 DEF Accurate, UpsertSession
<1> QED
  BY <1>3, <1>4 DEF StoreTyped, UpsertSession, Touches

\* Re-deriving a session makes its totals accurate and touches no other.
LEMMA ReconcileTouches ==
    ASSUME StoreTyped, NEW t \in Sessions, ReconcileSession(t)
    PROVE  Touches({}) /\ Accurate(t)'
<1>1. Derived(merged, owner, warned, t) \in Totals
  BY DerivedTyped DEF StoreTyped
<1>2. totals' \in [Sessions -> Totals]
  BY <1>1 DEF StoreTyped, ReconcileSession
<1>3. Accurate(t)'
  <2>1. totals'[t] = Derived(merged', owner', warned', t) /\ totals'[t].known
    BY DEF StoreTyped, ReconcileSession, Derived
  <2> QED
    BY <2>1 DEF Accurate
<1>4. ASSUME NEW s \in Sessions \ {t}, Accurate(s)
      PROVE  Accurate(s)'
  BY <1>4 DEF StoreTyped, ReconcileSession, Accurate
<1> QED
  BY <1>2, <1>3, <1>4 DEF StoreTyped, ReconcileSession, Touches

\* Giving a fold up, or owing one, touches no total.
LEMMA OwesTouches ==
    ASSUME StoreTyped, NEW S \in SUBSET Sessions, Owes(S)
    PROVE  Touches({})
  BY DEF StoreTyped, Owes, Touches, Accurate

\* A step that leaves the store alone touches no session.
LEMMA NothingTouches ==
    ASSUME StoreTyped, UNCHANGED storeVars
    PROVE  Touches({})
  BY DEF StoreTyped, storeVars, Touches, Accurate

-----------------------------------------------------------------------------
(* Where the flush goes on. *)

Sessions1(w) == {w.order[i] : i \in DOMAIN w.order}

PCs == {"select", "drain", "done"} \cup FlushPCs
Fields == {"pc", "pos", "order", "at", "found", "tries", "waits", "last"}

\* Membership in Work, field by field.
LEMMA InWork ==
    ASSUME NEW r, r = [x \in Fields |-> r[x]],
           r.pc \in PCs, r.pos \in Nat, r.order \in Seq(Sessions), r.at \in Nat,
           r.found \in SUBSET Calls, r.tries \in 0..Retries,
           r.waits \in BOOLEAN, r.last \in BOOLEAN
    PROVE  r \in Work
  BY DEF Work, PCs, Fields

\* The fields of the consumer's work are of their types.
LEMMA OutWork ==
    ASSUME NEW w \in Work
    PROVE  /\ w.pc \in PCs /\ w.pos \in Nat /\ w.order \in Seq(Sessions) /\ w.at \in Nat
           /\ w.found \in SUBSET Calls /\ w.tries \in 0..Retries
           /\ w.waits \in BOOLEAN /\ w.last \in BOOLEAN
  BY DEF Work, PCs

\* The flush is over.
LEMMA OverPlaced ==
    ASSUME NEW b, NEW w
    PROVE  /\ Placed(Over(w), b) /\ Over(w).pc \in {"select", "done"} /\ Pending(Over(w)) = {}
<1>1. Selecting \in Work
  BY DEF Selecting, Work
<1>2. [Selecting EXCEPT !.pc = "done"] \in Work
  BY <1>1 DEF Work
<1>3. /\ Selecting.pc = "select" /\ Selecting.pos = 1 /\ Selecting.order = <<>>
      /\ [Selecting EXCEPT !.pc = "done"].pc = "done"
      /\ [Selecting EXCEPT !.pc = "done"].pos = 1
      /\ [Selecting EXCEPT !.pc = "done"].order = <<>>
  BY DEF Selecting
<1>4. CASE w.last
  BY <1>2, <1>3, <1>4 DEF Over, Placed, Pending
<1>5. CASE ~ w.last
  BY <1>1, <1>3, <1>5 DEF Over, Placed, Pending
<1> QED
  BY <1>4, <1>5

\* From any position on, the fold owes the sessions that are left.
LEMMA FoldPlaced ==
    ASSUME NEW b, NEW w \in Work, NEW i \in Nat \ {0}
    PROVE  /\ Placed(FoldFrom(w, i), b)
           /\ FoldFrom(w, i).pc \in {"upsert", "select", "done"}
           /\ Pending(FoldFrom(w, i)) = {w.order[j] : j \in i..Len(w.order)}
<1>1. w.order \in Seq(Sessions)
  BY DEF Work
<1>2. CASE i > Len(w.order)
  <2>1. {w.order[j] : j \in i..Len(w.order)} = {}
    BY <1>1, <1>2
  <2> QED
    BY <1>2, <2>1, OverPlaced DEF FoldFrom
<1>3. CASE ~ (i > Len(w.order))
  <2>1. FoldFrom(w, i) = [w EXCEPT !.pc = "upsert", !.at = i, !.tries = 0]
    BY <1>3 DEF FoldFrom
  <2> DEFINE r == FoldFrom(w, i)
  <2>a. r = [x \in Fields |-> r[x]]
    BY <2>1 DEF Work, Fields
  <2>b. /\ r.pc \in PCs /\ r.pos \in Nat /\ r.order = w.order /\ r.at \in Nat
        /\ r.found \in SUBSET Calls /\ r.tries \in 0..Retries /\ r.last = w.last
        /\ r.waits = w.waits
    BY <2>1 DEF PCs, FlushPCs, Work
  <2>2. r \in Work
    <3> HIDE DEF r
    <3> QED
      BY <2>a, <2>b, OutWork, InWork
  <2>3. FoldFrom(w, i).pc = "upsert" /\ FoldFrom(w, i).at = i /\ FoldFrom(w, i).order = w.order
    BY <2>1 DEF Work
  <2> QED
    BY <1>1, <1>3, <2>2, <2>3 DEF Placed, Pending
<1> QED
  BY <1>2, <1>3

\* From any position on, the session rule owes all the batch's sessions.
LEMMA RulePlaced ==
    ASSUME NEW b, NEW w \in Work, NEW i \in Nat \ {0}
    PROVE  /\ Placed(RuleFrom(w, i), b)
           /\ RuleFrom(w, i).pc \in {"rule", "upsert", "select", "done"}
           /\ Pending(RuleFrom(w, i)) = Sessions1(w)
<1>1. w.order \in Seq(Sessions)
  BY DEF Work
<1>2. CASE i > Len(w.order)
  <2>1. Sessions1(w) = {w.order[j] : j \in 1..Len(w.order)}
    BY <1>1 DEF Sessions1
  <2> QED
    <3>1. RuleFrom(w, i) = FoldFrom(w, 1)
      BY <1>2 DEF RuleFrom
    <3>2. /\ Placed(FoldFrom(w, 1), b)
          /\ FoldFrom(w, 1).pc \in {"upsert", "select", "done"}
          /\ Pending(FoldFrom(w, 1)) = {w.order[j] : j \in 1..Len(w.order)}
      BY FoldPlaced, 1 \in Nat \ {0}
    <3> QED
      BY <2>1, <3>1, <3>2
<1>3. CASE ~ (i > Len(w.order))
  <2>1. RuleFrom(w, i) = [w EXCEPT !.pc = "rule", !.at = i, !.found = {}, !.tries = 0]
    BY <1>3 DEF RuleFrom
  <2> DEFINE r == RuleFrom(w, i)
  <2>a. r = [x \in Fields |-> r[x]]
    BY <2>1 DEF Work, Fields
  <2>b. /\ r.pc \in PCs /\ r.pos \in Nat /\ r.order = w.order /\ r.at \in Nat
        /\ r.found \in SUBSET Calls /\ r.tries \in 0..Retries /\ r.last = w.last
        /\ r.waits = w.waits
    BY <2>1 DEF PCs, FlushPCs, Work
  <2>2. r \in Work
    <3> HIDE DEF r
    <3> QED
      BY <2>a, <2>b, OutWork, InWork
  <2>3. RuleFrom(w, i).pc = "rule" /\ RuleFrom(w, i).at = i /\ RuleFrom(w, i).order = w.order
    BY <2>1 DEF Work
  <2> QED
    BY <1>1, <1>3, <2>2, <2>3 DEF Placed, Pending, Sessions1
<1> QED
  BY <1>2, <1>3

\* After a row, the work owes the sessions it owed.
LEMMA AfterPlaced ==
    ASSUME batch \in Seq(Calls), NEW w \in Work, w.pos \in 1..Len(batch)
    PROVE  /\ Placed(AfterRow(w), batch)
           /\ AfterRow(w).pc \in {"insert", "rule", "upsert", "select", "done"}
           /\ Pending(AfterRow(w)) = Sessions1(w)
<1>1. CASE w.pos < Len(batch)
  <2>1. AfterRow(w) = [w EXCEPT !.pc = "insert", !.pos = @ + 1, !.tries = 0]
    BY <1>1 DEF AfterRow
  <2> DEFINE r == AfterRow(w)
  <2>a. r = [x \in Fields |-> r[x]]
    BY <2>1 DEF Work, Fields
  <2>b. /\ r.pc \in PCs /\ r.pos \in Nat /\ r.order = w.order /\ r.at \in Nat
        /\ r.found \in SUBSET Calls /\ r.tries \in 0..Retries /\ r.last = w.last
        /\ r.waits = w.waits
    BY <2>1 DEF PCs, FlushPCs, Work
  <2>2. r \in Work
    <3> HIDE DEF r
    <3> QED
      BY <2>a, <2>b, OutWork, InWork
  <2>3. /\ AfterRow(w).pc = "insert" /\ AfterRow(w).pos = w.pos + 1
        /\ AfterRow(w).order = w.order
    BY <2>1 DEF Work
  <2> QED
    BY <1>1, <2>2, <2>3 DEF Placed, Pending, Sessions1
<1>2. CASE ~ (w.pos < Len(batch))
  <2>1. AfterRow(w) = RuleFrom(w, 1)
    BY <1>2 DEF AfterRow
  <2>2. /\ Placed(RuleFrom(w, 1), batch)
        /\ RuleFrom(w, 1).pc \in {"rule", "upsert", "select", "done"}
        /\ Pending(RuleFrom(w, 1)) = Sessions1(w)
    BY RulePlaced, 1 \in Nat \ {0}
  <2> QED
    BY <2>1, <2>2
<1> QED
  BY <1>1, <1>2

\* A row written adds its session to those to fold.
LEMMA Touched ==
    ASSUME NEW w \in Work, owner[batch[w.pos]] \in Sessions
    PROVE  /\ Touch(w) \in Work /\ Touch(w).pos = w.pos
           /\ Sessions1(Touch(w)) = Sessions1(w) \cup {owner[batch[w.pos]]}
<1> DEFINE s == owner[batch[w.pos]]
<1>1. w.order \in Seq(Sessions)
  BY DEF Work
<1>2. CASE \E i \in DOMAIN w.order : w.order[i] = s
  BY <1>2 DEF Touch, Sessions1
<1>3. CASE ~ \E i \in DOMAIN w.order : w.order[i] = s
  <2>1. Touch(w) = [w EXCEPT !.order = Append(@, s)]
    BY <1>3 DEF Touch
  <2>2. Append(w.order, s) \in Seq(Sessions)
    BY <1>1
  <2>3. Touch(w) \in Work /\ Touch(w).pos = w.pos /\ Touch(w).order = Append(w.order, s)
    BY <2>1, <2>2 DEF Work
  <2>4. {Append(w.order, s)[i] : i \in DOMAIN Append(w.order, s)} = Sessions1(w) \cup {s}
    <3>1. /\ DOMAIN Append(w.order, s) = DOMAIN w.order \cup {Len(w.order) + 1}
          /\ \A i \in DOMAIN w.order : Append(w.order, s)[i] = w.order[i]
          /\ Append(w.order, s)[Len(w.order) + 1] = s
      BY <1>1
    <3> QED
      BY <3>1 DEF Sessions1
  <2> QED
    BY <2>3, <2>4 DEF Sessions1
<1> QED
  BY <1>2, <1>3

-----------------------------------------------------------------------------
(* Steps. *)

\* A session is accurate or due if the step leaves due, or folds, what was due
\* or what it disturbed.
LEMMA TotalsFollow ==
    ASSUME TotalsAccurate, NEW D, Touches(D),
           \A s \in Sessions : s \in D \cup Unfolded \cup tail.order =>
                s \in Due' \/ Accurate(s)'
    PROVE  TotalsAccurate'
<1> SUFFICES ASSUME NEW s \in Sessions PROVE Accurate(s)' \/ s \in Due'
  BY DEF TotalsAccurate, Due
<1>1. CASE s \in D \cup Unfolded \cup tail.order
  BY <1>1
<1>2. CASE s \in owed
  BY <1>2 DEF Touches, Due
<1>3. CASE s \notin Due /\ s \notin D
  BY <1>3 DEF TotalsAccurate, Touches, Due
<1> QED
  BY <1>1, <1>2, <1>3 DEF Due

\* The sessions a flush has to fold are those pending and the one in hand.
LEMMA UnfoldedIs ==
    Unfolded = Pending(work) \cup (IF work.pc = "warn" THEN {owner[batch[work.pos]]} ELSE {})
  BY DEF Unfolded, Pending

\* A step of the consumer leaves the tailer as it was, and so on.
LEMMA TailStays ==
    ASSUME TypeOK, TailHolds, NEW D, Touches(D), tail' = tail
    PROVE  TailHolds' /\ StoreTyped'
  BY DEF TypeOK, TailWork, TailHolds, Touches, StoreTyped

\* A step that leaves the consumer alone leaves what its work relies on.
LEMMA WorkStays ==
    ASSUME TypeOK, Placed(work, batch), WorkHolds, NEW D, Touches(D), work' = work, batch' = batch
    PROVE  WorkHolds' /\ Unfolded' = Unfolded
<1>1. work.pc \in {"insert", "warn"} => batch[work.pos] \in Calls
  BY DEF TypeOK, Placed
<1>2. work.found \subseteq Calls
  BY DEF TypeOK, Work
<1>3. WorkHolds'
  BY <1>1, <1>2 DEF WorkHolds, Touches
<1>4. work.pc = "warn" => owner'[batch[work.pos]] = owner[batch[work.pos]]
  BY <1>1 DEF WorkHolds, Touches
<1> QED
  BY <1>3, <1>4 DEF Unfolded

\* What a step of the flush that goes on at w owes to the invariant.
LEMMA Went ==
    ASSUME PipelineInv, NEW w, NEW D, Touches(D), Go(w), failed' \in Nat, Placed(w, batch),
           w.pc = "warn" => merged'[batch[w.pos]] # {},
           w.pc = "attach" =>
               \A c \in w.found : merged'[c] # {} /\ owner'[c] = w.order[w.at],
           \A s \in Sessions : s \in D \cup Unfolded =>
               \/ s \in owed' \cup Pending(w) \cup tail.order
               \/ w.pc = "warn" /\ s = owner'[batch[w.pos]]
               \/ Accurate(s)'
    PROVE  PipelineInv'
<1>1. /\ work' = w /\ tail' = tail
      /\ UNCHANGED <<fresh, queue, dropped, cancelled, processed>>
      /\ batch' = IF w.pc \in FlushPCs THEN batch ELSE <<>>
  BY DEF Go, sinkVars
<1>2. Placed(work', batch')
  BY <1>1 DEF Placed, FlushPCs
<1>3. TypeOK'
  BY <1>1 DEF PipelineInv, TypeOK, Touches, Placed
<1>4. TailHolds' /\ StoreTyped'
  BY <1>1, TailStays DEF PipelineInv
<1>5. WorkHolds'
  BY <1>1 DEF WorkHolds, FlushPCs
<1>6. /\ Pending(w) \subseteq Unfolded'
      /\ w.pc = "warn" => owner'[batch[w.pos]] \in Unfolded'
  BY <1>1 DEF Pending, Unfolded, FlushPCs
<1>7. \A s \in Sessions : s \in D \cup Unfolded \cup tail.order => s \in Due' \/ Accurate(s)'
  BY <1>1, <1>6 DEF Due
<1>8. TotalsAccurate'
  BY <1>7, TotalsFollow DEF PipelineInv
<1>9. Placed(work, batch)'
  BY <1>2 DEF Placed
<1> QED
  BY <1>3, <1>4, <1>5, <1>8, <1>9 DEF PipelineInv

-----------------------------------------------------------------------------
(* The steps of a flush, one lemma each. *)

\* In the flush, what is due is the rest of the order and the row in hand.
LEMMA InFlush ==
    ASSUME PipelineInv
    PROVE  /\ StoreTyped /\ work \in Work /\ batch \in Seq(Calls) /\ failed \in Nat
           /\ work.order \in Seq(Sessions)
           /\ work.pc \notin {"upsert", "derive", "warn"} => Unfolded = Sessions1(work)
           /\ work.pc \in {"insert", "warn"} => /\ work.pos \in 1..Len(batch)
                                               /\ batch[work.pos] \in Calls
           /\ work.pc \in {"rule", "attach", "upsert", "derive"} =>
                 work.at \in 1..Len(work.order) /\ work.order[work.at] \in Sessions
  BY OutWork DEF PipelineInv, TypeOK, Placed, Unfolded, Sessions1

\* Inserting a row keeps the invariant.
LEMMA InsertKeeps == PipelineInv /\ Insert => PipelineInv'
<1> SUFFICES ASSUME PipelineInv, Insert PROVE PipelineInv'
  OBVIOUS
<1> DEFINE c == batch[work.pos]
<1>1. /\ work.pc = "insert" /\ c \in Calls /\ Unfolded = Sessions1(work)
      /\ work.pos \in 1..Len(batch) /\ StoreTyped /\ failed \in Nat
      /\ work \in Work /\ batch \in Seq(Calls)
  BY InFlush DEF Insert
<1>2. CASE InsertEvent(c, "proxy", ProxySession[c]) /\ UNCHANGED failed
           /\ Go([work EXCEPT !.pc = "warn", !.tries = 0])
  <2> DEFINE w == [work EXCEPT !.pc = "warn", !.tries = 0]
  <2>1. Touches({owner'[c]}) /\ merged'[c] # {}
    BY <1>1, <1>2, InsertTouches DEF Sources
  <2>2. /\ w = [x \in Fields |-> w[x]]
        /\ w.pc = "warn" /\ w.pos = work.pos /\ w.order = work.order /\ w.at = work.at
        /\ w.found = work.found /\ w.tries = 0 /\ w.last = work.last
        /\ w.waits = work.waits
    BY <1>1 DEF Work, Fields
  <2>3. w \in Work
    <3> HIDE DEF w
    <3> QED
      BY <1>1, <2>2, InWork, OutWork DEF PCs, FlushPCs
  <2>4. Placed(w, batch) /\ Pending(w) = Sessions1(work)
    BY <1>1, <2>2, <2>3 DEF Placed, Pending, Sessions1
  <2> HIDE DEF w
  <2> QED
    BY <1>1, <1>2, <2>1, <2>2, <2>4, Went DEF w
<1>3. CASE failed' = failed + 1 /\ Go(AfterRow(work)) /\ UNCHANGED storeVars
  <2>1. Touches({})
    BY <1>1, <1>3, NothingTouches
  <2>2. /\ Placed(AfterRow(work), batch) /\ Pending(AfterRow(work)) = Sessions1(work)
        /\ AfterRow(work).pc \notin {"warn", "attach"}
    BY <1>1, AfterPlaced
  <2> QED
    BY <1>1, <1>3, <2>1, <2>2, Went
<1> QED
  BY <1>2, <1>3 DEF Insert

\* Storing a row's warnings keeps the invariant.
LEMMA WarnKeeps == PipelineInv /\ Warn => PipelineInv'
<1> SUFFICES ASSUME PipelineInv, Warn PROVE PipelineInv'
  OBVIOUS
<1> DEFINE c == batch[work.pos]
           t == Touch(work)
<1>1. /\ work.pc = "warn" /\ c \in Calls /\ work.pos \in 1..Len(batch)
      /\ StoreTyped /\ failed \in Nat /\ work \in Work /\ batch \in Seq(Calls)
  BY InFlush DEF Warn
<1>2. owner[c] \in Sessions /\ merged[c] # {}
  BY <1>1 DEF PipelineInv, StoreTyped, WorkHolds
<1>3. Touches({owner[c]})
  BY <1>1, <1>2, WarningsTouch, NothingTouches DEF Warn, Touches
<1>4. t \in Work /\ t.pos = work.pos /\ Sessions1(t) = Sessions1(work) \cup {owner[c]}
  BY <1>1, <1>2, Touched
<1>5. /\ Placed(AfterRow(t), batch) /\ Pending(AfterRow(t)) = Sessions1(t)
      /\ AfterRow(t).pc \notin {"warn", "attach"}
  BY <1>1, <1>4, AfterPlaced
<1>6. Unfolded = Sessions1(t)
  BY <1>1, <1>4 DEF Unfolded, Sessions1
<1>7. Go(AfterRow(t)) /\ failed' \in Nat
  BY <1>1 DEF Warn
<1> QED
  BY <1>3, <1>4, <1>5, <1>6, <1>7, Went

\* The session pass goes on after the session in hand.
LEMMA NextRule ==
    ASSUME PipelineInv, work.pc \in {"rule", "attach"}
    PROVE  /\ Placed(RuleFrom(work, work.at + 1), batch)
           /\ Pending(RuleFrom(work, work.at + 1)) = Unfolded
           /\ RuleFrom(work, work.at + 1).pc \notin {"warn", "attach"}
<1>1. work \in Work /\ work.at + 1 \in Nat \ {0} /\ Unfolded = Sessions1(work)
  BY InFlush
<1> QED
  BY <1>1, RulePlaced

\* A session's rule, whatever it finds or if it fails, keeps the invariant.
LEMMA RuleKeeps == PipelineInv /\ Rule => PipelineInv'
<1> SUFFICES ASSUME PipelineInv, Rule PROVE PipelineInv'
  OBVIOUS
<1>1. /\ work.pc = "rule" /\ Unfolded = Sessions1(work) /\ StoreTyped /\ failed \in Nat
      /\ work \in Work /\ work.at \in 1..Len(work.order)
      /\ UNCHANGED <<failed, storeVars>>
  BY InFlush DEF Rule
<1>2. Touches({})
  BY <1>1, NothingTouches
<1>3. CASE Go(RuleFrom(work, work.at + 1))
  BY <1>1, <1>2, <1>3, NextRule, Went
<1>4. ASSUME NEW found \in SUBSET {c \in Calls : merged[c] # {} /\ owner[c] = work.order[work.at]},
             Go([work EXCEPT !.pc = "attach", !.found = found, !.tries = 0])
      PROVE  PipelineInv'
  <2> DEFINE w == [work EXCEPT !.pc = "attach", !.found = found, !.tries = 0]
  <2>1. /\ w = [x \in Fields |-> w[x]]
        /\ w.pc = "attach" /\ w.pos = work.pos /\ w.order = work.order /\ w.at = work.at
        /\ w.found = found /\ w.tries = 0 /\ w.last = work.last
        /\ w.waits = work.waits
    BY <1>1 DEF Work, Fields
  <2>2. w \in Work
    <3> HIDE DEF w
    <3> QED
      BY <1>1, <2>1, InWork, OutWork DEF PCs, FlushPCs
  <2>3. Placed(w, batch) /\ Pending(w) = Sessions1(work)
    BY <1>1, <2>1, <2>2 DEF Placed, Pending, Sessions1
  <2>4. \A c \in found : merged'[c] # {} /\ owner'[c] = work.order[work.at]
    BY <1>1 DEF storeVars
  <2> HIDE DEF w
  <2> QED
    BY <1>1, <1>2, <1>4, <2>1, <2>3, <2>4, Went, ZenonT(40) DEF w
<1> QED
  BY <1>3, <1>4 DEF Rule

\* Attaching a session's warnings keeps the invariant.
LEMMA AttachKeeps == PipelineInv /\ Attach => PipelineInv'
<1> SUFFICES ASSUME PipelineInv, Attach PROVE PipelineInv'
  OBVIOUS
<1>1. /\ work.pc = "attach" /\ Unfolded = Sessions1(work) /\ StoreTyped /\ failed \in Nat
      /\ work \in Work /\ work.at \in 1..Len(work.order) /\ UNCHANGED failed
      /\ work.order[work.at] \in Sessions1(work)
  BY InFlush DEF Attach, Sessions1
<1>a. work.found \in SUBSET Calls
  BY <1>1, OutWork
<1>2. PICK c \in work.found :
         /\ \/ Succeeds /\ UpsertWarnings(c)
            \/ FailsForGood /\ UNCHANGED storeVars
         /\ Go(IF work.found = {c} THEN RuleFrom(work, work.at + 1)
               ELSE [work EXCEPT !.found = @ \ {c}, !.tries = 0])
  BY DEF Attach
<1>3. c \in Calls /\ merged[c] # {} /\ owner[c] = work.order[work.at]
  BY <1>1, OutWork DEF PipelineInv, WorkHolds
<1>4. Touches({owner[c]})
  BY <1>1, <1>2, <1>3, WarningsTouch, NothingTouches DEF Touches
<1>5. CASE work.found = {c}
  BY <1>1, <1>2, <1>3, <1>4, <1>5, NextRule, Went
<1>6. CASE work.found # {c}
  <2> DEFINE w == [work EXCEPT !.found = @ \ {c}, !.tries = 0]
  <2>1. /\ w = [x \in Fields |-> w[x]]
        /\ w.pc = "attach" /\ w.pos = work.pos /\ w.order = work.order /\ w.at = work.at
        /\ w.found = work.found \ {c} /\ w.tries = 0 /\ w.last = work.last
        /\ w.waits = work.waits
    BY <1>1 DEF Work, Fields
  <2>a. w.found \in SUBSET Calls /\ w.tries \in 0..Retries
    BY <1>a, <2>1
  <2>2. w \in Work
    <3> HIDE DEF w
    <3> QED
      BY <1>1, <2>1, <2>a, InWork, OutWork DEF PCs, FlushPCs
  <2>3. Placed(w, batch) /\ Pending(w) = Sessions1(work)
    BY <1>1, <2>1, <2>2 DEF Placed, Pending, Sessions1
  <2>4. \A d \in work.found : merged'[d] # {} /\ owner'[d] = work.order[work.at]
    BY <1>1, <1>4, OutWork DEF PipelineInv, WorkHolds, Touches
  <2>5. Go(w)
    BY <1>2, <1>6
  <2> HIDE DEF w
  <2> QED
    BY <1>1, <1>3, <1>4, <2>1, <2>3, <2>4, <2>5, Went
<1> QED
  BY <1>5, <1>6

\* The fold goes on after the session in hand.
LEMMA NextFold ==
    ASSUME PipelineInv, work.pc \in {"upsert", "derive"}
    PROVE  /\ Placed(FoldFrom(work, work.at + 1), batch)
           /\ Unfolded \subseteq {work.order[work.at]} \cup Pending(FoldFrom(work, work.at + 1))
           /\ FoldFrom(work, work.at + 1).pc \notin {"warn", "attach"}
<1>1. /\ work \in Work /\ work.at \in 1..Len(work.order) /\ work.order \in Seq(Sessions)
      /\ work.at + 1 \in Nat \ {0}
  BY InFlush
<1>2. Unfolded = {work.order[i] : i \in work.at..Len(work.order)}
  BY DEF Unfolded
<1>3. /\ Placed(FoldFrom(work, work.at + 1), batch)
      /\ FoldFrom(work, work.at + 1).pc \in {"upsert", "select", "done"}
      /\ Pending(FoldFrom(work, work.at + 1)) = {work.order[j] : j \in (work.at + 1)..Len(work.order)}
  BY <1>1, FoldPlaced
<1>4. work.at..Len(work.order) = {work.at} \cup ((work.at + 1)..Len(work.order))
  BY <1>1
<1> QED
  BY <1>2, <1>3, <1>4

\* Making sure of a session's row keeps the invariant.
LEMMA EnsureKeeps == PipelineInv /\ Ensure => PipelineInv'
<1> SUFFICES ASSUME PipelineInv, Ensure PROVE PipelineInv'
  OBVIOUS
<1> DEFINE s == work.order[work.at]
<1>1. /\ work.pc = "upsert" /\ StoreTyped /\ failed \in Nat /\ s \in Sessions
      /\ work \in Work /\ work.at \in 1..Len(work.order) /\ UNCHANGED failed
  BY InFlush DEF Ensure
<1>2. CASE UpsertSession(s) /\ Go([work EXCEPT !.pc = "derive"])
  <2> DEFINE w == [work EXCEPT !.pc = "derive"]
  <2>1. w \in Work
    BY <1>1 DEF Work, FlushPCs
  <2>2. w.pc = "derive" /\ w.order = work.order /\ w.at = work.at
    BY <1>1 DEF Work
  <2>3. Placed(w, batch) /\ Pending(w) = Unfolded
    BY <1>1, <2>1, <2>2 DEF Placed, Pending, Unfolded
  <2>4. Touches({})
    BY <1>1, <1>2, UpsertTouches
  <2> HIDE DEF w
  <2> QED
    BY <1>1, <1>2, <2>2, <2>3, <2>4, Went DEF w
<1>3. CASE Owes({s}) /\ Go(FoldFrom(work, work.at + 1))
  <2>1. Touches({}) /\ s \in owed'
    BY <1>1, <1>3, OwesTouches, ZenonT(40) DEF Owes
  <2> QED
    BY <1>1, <1>3, <2>1, NextFold, Went
<1> QED
  BY <1>2, <1>3 DEF Ensure

\* Re-deriving a session keeps the invariant.
LEMMA RederiveKeeps == PipelineInv /\ Rederive => PipelineInv'
<1> SUFFICES ASSUME PipelineInv, Rederive PROVE PipelineInv'
  OBVIOUS
<1>1. /\ work.pc = "derive" /\ StoreTyped /\ failed \in Nat
      /\ UNCHANGED failed /\ Go(FoldFrom(work, work.at + 1))
  BY InFlush DEF Rederive
<1>2. PICK s \in Sessions : s = work.order[work.at]
  BY <1>1, InFlush
<1>3. Touches({}) /\ (s \in owed' \/ Accurate(s)')
  <2>1. CASE ReconcileSession(s)
    <3>1. StoreTyped
      BY <1>1
    <3> QED
      BY <2>1, <3>1, ReconcileTouches
  <2>2. CASE Owes({s})
    BY <1>1, <2>2, OwesTouches, ZenonT(40) DEF Owes
  <2> QED
    BY <1>2, <2>1, <2>2 DEF Rederive
<1>4. \A t \in Unfolded : t = s \/ t \in Pending(FoldFrom(work, work.at + 1))
  BY <1>1, <1>2, NextFold
<1>5. /\ Placed(FoldFrom(work, work.at + 1), batch)
      /\ FoldFrom(work, work.at + 1).pc \notin {"warn", "attach"}
  BY <1>1, NextFold
<1> QED
  BY <1>1, <1>3, <1>4, <1>5, Went

\* A wait that begins keeps the invariant.
LEMMA BusyKeeps == PipelineInv /\ Busy => PipelineInv'
<1> SUFFICES ASSUME PipelineInv, Busy PROVE PipelineInv'
  OBVIOUS
<1> DEFINE w == [work EXCEPT !.waits = TRUE]
<1>1. work.pc \in FlushPCs /\ StoreTyped /\ failed \in Nat /\ work \in Work
  BY InFlush DEF Busy
<1>2. work' = w /\ UNCHANGED <<sinkVars, cancelled, countVars, batch, tail, storeVars>>
  BY DEF Busy
<1>3. /\ w = [x \in Fields |-> w[x]]
      /\ w.pc = work.pc /\ w.pos = work.pos /\ w.order = work.order /\ w.at = work.at
      /\ w.found = work.found /\ w.tries = work.tries /\ w.last = work.last
      /\ w.waits = TRUE
  BY <1>1 DEF Work, Fields
<1>4. w \in Work
  <2> HIDE DEF w
  <2> QED
    BY <1>1, <1>3, InWork, OutWork
<1>5. Placed(w, batch)
  BY <1>1, <1>3, <1>4 DEF PipelineInv, Placed, FlushPCs
<1>6. Unfolded \subseteq Pending(w) \cup (IF w.pc = "warn" THEN {owner[batch[w.pos]]} ELSE {})
  BY <1>1, <1>3 DEF Unfolded, Pending
<1>7. Touches({}) /\ UNCHANGED <<owner, merged>>
  BY <1>1, <1>2, NothingTouches DEF storeVars
<1>8. Go(w) /\ failed' = failed
  BY <1>1, <1>2, <1>3 DEF Go, countVars
<1> HIDE DEF w
<1>9. /\ w.pc = "warn" => merged'[batch[w.pos]] # {}
      /\ w.pc = "attach" =>
            \A c \in w.found : merged'[c] # {} /\ owner'[c] = w.order[w.at]
  BY <1>3, <1>7 DEF PipelineInv, WorkHolds
<1> QED
  BY <1>1, <1>3, <1>5, <1>6, <1>7, <1>8, <1>9, Went

\* A failed store call that is retried keeps the invariant.
LEMMA RetryKeeps == PipelineInv /\ Retry => PipelineInv'
<1> SUFFICES ASSUME PipelineInv, Retry PROVE PipelineInv'
  OBVIOUS
<1> DEFINE pc == IF work.pc = "derive" THEN "upsert" ELSE work.pc
           w == [work EXCEPT !.tries = @ + 1, !.waits = FALSE, !.pc = pc]
<1>1. /\ work.pc \in FlushPCs /\ pc \in FlushPCs /\ StoreTyped /\ failed \in Nat /\ work \in Work
      /\ work.tries + 1 \in 0..Retries
  BY InFlush, OutWork DEF Retry, FlushPCs
<1>2. work' = w /\ UNCHANGED <<sinkVars, cancelled, countVars, batch, tail, storeVars>>
  BY DEF Retry
<1>3. /\ w = [x \in Fields |-> w[x]]
      /\ w.pc = pc /\ w.pos = work.pos /\ w.order = work.order /\ w.at = work.at
      /\ w.found = work.found /\ w.tries = work.tries + 1 /\ w.last = work.last
      /\ w.waits = FALSE
  BY <1>1 DEF Work, Fields
<1>4. w \in Work
  <2> HIDE DEF w, pc
  <2> QED
    BY <1>1, <1>3, InWork, OutWork DEF PCs
<1>5. Placed(w, batch)
  BY <1>1, <1>3, <1>4 DEF PipelineInv, Placed, FlushPCs
<1>6. /\ Unfolded \subseteq Pending(w) \cup (IF pc = "warn" THEN {owner[batch[work.pos]]} ELSE {})
      /\ pc = "warn" => work.pc = "warn"
      /\ pc = "attach" => work.pc = "attach"
  BY <1>1, <1>3 DEF Unfolded, Pending
<1>7. Touches({}) /\ UNCHANGED <<owner, merged>>
  BY <1>1, <1>2, NothingTouches DEF storeVars
<1>8. Go(w) /\ failed' = failed
  BY <1>1, <1>2, <1>3 DEF Go, countVars
<1> HIDE DEF w, pc
<1>9. /\ w.pc = "warn" => merged'[batch[w.pos]] # {}
      /\ w.pc = "attach" =>
            \A c \in w.found : merged'[c] # {} /\ owner'[c] = w.order[w.at]
  BY <1>3, <1>6, <1>7 DEF PipelineInv, WorkHolds
<1> QED
  BY <1>1, <1>3, <1>5, <1>6, <1>7, <1>8, <1>9, Went

\* Giving up at a cancellation keeps the invariant.
LEMMA GiveUpKeeps == PipelineInv /\ GiveUp => PipelineInv'
<1> SUFFICES ASSUME PipelineInv, GiveUp PROVE PipelineInv'
  OBVIOUS
<1>1. StoreTyped /\ failed \in Nat /\ work.pc \in FlushPCs
  BY InFlush DEF GiveUp
<1>2. PICK S \in SUBSET Sessions : S = Unfolded
  <2>1. work.order \in Seq(Sessions) /\ (work.pc = "warn" => owner[batch[work.pos]] \in Sessions)
    BY <1>1, InFlush DEF StoreTyped
  <2>2. \A i \in DOMAIN work.order : work.order[i] \in Sessions
    BY <2>1
  <2>3. CASE work.pc \in {"upsert", "derive"}
    <3>1. work.at..Len(work.order) \subseteq DOMAIN work.order
      BY <2>1, <2>3, InFlush
    <3> QED
      BY <2>2, <2>3, <3>1 DEF Unfolded
  <2>4. CASE work.pc \notin {"upsert", "derive"}
    BY <2>1, <2>2, <2>4 DEF Unfolded
  <2> QED
    BY <2>3, <2>4
<1>3. FailsRest \in Nat
  BY InFlush DEF FailsRest, Untried
<1>4. Touches({}) /\ S \subseteq owed'
  BY <1>1, <1>2, OwesTouches DEF GiveUp, Owes
<1>5. Go(Over(work)) /\ failed' \in Nat
  BY <1>1, <1>3 DEF GiveUp
<1> QED
  BY <1>2, <1>4, <1>5, OverPlaced, Went

-----------------------------------------------------------------------------
(* The consumer outside a flush, the proxy and the context. *)

\* Outside a flush nothing is in hand and the store is left alone.
LEMMA Looped ==
    ASSUME PipelineInv, work.pc \in {"select", "drain"},
           UNCHANGED <<fresh, dropped, cancelled, failed, tail, storeVars>>,
           queue' \in Seq(Calls), Len(queue') <= Capacity, processed' \in Nat,
           batch' \in Seq(Calls), Placed(work', batch'), work'.pc \notin {"warn", "attach"}
    PROVE  PipelineInv'
<1>1. Touches({})
  BY NothingTouches DEF PipelineInv
<1>2. TypeOK'
  BY DEF PipelineInv, TypeOK, Placed, storeVars
<1>3. TailHolds' /\ StoreTyped' /\ WorkHolds'
  BY <1>1, TailStays DEF PipelineInv, WorkHolds
<1>4. Unfolded = {}
  BY DEF PipelineInv, Placed, Unfolded
<1>5. TotalsAccurate'
  BY <1>1, <1>4, TotalsFollow DEF PipelineInv, Due
<1>6. Placed(work, batch)'
  BY DEF Placed
<1> QED
  BY <1>2, <1>3, <1>5, <1>6 DEF PipelineInv

\* Taking a call: the batch is longer by one, the channel shorter.
LEMMA Taken ==
    ASSUME PipelineInv, Take
    PROVE  /\ queue' \in Seq(Calls) /\ Len(queue') <= Capacity /\ processed' \in Nat
           /\ batch' \in Seq(Calls) /\ Len(batch') = Len(batch) + 1
<1>1. /\ queue \in Seq(Calls) /\ Len(queue) <= Capacity /\ queue # <<>>
      /\ batch \in Seq(Calls) /\ processed \in Nat
      /\ batch' = Append(batch, Head(queue)) /\ queue' = Tail(queue) /\ processed' = processed + 1
  BY DEF PipelineInv, TypeOK, Take
<1>2. Head(queue) \in Calls /\ Tail(queue) \in Seq(Calls) /\ Len(Tail(queue)) = Len(queue) - 1
  BY <1>1
<1> QED
  BY <1>1, <1>2

\* A flush that has not begun.
LEMMA FreshWork ==
    ASSUME NEW r, r = [x \in Fields |-> r[x]], r.pc = "insert", r.pos = 1, r.order = <<>>,
           r.at = 1, r.found = {}, r.tries = 0,
           r.waits = FALSE, r.last \in BOOLEAN
    PROVE  r \in Work
<1>1. r.pc \in PCs
  BY DEF PCs, FlushPCs
<1>2. r.order \in Seq(Sessions)
  <2>1. <<>> \in Seq(Sessions)
    OBVIOUS
  <2> QED
    BY <2>1
<1>3. r.tries \in 0..Retries
  <2>1. 0 \in 0..Retries
    OBVIOUS
  <2> QED
    BY <2>1
<1>4. r.pos \in Nat /\ r.at \in Nat
  OBVIOUS
<1>5. r.found \in SUBSET Calls
  OBVIOUS
<1> QED
  BY <1>1, <1>2, <1>3, <1>4, <1>5, InWork

\* Filling, draining and returning keep the invariant.
LEMMA LoopKeeps == PipelineInv /\ Loop => PipelineInv'
<1> SUFFICES ASSUME PipelineInv, Loop PROVE PipelineInv'
  OBVIOUS
<1> USE DEF sinkVars, countVars
<1>1. /\ work \in Work
      /\ work.pc \in {"select", "drain"} => work.pos = 1 /\ work.order = <<>>
      /\ queue \in Seq(Calls) /\ Len(queue) <= Capacity /\ processed \in Nat
      /\ batch \in Seq(Calls)
  BY DEF PipelineInv, Placed, TypeOK
<1>2. ASSUME NEW pc \in PCs
      PROVE  /\ [work EXCEPT !.pc = pc] \in Work /\ [work EXCEPT !.pc = pc].pc = pc
             /\ [work EXCEPT !.pc = pc].pos = work.pos
             /\ [work EXCEPT !.pc = pc].order = work.order
  BY <1>1 DEF Work, PCs
<1>3. CASE Receive
  <2>1. /\ Placed(work', batch') /\ work'.pc \in {"select", "insert"}
    <3>1. Len(batch') = Len(batch) + 1 /\ work.pc = "select"
      BY <1>3, Taken DEF Receive
    <3>2. work' = work \/ work' = [work EXCEPT !.pc = "insert"]
      BY <1>3 DEF Receive
    <3>3. 1 \in 1..Len(batch')
      BY <1>1, <3>1
    <3>4. CASE work' = work
      BY <1>1, <3>1, <3>4 DEF Placed
    <3>5. CASE work' = [work EXCEPT !.pc = "insert"]
      <4>1. work' \in Work /\ work'.pc = "insert" /\ work'.pos = 1
        BY <1>1, <1>2, <3>1, <3>5 DEF PCs, FlushPCs
      <4> QED
        BY <3>3, <4>1 DEF Placed
    <3> QED
      BY <3>2, <3>4, <3>5
  <2> QED
    BY <1>3, <2>1, Taken, Looped DEF Receive, Take
<1>4. CASE Quiet
  <2>1. Placed(work', batch') /\ work'.pc = "insert"
    BY <1>1, <1>2, <1>4 DEF Quiet, QuietFlushes, Placed, PCs, FlushPCs
  <2> QED
    BY <1>1, <1>4, <2>1, Looped DEF Quiet
<1>5. CASE Stop
  <2>1. Placed(work', batch') /\ work'.pc = "drain"
    BY <1>1, <1>2, <1>5 DEF Stop, Placed, PCs
  <2> QED
    BY <1>1, <1>5, <2>1, Looped DEF Stop
<1>6. CASE Drain
  <2>1. Placed(work', batch') /\ work'.pc = "drain"
    BY <1>1, <1>6 DEF Drain, Placed
  <2> QED
    BY <1>6, <2>1, Taken, Looped DEF Drain, Take
<1>7. CASE DrainOver
  <2>1. Placed(work', batch') /\ work'.pc \in {"done", "insert"}
    <3>1. Selecting \in Work
      BY DEF Selecting, Work
    <3>2. CASE batch = <<>>
      <4>1. work' = [Selecting EXCEPT !.pc = "done"]
        BY <1>7, <3>2 DEF DrainOver, Drained
      <4>2. work' \in Work /\ work'.pc = "done" /\ work'.pos = 1 /\ work'.order = <<>>
        BY <3>1, <4>1 DEF Work, Selecting
      <4> QED
        BY <4>2 DEF Placed
    <3>3. CASE batch # <<>>
      <4>1. work' = LastFlush /\ batch' = batch
        BY <1>7, <3>3 DEF DrainOver, Drained
      <4>2. /\ LastFlush = [x \in Fields |-> LastFlush[x]]
            /\ LastFlush.pc = "insert" /\ LastFlush.pos = 1 /\ LastFlush.order = <<>>
            /\ LastFlush.at = 1 /\ LastFlush.found = {} /\ LastFlush.tries = 0
            /\ LastFlush.waits = FALSE
        BY DEF LastFlush, Selecting, Fields
      <4>3. LastFlush.last \in BOOLEAN
        BY DEF LastFlush, Selecting
      <4>4. LastFlush \in Work
        BY <4>2, <4>3, FreshWork
      <4> QED
        BY <1>1, <3>3, <4>1, <4>2, <4>4 DEF Placed
    <3> QED
      BY <3>2, <3>3
  <2> QED
    BY <1>1, <1>7, <2>1, Looped DEF DrainOver
<1> QED
  BY <1>3, <1>4, <1>5, <1>6, <1>7 DEF Loop

\* Submissions and the cancellation keep the invariant.
LEMMA OutsideKeeps ==
    ASSUME PipelineInv, (\E c \in Calls : Submit(c)) \/ Cancel \/ UNCHANGED vars
    PROVE  PipelineInv'
<1> USE DEF countVars
<1>1. UNCHANGED <<countVars, batch, work, tail, storeVars>>
  BY DEF Submit, Cancel, vars
<1>2. fresh' \subseteq Calls /\ queue' \in Seq(Calls) /\ Len(queue') <= Capacity
      /\ dropped' \in Nat /\ cancelled' \in BOOLEAN
  <2>1. CASE \E c \in Calls : Submit(c)
    <3>1. PICK c \in Calls : Submit(c)
      BY <2>1
    <3>2. /\ queue \in Seq(Calls) /\ Len(queue) <= Capacity /\ fresh \subseteq Calls
          /\ dropped \in Nat /\ cancelled \in BOOLEAN
      BY DEF PipelineInv, TypeOK
    <3>3. Append(queue, c) \in Seq(Calls) /\ Len(Append(queue, c)) = Len(queue) + 1
      BY <3>2
    <3> QED
      BY <3>1, <3>2, <3>3, SMTT(30) DEF Submit, HasRoom
  <2>2. CASE Cancel \/ UNCHANGED vars
    BY <2>2 DEF PipelineInv, TypeOK, Cancel, vars, sinkVars
  <2> QED
    BY <2>1, <2>2
<1>3. Touches({})
  BY <1>1, NothingTouches DEF PipelineInv
<1>4. TypeOK'
  BY <1>1, <1>2 DEF PipelineInv, TypeOK, storeVars
<1>5. /\ TailHolds' /\ StoreTyped' /\ WorkHolds' /\ Unfolded' = Unfolded
  BY <1>1, <1>3, TailStays, WorkStays DEF PipelineInv
<1>6. TotalsAccurate'
  BY <1>1, <1>3, <1>5, TotalsFollow DEF PipelineInv, Due
<1>7. Placed(work, batch)'
  BY <1>1 DEF PipelineInv, Placed
<1> QED
  BY <1>4, <1>5, <1>6, <1>7 DEF PipelineInv

-----------------------------------------------------------------------------
(* The tailer. *)

TailPCs == {"idle", "insert", "warn", "upsert", "derive"}
TailFields == {"pc", "todo", "call", "order", "at"}

\* A record with the tailer's fields is tailer's work.
LEMMA InTailWork ==
    ASSUME NEW r, r = [x \in TailFields |-> r[x]],
           r.pc \in TailPCs, r.todo \in SUBSET Lines, r.call \in Calls,
           r.order \in SUBSET Sessions, r.at \in Sessions
    PROVE  r \in TailWork
  BY DEF TailWork, TailPCs, TailFields

\* The fields of the tailer's work are of their types.
LEMMA OutTailWork ==
    ASSUME NEW r \in TailWork
    PROVE  /\ r.pc \in TailPCs /\ r.todo \in SUBSET Lines /\ r.call \in Calls
           /\ r.order \in SUBSET Sessions /\ r.at \in Sessions
  BY DEF TailWork, TailPCs

\* What a step of the tailer that goes on at t owes to the invariant.
LEMMA Tailed ==
    ASSUME PipelineInv, NEW t \in TailWork, NEW D, Touches(D), TailStep(t),
           t.pc = "warn" => merged'[t.call] # {} /\ owner'[t.call] \in t.order,
           t.pc \in {"upsert", "derive"} => t.at \in t.order,
           \A s \in Sessions : s \in D \cup tail.order =>
               s \in owed' \cup t.order \/ Accurate(s)'
    PROVE  PipelineInv'
<1>1. tail' = t /\ UNCHANGED <<sinkVars, cancelled, countVars, batch, work>>
  BY DEF TailStep
<1>2. TypeOK'
  BY <1>1 DEF PipelineInv, TypeOK, Touches, sinkVars, countVars
<1>3. TailHolds'
  BY <1>1 DEF TailHolds
<1>4. StoreTyped'
  BY DEF Touches, StoreTyped
<1>5. WorkHolds' /\ Unfolded' = Unfolded
  BY <1>1, WorkStays DEF PipelineInv
<1>6. TotalsAccurate'
  BY <1>1, <1>5, TotalsFollow DEF PipelineInv, Due
<1>7. Placed(work, batch)'
  BY <1>1 DEF PipelineInv, Placed
<1> QED
  BY <1>2, <1>3, <1>4, <1>5, <1>6, <1>7 DEF PipelineInv

\* The invariant's parts about the tailer.
LEMMA InTail ==
    ASSUME PipelineInv
    PROVE  StoreTyped /\ tail \in TailWork /\ TailHolds
  BY DEF PipelineInv, TypeOK

\* A poll that finds lines keeps the invariant.
LEMMA PollKeeps ==
    ASSUME PipelineInv, NEW S \in SUBSET Lines, Poll(S)
    PROVE  PipelineInv'
<1> DEFINE t == [tail EXCEPT !.pc = "insert", !.todo = S]
<1>1. /\ t = [x \in TailFields |-> t[x]]
      /\ t.pc = "insert" /\ t.todo = S /\ t.call = tail.call /\ t.order = tail.order
      /\ t.at = tail.at
  BY InTail DEF TailWork, TailFields
<1>2. Touches({}) /\ TailStep(t)
  BY InTail, NothingTouches DEF Poll
<1> HIDE DEF t
<1>3. t \in TailWork
  BY <1>1, InTail, InTailWork, OutTailWork DEF TailPCs
<1> QED
  BY <1>1, <1>2, <1>3, Tailed

\* Storing a line keeps the invariant.
LEMMA TailInsertKeeps ==
    ASSUME PipelineInv, NEW c \in Lines, TailInsert(c)
    PROVE  PipelineInv'
<1>1. c \in Calls /\ StoreTyped /\ tail \in TailWork /\ tail.pc = "insert"
  BY InTail DEF TailInsert
<1>2. CASE /\ InsertEvent(c, "jsonl", TailSession[c])
           /\ TailStep([tail EXCEPT !.pc = "warn", !.call = c, !.todo = @ \ {c},
                                    !.order = @ \cup {owner'[c]}])
  <2>1. Touches({owner'[c]}) /\ merged'[c] # {}
    BY <1>1, <1>2, InsertTouches DEF Sources
  <2>2. PICK s \in Sessions : s = owner'[c]
    BY <1>1, <2>1 DEF Touches
  <2> DEFINE t == [tail EXCEPT !.pc = "warn", !.call = c, !.todo = @ \ {c}, !.order = @ \cup {s}]
  <2>3. /\ t = [x \in TailFields |-> t[x]]
        /\ t.pc = "warn" /\ t.todo = tail.todo \ {c} /\ t.call = c
        /\ t.order = tail.order \cup {s} /\ t.at = tail.at
    BY <1>1 DEF TailWork, TailFields
  <2>4. TailStep(t)
    BY <1>2, <2>2
  <2> HIDE DEF t
  <2>5. /\ t.todo \in SUBSET Lines /\ t.order \in SUBSET Sessions /\ t.at \in Sessions
        /\ t.pc \in TailPCs
    BY <1>1, <2>3, OutTailWork DEF TailPCs
  <2>6. t \in TailWork
    BY <1>1, <2>3, <2>5, InTailWork
  <2> QED
    BY <1>1, <2>1, <2>2, <2>3, <2>4, <2>6, Tailed
<1>3. CASE TailStep([tail EXCEPT !.todo = @ \ {c}]) /\ UNCHANGED storeVars
  <2> DEFINE t == [tail EXCEPT !.todo = @ \ {c}]
  <2>1. t \in TailWork /\ t.pc = "insert" /\ t.order = tail.order
    BY <1>1 DEF TailWork
  <2>2. Touches({})
    BY <1>1, <1>3, NothingTouches
  <2> HIDE DEF t
  <2> QED
    BY <1>3, <2>1, <2>2, Tailed DEF t
<1> QED
  BY <1>2, <1>3 DEF TailInsert

\* Storing a line's warnings keeps the invariant.
LEMMA TailWarnKeeps == PipelineInv /\ TailWarn => PipelineInv'
<1> SUFFICES ASSUME PipelineInv, TailWarn PROVE PipelineInv'
  OBVIOUS
<1> DEFINE t == [tail EXCEPT !.pc = "insert"]
           c == tail.call
<1>1. StoreTyped /\ tail \in TailWork /\ tail.pc = "warn" /\ TailStep(t)
  BY InTail DEF TailWarn
<1>2. c \in Calls /\ merged[c] # {} /\ owner[c] \in tail.order
  BY <1>1, InTail, OutTailWork DEF TailHolds
<1>3. Touches({owner[c]})
  BY <1>1, <1>2, WarningsTouch, NothingTouches DEF TailWarn, Touches
<1>4. t \in TailWork /\ t.pc = "insert" /\ t.order = tail.order
  BY <1>1 DEF TailWork
<1> HIDE DEF t
<1> QED
  BY <1>1, <1>2, <1>3, <1>4, Tailed

\* Turning to the next session to fold keeps the invariant.
LEMMA TailFoldKeeps == PipelineInv /\ TailFold => PipelineInv'
<1> SUFFICES ASSUME PipelineInv, TailFold PROVE PipelineInv'
  OBVIOUS
<1>1. StoreTyped /\ tail \in TailWork /\ Touches({})
  BY InTail, NothingTouches DEF TailFold
<1>2. ASSUME NEW s \in tail.order, TailStep([tail EXCEPT !.pc = "upsert", !.at = s])
      PROVE  PipelineInv'
  <2> DEFINE t == [tail EXCEPT !.pc = "upsert", !.at = s]
  <2>1. /\ t = [x \in TailFields |-> t[x]]
        /\ t.pc = "upsert" /\ t.todo = tail.todo /\ t.call = tail.call
        /\ t.order = tail.order /\ t.at = s
    BY <1>1 DEF TailWork, TailFields
  <2> HIDE DEF t
  <2>2. t \in TailWork
    BY <1>1, <2>1, InTailWork, OutTailWork DEF TailPCs
  <2>3. TailStep(t)
    BY <1>2 DEF t
  <2> QED
    BY <1>1, <2>1, <2>2, <2>3, Tailed
<1>3. CASE tail.order = {} /\ TailStep(Idle)
  <2>1. Idle \in TailWork /\ Idle.pc = "idle"
    BY DEF Idle, AnyCall, TailWork
  <2> QED
    BY <1>1, <1>3, <2>1, Tailed
<1> QED
  BY <1>2, <1>3 DEF TailFold

\* The tailer is done with the session in hand.
LEMMA Folded ==
    ASSUME PipelineInv, NEW s \in Sessions, s = tail.at, Touches({}),
           TailStep([tail EXCEPT !.pc = "insert", !.order = @ \ {tail.at}]),
           s \in owed' \/ Accurate(s)'
    PROVE  PipelineInv'
<1> DEFINE t == [tail EXCEPT !.pc = "insert", !.order = @ \ {tail.at}]
<1>1. /\ t = [x \in TailFields |-> t[x]]
      /\ t.pc = "insert" /\ t.todo = tail.todo /\ t.call = tail.call
      /\ t.order = tail.order \ {s} /\ t.at = tail.at
  BY InTail DEF TailWork, TailFields
<1>2. TailStep(t)
  OBVIOUS
<1> HIDE DEF t
<1>3. t.order \in SUBSET Sessions /\ t.pc \in TailPCs
  BY <1>1, InTail, OutTailWork DEF TailPCs
<1>4. t \in TailWork
  BY <1>1, <1>3, InTail, InTailWork, OutTailWork
<1> QED
  BY <1>1, <1>2, <1>4, Tailed

\* The tailer's making sure of a session keeps the invariant.
LEMMA TailEnsureKeeps == PipelineInv /\ TailEnsure => PipelineInv'
<1> SUFFICES ASSUME PipelineInv, TailEnsure PROVE PipelineInv'
  OBVIOUS
<1>1. StoreTyped /\ tail \in TailWork /\ tail.pc = "upsert" /\ tail.at \in tail.order
  BY InTail DEF TailEnsure, TailHolds
<1>2. tail.at \in Sessions
  BY <1>1, OutTailWork
<1>3. CASE UpsertSession(tail.at) /\ TailStep([tail EXCEPT !.pc = "derive"])
  <2> DEFINE t == [tail EXCEPT !.pc = "derive"]
  <2>1. t \in TailWork /\ t.pc = "derive" /\ t.order = tail.order /\ t.at = tail.at
    BY <1>1 DEF TailWork
  <2>2. Touches({})
    BY <1>1, <1>2, <1>3, UpsertTouches
  <2> HIDE DEF t
  <2> QED
    BY <1>1, <1>3, <2>1, <2>2, Tailed DEF t
<1>4. CASE Owes({tail.at}) /\ TailStep([tail EXCEPT !.pc = "insert", !.order = @ \ {tail.at}])
  <2>1. PICK s \in Sessions : s = tail.at
    BY <1>2
  <2>2. Owes({s})
    BY <1>4, <2>1
  <2>3. Touches({})
    BY <1>1, <2>2, OwesTouches
  <2>4. s \in owed'
    BY <2>2 DEF Owes
  <2> QED
    BY <1>4, <2>1, <2>3, <2>4, Folded
<1> QED
  BY <1>3, <1>4 DEF TailEnsure

\* The tailer's re-deriving of a session keeps the invariant.
LEMMA TailRederiveKeeps == PipelineInv /\ TailRederive => PipelineInv'
<1> SUFFICES ASSUME PipelineInv, TailRederive PROVE PipelineInv'
  OBVIOUS
<1>1. /\ StoreTyped /\ tail \in TailWork /\ tail.pc = "derive" /\ tail.at \in tail.order
      /\ TailStep([tail EXCEPT !.pc = "insert", !.order = @ \ {tail.at}])
  BY InTail DEF TailRederive, TailHolds
<1>2. PICK s \in Sessions : s = tail.at
  BY <1>1, OutTailWork
<1>3. Touches({}) /\ (s \in owed' \/ Accurate(s)')
  <2>1. CASE ReconcileSession(s)
    <3>1. StoreTyped
      BY <1>1
    <3> QED
      BY <2>1, <3>1, ReconcileTouches
  <2>2. CASE Owes({s})
    <3>1. StoreTyped
      BY <1>1
    <3>2. Touches({})
      BY <2>2, <3>1, OwesTouches
    <3> QED
      BY <2>2, <3>2 DEF Owes
  <2> QED
    BY <1>2, <2>1, <2>2 DEF TailRederive
<1> QED
  BY <1>1, <1>2, <1>3, Folded

-----------------------------------------------------------------------------
\* The first state satisfies the invariant.
LEMMA InitHolds == Init => PipelineInv
<1> SUFFICES ASSUME Init PROVE PipelineInv
  OBVIOUS
<1>1. Selecting \in Work /\ Selecting.pc = "select" /\ Selecting.pos = 1 /\ Selecting.order = <<>>
  BY DEF Selecting, Work
<1>2. Idle \in TailWork /\ Idle.pc = "idle"
  BY DEF Idle, AnyCall, TailWork
<1>3. Unknown \in Totals /\ Unknown.rows = [c \in Calls |-> {}] /\ Unknown.warned = {}
  BY DEF Unknown, Totals
<1>4. TypeOK /\ StoreTyped
  <2>1. /\ merged \in [Calls -> SUBSET Sources] /\ owner \in [Calls -> Sessions]
        /\ warned \in SUBSET Calls /\ owed \in SUBSET Sessions
    BY PipelineAssumption DEF Init
  <2>2. totals \in [Sessions -> Totals]
    BY <1>3 DEF Init
  <2>3. queue \in Seq(Calls) /\ Len(queue) <= Capacity /\ batch \in Seq(Calls)
    BY PipelineAssumption DEF Init
  <2> QED
    BY <1>1, <1>2, <2>1, <2>2, <2>3 DEF Init, TypeOK, StoreTyped
<1>5. Placed(work, batch) /\ WorkHolds /\ TailHolds
  BY <1>1, <1>2 DEF Init, Placed, WorkHolds, TailHolds
<1>6. ASSUME NEW s \in Sessions PROVE Accurate(s)
  <2>1. Derived(merged, owner, warned, s).rows = [c \in Calls |-> {}]
    BY DEF Init, Derived
  <2>2. Derived(merged, owner, warned, s).warned = {}
    BY DEF Init, Derived
  <2>3. totals[s] = Unknown
    BY DEF Init
  <2> QED
    BY <1>3, <2>1, <2>2, <2>3 DEF Accurate
<1> QED
  BY <1>4, <1>5, <1>6 DEF PipelineInv, TotalsAccurate

\* Every step keeps the invariant.
LEMMA StepKeeps == PipelineInv /\ [Next]_vars => PipelineInv'
<1> SUFFICES ASSUME PipelineInv, [Next]_vars PROVE PipelineInv'
  OBVIOUS
<1>1. CASE (\E c \in Calls : Submit(c)) \/ Cancel \/ UNCHANGED vars
  BY <1>1, OutsideKeeps
<1>2. CASE Loop
  BY <1>2, LoopKeeps
<1>3. CASE FlushStep
  BY <1>3, InsertKeeps, WarnKeeps, RuleKeeps, AttachKeeps, EnsureKeeps, RederiveKeeps,
     BusyKeeps, RetryKeeps, GiveUpKeeps DEF FlushStep, Attempt
<1>4. CASE \E S \in SUBSET Lines : Poll(S)
  BY <1>4, PollKeeps
<1>5. CASE TailerStep
  BY <1>5, TailInsertKeeps, TailWarnKeeps, TailFoldKeeps, TailEnsureKeeps, TailRederiveKeeps
     DEF TailerStep
<1> QED
  BY <1>1, <1>2, <1>3, <1>4, <1>5 DEF Next

(* Every variable keeps its type: among others, the channel never holds more *)
(* than its capacity and a flush never looks beyond its batch.               *)
THEOREM PipelineTyping == Spec => []TypeOK
<1>1. Spec => []PipelineInv
  BY InitHolds, StepKeeps, PTL DEF Spec
<1>2. PipelineInv => TypeOK
  BY DEF PipelineInv
<1> QED
  BY <1>1, <1>2, PTL

(* In whatever order the consumer and the tailer write, merge and fold, and  *)
(* whichever store calls fail, a session's totals are what its rows and      *)
(* warnings add up to, or a writer still has to fold it or gave it up.       *)
THEOREM TotalsAlwaysAccurate == Spec => []TotalsAccurate
<1>1. Spec => []PipelineInv
  BY InitHolds, StepKeeps, PTL DEF Spec
<1>2. PipelineInv => TotalsAccurate
  BY DEF PipelineInv
<1> QED
  BY <1>1, <1>2, PTL

-----------------------------------------------------------------------------
(* The counts.  The invariant is a relation between values: fr calls the   *)
(* proxy has, q the channel, d, p and f the counters, W the calls with a row, *)
(* b the batch, of which the rows from F on have not been tried yet.       *)

Apart3(fr, q, W, b, F) ==
    /\ \A i, j \in 1..Len(q) : q[i] = q[j] => i = j
    /\ \A i, j \in F..Len(b) : b[i] = b[j] => i = j
    /\ \A i \in 1..Len(q) : q[i] \notin fr /\ q[i] \notin W
    /\ \A i \in 1..Len(q) : \A j \in F..Len(b) : q[i] # b[j]
    /\ \A j \in F..Len(b) : b[j] \notin fr /\ b[j] \notin W
    /\ fr \cap W = {}

Counts(fr, q, d, p, f, W, b, F) ==
    /\ fr \in SUBSET Calls /\ W \in SUBSET Calls
    /\ q \in Seq(Calls) /\ b \in Seq(Calls) /\ F \in 1..(Len(b) + 1)
    /\ d \in Nat /\ p \in Nat /\ f \in Nat
    /\ Apart3(fr, q, W, b, F)
    /\ Cardinality(Calls) = Cardinality(fr) + d + Len(q) + p
    /\ p = f + Cardinality(W) + (Len(b) + 1 - F)

\* The first row of the batch that has not been tried.
First(w, b) ==
    CASE w.pc \in {"select", "drain"} -> 1
      [] w.pc = "insert" -> w.pos
      [] w.pc = "warn" -> w.pos + 1
      [] OTHER -> Len(b) + 1

Counted == Counts(fresh, queue, dropped, processed, failed, Written, batch, First(work, batch))

CountInv == PipelineInv /\ Counted

-----------------------------------------------------------------------------
(* How the values may change. *)

\* Every set of calls is finite.
LEMMA FiniteParts ==
    ASSUME NEW S \in SUBSET Calls
    PROVE  IsFiniteSet(S) /\ Cardinality(S) \in Nat
  BY PipelineAssumption, FS_Subset, FS_CardinalityType

\* The channel accepts a call.
LEMMA Accepted ==
    ASSUME NEW fr, NEW q, NEW d, NEW p, NEW f, NEW W, NEW b, NEW F,
           Counts(fr, q, d, p, f, W, b, F), NEW c \in fr
    PROVE  Counts(fr \ {c}, Append(q, c), d, p, f, W, b, F)
<1>1. c \in Calls /\ q \in Seq(Calls) /\ fr \in SUBSET Calls
  BY DEF Counts
<1>2. /\ Append(q, c) \in Seq(Calls) /\ Len(Append(q, c)) = Len(q) + 1
      /\ Append(q, c)[Len(q) + 1] = c
      /\ \A i \in 1..Len(q) : Append(q, c)[i] = q[i]
  BY <1>1
<1>3. Cardinality(fr \ {c}) = Cardinality(fr) - 1 /\ Cardinality(fr) \in Nat
  BY <1>1, FiniteParts, FS_RemoveElement
<1>4. \A i \in 1..Len(q) : q[i] # c
  BY DEF Counts, Apart3
<1>5. c \notin W /\ \A j \in F..Len(b) : b[j] # c
  BY DEF Counts, Apart3
<1>6. \A i \in 1..(Len(q) + 1) : i \in 1..Len(q) \/ i = Len(q) + 1
  BY <1>1
<1>7. Apart3(fr \ {c}, Append(q, c), W, b, F)
  <2>1. \A i, j \in 1..Len(Append(q, c)) : Append(q, c)[i] = Append(q, c)[j] => i = j
    BY <1>2, <1>4, <1>6, SMTT(30) DEF Counts, Apart3
  <2>2. \A i \in 1..Len(Append(q, c)) : /\ Append(q, c)[i] \notin fr \ {c}
                                        /\ Append(q, c)[i] \notin W
                                        /\ \A j \in F..Len(b) : Append(q, c)[i] # b[j]
    BY <1>2, <1>5, <1>6 DEF Counts, Apart3
  <2> QED
    BY <2>1, <2>2 DEF Counts, Apart3
<1>8. Len(q) \in Nat /\ d \in Nat /\ p \in Nat /\ f \in Nat
  BY <1>1 DEF Counts
<1>9. Cardinality(Calls) = Cardinality(fr \ {c}) + d + Len(Append(q, c)) + p
  <2>1. Cardinality(Calls) = Cardinality(fr) + d + Len(q) + p
    BY DEF Counts
  <2> QED BY <1>2, <1>3, <1>8, <2>1
<1> QED
  BY <1>1, <1>2, <1>7, <1>9 DEF Counts

\* The channel refuses a call.
LEMMA Refused ==
    ASSUME NEW fr, NEW q, NEW d, NEW p, NEW f, NEW W, NEW b, NEW F,
           Counts(fr, q, d, p, f, W, b, F), NEW c \in fr
    PROVE  Counts(fr \ {c}, q, d + 1, p, f, W, b, F)
<1>1. c \in Calls /\ q \in Seq(Calls) /\ fr \in SUBSET Calls /\ d \in Nat /\ p \in Nat
  BY DEF Counts
<1>2. Cardinality(fr \ {c}) = Cardinality(fr) - 1 /\ Cardinality(fr) \in Nat
  BY <1>1, FiniteParts, FS_RemoveElement
<1>3. Apart3(fr \ {c}, q, W, b, F)
  BY DEF Counts, Apart3
<1>4. Len(q) \in Nat
  BY <1>1
<1> QED
  BY <1>1, <1>2, <1>3, <1>4 DEF Counts

\* The consumer takes a call.
LEMMA TakenOut ==
    ASSUME NEW fr, NEW q, NEW d, NEW p, NEW f, NEW W, NEW b,
           Counts(fr, q, d, p, f, W, b, 1), q # <<>>
    PROVE  Counts(fr, Tail(q), d, p + 1, f, W, Append(b, Head(q)), 1)
<1>1. q \in Seq(Calls) /\ b \in Seq(Calls) /\ Len(q) \in Nat \ {0} /\ Len(b) \in Nat
  BY DEF Counts
<1>2. /\ Tail(q) \in Seq(Calls) /\ Len(Tail(q)) = Len(q) - 1
      /\ Head(q) = q[1] /\ Head(q) \in Calls
      /\ \A i \in 1..Len(Tail(q)) : Tail(q)[i] = q[i + 1]
  BY <1>1
<1>3. /\ Append(b, Head(q)) \in Seq(Calls) /\ Len(Append(b, Head(q))) = Len(b) + 1
      /\ Append(b, Head(q))[Len(b) + 1] = Head(q)
      /\ \A j \in 1..Len(b) : Append(b, Head(q))[j] = b[j]
  BY <1>1, <1>2
<1>4. \A j \in 1..(Len(b) + 1) : j \in 1..Len(b) \/ j = Len(b) + 1
  BY <1>1
<1>5. /\ \A i \in 1..Len(Tail(q)) : i + 1 \in 1..Len(q) /\ i + 1 # 1 /\ i \in Nat
      /\ 1 \in 1..Len(q)
  BY <1>1, <1>2
<1>6. Apart3(fr, Tail(q), W, Append(b, Head(q)), 1)
  <2> DEFINE t == Tail(q)
  <2> DEFINE a == Append(b, Head(q))
  <2>1. \A i, j \in 1..Len(t) : t[i] = t[j] => i = j
    BY <1>2, <1>5 DEF Counts, Apart3
  <2>2. \A i \in 1..Len(t) : t[i] \notin fr /\ t[i] \notin W
    BY <1>2, <1>5 DEF Counts, Apart3
  <2>3. \A i, j \in 1..Len(a) : a[i] = a[j] => i = j
    BY <1>2, <1>3, <1>4, <1>5 DEF Counts, Apart3
  <2>4. \A j \in 1..Len(a) : a[j] \notin fr /\ a[j] \notin W
    BY <1>2, <1>3, <1>4, <1>5 DEF Counts, Apart3
  <2>5. \A i \in 1..Len(t) : \A j \in 1..Len(a) : t[i] # a[j]
    BY <1>2, <1>3, <1>4, <1>5 DEF Counts, Apart3
  <2> HIDE DEF t, a
  <2>6. Apart3(fr, t, W, a, 1)
    BY <2>1, <2>2, <2>3, <2>4, <2>5 DEF Counts, Apart3
  <2> QED
    BY <2>6 DEF t, a
<1>7. d \in Nat /\ p \in Nat /\ f \in Nat /\ Cardinality(fr) \in Nat /\ Cardinality(W) \in Nat
  BY FiniteParts DEF Counts
<1>8. /\ Cardinality(Calls) = Cardinality(fr) + d + Len(Tail(q)) + (p + 1)
      /\ p + 1 = f + Cardinality(W) + (Len(Append(b, Head(q))) + 1 - 1)
      /\ 1 \in 1..(Len(Append(b, Head(q))) + 1)
  BY <1>1, <1>2, <1>3, <1>7 DEF Counts
<1>9. fr \in SUBSET Calls /\ W \in SUBSET Calls /\ p + 1 \in Nat
  BY <1>7 DEF Counts
<1> QED
  BY <1>2, <1>3, <1>6, <1>7, <1>8, <1>9 DEF Counts

\* A row of the batch is written,
LEMMA Wrote ==
    ASSUME NEW fr, NEW q, NEW d, NEW p, NEW f, NEW W, NEW b, NEW F,
           Counts(fr, q, d, p, f, W, b, F), F \in 1..Len(b)
    PROVE  Counts(fr, q, d, p, f, W \cup {b[F]}, b, F + 1)
<1>1. /\ b \in Seq(Calls) /\ W \in SUBSET Calls /\ b[F] \in Calls /\ F \in F..Len(b)
      /\ Len(b) \in Nat /\ F \in Nat
  BY DEF Counts
<1>2. b[F] \notin W
  BY <1>1 DEF Counts, Apart3
<1>3. Cardinality(W \cup {b[F]}) = Cardinality(W) + 1 /\ Cardinality(W) \in Nat
  BY <1>1, <1>2, FiniteParts, FS_AddElement
<1>4. \A j \in (F + 1)..Len(b) : j \in F..Len(b) /\ j # F
  BY <1>1
<1>5. Apart3(fr, q, W \cup {b[F]}, b, F + 1)
  BY <1>1, <1>4, SMTT(30) DEF Counts, Apart3
<1>6. W \cup {b[F]} \in SUBSET Calls /\ F + 1 \in 1..(Len(b) + 1)
  BY <1>1
<1>7. f \in Nat /\ p = f + Cardinality(W \cup {b[F]}) + (Len(b) + 1 - (F + 1))
  BY <1>1, <1>3 DEF Counts
<1> QED
  BY <1>5, <1>6, <1>7 DEF Counts

\* or n rows of it fail.
LEMMA Lost ==
    ASSUME NEW fr, NEW q, NEW d, NEW p, NEW f, NEW W, NEW b, NEW F,
           Counts(fr, q, d, p, f, W, b, F), NEW n \in Nat, F + n \in 1..(Len(b) + 1)
    PROVE  Counts(fr, q, d, p, f + n, W, b, F + n)
<1>1. /\ b \in Seq(Calls) /\ Len(b) \in Nat /\ F \in Nat /\ f \in Nat /\ p \in Nat
      /\ Cardinality(W) \in Nat
  BY FiniteParts DEF Counts
<1>2. \A j \in (F + n)..Len(b) : j \in F..Len(b)
  BY <1>1
<1>3. Apart3(fr, q, W, b, F + n)
  BY <1>2 DEF Counts, Apart3
<1> QED
  BY <1>1, <1>3 DEF Counts

\* The batch is emptied.
LEMMA Emptied ==
    ASSUME NEW fr, NEW q, NEW d, NEW p, NEW f, NEW W, NEW b,
           Counts(fr, q, d, p, f, W, b, Len(b) + 1)
    PROVE  Counts(fr, q, d, p, f, W, <<>>, 1)
<1>1. Len(b) \in Nat /\ f \in Nat /\ Cardinality(W) \in Nat
  BY FiniteParts DEF Counts
<1>2. <<>> \in Seq(Calls) /\ Len(<<>>) = 0 /\ 1..0 = {}
  OBVIOUS
<1>3. Apart3(fr, q, W, <<>>, 1)
  BY <1>2 DEF Counts, Apart3
<1> QED
  BY <1>1, <1>2, <1>3 DEF Counts

-----------------------------------------------------------------------------
(* The steps. *)

\* A flush goes on, at a row it has not tried or behind them all.
LEMMA Flushed ==
    ASSUME NEW w, Go(w), NEW n,
           Counts(fresh, queue, dropped, processed, failed', Written', batch, n),
           w.pc \in FlushPCs => First(w, batch) = n,
           w.pc \notin FlushPCs => w.pc \in {"select", "done"} /\ n = Len(batch) + 1
    PROVE  Counted'
<1>1. /\ fresh' = fresh /\ queue' = queue /\ dropped' = dropped /\ processed' = processed
      /\ work' = w
  BY DEF Go, sinkVars
<1>2. CASE w.pc \in FlushPCs
  <2>1. batch' = batch
    BY <1>2 DEF Go
  <2> QED
    BY <1>1, <1>2, <2>1 DEF Counted, First
<1>3. CASE w.pc \notin FlushPCs
  <2>1. batch' = <<>> /\ Len(<<>>) + 1 = 1
    BY <1>3 DEF Go
  <2>2. First(w, <<>>) = 1
    BY <1>3, <2>1 DEF First
  <2>3. Counts(fresh, queue, dropped, processed, failed', Written', <<>>, 1)
    BY <1>3, Emptied
  <2> QED
    BY <1>1, <2>1, <2>2, <2>3 DEF Counted, First
<1> QED
  BY <1>2, <1>3

\* Every row has been tried.
LEMMA FlushedAll ==
    ASSUME NEW w, Go(w), w.pc \in {"rule", "attach", "upsert", "derive", "select", "done"},
           Counts(fresh, queue, dropped, processed, failed', Written', batch, Len(batch) + 1)
    PROVE  Counted'
<1>1. w.pc \in FlushPCs => First(w, batch) = Len(batch) + 1
  BY DEF First, FlushPCs
<1>2. w.pc \notin FlushPCs => w.pc \in {"select", "done"}
  BY DEF FlushPCs
<1> QED
  BY <1>1, <1>2, Flushed

\* The flush is done with a row.
LEMMA FlushedRow ==
    ASSUME batch \in Seq(Calls), NEW w \in Work, w.pos \in 1..Len(batch), Go(AfterRow(w)),
           Counts(fresh, queue, dropped, processed, failed', Written', batch, w.pos + 1)
    PROVE  Counted'
<1>1. CASE w.pos < Len(batch)
  <2>1. AfterRow(w) = [w EXCEPT !.pc = "insert", !.pos = @ + 1, !.tries = 0]
    BY <1>1 DEF AfterRow
  <2>2. AfterRow(w).pc = "insert" /\ AfterRow(w).pos = w.pos + 1
    BY <2>1 DEF Work
  <2>3. First(AfterRow(w), batch) = w.pos + 1 /\ AfterRow(w).pc \in FlushPCs
    BY <2>2 DEF First, FlushPCs
  <2> QED
    BY <2>3, Flushed
<1>2. CASE ~ (w.pos < Len(batch))
  <2>1. AfterRow(w) = RuleFrom(w, 1) /\ w.pos = Len(batch)
    BY <1>2 DEF AfterRow
  <2>2. RuleFrom(w, 1).pc \in {"rule", "upsert", "select", "done"}
    BY RulePlaced, 1 \in Nat \ {0}
  <2> QED
    BY <2>1, <2>2, FlushedAll
<1> QED
  BY <1>1, <1>2

\* A capture inserted is written, a line inserted is not counted.
LEMMA WrittenBy ==
    ASSUME StoreTyped, NEW c \in Calls, NEW source \in Sources, NEW session,
           InsertEvent(c, source, session)
    PROVE  Written' = IF source = "proxy" THEN Written \cup {c} ELSE Written
<1>1. CASE merged[c] = {}
  <2>1. merged' = [merged EXCEPT ![c] = {source}]
    BY <1>1 DEF InsertEvent
  <2> QED
    BY <1>1, <2>1 DEF Written, StoreTyped
<1>2. CASE merged[c] # {}
  <2>1. merged' = [merged EXCEPT ![c] = @ \cup {source}]
    BY <1>2 DEF InsertEvent
  <2> QED
    BY <2>1 DEF Written, StoreTyped
<1> QED
  BY <1>1, <1>2

\* What every step of a flush starts from.
LEMMA InFlight ==
    ASSUME CountInv
    PROVE  /\ StoreTyped /\ work \in Work /\ batch \in Seq(Calls)
           /\ work.pc \in {"insert", "warn"} => work.pos \in 1..Len(batch)
           /\ work.pc \in {"select", "drain", "done"} => work.pos = 1
           /\ Counts(fresh, queue, dropped, processed, failed, Written, batch,
                     First(work, batch))
  BY DEF CountInv, PipelineInv, Placed, TypeOK, Counted

\* Inserting a row counts its call once.
LEMMA InsertCounts == CountInv /\ Insert => Counted'
<1> SUFFICES ASSUME CountInv, Insert PROVE Counted'
  OBVIOUS
<1> DEFINE c == batch[work.pos]
<1>1. /\ StoreTyped /\ work \in Work /\ batch \in Seq(Calls) /\ work.pos \in 1..Len(batch)
      /\ work.pc = "insert"
  BY InFlight DEF Insert
<1>2. c \in Calls /\ ProxySession[c] \in Sessions /\ "proxy" \in Sources
  BY <1>1, PipelineAssumption DEF Sources
<1>3. Counts(fresh, queue, dropped, processed, failed, Written, batch, work.pos)
  BY <1>1, InFlight DEF First
<1>4. CASE /\ InsertEvent(c, "proxy", ProxySession[c])
           /\ Go([work EXCEPT !.pc = "warn", !.tries = 0])
           /\ UNCHANGED failed
  <2>1. StoreTyped
    BY <1>1
  <2>2. Written' = Written \cup {c}
    BY <1>2, <1>4, <2>1, WrittenBy
  <2>3. Counts(fresh, queue, dropped, processed, failed, Written \cup {c}, batch, work.pos + 1)
    BY <1>1, <1>3, Wrote
  <2> DEFINE w == [work EXCEPT !.pc = "warn", !.tries = 0]
  <2>4. w.pc = "warn" /\ w.pos = work.pos
    BY <1>1 DEF Work
  <2>5. Go(w)
    BY <1>4
  <2>6. Counts(fresh, queue, dropped, processed, failed', Written', batch, work.pos + 1)
    BY <1>4, <2>2, <2>3
  <2> HIDE DEF w
  <2>7. First(w, batch) = work.pos + 1 /\ w.pc \in FlushPCs
    BY <2>4 DEF First, FlushPCs
  <2> QED
    BY <2>5, <2>6, <2>7, Flushed
<1>5. CASE failed' = failed + 1 /\ Go(AfterRow(work)) /\ UNCHANGED storeVars
  <2>1. Written' = Written
    BY <1>5 DEF storeVars, Written
  <2>2. 1 \in Nat /\ work.pos + 1 \in 1..(Len(batch) + 1)
    BY <1>1
  <2>3. Counts(fresh, queue, dropped, processed, failed + 1, Written, batch, work.pos + 1)
    BY <1>3, <2>2, Lost
  <2>4. Counts(fresh, queue, dropped, processed, failed', Written', batch, work.pos + 1)
    BY <1>5, <2>1, <2>3
  <2> QED
    BY <1>1, <1>5, <2>4, FlushedRow
<1> QED
  BY <1>4, <1>5 DEF Insert

\* Storing warnings counts no call again.
LEMMA WarnCounts == CountInv /\ Warn => Counted'
<1> SUFFICES ASSUME CountInv, Warn PROVE Counted'
  OBVIOUS
<1>1. /\ StoreTyped /\ work \in Work /\ batch \in Seq(Calls) /\ work.pos \in 1..Len(batch)
      /\ work.pc = "warn"
  BY InFlight DEF Warn
<1>2. Counts(fresh, queue, dropped, processed, failed, Written, batch, work.pos + 1)
  BY <1>1, InFlight DEF First
<1>3. Written' = Written /\ failed' = failed
  BY DEF Warn, UpsertWarnings, storeVars, Written
<1>4. owner[batch[work.pos]] \in Sessions
  BY <1>1 DEF StoreTyped
<1>5. Touch(work) \in Work /\ Touch(work).pos = work.pos
  BY <1>1, <1>4, Touched
<1>6. Go(AfterRow(Touch(work)))
  BY DEF Warn
<1>7. Counts(fresh, queue, dropped, processed, failed', Written', batch, Touch(work).pos + 1)
  BY <1>2, <1>3, <1>5
<1> QED
  BY <1>1, <1>5, <1>6, <1>7, FlushedRow

\* The later phases try no row.
LEMMA PassCounts ==
    ASSUME CountInv, Rule \/ Attach \/ Ensure \/ Rederive
    PROVE  Counted'
<1>1. work \in Work /\ work.pc \in {"rule", "attach", "upsert", "derive"}
  BY InFlight DEF Rule, Attach, Ensure, Rederive
<1>2. First(work, batch) = Len(batch) + 1
  BY <1>1 DEF First
<1>3. Written' = Written /\ failed' = failed
  BY DEF Rule, Attach, Ensure, Rederive, UpsertWarnings, UpsertSession, ReconcileSession, Owes,
         storeVars, Written
<1>4. Counts(fresh, queue, dropped, processed, failed', Written', batch, Len(batch) + 1)
  BY <1>2, <1>3, InFlight
<1>5. work.at \in Nat /\ work.at + 1 \in Nat \ {0}
  BY <1>1 DEF Work
<1>6. RuleFrom(work, work.at + 1).pc \in {"rule", "upsert", "select", "done"}
  BY <1>1, <1>5, RulePlaced
<1>7. FoldFrom(work, work.at + 1).pc \in {"upsert", "select", "done"}
  BY <1>1, <1>5, FoldPlaced
<1>8. /\ \A F : [work EXCEPT !.pc = "attach", !.found = F, !.tries = 0].pc = "attach"
      /\ \A c : [work EXCEPT !.found = @ \ {c}, !.tries = 0].pc = work.pc
      /\ [work EXCEPT !.pc = "derive"].pc = "derive"
  BY <1>1 DEF Work
<1>9. CASE Rule
  <2>1. \/ Go(RuleFrom(work, work.at + 1))
        \/ \E F : Go([work EXCEPT !.pc = "attach", !.found = F, !.tries = 0])
    BY <1>9 DEF Rule
  <2> QED
    BY <1>4, <1>6, <1>8, <2>1, FlushedAll
<1>10. CASE Attach
  <2>1. /\ work.pc = "attach"
        /\ \/ Go(RuleFrom(work, work.at + 1))
           \/ \E c : Go([work EXCEPT !.found = @ \ {c}, !.tries = 0])
    BY <1>10 DEF Attach
  <2> QED
    BY <1>4, <1>6, <1>8, <2>1, FlushedAll
<1>11. CASE Ensure
  <2>1. Go([work EXCEPT !.pc = "derive"]) \/ Go(FoldFrom(work, work.at + 1))
    BY <1>11 DEF Ensure
  <2> QED
    BY <1>4, <1>7, <1>8, <2>1, FlushedAll
<1>12. CASE Rederive
  <2>1. Go(FoldFrom(work, work.at + 1))
    BY <1>12 DEF Rederive
  <2> QED
    BY <1>4, <1>7, <2>1, FlushedAll
<1> QED
  BY <1>9, <1>10, <1>11, <1>12

\* A failed call is counted when its last try is over.
LEMMA RetryCounts == CountInv /\ (Busy \/ Retry) => Counted'
<1> SUFFICES ASSUME CountInv, Busy \/ Retry PROVE Counted'
  OBVIOUS
<1>1. work \in Work /\ work.pc \in FlushPCs
  BY InFlight DEF Busy, Retry
<1>2. \/ work' = [work EXCEPT !.waits = TRUE]
      \/ work' = [work EXCEPT !.tries = @ + 1, !.waits = FALSE,
                               !.pc = IF @ = "derive" THEN "upsert" ELSE @]
  BY DEF Busy, Retry
<1>3. /\ work'.pc = work.pc \/ (work.pc = "derive" /\ work'.pc = "upsert")
      /\ work'.pos = work.pos
  BY <1>1, <1>2 DEF Work
<1>4. First(work', batch) = First(work, batch)
  BY <1>1, <1>3 DEF First, FlushPCs
<1>5. /\ fresh' = fresh /\ queue' = queue /\ dropped' = dropped /\ processed' = processed
      /\ failed' = failed /\ batch' = batch /\ merged' = merged
  BY DEF Busy, Retry, sinkVars, countVars, storeVars
<1>6. Written' = Written
  BY <1>5 DEF Written
<1>7. First(work', batch') = First(work, batch)
  BY <1>4, <1>5
<1> QED
  BY <1>5, <1>6, <1>7 DEF CountInv, Counted

\* All rows that were not tried count as failed.
LEMMA GiveUpCounts == CountInv /\ GiveUp => Counted'
<1> SUFFICES ASSUME CountInv, GiveUp PROVE Counted'
  OBVIOUS
<1>1. /\ work \in Work /\ work.pc \in FlushPCs /\ batch \in Seq(Calls)
      /\ work.pc \in {"insert", "warn"} => work.pos \in 1..Len(batch)
  BY InFlight DEF GiveUp
<1>2. /\ Untried \in Nat /\ First(work, batch) + Untried = Len(batch) + 1
  BY <1>1 DEF Untried, First, FlushPCs
<1>3. Written' = Written /\ failed' = failed + Untried /\ Go(Over(work))
  BY DEF GiveUp, Owes, Written, FailsRest
<1> DEFINE F == First(work, batch)
<1>4. Counts(fresh, queue, dropped, processed, failed, Written, batch, F)
  BY InFlight
<1>5. F + Untried \in 1..(Len(batch) + 1)
  BY <1>1, <1>2
<1> HIDE DEF F
<1>6. Counts(fresh, queue, dropped, processed, failed + Untried, Written, batch, F + Untried)
  BY <1>2, <1>4, <1>5, Lost
<1>7. Counts(fresh, queue, dropped, processed, failed', Written', batch, Len(batch) + 1)
  BY <1>2, <1>3, <1>6 DEF F
<1>8. Over(work).pc \in {"select", "done"}
  BY OverPlaced
<1> QED
  BY <1>3, <1>7, <1>8, FlushedAll

\* The loop moves calls from the channel to the batch.
LEMMA TakeCounts ==
    ASSUME CountInv, Take, work.pc \in {"select", "drain"},
           work' = work \/ (work'.pc = "insert" /\ work'.pos = 1)
    PROVE  Counted'
<1>1. Counts(fresh, queue, dropped, processed, failed, Written, batch, 1)
  BY InFlight DEF First
<1>2. Counts(fresh, Tail(queue), dropped, processed + 1, failed, Written,
             Append(batch, Head(queue)), 1)
  BY <1>1, TakenOut DEF Take
<1>3. /\ fresh' = fresh /\ queue' = Tail(queue) /\ dropped' = dropped
      /\ processed' = processed + 1 /\ failed' = failed
      /\ batch' = Append(batch, Head(queue)) /\ merged' = merged
  BY DEF Take, storeVars
<1>4. Written' = Written
  BY <1>3 DEF Written
<1>5. First(work', batch') = 1
  BY DEF First
<1> QED
  BY <1>2, <1>3, <1>4, <1>5 DEF Counted

\* Filling, draining and returning count no call.
LEMMA LoopCounts == CountInv /\ Loop => Counted'
<1> SUFFICES ASSUME CountInv, Loop PROVE Counted'
  OBVIOUS
<1>1. /\ work \in Work /\ work.pos \in Nat /\ batch \in Seq(Calls)
      /\ work.pc \in {"select", "drain"} => work.pos = 1
  BY InFlight DEF Work
<1>2. /\ [work EXCEPT !.pc = "insert"].pc = "insert"
      /\ [work EXCEPT !.pc = "insert"].pos = work.pos
      /\ [work EXCEPT !.pc = "drain"].pc = "drain"
  BY <1>1 DEF Work
<1>3. CASE Receive
  <2>1. work' = work \/ (work'.pc = "insert" /\ work'.pos = 1)
    BY <1>1, <1>2, <1>3 DEF Receive
  <2> QED
    BY <1>3, <2>1, TakeCounts DEF Receive
<1>4. CASE Drain
  BY <1>4, TakeCounts DEF Drain
<1>5. CASE Quiet \/ Stop \/ DrainOver
  <2>1. /\ fresh' = fresh /\ queue' = queue /\ dropped' = dropped /\ processed' = processed
        /\ failed' = failed /\ batch' = batch /\ merged' = merged
    BY <1>5 DEF Quiet, Stop, DrainOver, sinkVars, countVars, storeVars
  <2>2. Written' = Written
    BY <2>1 DEF Written
  <2>3. work.pc \in {"select", "drain"}
    BY <1>5 DEF Quiet, Stop, DrainOver
  <2>4. First(work, batch) = 1
    BY <2>3 DEF First
  <2>5. First(work', batch) = 1
    <3>1. CASE Quiet
      BY <1>1, <1>2, <3>1 DEF Quiet, First
    <3>2. CASE Stop
      BY <1>2, <3>2 DEF Stop, First
    <3>3. CASE DrainOver
      <4>1. /\ [Selecting EXCEPT !.pc = "done"].pc = "done"
            /\ LastFlush.pc = "insert" /\ LastFlush.pos = 1
        BY DEF LastFlush, Selecting
      <4>2. batch = <<>> => Len(batch) = 0
        OBVIOUS
      <4> QED
        BY <3>3, <4>1, <4>2 DEF DrainOver, Drained, First
    <3> QED
      BY <1>5, <3>1, <3>2, <3>3
  <2>6. First(work', batch') = First(work, batch)
    BY <2>1, <2>4, <2>5
  <2> QED
    BY <2>1, <2>2, <2>6 DEF CountInv, Counted
<1> QED
  BY <1>3, <1>4, <1>5 DEF Loop

\* A submission is queued or counted as dropped.
LEMMA SubmitCounts ==
    ASSUME CountInv, NEW c \in Calls, Submit(c)
    PROVE  Counted'
<1>1. /\ c \in fresh /\ fresh' = fresh \ {c} /\ processed' = processed /\ failed' = failed
      /\ batch' = batch /\ work' = work /\ merged' = merged
  BY DEF Submit, countVars, storeVars
<1>2. Written' = Written
  BY <1>1 DEF Written
<1>3. First(work', batch') = First(work, batch)
  BY <1>1
<1>4. CASE queue' = Append(queue, c) /\ dropped' = dropped
  <2>1. Counts(fresh \ {c}, Append(queue, c), dropped, processed, failed, Written, batch,
               First(work, batch))
    BY <1>1, InFlight, Accepted
  <2> QED
    BY <1>1, <1>2, <1>3, <1>4, <2>1 DEF Counted
<1>5. CASE dropped' = dropped + 1 /\ queue' = queue
  <2>1. Counts(fresh \ {c}, queue, dropped + 1, processed, failed, Written, batch,
               First(work, batch))
    BY <1>1, InFlight, Refused
  <2> QED
    BY <1>1, <1>2, <1>3, <1>5, <2>1 DEF Counted
<1> QED
  BY <1>4, <1>5 DEF Submit

\* The tailer and the context count no call, and write none of the proxy's.
LEMMA OthersCount ==
    ASSUME CountInv, Cancel \/ UNCHANGED vars \/ (\E S \in SUBSET Lines : Poll(S)) \/ TailerStep
    PROVE  Counted'
<1>1. /\ fresh' = fresh /\ queue' = queue /\ dropped' = dropped /\ processed' = processed
      /\ failed' = failed /\ batch' = batch /\ work' = work
  BY DEF Cancel, vars, Poll, TailerStep, TailInsert, TailWarn, TailFold, TailEnsure, TailRederive,
         TailStep, sinkVars, countVars
<1>2. Written' = Written
  <2>1. CASE \E c \in Lines : TailInsert(c)
    <3>1. PICK c \in Lines : TailInsert(c)
      BY <2>1
    <3>2. CASE InsertEvent(c, "jsonl", TailSession[c])
      <4>1. c \in Calls /\ "jsonl" \in Sources /\ "jsonl" # "proxy" /\ StoreTyped
        BY PipelineAssumption, InFlight DEF Sources
      <4> QED
        BY <3>2, <4>1, WrittenBy
    <3>3. CASE UNCHANGED storeVars
      BY <3>3 DEF storeVars, Written
    <3> QED
      BY <3>1, <3>2, <3>3 DEF TailInsert
  <2>2. CASE ~ \E c \in Lines : TailInsert(c)
    <3>1. merged' = merged
      BY <2>2 DEF Cancel, vars, Poll, TailerStep, TailWarn, TailFold, TailEnsure, TailRederive,
         UpsertWarnings, UpsertSession, ReconcileSession, Owes, storeVars
    <3> QED
      BY <3>1 DEF Written
  <2> QED
    BY <2>1, <2>2
<1>3. First(work', batch') = First(work, batch)
  BY <1>1
<1> QED
  BY <1>1, <1>2, <1>3 DEF CountInv, Counted

-----------------------------------------------------------------------------
\* At the start nothing is counted.
LEMMA InitCounts == Init => Counted
<1> SUFFICES ASSUME Init PROVE Counted
  OBVIOUS
<1>1. Written = {} /\ Cardinality({}) = 0 /\ IsFiniteSet(Calls)
  BY PipelineAssumption, FS_EmptySet DEF Init, Written
<1>2. First(work, batch) = 1
  BY DEF Init, Selecting, First
<1>3. Cardinality(Calls) \in Nat
  BY <1>1, FS_CardinalityType
<1>4. Counts(Calls, <<>>, 0, 0, 0, {}, <<>>, 1)
  <2>1. <<>> \in Seq(Calls) /\ Len(<<>>) = 0 /\ 1..0 = {}
    OBVIOUS
  <2>2. Apart3(Calls, <<>>, {}, <<>>, 1)
    BY <2>1 DEF Apart3
  <2> QED
    BY <1>1, <1>3, <2>1, <2>2 DEF Counts
<1> QED
  BY <1>1, <1>2, <1>4 DEF Init, Counted

\* Every step counts right.
LEMMA CountStep == CountInv /\ [Next]_vars => CountInv'
<1> SUFFICES ASSUME CountInv, [Next]_vars PROVE CountInv'
  OBVIOUS
<1>1. PipelineInv'
  BY StepKeeps DEF CountInv
<1>2. Counted'
  <2>1. CASE \E c \in Calls : Submit(c)
    BY <2>1, SubmitCounts
  <2>2. CASE Loop
    BY <2>2, LoopCounts
  <2>3. CASE FlushStep
    BY <2>3, InsertCounts, WarnCounts, PassCounts, RetryCounts, GiveUpCounts DEF FlushStep, Attempt
  <2>4. CASE Cancel \/ UNCHANGED vars \/ (\E S \in SUBSET Lines : Poll(S)) \/ TailerStep
    BY <2>4, OthersCount
  <2> QED
    BY <2>1, <2>2, <2>3, <2>4 DEF Next
<1> QED
  BY <1>1, <1>2 DEF CountInv

\* The counts as sums imply that every call is accounted for.
LEMMA CountedIsAccounted == CountInv => Accounted
<1> SUFFICES ASSUME CountInv PROVE Accounted
  OBVIOUS
<1>1. /\ work.pc \in {"insert", "warn"} => work.pos \in 1..Len(batch)
      /\ Len(batch) \in Nat
  BY InFlight
<1>2. Len(batch) + 1 - First(work, batch)
        = IF work.pc \in {"select", "drain"} THEN Len(batch) ELSE Untried
  BY <1>1 DEF First, Untried
<1> QED
  BY <1>2 DEF CountInv, Counted, Counts, Accounted

(* Whatever the store refuses, whenever the context is cancelled and however *)
(* full the channel: each call is dropped, queued or taken, and each taken   *)
(* call is written, counted as failed once, or still to be tried.            *)
THEOREM EveryCallAccounted == Spec => []Accounted
<1>1. Init => CountInv
  BY InitHolds, InitCounts DEF CountInv
<1> QED
  BY <1>1, CountStep, CountedIsAccounted, PTL DEF Spec
================================================================================
