---------------------------- MODULE FiguresProofs ----------------------------
(***************************************************************************)
(* What decides a row and its figures, for every instance: the price table *)
(* in force (PriceFile), the findings about a session (SessionRules), the  *)
(* row and the session a call goes to (CallIdentity), and the reports the  *)
(* figures are held against, which the collectors pull (Collectors).       *)
(***************************************************************************)
EXTENDS PriceFile, SessionRules, CallIdentity, Collectors, FiniteSetTheorems,
        SequenceTheorems, WellFoundedInduction, TLAPS

-----------------------------------------------------------------------------
(* The price table.                                                        *)

Rows == [Columns -> Nat \cup {None}]
Overrides == UNION {[S -> Rows] : S \in SUBSET Models}
Tables == {Merged(T) : T \in Overrides}

EditorRecord == [pc : {"idle", "own", "ready", "torn"}, job : EditJobs \cup {None},
                 own : Overrides, all : Tables \cup {NoOverrides}, alone : BOOLEAN]
ReaderRecord == [pc : {"idle", "stale", "read"}, text : Overrides, raced : BOOLEAN]

Editing(e) == editor[e].pc \in {"own", "ready", "torn"}

\* The edit ed has a job, and the table its job starts from.
Prepared(ed) == ed.job \in EditJobs
                /\ (ed.pc # "own" /\ ed.job.kind = "set" => ed.all \in Tables)

\* A table in hand is one that some text gives, and so is the copy of a file's
\* overrides that an edit starts from.
PriceTyped ==
    /\ prices \in [there : BOOLEAN, text : Overrides, parses : BOOLEAN, mtime : Nat]
    /\ loader \in [table : Tables, mtime : Nat, raced : BOOLEAN]
    /\ loader.mtime <= prices.mtime
    /\ editor \in [Editors -> EditorRecord] /\ reader \in [Readers -> ReaderRecord]
    /\ \A e \in Editors : Editing(e) => Prepared(editor[e])

\* An edit that has been alone has read one text, twice.
OneText(e, T) ==
    /\ editor[e].own = LoadOverrides(T)
    /\ editor[e].pc = "own" => T = Readable(prices)
    /\ editor[e].pc # "own" /\ editor[e].job.kind = "set" => editor[e].all = Merged(T)

AloneReads == \A e \in Editors :
    Editing(e) /\ editor[e].alone => \E T \in Overrides : OneText(e, T)

\* What a reader that no write has passed holds is the file.
ReaderHolds == \A r \in Readers :
    reader[r].pc = "read" /\ ~ reader[r].raced => reader[r].text = Readable(prices)

LoaderHolds ==
    loader.mtime = prices.mtime /\ ~ loader.raced => loader.table = Merged(Readable(prices))

\* The last edit's file is what it made of the text it read.
LastHolds == lastEdit.job # None =>
    /\ lastEdit.job \in EditJobs /\ lastEdit.job.kind = "set"
    /\ prices.parses
    /\ \E T \in Overrides :
         /\ lastEdit.before = Merged(T)
         /\ prices.text = Edited(LoadOverrides(T), Merged(T), lastEdit.job)

PriceInv == PriceTyped /\ AloneReads /\ ReaderHolds /\ LoaderHolds /\ LastHolds

-----------------------------------------------------------------------------
(* What a load makes of a text. *)

\* The shipped rates are rows of models.
LEMMA ShippedRows ==
    \A m \in DOMAIN Shipped : Shipped[m] \in Rows /\ m \in Models
  BY PriceAssumption DEF Rows, PriceAssumption

\* The overrides are rows of some models.
LEMMA RowParts ==
    ASSUME NEW T \in Overrides
    PROVE  /\ DOMAIN T \subseteq Models
           /\ \A m \in DOMAIN T : T[m] \in Rows
  BY DEF Overrides

\* A derived rate is the one given, and what has no rate is left without one.
LEMMA DerivedIs ==
    ASSUME NEW m, NEW row \in Rows, NEW c \in Columns, NEW num \in Nat, NEW den \in {1, 4}
    PROVE  /\ Derived(m, row, c, num, den) \in Nat \cup {None}
           /\ row[c] # None => Derived(m, row, c, num, den) = row[c]
           /\ row[c] = None /\ NoWriteFee(m) => Derived(m, row, c, num, den) = 0
           /\ Derived(m, row, c, num, den) = None =>
                row[c] = None /\ ~ NoWriteFee(m) /\ row["input"] = None
<1>1. "input" \in Columns
  BY DEF Columns, Classes
<1>2. row["input"] \in Nat \cup {None} /\ row[c] \in Nat \cup {None}
  BY <1>1 DEF Rows
<1>3. row["input"] # None => (row["input"] * num) \div den \in Nat
  BY <1>2
<1>4. None \notin Nat
  BY PriceAssumption DEF PriceAssumption
<1> QED BY <1>2, <1>3, <1>4 DEF Derived

\* Loading derives only what the file leaves out.
LEMMA LoadIs ==
    ASSUME NEW T \in Overrides
    PROVE  /\ LoadOverrides(T) \in Overrides
           /\ DOMAIN LoadOverrides(T) = DOMAIN T
           /\ \A m \in DOMAIN T :
                /\ LoadOverrides(T)[m] \in Rows
                /\ \A c \in Columns : T[m][c] # None => LoadOverrides(T)[m][c] = T[m][c]
                /\ \A c \in {"w5", "w1"} :
                     NoWriteFee(m) /\ T[m][c] = None => LoadOverrides(T)[m][c] = 0
                /\ LoadOverrides(T)[m]["input"] = T[m]["input"]
                /\ \A c \in {"w5", "w1"} : LoadOverrides(T)[m][c] = None =>
                     T[m][c] = None /\ ~ NoWriteFee(m) /\ T[m]["input"] = None
                /\ \A c \in Columns \ {"w5", "w1"} : LoadOverrides(T)[m][c] = T[m][c]
<1> DEFINE L == LoadOverrides(T)
           row(m) == [T[m] EXCEPT !["w5"] = Derived(m, T[m], "w5", 5, 4),
                                  !["w1"] = Derived(m, T[m], "w1", 2, 1)]
<1>1. L = [m \in DOMAIN T |-> row(m)]
  BY DEF LoadOverrides
<1>2. DOMAIN L = DOMAIN T /\ \A m \in DOMAIN T : L[m] = row(m)
  BY <1>1
<1>3. {"w5", "w1", "input"} \subseteq Columns /\ "w5" # "w1" /\ "input" # "w5" /\ "input" # "w1"
  BY DEF Columns, Classes
<1>4. ASSUME NEW m \in DOMAIN T
      PROVE  /\ row(m) \in Rows
             /\ row(m)["w5"] = Derived(m, T[m], "w5", 5, 4)
             /\ row(m)["w1"] = Derived(m, T[m], "w1", 2, 1)
             /\ \A c \in Columns \ {"w5", "w1"} : row(m)[c] = T[m][c]
  <2>1. T[m] \in Rows
    BY RowParts
  <2>2. /\ Derived(m, T[m], "w5", 5, 4) \in Nat \cup {None}
        /\ Derived(m, T[m], "w1", 2, 1) \in Nat \cup {None}
    BY <1>3, <2>1, DerivedIs
  <2> QED BY <1>3, <2>1, <2>2 DEF Rows
<1> HIDE DEF L, row
<1>5. L \in Overrides
  <2>1. L \in [DOMAIN T -> Rows]
    BY <1>1, <1>2, <1>4
  <2> QED BY <2>1, RowParts DEF Overrides
<1>6. ASSUME NEW m \in DOMAIN T
      PROVE  /\ L[m] \in Rows
             /\ \A c \in {"w5", "w1"} : T[m][c] # None => L[m][c] = T[m][c]
             /\ \A c \in {"w5", "w1"} : NoWriteFee(m) /\ T[m][c] = None => L[m][c] = 0
             /\ \A c \in {"w5", "w1"} : L[m][c] = None =>
                  T[m][c] = None /\ ~ NoWriteFee(m) /\ T[m]["input"] = None
             /\ \A c \in Columns \ {"w5", "w1"} : L[m][c] = T[m][c]
  <2>1. T[m] \in Rows
    BY RowParts
  <2>2. /\ L[m] \in Rows
        /\ L[m]["w5"] = Derived(m, T[m], "w5", 5, 4)
        /\ L[m]["w1"] = Derived(m, T[m], "w1", 2, 1)
        /\ \A c \in Columns \ {"w5", "w1"} : L[m][c] = T[m][c]
    BY <1>2, <1>4
  <2>3. ASSUME NEW c \in {"w5", "w1"}, NEW num \in Nat, NEW den \in {1, 4},
               L[m][c] = Derived(m, T[m], c, num, den)
        PROVE  /\ T[m][c] # None => L[m][c] = T[m][c]
               /\ NoWriteFee(m) /\ T[m][c] = None => L[m][c] = 0
               /\ L[m][c] = None => T[m][c] = None /\ ~ NoWriteFee(m) /\ T[m]["input"] = None
    BY <1>3, <2>1, <2>3, DerivedIs
  <2>4. ASSUME NEW c \in {"w5", "w1"}
        PROVE  /\ T[m][c] # None => L[m][c] = T[m][c]
               /\ NoWriteFee(m) /\ T[m][c] = None => L[m][c] = 0
               /\ L[m][c] = None => T[m][c] = None /\ ~ NoWriteFee(m) /\ T[m]["input"] = None
    BY <2>2, <2>3
  <2> QED BY <2>2, <2>4
<1> QED BY <1>2, <1>3, <1>5, <1>6 DEF L

\* An override replaces the shipped row of its model and no other.
LEMMA MergedIs ==
    ASSUME NEW T \in Overrides
    PROVE  /\ DOMAIN Merged(T) = DOMAIN Shipped \cup DOMAIN T
           /\ \A m \in DOMAIN Merged(T) :
                /\ Merged(T)[m].rates = IF m \in DOMAIN T THEN LoadOverrides(T)[m] ELSE Shipped[m]
                /\ Merged(T)[m].rates \in Rows
                /\ Merged(T)[m].peak = (m \in Varying)
<1>1. DOMAIN LoadOverrides(T) = DOMAIN T /\ \A m \in DOMAIN T : LoadOverrides(T)[m] \in Rows
  BY LoadIs
<1>2. DOMAIN Merged(T) = DOMAIN Shipped \cup DOMAIN T
  BY <1>1 DEF Merged
<1>3. ASSUME NEW m \in DOMAIN Merged(T)
      PROVE  /\ Merged(T)[m].rates = IF m \in DOMAIN T THEN LoadOverrides(T)[m] ELSE Shipped[m]
             /\ Merged(T)[m].peak = (m \in Varying)
  BY <1>1, <1>2 DEF Merged
<1> QED BY <1>1, <1>2, <1>3, ShippedRows

\* No overrides are overrides.
LEMMA NoOverridesIs == NoOverrides \in Overrides
<1>1. NoOverrides \in [{} -> Rows]
  BY DEF NoOverrides
<1> QED BY <1>1 DEF Overrides

\* What a reader finds in the file are overrides, or none.
LEMMA ReadableIs ==
    ASSUME PriceTyped
    PROVE  Readable(prices) \in Overrides
  BY NoOverridesIs DEF Readable, PriceTyped

\* Loading what was loaded changes nothing.
LEMMA LoadTwice ==
    ASSUME NEW T \in Overrides, NEW m \in DOMAIN T, NEW U \in Overrides, m \in DOMAIN U,
           U[m] = LoadOverrides(T)[m]
    PROVE  LoadOverrides(U)[m] = U[m]
<1> DEFINE L == LoadOverrides(U)[m]
<1>1. U[m] \in Rows /\ L \in Rows
  BY LoadIs, RowParts
<1>2. ASSUME NEW c \in Columns
      PROVE  L[c] = U[m][c]
  <2>1. CASE U[m][c] # None
    BY <2>1, LoadIs
  <2>2. CASE c \notin {"w5", "w1"}
    BY <2>2, LoadIs
  <2>3. CASE U[m][c] = None /\ c \in {"w5", "w1"}
    <3>1. ~ NoWriteFee(m) /\ T[m]["input"] = None
      BY <2>3, LoadIs
    <3>2. U[m]["input"] = None
      BY <3>1, LoadIs
    <3>3. L[c] = Derived(m, U[m], c, 5, 4) \/ L[c] = Derived(m, U[m], c, 2, 1)
      BY <2>3, <1>1 DEF LoadOverrides, Rows, Columns, Classes
    <3>4. L[c] = None
      BY <2>3, <3>1, <3>2, <3>3 DEF Derived
    <3> QED BY <2>3, <3>4
  <2> QED BY <2>1, <2>2, <2>3
<1> QED BY <1>1, <1>2 DEF Rows

\* A row with a rate for every class is loaded as it is.
LEMMA LoadWhole ==
    ASSUME NEW U \in Overrides, NEW m \in DOMAIN U, \A c \in Classes : U[m][c] # None
    PROVE  LoadOverrides(U)[m] = U[m]
<1>1. U[m] \in Rows /\ LoadOverrides(U)[m] \in Rows
  BY LoadIs, RowParts
<1>2. \A c \in {"w5", "w1"} : LoadOverrides(U)[m][c] = U[m][c]
  BY LoadIs DEF Classes, Columns
<1>3. \A c \in Columns \ {"w5", "w1"} : LoadOverrides(U)[m][c] = U[m][c]
  BY LoadIs
<1> QED BY <1>1, <1>2, <1>3 DEF Rows

-----------------------------------------------------------------------------
(* The invariant. *)

\* A table with one row set.
LEMMA WithIs ==
    ASSUME NEW own \in Overrides, NEW m \in Models, NEW row \in Rows
    PROVE  /\ With(own, m, row) \in Overrides
           /\ DOMAIN With(own, m, row) = DOMAIN own \cup {m}
           /\ With(own, m, row)[m] = row
           /\ \A x \in DOMAIN own \ {m} : With(own, m, row)[x] = own[x]
<1> DEFINE f == [x \in DOMAIN own \cup {m} |-> IF x = m THEN row ELSE own[x]]
<1>1. With(own, m, row) = f
  BY DEF With
<1>2. f \in [DOMAIN own \cup {m} -> Rows] /\ DOMAIN own \cup {m} \in SUBSET Models
  BY RowParts
<1>3. f \in Overrides
  BY <1>2 DEF Overrides
<1> QED BY <1>1, <1>3

\* The row an edit of one rate starts from is a row.
LEMMA BaseRowIs ==
    ASSUME NEW own \in Overrides, NEW all \in Tables, NEW m
    PROVE  BaseRow(own, all, m) \in Rows
<1>1. PICK T \in Overrides : all = Merged(T)
  BY DEF Tables
<1>2. m \in DOMAIN all => all[m].rates \in Rows
  BY <1>1, MergedIs
<1>3. m \in DOMAIN own => own[m] \in Rows
  BY RowParts
<1>4. NoRates \in Rows
  BY DEF NoRates, Rows
<1> QED BY <1>2, <1>3, <1>4 DEF BaseRow

\* A rate set changes its own column only.
LEMMA RowSetIs ==
    ASSUME NEW own \in Overrides, NEW all \in Tables, NEW j \in EditJobs, j.kind = "set"
    PROVE  /\ RowSet(own, all, j) \in Rows
           /\ RowSet(own, all, j)[j.column] = j.rate
           /\ \A c \in Columns \ {j.column} :
                RowSet(own, all, j)[c] = BaseRow(own, all, j.model)[c]
<1>1. BaseRow(own, all, j.model) \in Rows /\ j.column \in Columns /\ j.rate \in Nat
  BY BaseRowIs, JobAssumption DEF JobAssumption
<1>2. PICK row \in Rows : row = BaseRow(own, all, j.model)
  BY <1>1
<1>3. RowSet(own, all, j) = [row EXCEPT ![j.column] = j.rate]
  BY <1>2 DEF RowSet
<1> QED BY <1>1, <1>2, <1>3 DEF Rows

\* An edit of overrides gives overrides.
LEMMA EditedIs ==
    ASSUME NEW own \in Overrides, NEW all, NEW j \in EditJobs,
           j.kind = "set" => all \in Tables
    PROVE  Edited(own, all, j) \in Overrides
<1>1. CASE j.kind = "set"
  <2>1. RowSet(own, all, j) \in Rows /\ j.model \in Models
    BY <1>1, RowSetIs, JobAssumption DEF JobAssumption
  <2>2. Edited(own, all, j) = With(own, j.model, RowSet(own, all, j))
    BY <1>1 DEF Edited
  <2>3. With(own, j.model, RowSet(own, all, j)) \in Overrides
    BY <2>1, WithIs
  <2> QED BY <2>2, <2>3
<1>2. CASE j.kind = "post"
  <2>1. j.row \in Rows /\ j.model \in Models
    BY <1>2, JobAssumption DEF JobAssumption, Rows
  <2>2. Edited(own, all, j) = With(own, j.model, j.row)
    BY <1>2 DEF Edited
  <2>3. With(own, j.model, j.row) \in Overrides
    BY <2>1, WithIs
  <2> QED BY <2>2, <2>3
<1>3. CASE j.kind = "unset"
  <2>1. Edited(own, all, j) = [m \in DOMAIN own \ {j.model} |-> own[m]]
    BY <1>3 DEF Edited
  <2>2. [m \in DOMAIN own \ {j.model} |-> own[m]] \in [DOMAIN own \ {j.model} -> Rows]
    BY RowParts
  <2>3. DOMAIN own \ {j.model} \in SUBSET Models
    BY RowParts
  <2> QED BY <2>1, <2>2, <2>3 DEF Overrides
<1>4. CASE j.kind = "edit"
  BY <1>4 DEF Edited
<1> QED BY <1>1, <1>2, <1>3, <1>4, JobAssumption DEF JobAssumption

\* An editor that starts has loaded nothing.
LEMMA BlankIs ==
    ASSUME NEW p \in {"idle", "own"}
    PROVE  Blank(p) \in EditorRecord /\ Blank(p).pc = p /\ Blank(p).alone
  BY NoOverridesIs DEF Blank, EditorRecord

\* The first state satisfies the invariant.
LEMMA PriceStart == PriceInit => PriceInv
<1> SUFFICES ASSUME PriceInit PROVE PriceInv
  OBVIOUS
<1>1. prices \in [there : BOOLEAN, text : Overrides, parses : BOOLEAN, mtime : Nat]
  BY NoOverridesIs DEF PriceInit
<1>2. loader \in [table : Tables, mtime : Nat, raced : BOOLEAN]
  BY NoOverridesIs DEF PriceInit, Tables
<1>3. editor \in [Editors -> EditorRecord] /\ \A e \in Editors : editor[e].pc = "idle"
  BY BlankIs DEF PriceInit
<1>4. reader \in [Readers -> ReaderRecord] /\ \A r \in Readers : reader[r].pc = "idle"
  BY NoOverridesIs DEF PriceInit, ReaderRecord
<1>5. loader.mtime = prices.mtime /\ loader.table = Merged(NoOverrides)
      /\ Readable(prices) = NoOverrides /\ lastEdit.job = None /\ prices.mtime \in Nat
  BY DEF PriceInit, Readable, NoEdit
<1> QED BY <1>1, <1>2, <1>3, <1>4, <1>5
        DEF PriceInv, PriceTyped, Editing, AloneReads, ReaderHolds, LoaderHolds, LastHolds

\* A write leaves nobody alone but the one who writes, and races every reader.
LEMMA WriteKeeps ==
    ASSUME PriceInv, NEW text \in Overrides, NEW parses \in BOOLEAN, NEW by, NEW then,
           Write(text, parses, by, then), UNCHANGED loader,
           by \in Editors => /\ then \in EditorRecord
                             /\ then.pc \in {"own", "ready", "torn"} => Prepared(then)
    PROVE  /\ PriceTyped' /\ ReaderHolds' /\ LoaderHolds'
           /\ \A e \in Editors : e # by => ~ editor'[e].alone
           /\ by \in Editors => editor'[by] = then
           /\ prices'.text = text /\ prices'.parses = parses
<1>1. /\ prices' = [there |-> TRUE, text |-> text, parses |-> parses, mtime |-> prices.mtime + 1]
      /\ prices.mtime \in Nat
  BY DEF Write, PriceInv, PriceTyped
<1>2. /\ prices' \in [there : BOOLEAN, text : Overrides, parses : BOOLEAN, mtime : Nat]
      /\ prices'.text = text /\ prices'.parses = parses /\ prices'.mtime = prices.mtime + 1
  BY <1>1
<1>3. \A e \in Editors : editor[e] \in EditorRecord
  BY DEF PriceInv, PriceTyped
<1>4. editor' = [e \in Editors |-> IF e = by THEN then ELSE [editor[e] EXCEPT !.alone = FALSE]]
  BY DEF Write
<1>5. ASSUME NEW e \in Editors, e # by
      PROVE  /\ editor'[e] \in EditorRecord /\ ~ editor'[e].alone
             /\ editor'[e].pc = editor[e].pc /\ editor'[e].job = editor[e].job
             /\ editor'[e].all = editor[e].all
  BY <1>3, <1>4, <1>5 DEF EditorRecord
<1>6. editor' \in [Editors -> EditorRecord]
  <2>1. \A e \in Editors : editor'[e] \in EditorRecord
    BY <1>4, <1>5
  <2> QED BY <1>4, <2>1
<1>7. \A r \in Readers : reader[r] \in ReaderRecord
  BY DEF PriceInv, PriceTyped
<1>8. reader' = [r \in Readers |-> [reader[r] EXCEPT !.raced = TRUE]]
  BY DEF Write
<1>9. \A r \in Readers : reader'[r] \in ReaderRecord /\ reader'[r].raced
  BY <1>7, <1>8 DEF ReaderRecord
<1>10. reader' \in [Readers -> ReaderRecord]
  BY <1>8, <1>9
<1>11. \A e \in Editors : Editing(e)' => Prepared(editor'[e])
  BY <1>4, <1>5 DEF PriceInv, PriceTyped, Editing, Prepared
<1>12. loader'.mtime <= prices'.mtime /\ loader'.mtime # prices'.mtime
       /\ loader' \in [table : Tables, mtime : Nat, raced : BOOLEAN]
  BY <1>1, <1>2 DEF PriceInv, PriceTyped
<1>13. PriceTyped'
  BY <1>2, <1>6, <1>10, <1>11, <1>12 DEF PriceTyped
<1> QED BY <1>2, <1>4, <1>5, <1>9, <1>12, <1>13 DEF ReaderHolds, LoaderHolds

\* An edit by hand keeps the invariant.
LEMMA ByHand == ASSUME PriceInv, EditByHand PROVE PriceInv'
<1>1. Write(NoOverrides, FALSE, None, None) /\ UNCHANGED loader /\ lastEdit'.job = None
  BY DEF EditByHand, NoEdit
<1>2. None \notin Editors
  BY PriceAssumption DEF PriceAssumption
<1>3. PriceTyped' /\ ReaderHolds' /\ LoaderHolds' /\ \A e \in Editors : ~ editor'[e].alone
  BY <1>1, <1>2, WriteKeeps, NoOverridesIs
<1>4. AloneReads'
  BY <1>3 DEF AloneReads
<1>5. LastHolds'
  BY <1>1 DEF LastHolds
<1> QED BY <1>3, <1>4, <1>5 DEF PriceInv

\* A step of an editor that writes nothing.
LEMMA EditorReads ==
    ASSUME PriceInv, NEW e \in Editors, NEW next \in EditorRecord,
           editor' = [editor EXCEPT ![e] = next],
           UNCHANGED <<prices, reader, loader, lastEdit>>,
           next.pc \in {"own", "ready", "torn"} =>
               /\ Prepared(next)
               /\ next.alone => \E T \in Overrides :
                    /\ next.own = LoadOverrides(T)
                    /\ next.pc = "own" => T = Readable(prices)
                    /\ next.pc # "own" /\ next.job.kind = "set" => next.all = Merged(T)
    PROVE  PriceInv'
<1>1. editor' \in [Editors -> EditorRecord] /\ editor'[e] = next
      /\ \A d \in Editors \ {e} : editor'[d] = editor[d]
  BY DEF PriceInv, PriceTyped
<1>2. Readable(prices)' = Readable(prices)
  BY DEF Readable
<1>3. PriceTyped'
  BY <1>1 DEF PriceInv, PriceTyped, Editing
<1>4. AloneReads'
  <2> SUFFICES ASSUME NEW d \in Editors, Editing(d)', editor'[d].alone
               PROVE  \E T \in Overrides : OneText(d, T)'
    BY DEF AloneReads
  <2>1. CASE d = e
    BY <1>1, <1>2, <2>1 DEF OneText, Editing
  <2>2. CASE d # e
    <3>1. PICK T \in Overrides : OneText(d, T)
      BY <1>1, <2>2 DEF PriceInv, AloneReads, Editing
    <3> QED BY <1>1, <1>2, <2>2, <3>1 DEF OneText
  <2> QED BY <2>1, <2>2
<1>5. ReaderHolds' /\ LoaderHolds' /\ LastHolds'
  BY <1>2 DEF PriceInv, ReaderHolds, LoaderHolds, LastHolds
<1> QED BY <1>3, <1>4, <1>5 DEF PriceInv

\* Loading the overrides alone keeps the invariant.
LEMMA OwnLoaded == ASSUME PriceInv, NEW e \in Editors, LoadOwn(e) PROVE PriceInv'
<1>1. PICK j \in EditJobs :
        editor' = [editor EXCEPT ![e] =
            [Blank("own") EXCEPT !.job = j, !.own = LoadOverrides(Readable(prices))]]
  BY DEF LoadOwn
<1>2. PICK own \in Overrides : own = LoadOverrides(Readable(prices))
  BY ReadableIs, LoadIs DEF PriceInv
<1> DEFINE next == [[Blank("own") EXCEPT !.job = j] EXCEPT !.own = own]
<1>3. editor' = [editor EXCEPT ![e] = next]
  BY <1>1, <1>2
<1>4. next \in EditorRecord /\ next.pc = "own" /\ next.job = j /\ next.own = own
  BY BlankIs DEF EditorRecord
<1>5. UNCHANGED <<prices, reader, loader, lastEdit>>
  BY DEF LoadOwn
<1> HIDE DEF next
<1>6. Readable(prices) \in Overrides
  BY ReadableIs DEF PriceInv
<1>7. Prepared(next)
  BY <1>4 DEF Prepared
<1> QED BY <1>2, <1>3, <1>4, <1>5, <1>6, <1>7, EditorReads

\* Loading the whole table keeps the invariant.
LEMMA AllLoaded == ASSUME PriceInv, NEW e \in Editors, LoadAll(e) PROVE PriceInv'
<1>1. /\ editor[e].pc = "own"
      /\ editor' = [editor EXCEPT ![e].pc = "ready", ![e].all = Merged(Readable(prices))]
      /\ UNCHANGED <<prices, reader, loader, lastEdit>>
  BY DEF LoadAll
<1>2. PICK all \in Tables : all = Merged(Readable(prices))
  BY ReadableIs DEF PriceInv, Tables
<1>3. editor \in [Editors -> EditorRecord] /\ editor[e] \in EditorRecord
  BY DEF PriceInv, PriceTyped
<1> DEFINE next == [[editor[e] EXCEPT !.pc = "ready"] EXCEPT !.all = all]
<1>4. editor' = [editor EXCEPT ![e] = next]
  BY <1>1, <1>2, <1>3
<1>5. /\ next \in EditorRecord /\ next.pc = "ready" /\ next.job = editor[e].job
      /\ next.own = editor[e].own /\ next.all = all /\ next.alone = editor[e].alone
  BY <1>3 DEF EditorRecord
<1>6. Prepared(editor[e])
      /\ (editor[e].alone => \E T \in Overrides : OneText(e, T))
  BY <1>1 DEF PriceInv, PriceTyped, AloneReads, Editing
<1>7. editor[e].alone => \E T \in Overrides :
        editor[e].own = LoadOverrides(T) /\ T = Readable(prices)
  BY <1>1, <1>6 DEF OneText
<1> HIDE DEF next
<1>8. Prepared(next)
  BY <1>2, <1>5, <1>6 DEF Prepared
<1>9. next.alone => \E T \in Overrides :
        /\ next.own = LoadOverrides(T)
        /\ next.pc = "own" => T = Readable(prices)
        /\ next.pc # "own" /\ next.job.kind = "set" => next.all = Merged(T)
  BY <1>2, <1>5, <1>7
<1> QED BY <1>1, <1>4, <1>5, <1>8, <1>9, EditorReads

\* An editor that dies with the file torn keeps the invariant.
LEMMA Left == ASSUME PriceInv, NEW e \in Editors, LeaveTorn(e) PROVE PriceInv'
  BY EditorReads, BlankIs DEF LeaveTorn

\* Truncating the file keeps the invariant.
LEMMA Truncated == ASSUME PriceInv, NEW e \in Editors, Truncate(e) PROVE PriceInv'
<1>1. /\ Write(NoOverrides, TRUE, e, [editor[e] EXCEPT !.pc = "torn"])
      /\ UNCHANGED loader /\ lastEdit'.job = None
      /\ editor[e].pc = "ready" \/ (editor[e].pc = "own" /\ editor[e].job.kind \in Direct)
  BY DEF Truncate, NoEdit
<1>2. editor[e] \in EditorRecord /\ Prepared(editor[e])
      /\ (editor[e].alone => \E T \in Overrides : OneText(e, T))
  BY <1>1 DEF PriceInv, PriceTyped, AloneReads, Editing
<1> DEFINE torn == [editor[e] EXCEPT !.pc = "torn"]
<1>7. /\ torn \in EditorRecord /\ torn.pc = "torn" /\ torn.job = editor[e].job
      /\ torn.own = editor[e].own /\ torn.all = editor[e].all /\ torn.alone = editor[e].alone
  BY <1>2 DEF EditorRecord
<1>3. PICK next \in EditorRecord :
        /\ next = [editor[e] EXCEPT !.pc = "torn"]
        /\ next.pc = "torn" /\ next.job = editor[e].job /\ next.own = editor[e].own
        /\ next.all = editor[e].all /\ next.alone = editor[e].alone
  BY <1>7
<1> HIDE DEF torn
<1>8. Prepared(next)
  BY <1>1, <1>2, <1>3 DEF Prepared, Direct
<1>9. Write(NoOverrides, TRUE, e, next) /\ NoOverrides \in Overrides
  BY <1>1, <1>3, NoOverridesIs
<1>4. /\ PriceTyped' /\ ReaderHolds' /\ LoaderHolds'
      /\ \A d \in Editors : d # e => ~ editor'[d].alone
      /\ editor'[e] = next
  BY <1>1, <1>8, <1>9, WriteKeeps
<1>5. AloneReads'
  <2> SUFFICES ASSUME NEW d \in Editors, editor'[d].alone
               PROVE  \E T \in Overrides : OneText(d, T)'
    BY DEF AloneReads
  <2>1. d = e
    BY <1>4
  <2>2. PICK T \in Overrides : OneText(e, T)
    BY <1>2, <1>3, <1>4, <2>1
  <2>3. next.job.kind = "set" => next.all = Merged(T)
    BY <1>1, <1>3, <2>2 DEF OneText, Direct
  <2> QED BY <1>3, <1>4, <2>1, <2>2, <2>3 DEF OneText
<1>6. LastHolds'
  BY <1>1 DEF LastHolds
<1> QED BY <1>4, <1>5, <1>6 DEF PriceInv

\* Writing the file again keeps the invariant.
LEMMA Rewritten == ASSUME PriceInv, NEW e \in Editors, Rewrite(e) PROVE PriceInv'
<1> DEFINE j == editor[e].job
<1>1. /\ editor[e].pc = "torn"
      /\ Write(Edited(editor[e].own, editor[e].all, j), TRUE, e, Blank("idle"))
      /\ lastEdit' = IF editor[e].alone /\ j.kind = "set"
                     THEN [job |-> j, before |-> editor[e].all] ELSE NoEdit
      /\ UNCHANGED loader
  BY DEF Rewrite
<1>2. /\ editor[e] \in EditorRecord /\ Prepared(editor[e]) /\ editor[e].own \in Overrides
      /\ (editor[e].alone => \E T \in Overrides : OneText(e, T))
  BY <1>1 DEF PriceInv, PriceTyped, AloneReads, Editing, EditorRecord
<1>3. PICK text \in Overrides : text = Edited(editor[e].own, editor[e].all, j)
  BY <1>1, <1>2, EditedIs DEF Prepared
<1>4. PICK next \in EditorRecord : next = Blank("idle") /\ next.pc = "idle"
  BY BlankIs
<1>5. /\ PriceTyped' /\ ReaderHolds' /\ LoaderHolds'
      /\ \A d \in Editors : d # e => ~ editor'[d].alone
      /\ editor'[e] = next /\ prices'.text = text /\ prices'.parses
  BY <1>1, <1>3, <1>4, WriteKeeps
<1>6. AloneReads'
  BY <1>4, <1>5 DEF AloneReads, Editing
<1>7. LastHolds'
  <2> SUFFICES ASSUME lastEdit'.job # None PROVE LastHolds'
    BY DEF LastHolds
  <2>1. editor[e].alone /\ j.kind = "set"
    BY <1>1 DEF NoEdit
  <2>2. lastEdit'.job = j /\ lastEdit'.before = editor[e].all /\ j \in EditJobs
    BY <1>1, <1>2, <2>1 DEF Prepared
  <2>3. PICK T \in Overrides : OneText(e, T)
    BY <1>2, <2>1
  <2>4. editor[e].own = LoadOverrides(T) /\ editor[e].all = Merged(T)
    BY <1>1, <2>1, <2>3 DEF OneText
  <2>5. prices'.text = Edited(LoadOverrides(T), Merged(T), j)
    BY <1>3, <1>5, <2>4
  <2> QED BY <1>5, <2>1, <2>2, <2>4, <2>5 DEF LastHolds
<1> QED BY <1>5, <1>6, <1>7 DEF PriceInv

\* Readers and the table.
LEMMA Statted == ASSUME PriceInv, NEW r \in Readers, Stat(r) PROVE PriceInv'
<1>1. /\ reader' = [reader EXCEPT ![r].pc = "stale"]
      /\ UNCHANGED <<prices, editor, loader, lastEdit>>
  BY DEF Stat
<1>2. reader \in [Readers -> ReaderRecord] /\ reader[r] \in ReaderRecord
  BY DEF PriceInv, PriceTyped
<1>3. reader' \in [Readers -> ReaderRecord] /\ reader'[r].pc = "stale"
      /\ \A q \in Readers \ {r} : reader'[q] = reader[q]
  BY <1>1, <1>2 DEF ReaderRecord
<1>4. Readable(prices)' = Readable(prices)
  BY <1>1 DEF Readable
<1> QED BY <1>1, <1>3, <1>4
        DEF PriceInv, PriceTyped, Editing, AloneReads, OneText, ReaderHolds, LoaderHolds, LastHolds

\* Reading the file keeps the invariant.
LEMMA ReadIs == ASSUME PriceInv, NEW r \in Readers, ReadPrices(r) PROVE PriceInv'
<1>1. PICK text \in Overrides : text = Readable(prices)
  BY ReadableIs DEF PriceInv
<1>2. /\ reader' = [reader EXCEPT ![r] = [pc |-> "read", text |-> text, raced |-> FALSE]]
      /\ UNCHANGED <<prices, editor, loader, lastEdit>>
  BY <1>1 DEF ReadPrices
<1>3. reader' \in [Readers -> ReaderRecord] /\ reader'[r].text = text
      /\ \A q \in Readers \ {r} : reader'[q] = reader[q]
  BY <1>2 DEF ReaderRecord, PriceInv, PriceTyped
<1>4. Readable(prices)' = Readable(prices)
  BY <1>2 DEF Readable
<1> QED BY <1>1, <1>2, <1>3, <1>4
        DEF PriceInv, PriceTyped, Editing, AloneReads, OneText, ReaderHolds, LoaderHolds, LastHolds

\* Installing what was read keeps the invariant.
LEMMA Installed == ASSUME PriceInv, NEW r \in Readers, Install(r) PROVE PriceInv'
<1>1. /\ reader[r].pc = "read"
      /\ loader' = [table |-> Merged(reader[r].text), mtime |-> prices.mtime,
                    raced |-> reader[r].raced]
      /\ reader' = [reader EXCEPT ![r] = [pc |-> "idle", text |-> NoOverrides, raced |-> FALSE]]
      /\ UNCHANGED <<prices, editor, lastEdit>>
  BY DEF Install
<1>2. /\ reader[r] \in ReaderRecord /\ prices.mtime \in Nat
      /\ ~ reader[r].raced => reader[r].text = Readable(prices)
  BY <1>1 DEF PriceInv, PriceTyped, ReaderHolds
<1>3. reader' \in [Readers -> ReaderRecord] /\ reader'[r].pc = "idle"
      /\ \A q \in Readers \ {r} : reader'[q] = reader[q]
  BY <1>1, NoOverridesIs DEF ReaderRecord, PriceInv, PriceTyped
<1>4. Readable(prices)' = Readable(prices)
  BY <1>1 DEF Readable
<1>5. /\ loader' \in [table : Tables, mtime : Nat, raced : BOOLEAN]
      /\ loader'.mtime = prices.mtime /\ LoaderHolds'
  BY <1>1, <1>2, <1>4 DEF ReaderRecord, Tables, LoaderHolds
<1>6. PriceTyped'
  BY <1>1, <1>2, <1>3, <1>5 DEF PriceInv, PriceTyped, Editing
<1> QED BY <1>1, <1>3, <1>4, <1>5, <1>6
        DEF PriceInv, Editing, AloneReads, OneText, ReaderHolds, LastHolds

\* Every step keeps the invariant.
LEMMA PriceStep == PriceInv /\ [PriceNext]_priceVars => PriceInv'
<1> SUFFICES ASSUME PriceInv, [PriceNext]_priceVars PROVE PriceInv'
  OBVIOUS
<1>1. CASE UNCHANGED priceVars
  BY <1>1 DEF priceVars, PriceInv, PriceTyped, Editing, AloneReads, OneText, ReaderHolds,
              LoaderHolds, LastHolds, Readable
<1> QED BY <1>1, ByHand, OwnLoaded, AllLoaded, Truncated, Rewritten, Left, Statted, ReadIs,
           Installed DEF PriceNext

-----------------------------------------------------------------------------
(* The theorems. *)

\* A table that no write has raced charges what the file it was loaded from
\* says, whatever edits, saves by hand and reloads come before.
THEOREM TheTableFollowsTheFile == PriceSpec => []PricesFollowFile
<1>1. PriceInv => PricesFollowFile
  <2> SUFFICES ASSUME PriceInv, loader.mtime = prices.mtime, ~ loader.raced,
                      NEW text, text = Readable(prices)
               PROVE  /\ \A m \in DOMAIN loader.table : loader.table[m].peak <=> m \in Varying
                      /\ \A m \in DOMAIN Shipped \ DOMAIN text :
                           loader.table[m].rates = Shipped[m]
                      /\ \A m \in DOMAIN text, c \in Columns :
                           text[m][c] # None => loader.table[m].rates[c] = text[m][c]
                      /\ \A m \in DOMAIN text, c \in {"w5", "w1"} :
                           NoWriteFee(m) /\ text[m][c] = None => loader.table[m].rates[c] = 0
    BY DEF PricesFollowFile
  <2>1. text \in Overrides /\ loader.table = Merged(text)
    BY ReadableIs DEF PriceInv, LoaderHolds
  <2>2. PICK L \in Overrides : L = LoadOverrides(text)
    BY <2>1, LoadIs
  <2>3. \A m \in DOMAIN loader.table :
          /\ loader.table[m].peak <=> m \in Varying
          /\ loader.table[m].rates = IF m \in DOMAIN text THEN L[m] ELSE Shipped[m]
    <3> TAKE m \in DOMAIN loader.table
    <3>1. /\ Merged(text)[m].rates = IF m \in DOMAIN text THEN LoadOverrides(text)[m]
                                                          ELSE Shipped[m]
          /\ Merged(text)[m].peak = (m \in Varying)
      BY <2>1, MergedIs, ZenonT(40)
    <3> QED BY <2>1, <2>2, <3>1
  <2>4. DOMAIN loader.table = DOMAIN Shipped \cup DOMAIN text
    BY <2>1, MergedIs
  <2>5. \A m \in DOMAIN text :
          /\ \A c \in Columns : text[m][c] # None => L[m][c] = text[m][c]
          /\ \A c \in {"w5", "w1"} : NoWriteFee(m) /\ text[m][c] = None => L[m][c] = 0
    BY <2>1, <2>2, LoadIs
  <2> QED BY <2>3, <2>4, <2>5
<1> QED BY <1>1, PriceStart, PriceStep, PTL DEF PriceSpec

\* Two tables with the same peak that have the same rate for every class a call
\* uses charge the same.
LEMMA ComputeIs ==
    ASSUME NEW table, NEW other, NEW m, m \in DOMAIN table, m \in DOMAIN other,
           table[m].peak = other[m].peak, NEW u \in Sample, NEW fast, NEW batch, NEW atPeak,
           \A c \in Classes : u[c] > 0 =>
               table[m].rates[ColumnOf(table[m].rates, c, fast)]
                 = other[m].rates[ColumnOf(other[m].rates, c, fast)]
    PROVE  Compute(table, m, u, fast, batch, atPeak) = Compute(other, m, u, fast, batch, atPeak)
<1> DEFINE used == {c \in Classes : u[c] > 0}
           rate(c) == table[m].rates[ColumnOf(table[m].rates, c, fast)]
           other_rate(c) == other[m].rates[ColumnOf(other[m].rates, c, fast)]
<1>1. \A c \in used : rate(c) = other_rate(c)
  OBVIOUS
<1>2. PICK factor :
        factor = (IF batch THEN 1 ELSE 2) * (IF atPeak /\ table[m].peak THEN 2 ELSE 1)
  OBVIOUS
<1> DEFINE cost(c) == IF c \in used THEN u[c] * rate(c) * factor ELSE 0
           price(c) == IF c \in used THEN u[c] * other_rate(c) * factor ELSE 0
<1>3. \A c \in Classes : cost(c) = price(c)
  BY <1>1
<1>4. Compute(table, m, u, fast, batch, atPeak) =
        IF \E c \in used : rate(c) = None THEN None
        ELSE cost("input") + cost("output") + cost("w5") + cost("w1") + cost("read")
  BY <1>2 DEF Compute
<1>5. Compute(other, m, u, fast, batch, atPeak) =
        IF \E c \in used : other_rate(c) = None THEN None
        ELSE price("input") + price("output") + price("w5") + price("w1") + price("read")
  BY <1>2 DEF Compute
<1>6. {"input", "output", "w5", "w1", "read"} = Classes
  BY DEF Classes
<1> HIDE DEF used, cost, price, rate, other_rate
<1>7. cost("input") = price("input") /\ cost("output") = price("output")
      /\ cost("w5") = price("w5") /\ cost("w1") = price("w1") /\ cost("read") = price("read")
  BY <1>3, <1>6
<1>8. (\E c \in used : rate(c) = None) <=> (\E c \in used : other_rate(c) = None)
  BY <1>1
<1> QED BY <1>4, <1>5, <1>7, <1>8

\* A call that has a rate for every class it uses is never unpriced.
LEMMA WholeIsPriced ==
    ASSUME NEW table, NEW m \in DOMAIN table, NEW u \in Sample, NEW fast, NEW batch, NEW atPeak,
           \A c \in Classes : u[c] > 0 =>
               table[m].rates[ColumnOf(table[m].rates, c, fast)] \in Nat
    PROVE  Compute(table, m, u, fast, batch, atPeak) # None
<1> DEFINE used == {c \in Classes : u[c] > 0}
           rate(c) == table[m].rates[ColumnOf(table[m].rates, c, fast)]
           factor == (IF batch THEN 1 ELSE 2) * (IF atPeak /\ table[m].peak THEN 2 ELSE 1)
           cost(c) == IF c \in used THEN u[c] * rate(c) * factor ELSE 0
<1>1. factor \in Nat
  OBVIOUS
<1>2. \A c \in Classes : u[c] \in Nat
  BY DEF Sample
<1>3. \A x, y, z \in Nat : x * y * z \in Nat
  OBVIOUS
<1>4. \A c \in used : rate(c) \in Nat
  OBVIOUS
<1>5. {"input", "output", "w5", "w1", "read"} = Classes /\ None \notin Nat
  BY PriceAssumption DEF Classes, PriceAssumption
<1>6. Compute(table, m, u, fast, batch, atPeak) =
        IF \E c \in used : rate(c) = None THEN None
        ELSE cost("input") + cost("output") + cost("w5") + cost("w1") + cost("read")
  BY DEF Compute
<1> HIDE DEF factor, rate
<1>7. \A c \in Classes : cost(c) \in Nat
  BY <1>1, <1>2, <1>3, <1>4
<1> HIDE DEF cost
<1>8. cost("input") + cost("output") + cost("w5") + cost("w1") + cost("read") \in Nat
  BY <1>5, <1>7
<1> QED BY <1>4, <1>5, <1>6, <1>8

\* What an edit of one rate leaves in the table that the next load makes: the
\* rows of the other models, and every rate of the model's row but the one.
LEMMA RowsAfterEdit ==
    ASSUME NEW T \in Overrides, NEW j \in EditJobs, j.kind = "set",
           j.model \in DOMAIN Merged(T),
           \A c \in Classes : Merged(T)[j.model].rates[c] # None
    PROVE  LET U == Edited(LoadOverrides(T), Merged(T), j)
           IN  /\ DOMAIN Merged(T) \subseteq DOMAIN Merged(U)
               /\ \A m \in DOMAIN Merged(T) : Merged(U)[m].peak = Merged(T)[m].peak
               /\ \A m \in DOMAIN Merged(T) \ {j.model} :
                     Merged(U)[m].rates = Merged(T)[m].rates
               /\ Merged(U)[j.model].rates \in Rows
               /\ Merged(U)[j.model].rates[j.column] \in Nat
               /\ \A c \in Classes : Merged(U)[j.model].rates[c] \in Nat
               /\ \A c \in Columns \ {j.column} :
                     Merged(U)[j.model].rates[c] = Merged(T)[j.model].rates[c]
<1>1. PICK own \in Overrides : own = LoadOverrides(T)
  BY LoadIs
<1>2. DOMAIN own = DOMAIN T /\ \A m \in DOMAIN T : own[m] = LoadOverrides(T)[m]
  BY <1>1, LoadIs
<1>3. PICK all \in Tables : all = Merged(T)
  BY DEF Tables
<1>4. j.model \in Models /\ j.column \in Columns /\ j.rate \in Nat /\ None \notin Nat
  BY JobAssumption, PriceAssumption DEF JobAssumption, PriceAssumption
<1>5. /\ DOMAIN all = DOMAIN Shipped \cup DOMAIN T
      /\ \A m \in DOMAIN all :
           /\ all[m].rates = IF m \in DOMAIN T THEN own[m] ELSE Shipped[m]
           /\ all[m].rates \in Rows
           /\ all[m].peak = (m \in Varying)
  BY <1>2, <1>3, MergedIs, ZenonT(40)
<1>6. PICK row \in Rows : row = RowSet(own, all, j)
  BY RowSetIs
<1>7. BaseRow(own, all, j.model) = all[j.model].rates
  BY <1>2, <1>3, <1>5 DEF BaseRow
<1>8. /\ row[j.column] = j.rate
      /\ \A c \in Columns \ {j.column} : row[c] = all[j.model].rates[c]
  BY <1>6, <1>7, RowSetIs
<1>9. \A c \in Classes : row[c] \in Nat /\ row[c] # None
  <2>1. \A c \in Columns : row[c] \in Nat \cup {None}
    BY DEF Rows
  <2>2. \A c \in Classes \ {j.column} : row[c] # None
    BY <1>3, <1>8 DEF Columns
  <2> QED BY <1>4, <1>8, <2>1, <2>2 DEF Columns
<1>10. PICK U \in Overrides :
         /\ U = Edited(own, all, j)
         /\ DOMAIN U = DOMAIN T \cup {j.model}
         /\ U[j.model] = row
         /\ \A x \in DOMAIN T \ {j.model} : U[x] = own[x]
  <2>1. Edited(own, all, j) = With(own, j.model, row)
    BY <1>6 DEF Edited
  <2>2. /\ With(own, j.model, row) \in Overrides
        /\ DOMAIN With(own, j.model, row) = DOMAIN own \cup {j.model}
        /\ With(own, j.model, row)[j.model] = row
        /\ \A x \in DOMAIN own \ {j.model} : With(own, j.model, row)[x] = own[x]
    <3>1. With(own, j.model, row) \in Overrides
      BY <1>4, WithIs
    <3> QED BY <3>1 DEF With
  <2> QED BY <1>2, <2>1, <2>2
<1>11. /\ DOMAIN Merged(U) = DOMAIN Shipped \cup DOMAIN U
       /\ \A m \in DOMAIN Merged(U) :
            /\ Merged(U)[m].rates = IF m \in DOMAIN U THEN LoadOverrides(U)[m] ELSE Shipped[m]
            /\ Merged(U)[m].peak = (m \in Varying)
  BY MergedIs, ZenonT(40)
<1>12. DOMAIN all \subseteq DOMAIN Merged(U)
  BY <1>5, <1>10, <1>11
<1>13. \A m \in DOMAIN all : Merged(U)[m].peak = all[m].peak
  BY <1>5, <1>11, <1>12
<1>14. ASSUME NEW m \in DOMAIN all \ {j.model}
       PROVE  Merged(U)[m].rates = all[m].rates
  <2>1. CASE m \in DOMAIN T
    <3>1. m \in DOMAIN U /\ U[m] = LoadOverrides(T)[m] /\ U[m] = own[m]
      BY <1>2, <1>10, <2>1
    <3>2. LoadOverrides(U)[m] = U[m]
      BY <2>1, <3>1, LoadTwice
    <3> QED BY <1>5, <1>11, <1>12, <2>1, <3>1, <3>2
  <2>2. CASE m \notin DOMAIN T
    <3>1. m \notin DOMAIN U
      BY <1>10, <2>2
    <3> QED BY <1>5, <1>11, <1>12, <2>2, <3>1
  <2> QED BY <2>1, <2>2
<1>15. Merged(U)[j.model].rates = row
  <2>1. LoadOverrides(U)[j.model] = U[j.model]
    BY <1>9, <1>10, LoadWhole
  <2> QED BY <1>10, <1>11, <2>1
<1>16. row[j.column] \in Nat
  BY <1>4, <1>8
<1> QED BY <1>1, <1>3, <1>8, <1>9, <1>10, <1>12, <1>13, <1>14, <1>15, <1>16

\* Whatever the table was, an edit of one rate that ran alone has left what every
\* call costs that is not charged at that rate, and that it did not switch to the
\* fast rates, as it was, through the file and the next load of it
\* (applyPriceEdits and Loader.reload); and of a model priced in every class it
\* took no price but that of the answers of fast calls it switched to a fast
\* output rate that is not there (Table.Compute).
THEOREM EditsStayLocal == PriceSpec => []EditsAreLocal
<1>1. PriceInv => EditsAreLocal
  <2> DEFINE after == Merged(Readable(prices))
             before == lastEdit.before
  <2> SUFFICES ASSUME PriceInv, Judged, NEW m \in DOMAIN before, NEW u \in Sample,
                      NEW fast \in BOOLEAN, NEW batch \in BOOLEAN, NEW atPeak \in BOOLEAN
               PROVE  LET now == Compute(after, m, u, fast, batch, atPeak)
                          was == Compute(before, m, u, fast, batch, atPeak)
                      IN  /\ now = was \/ (m = lastEdit.job.model /\ Meant(after[m].rates, u, fast))
                          /\ now = None =>
                               \/ was = None
                               \/ /\ m = lastEdit.job.model /\ Switched(u, fast) /\ u["output"] > 0
                                  /\ after[m].rates["fastOut"] = None
    BY DEF EditsAreLocal
  <2>1. PICK j \in EditJobs : j = lastEdit.job
    BY DEF PriceInv, LastHolds, Judged
  <2>2. PICK T \in Overrides :
          /\ before = Merged(T)
          /\ prices.text = Edited(LoadOverrides(T), Merged(T), j)
    BY <2>1 DEF PriceInv, LastHolds, Judged
  <2>3. j.kind = "set" /\ Readable(prices) = Edited(LoadOverrides(T), Merged(T), j)
    BY <2>1, <2>2 DEF PriceInv, LastHolds, Readable, Judged
  <2>4. j.model \in DOMAIN Merged(T)
        /\ \A c \in Classes : Merged(T)[j.model].rates[c] # None
    BY <2>1, <2>2 DEF Judged
  <2>5. /\ DOMAIN before \subseteq DOMAIN after
        /\ \A x \in DOMAIN before : after[x].peak = before[x].peak
        /\ \A x \in DOMAIN before \ {j.model} : after[x].rates = before[x].rates
        /\ after[j.model].rates \in Rows
        /\ after[j.model].rates[j.column] \in Nat
        /\ \A c \in Classes : after[j.model].rates[c] \in Nat
        /\ \A c \in Columns \ {j.column} : after[j.model].rates[c] = before[j.model].rates[c]
    BY <2>2, <2>3, <2>4, RowsAfterEdit
  <2>6. m \in DOMAIN before /\ m \in DOMAIN after /\ after[m].peak = before[m].peak
    BY <2>5
  <2>7. j.column \in Columns /\ None \notin Nat /\ {"fastIn", "fastOut"} \subseteq Columns
        /\ Classes \subseteq Columns /\ {"input", "output"} \subseteq Classes
    BY JobAssumption, PriceAssumption, <2>3 DEF JobAssumption, PriceAssumption, Columns, Classes
  <2> HIDE DEF after, before
  <2>8. ASSUME ~ (m = j.model /\ Meant(after[m].rates, u, fast))
        PROVE  Compute(after, m, u, fast, batch, atPeak) = Compute(before, m, u, fast, batch, atPeak)
    <3>1. ASSUME NEW c \in Classes, u[c] > 0
          PROVE  after[m].rates[ColumnOf(after[m].rates, c, fast)]
                   = before[m].rates[ColumnOf(before[m].rates, c, fast)]
      <4>1. CASE m # j.model
        BY <2>5, <4>1
      <4>2. CASE m = j.model
        <5>1. ~ Switched(u, fast) /\ ColumnOf(after[m].rates, c, fast) # j.column
          BY <2>1, <2>8, <3>1, <4>2 DEF Meant
        <5>2. ColumnOf(after[m].rates, c, fast) \in Columns
          BY <2>7 DEF ColumnOf
        <5>3. fast /\ c \in {"input", "output"} => j.column # "fastIn"
          BY <2>1, <3>1, <5>1 DEF Switched
        <5>4. ColumnOf(before[m].rates, c, fast) = ColumnOf(after[m].rates, c, fast)
          <6>1. CASE fast /\ c \in {"input", "output"}
            <7>1. after[m].rates["fastIn"] = before[m].rates["fastIn"]
              BY <2>5, <2>7, <4>2, <5>3, <6>1
            <7> QED BY <7>1 DEF ColumnOf
          <6>2. CASE ~ (fast /\ c \in {"input", "output"})
            BY <6>2 DEF ColumnOf
          <6> QED BY <6>1, <6>2
        <5> QED BY <2>5, <4>2, <5>1, <5>2, <5>4
      <4> QED BY <4>1, <4>2
    <3> QED BY <2>6, <3>1, ComputeIs
  <2>9. ASSUME m = j.model, Compute(after, m, u, fast, batch, atPeak) = None,
               Compute(before, m, u, fast, batch, atPeak) # None
        PROVE  Switched(u, fast) /\ u["output"] > 0 /\ after[m].rates["fastOut"] = None
    <3>1. PICK c \in Classes :
            u[c] > 0 /\ after[m].rates[ColumnOf(after[m].rates, c, fast)] \notin Nat
      BY <2>6, <2>9, WholeIsPriced
    <3>2. ColumnOf(after[m].rates, c, fast) \notin Classes
      BY <2>5, <2>9, <3>1
    <3>3. fast /\ after[m].rates["fastIn"] # None /\ c \in {"input", "output"}
      BY <3>2 DEF ColumnOf
    <3>4. after[m].rates["fastIn"] \in Nat
      BY <2>5, <2>7, <2>9, <3>3 DEF Rows
    <3>5. c = "output" /\ ColumnOf(after[m].rates, c, fast) = "fastOut"
      BY <3>1, <3>3, <3>4 DEF ColumnOf
    <3>6. after[m].rates["fastOut"] = None
      BY <2>5, <2>7, <2>9, <3>1, <3>5 DEF Rows
    <3>7. j.column # "fastOut"
      BY <2>5, <2>7, <2>9, <3>6
    <3>8. CASE j.column = "fastIn"
      BY <2>1, <3>1, <3>3, <3>5, <3>6, <3>8 DEF Switched
    <3>9. CASE j.column # "fastIn"
      <4>1. /\ before[m].rates["fastIn"] # None
            /\ before[m].rates["fastOut"] = None
        BY <2>5, <2>7, <2>9, <3>3, <3>6, <3>7, <3>9
      <4>2. before[m].rates[ColumnOf(before[m].rates, c, fast)] = None
        BY <3>3, <3>5, <4>1 DEF ColumnOf
      <4>3. Compute(before, m, u, fast, batch, atPeak) = None
        BY <2>6, <3>1, <4>2 DEF Compute
      <4> QED BY <2>9, <4>3
    <3> QED BY <3>8, <3>9
  <2> QED BY <2>1, <2>8, <2>9
<1> QED BY <1>1, PriceStart, PriceStep, PTL DEF PriceSpec

-----------------------------------------------------------------------------
(* The findings about a session.                                           *)

PassRecord == [pc : {"batch", "written", "store"},
               todo : SUBSET [id : Nat, kind : STRING], seen : SUBSET Nat]

\* What claims to last is so among the rows of now, stored or still in hand.
LastingSo ==
    {f \in found \cup pass.todo : f.kind \in Lasting} \subseteq AnalyzeSession(history)

\* The rows that a pass has not read are not forgotten; one that has read all
\* there are has all there is to find.
PassHolds == pass.pc = "store" =>
    /\ DOMAIN history \ pass.seen \subseteq unseen
    /\ pass.seen = DOMAIN history => pass.todo = AnalyzeSession(history)

AllFound == unseen = {} => AnalyzeSession(history) \subseteq found

RulesInv ==
    /\ history \in Seq(Offered) /\ pass.pc \in {"batch", "written", "store"}
    /\ pass.seen \subseteq DOMAIN history
    /\ LastingSo /\ PassHolds /\ AllFound

\* A call's figures are numbers, and a write is usage.
LEMMA CallIs ==
    ASSUME NEW c \in Offered
    PROVE  /\ c.at \in Nat /\ c.input \in Nat /\ c.w5 \in Nat /\ c.w1 \in Nat
           /\ c.read \in Nat /\ c.lasts \in Nat
           /\ Writes(c) \in Nat /\ Total(c) \in Nat
           /\ Writes(c) > 0 => HasUsage(c)
           /\ c.read > 0 => HasUsage(c)
<1>1. /\ c.at \in Nat /\ c.input \in Nat /\ c.w5 \in Nat /\ c.w1 \in Nat
      /\ c.read \in Nat /\ c.lasts \in Nat
  BY RulesAssumption DEF RulesAssumption
<1> QED BY <1>1 DEF Writes, Total, HasUsage

\* The kinds of a finding are those of its rule.
LEMMA FindingIs ==
    ASSUME NEW s, NEW f \in AnalyzeSession(s)
    PROVE  /\ f = [id |-> f.id, kind |-> f.kind]
           /\ f.kind = "cache_prefix_invalidation" => f.id \in PrefixInvalidation(s)
           /\ f.kind = "cache_invalidated_by_tools" => f.id \in ToolsChanged(s)
           /\ f.kind = "cache_write_never_read" => f.id \in NeverRead(s)
           /\ f.kind = "cache_ttl_mismatch" => f.id \in TTLMismatch(s)
           /\ f.kind = "cache_expired_between_turns" => f.id \in ExpiredBetweenTurns(s)
           /\ f.kind = "cache_concurrent_write_race" => f.id \in ConcurrentWriteRace(s)
           /\ f.kind \in {"cache_prefix_invalidation", "cache_invalidated_by_tools",
                          "cache_write_never_read", "cache_ttl_mismatch",
                          "cache_expired_between_turns", "cache_concurrent_write_race"}
  BY DEF AnalyzeSession, Finding

\* What a lasting rule finds is among the session's findings.
LEMMA FoundIs ==
    ASSUME NEW s, NEW i
    PROVE  /\ i \in TTLMismatch(s) =>
                [id |-> i, kind |-> "cache_ttl_mismatch"] \in AnalyzeSession(s)
           /\ i \in ConcurrentWriteRace(s) =>
                [id |-> i, kind |-> "cache_concurrent_write_race"] \in AnalyzeSession(s)
  BY DEF AnalyzeSession, Finding

\* No rule of one call raises a kind that is to last.
LEMMA CallKinds ==
    ASSUME NEW c, NEW k \in Analyze(c)
    PROVE  /\ k \notin Lasting
           /\ k = "cache_prefix_below_minimum" => BelowMinimum(c)
           /\ k \notin {"cache_prefix_invalidation", "cache_invalidated_by_tools",
                        "cache_write_never_read", "cache_ttl_mismatch",
                        "cache_expired_between_turns", "cache_concurrent_write_race"}
  BY DEF Analyze, PerEventRules, Lasting

\* A row that comes later, wherever its start puts it, leaves what lasts.
LEMMA MismatchLasts ==
    ASSUME NEW s \in Seq(Offered), NEW c \in Offered, NEW i \in TTLMismatch(s)
    PROVE  i \in TTLMismatch(Append(s, c))
<1>1. PICK t \in Seq(Offered) : t = Append(s, c)
  <2>1. Append(s, c) \in Seq(Offered)
    OBVIOUS
  <2> QED BY <2>1
<1>2. PICK n \in Nat : n = Len(s)
  OBVIOUS
<1>3. /\ DOMAIN s = 1..n /\ DOMAIN t = 1..(n + 1)
      /\ \A k \in 1..n : t[k] = s[k]
  BY <1>1, <1>2
<1>4. \A k \in 1..(n + 1) : t[k].at \in Nat /\ t[k].read \in Nat
  BY <1>1, <1>3, CallIs
<1>5. \A k \in 1..n, l \in 1..n : Before(t, k, l) <=> Before(s, k, l)
  BY <1>3 DEF Before
<1>6. i \in 1..n /\ s[i].w1 > 0
  BY <1>3 DEF TTLMismatch
<1>7. PICK j \in ReadsWithin(s, i, Long) :
        /\ \A k \in ReadsWithin(s, i, Long) : ~ Before(s, k, j)
        /\ s[j].at - s[i].at < Short
  BY DEF TTLMismatch
<1>8. j \in 1..n /\ Before(t, i, j) /\ t[j].read > 0 /\ t[j].at - t[i].at <= Long
  BY <1>3, <1>5, <1>6, <1>7 DEF ReadsWithin
<1>9. j \in ReadsWithin(t, i, Long)
  BY <1>3, <1>8 DEF ReadsWithin
<1>10. \A k \in 1..n : k \in ReadsWithin(t, i, Long) => ~ Before(t, k, j)
  BY <1>3, <1>5, <1>6, <1>7, <1>8 DEF ReadsWithin
<1>11. i \in DOMAIN t /\ t[i].w1 > 0
  BY <1>3, <1>6
<1>12. CASE n + 1 \in ReadsWithin(t, i, Long) /\ Before(t, n + 1, j)
  <2>1. t[n + 1].at - t[i].at < Short
    BY <1>3, <1>4, <1>6, <1>7, <1>8, <1>12, RulesAssumption, SMTT(30) DEF Before, RulesAssumption
  <2>2. ASSUME NEW k \in ReadsWithin(t, i, Long), Before(t, k, n + 1)
        PROVE  FALSE
    <3>1. k \in 1..(n + 1)
      BY <1>3 DEF ReadsWithin
    <3>2. k # n + 1
      BY <1>4, <2>2, <3>1 DEF Before
    <3>3. Before(t, k, j)
      BY <1>4, <1>8, <1>12, <2>2, <3>1 DEF Before
    <3> QED BY <1>10, <2>2, <3>1, <3>2, <3>3
  <2> QED BY <1>1, <1>11, <1>12, <2>1, <2>2 DEF TTLMismatch
<1>13. CASE ~ (n + 1 \in ReadsWithin(t, i, Long) /\ Before(t, n + 1, j))
  <2>1. \A k \in ReadsWithin(t, i, Long) : k \in 1..n \/ k = n + 1
    BY <1>3 DEF ReadsWithin
  <2>2. \A k \in ReadsWithin(t, i, Long) : ~ Before(t, k, j)
    BY <1>10, <1>13, <2>1
  <2>3. t[j].at - t[i].at < Short
    BY <1>3, <1>6, <1>7, <1>8
  <2> QED BY <1>1, <1>9, <1>11, <2>2, <2>3 DEF TTLMismatch
<1> QED BY <1>12, <1>13

\* A race found stays found when a later call follows.
LEMMA RaceLasts ==
    ASSUME NEW s \in Seq(Offered), NEW c \in Offered, NEW i \in ConcurrentWriteRace(s)
    PROVE  i \in ConcurrentWriteRace(Append(s, c))
<1>1. PICK t \in Seq(Offered) : t = Append(s, c)
  <2>1. Append(s, c) \in Seq(Offered)
    OBVIOUS
  <2> QED BY <2>1
<1>2. DOMAIN s \subseteq DOMAIN t /\ \A k \in DOMAIN s : t[k] = s[k]
  BY <1>1
<1>3. i \in DOMAIN s /\ HasHash(s[i]) /\ Writes(s[i]) > 0 /\ s[i].read = 0
  BY DEF ConcurrentWriteRace
<1>4. PICK j \in Earlier(s, i) : s[j].read = 0 /\ s[i].at < s[j].at + s[j].lasts
  BY DEF ConcurrentWriteRace
<1>5. j \in DOMAIN s /\ Before(s, j, i) /\ s[j].hash = s[i].hash /\ Writes(s[j]) > 0
  BY <1>4 DEF Earlier
<1>6. Before(t, j, i)
  BY <1>2, <1>3, <1>5 DEF Before
<1>7. j \in Earlier(t, i)
  BY <1>2, <1>3, <1>5, <1>6 DEF Earlier
<1> QED BY <1>1, <1>2, <1>3, <1>4, <1>5, <1>7 DEF ConcurrentWriteRace

\* A lasting finding stays found when a later call follows.
LEMMA LastingLasts ==
    ASSUME NEW s \in Seq(Offered), NEW c \in Offered,
           NEW f \in AnalyzeSession(s), f.kind \in Lasting
    PROVE  f \in AnalyzeSession(Append(s, c))
<1>1. CASE f.kind = "cache_ttl_mismatch"
  <2>1. f.id \in TTLMismatch(Append(s, c)) /\ f = [id |-> f.id, kind |-> "cache_ttl_mismatch"]
    BY <1>1, FindingIs, MismatchLasts
  <2> QED BY <2>1, FoundIs
<1>2. CASE f.kind = "cache_concurrent_write_race"
  <2>1. /\ f.id \in ConcurrentWriteRace(Append(s, c))
        /\ f = [id |-> f.id, kind |-> "cache_concurrent_write_race"]
    BY <1>2, FindingIs, RaceLasts
  <2> QED BY <2>1, FoundIs
<1> QED BY <1>1, <1>2 DEF Lasting

\* An empty session has no findings.
LEMMA NothingToFind == ASSUME NEW s \in Seq(Offered), DOMAIN s = {} PROVE AnalyzeSession(s) = {}
<1>1. DOMAIN WithUsage(s) = {} /\ DOMAIN WithBody(s) = {}
  BY DEF WithUsage, WithBody
<1>2. PrefixInvalidation(s) = {} /\ ToolsChanged(s) = {}
  BY <1>1 DEF PrefixInvalidation, PrefixInvalidationOf, ToolsChanged
<1>3. NeverRead(s) = {} /\ TTLMismatch(s) = {}
  BY DEF NeverRead, TTLMismatch
<1>4. ExpiredBetweenTurns(s) = {} /\ ConcurrentWriteRace(s) = {}
  BY DEF ExpiredBetweenTurns, ConcurrentWriteRace
<1> QED BY <1>2, <1>3, <1>4 DEF AnalyzeSession, Finding

\* The first state satisfies the invariant.
LEMMA RulesStart == RulesInit => RulesInv
<1> SUFFICES ASSUME RulesInit PROVE RulesInv
  OBVIOUS
<1>1. history \in Seq(Offered) /\ DOMAIN history = {}
  BY DEF RulesInit
<1> QED BY <1>1, NothingToFind
        DEF RulesInit, RulesInv, NoPass, LastingSo, PassHolds, AllFound

\* A row that is added is unseen, and its own findings do not last.
LEMMA AddKeeps ==
    ASSUME RulesInv, NEW c \in Offered, Add(c), pass'.seen = pass.seen, pass'.todo = pass.todo
    PROVE  /\ history' \in Seq(Offered) /\ DOMAIN history \subseteq DOMAIN history'
           /\ LastingSo' /\ AllFound'
           /\ DOMAIN history \ pass.seen \subseteq unseen =>
                DOMAIN history' \ pass'.seen \subseteq unseen'
           /\ pass'.seen # DOMAIN history'
<1>1. PICK id \in Nat : id = Len(history) + 1
  BY DEF RulesInv
<1>2. /\ history' = Append(history, c) /\ unseen' = unseen \cup {id}
      /\ found' = found \cup {[id |-> id, kind |-> k] : k \in Analyze(c)}
  BY <1>1 DEF Add
<1>3. /\ history' \in Seq(Offered) /\ DOMAIN history' = DOMAIN history \cup {id}
      /\ id \notin DOMAIN history
  BY <1>1, <1>2 DEF RulesInv
<1>4. ASSUME NEW f \in found' \cup pass'.todo, f.kind \in Lasting
      PROVE  f \in AnalyzeSession(history')
  <2>1. f \in found \cup pass.todo
    BY <1>2, <1>4, CallKinds
  <2>2. f \in AnalyzeSession(history)
    BY <1>4, <2>1 DEF RulesInv, LastingSo
  <2> QED BY <1>2, <1>4, <2>2, LastingLasts DEF RulesInv
<1>5. unseen' # {}
  BY <1>2
<1>6. pass.seen \subseteq DOMAIN history
  BY DEF RulesInv
<1> QED BY <1>2, <1>3, <1>4, <1>5, <1>6 DEF LastingSo, AllFound

\* Every step keeps the invariant.
LEMMA RulesStep == RulesInv /\ [RulesNext]_rulesVars => RulesInv'
<1> SUFFICES ASSUME RulesInv, [RulesNext]_rulesVars PROVE RulesInv'
  OBVIOUS
<1>1. CASE WriteCall
  <2>1. PICK c \in Offered : Add(c)
    BY <1>1 DEF WriteCall
  <2>2. pass'.pc = "written" /\ pass'.todo = pass.todo /\ pass'.seen = pass.seen
    BY <1>1 DEF WriteCall
  <2> QED BY <2>1, <2>2, AddKeeps DEF RulesInv, PassHolds
<1>2. CASE WriteLine
  <2>1. PICK c \in Offered : Add(c)
    BY <1>2 DEF WriteLine
  <2>2. pass' = pass
    BY <1>2 DEF WriteLine
  <2> QED BY <2>1, <2>2, AddKeeps DEF RulesInv, PassHolds
<1>3. CASE ReadSession
  <2>1. /\ pass' = [pc |-> "store", todo |-> AnalyzeSession(history), seen |-> DOMAIN history]
        /\ history' = history /\ found' = found /\ unseen' = unseen
    BY <1>3 DEF ReadSession
  <2>2. pass'.pc = "store" /\ pass'.todo = AnalyzeSession(history) /\ pass'.seen = DOMAIN history
    BY <2>1
  <2>3. AnalyzeSession(history)' = AnalyzeSession(history)
    BY <2>1
  <2> QED BY <2>1, <2>2, <2>3 DEF RulesInv, LastingSo, PassHolds, AllFound
<1>4. ASSUME NEW ids \in SUBSET Groups, pass' = NoPass, history' = history,
             found' = found \cup UNION {Group(id) : id \in ids}
      PROVE  /\ history' \in Seq(Offered) /\ pass'.pc = "batch" /\ pass'.seen \subseteq DOMAIN history'
             /\ LastingSo' /\ PassHolds' /\ AnalyzeSession(history)' = AnalyzeSession(history)
  <2>1. found' \cup pass'.todo \subseteq found \cup pass.todo
    BY <1>4 DEF Group, NoPass
  <2>2. AnalyzeSession(history)' = AnalyzeSession(history)
    BY <1>4
  <2> QED BY <1>4, <2>1, <2>2 DEF RulesInv, NoPass, LastingSo, PassHolds
<1>5. CASE StoreFindings
  <2>1. /\ pass.pc = "store" /\ pass' = NoPass /\ history' = history
        /\ found' = found \cup UNION {Group(id) : id \in Groups}
        /\ unseen' = unseen \ pass.seen
    BY <1>5 DEF StoreFindings
  <2>2. UNION {Group(id) : id \in Groups} = pass.todo
    BY DEF Group, Groups
  <2>3. ASSUME unseen' = {} PROVE AnalyzeSession(history) \subseteq found'
    <3>1. DOMAIN history = pass.seen
      BY <2>1, <2>3 DEF RulesInv, PassHolds
    <3> QED BY <2>1, <2>2, <3>1 DEF RulesInv, PassHolds
  <2> QED BY <1>4, <2>1, <2>3 DEF RulesInv, AllFound
<1>6. CASE BreakOffPass
  <2>1. PICK ids \in SUBSET Groups : found' = found \cup UNION {Group(id) : id \in ids}
    BY <1>6 DEF BreakOffPass
  <2>2. pass' = NoPass /\ unseen' = DOMAIN history /\ history' = history
    BY <1>6 DEF BreakOffPass
  <2>3. unseen' = {} => AnalyzeSession(history) = {}
    BY <2>2, NothingToFind DEF RulesInv
  <2> QED BY <1>4, <2>1, <2>2, <2>3 DEF RulesInv, AllFound
<1>7. CASE UNCHANGED rulesVars
  BY <1>7 DEF rulesVars, RulesInv, LastingSo, PassHolds, AllFound
<1> QED BY <1>1, <1>2, <1>3, <1>5, <1>6, <1>7 DEF RulesNext

\* Whatever the calls and the order in which they and the transcript's lines
\* arrive, and wherever a pass breaks off: a stored finding that a 1-hour write
\* was read again at once, or that two writes of a prefix overlapped, is never
\* contradicted by a row that arrives later, and when every row has been in a
\* pass that came through, all that AnalyzeSession finds is stored.
THEOREM FindingsAlwaysHold == RulesSpec => []FindingsHold
<1>1. RulesInv => FindingsHold
  BY DEF RulesInv, LastingSo, AllFound, FindingsHold
<1> QED BY <1>1, RulesStart, RulesStep, PTL DEF RulesSpec

\* What of a session's rows the rules that look for reads and writes look at.
LEMMA UsageIs ==
    ASSUME NEW s \in Seq(Offered)
    PROVE  /\ DOMAIN WithUsage(s) \subseteq DOMAIN s
           /\ \A i \in DOMAIN WithUsage(s) : WithUsage(s)[i] = s[i] /\ HasUsage(s[i])
           /\ \A i \in DOMAIN s :
                /\ s[i] \in Offered /\ i \in Nat
                /\ HasUsage(s[i]) => i \in DOMAIN WithUsage(s)
                /\ Writes(s[i]) > 0 => i \in DOMAIN WithUsage(s)
                /\ s[i].read > 0 => i \in DOMAIN WithUsage(s)
           /\ WithUsage(WithUsage(s)) = WithUsage(s)
<1> DEFINE U == {j \in DOMAIN s : HasUsage(s[j])}
<1>1. WithUsage(s) = [i \in U |-> s[i]]
  BY DEF WithUsage
<1>2. \A i \in DOMAIN s : s[i] \in Offered /\ i \in Nat
  OBVIOUS
<1>3. {j \in U : HasUsage(s[j])} = U
  OBVIOUS
<1>4. WithUsage(WithUsage(s)) = WithUsage(s)
  <2>1. PICK u : u = [i \in U |-> s[i]]
    OBVIOUS
  <2>2. DOMAIN u = U /\ \A i \in U : u[i] = s[i]
    BY <2>1
  <2>3. {j \in DOMAIN u : HasUsage(u[j])} = U
    BY <1>3, <2>2
  <2>4. WithUsage(u) = [i \in U |-> u[i]]
    BY <2>3 DEF WithUsage
  <2> QED BY <1>1, <2>1, <2>2, <2>4
<1> QED BY <1>1, <1>2, <1>4, CallIs

\* Of the rows before a row, one is the latest.
LEMMA LatestBefore ==
    ASSUME NEW s \in Seq(Offered), NEW i \in DOMAIN s, NEW D, D \subseteq DOMAIN s,
           NEW j \in D, Before(s, j, i)
    PROVE  \E k \in D : Before(s, k, i) /\ ~ \E l \in D : Before(s, k, l) /\ Before(s, l, i)
<1>0. \A k \in DOMAIN s : s[k].at \in Nat /\ k \in Nat
  BY CallIs
<1> DEFINE E == {k \in D : Before(s, k, i)}
           A == {s[i].at - s[k].at : k \in E}
<1>1. A \subseteq Nat /\ A # {}
  BY <1>0 DEF Before
<1>2. PICK a \in A : \A b \in A : ~ (<<b, a>> \in OpToRel(<, Nat))
  BY <1>1, NatLessThanWellFounded, WFMin
<1>3. PICK m \in E : a = s[i].at - s[m].at
  BY <1>2
<1>4. \A k \in E : s[k].at <= s[m].at
  <2> SUFFICES ASSUME NEW k \in E PROVE s[k].at <= s[m].at
    OBVIOUS
  <2>1. s[i].at - s[k].at \in A
    OBVIOUS
  <2>2. ~ (s[i].at - s[k].at < a)
    BY <1>1, <1>2, <2>1 DEF OpToRel
  <2> QED BY <1>0, <1>3, <2>2
<1> DEFINE B == {Len(s) - k : k \in {l \in E : s[l].at = s[m].at}}
<1>5. B \subseteq Nat /\ B # {}
  <2>1. \A k \in DOMAIN s : Len(s) - k \in Nat
    OBVIOUS
  <2> QED BY <2>1
<1>6. PICK b \in B : \A d \in B : ~ (<<d, b>> \in OpToRel(<, Nat))
  BY <1>5, NatLessThanWellFounded, WFMin
<1>7. PICK k \in E : s[k].at = s[m].at /\ b = Len(s) - k
  BY <1>6
<1>8. ASSUME NEW l \in D, Before(s, k, l), Before(s, l, i)
      PROVE  FALSE
  <2>1. l \in E /\ s[l].at <= s[m].at
    BY <1>4, <1>8
  <2>2. s[l].at = s[m].at /\ k < l
    <3>1. /\ s[k].at \in Nat /\ s[l].at \in Nat /\ s[k].at = s[m].at
          /\ s[k].at < s[l].at \/ (s[k].at = s[l].at /\ k < l)
      BY <1>0, <1>7, <1>8 DEF Before
    <3> QED BY <2>1, <3>1
  <2>3. Len(s) - l \in B
    BY <2>1, <2>2
  <2>4. ~ (Len(s) - l < b)
    BY <1>5, <1>6, <2>3 DEF OpToRel
  <2>5. Len(s) \in Nat /\ l \in Nat /\ k \in Nat
    BY <1>0
  <2> QED BY <1>7, <2>2, <2>4, <2>5
<1> QED BY <1>7, <1>8

\* A call that writes its prefix again writes.
LEMMA RewriteWrites ==
    ASSUME NEW c \in Offered, NEW d \in Offered, Rewrites(c, d)
    PROVE  Writes(d) > 0
<1>1. Total(c) \in Nat /\ Total(c) # 0 /\ 2 * Writes(d) >= Total(c) /\ Writes(d) \in Nat
  BY CallIs DEF Rewrites, HasUsage
<1> QED BY <1>1

\* A session rule names no row that wrote nothing to the cache.
LEMMA FoundWrites ==
    ASSUME NEW s \in Seq(Offered), NEW f \in AnalyzeSession(s)
    PROVE  f.id \in DOMAIN s /\ Writes(s[f.id]) > 0
<1>1. PICK i : i = f.id
  OBVIOUS
<1>2. \A k \in DOMAIN s : s[k] \in Offered /\ s[k].at \in Nat /\ k \in Nat
  BY CallIs
<1>3. CASE i \in PrefixInvalidation(s)
  <2>1. PICK u : u = WithUsage(s)
    OBVIOUS
  <2>2. /\ i \in DOMAIN u /\ Cardinality(DOMAIN u) >= 3
        /\ \A j \in DOMAIN u : ~ Before(u, i, j)
        /\ \A j, k \in DOMAIN u : Follows(u, j, k) => Rewrites(u[j], u[k])
    BY <1>3, <2>1 DEF PrefixInvalidation, PrefixInvalidationOf
  <2>3. DOMAIN u \subseteq DOMAIN s /\ \A k \in DOMAIN u : u[k] = s[k]
    BY <2>1, UsageIs
  <2>4. PICK j \in DOMAIN u : j # i
    <3>1. DOMAIN u = {i} => Cardinality(DOMAIN u) = 1
      BY FS_Singleton
    <3>2. DOMAIN u # {i}
      BY <2>2, <3>1
    <3> QED BY <2>2, <3>2
  <2>5. Before(s, j, i)
    BY <1>2, <2>2, <2>3, <2>4 DEF Before
  <2>6. PICK k \in DOMAIN u :
          Before(s, k, i) /\ ~ \E l \in DOMAIN u : Before(s, k, l) /\ Before(s, l, i)
    BY <2>2, <2>3, <2>5, LatestBefore
  <2>7. Follows(u, k, i)
    BY <2>2, <2>3, <2>6 DEF Follows, Before
  <2> QED BY <1>1, <1>2, <2>2, <2>3, <2>7, RewriteWrites
<1>4. CASE i \in ToolsChanged(s)
  <2>1. PICK b : b = WithBody(s)
    OBVIOUS
  <2>2. DOMAIN b \subseteq DOMAIN s /\ \A k \in DOMAIN b : b[k] = s[k]
    BY <2>1 DEF WithBody
  <2>3. PICK j \in DOMAIN b : i \in DOMAIN b /\ Rewrites(b[j], b[i])
    BY <1>4, <2>1 DEF ToolsChanged
  <2> QED BY <1>1, <1>2, <2>2, <2>3, RewriteWrites
<1>5. CASE i \in TTLMismatch(s)
  <2>1. i \in DOMAIN s /\ s[i].w1 > 0
    BY <1>5 DEF TTLMismatch
  <2>2. s[i].w1 \in Nat /\ s[i].w5 \in Nat
    BY <1>2, <2>1, CallIs
  <2> QED BY <1>1, <2>1, <2>2 DEF Writes
<1>6. CASE i \in NeverRead(s) \cup ExpiredBetweenTurns(s) \cup ConcurrentWriteRace(s)
  BY <1>1, <1>6 DEF NeverRead, ExpiredBetweenTurns, ConcurrentWriteRace
<1> QED BY <1>1, <1>3, <1>4, <1>5, <1>6, FindingIs

\* The rules but the one about tools look at rows with usage only.
LEMMA UsageIsAll ==
    ASSUME NEW s \in Seq(Offered)
    PROVE  LET u == WithUsage(s)
           IN  /\ PrefixInvalidation(u) = PrefixInvalidation(s)
               /\ NeverRead(u) = NeverRead(s)
               /\ TTLMismatch(u) = TTLMismatch(s)
               /\ ExpiredBetweenTurns(u) = ExpiredBetweenTurns(s)
               /\ ConcurrentWriteRace(u) = ConcurrentWriteRace(s)
<1>1. PICK u : u = WithUsage(s)
  OBVIOUS
<1>2. /\ DOMAIN u \subseteq DOMAIN s /\ \A i \in DOMAIN u : u[i] = s[i]
      /\ \A i \in DOMAIN s : /\ Writes(s[i]) > 0 => i \in DOMAIN u
                             /\ s[i].read > 0 => i \in DOMAIN u
                             /\ s[i].w1 > 0 => i \in DOMAIN u
  <2>1. ASSUME NEW i \in DOMAIN s, s[i].w1 > 0 PROVE Writes(s[i]) > 0
    <3>1. s[i].w1 \in Nat /\ s[i].w5 \in Nat
      BY UsageIs, CallIs
    <3> QED BY <2>1, <3>1 DEF Writes
  <2> QED BY <1>1, <2>1, UsageIs
<1>3. \A i, j \in DOMAIN u : Before(u, i, j) <=> Before(s, i, j)
  BY <1>2 DEF Before
<1>4. \A span : \A i \in DOMAIN u : ReadsWithin(u, i, span) = ReadsWithin(s, i, span)
  BY <1>2, <1>3 DEF ReadsWithin
<1>5. \A i \in DOMAIN u : Earlier(u, i) = Earlier(s, i)
  BY <1>2, <1>3 DEF Earlier
<1>6. PrefixInvalidation(u) = PrefixInvalidation(s)
  BY <1>1, UsageIs DEF PrefixInvalidation
<1>7. NeverRead(u) = NeverRead(s)
  BY <1>2, <1>4 DEF NeverRead
<1>8. TTLMismatch(u) = TTLMismatch(s)
  <2>1. \A i \in DOMAIN u : \A j \in ReadsWithin(s, i, Long) : j \in DOMAIN u
    <3>1. \A i \in DOMAIN u : \A j \in ReadsWithin(u, i, Long) : j \in DOMAIN u
      BY DEF ReadsWithin
    <3> QED BY <1>4, <3>1
  <2> QED BY <1>2, <1>3, <1>4, <2>1 DEF TTLMismatch
<1>9. ExpiredBetweenTurns(u) = ExpiredBetweenTurns(s)
  <2>1. \A i \in DOMAIN u : \A j \in Earlier(s, i) : j \in DOMAIN u
    BY <1>5 DEF Earlier
  <2> QED BY <1>2, <1>3, <1>5, <2>1 DEF ExpiredBetweenTurns
<1>10. ConcurrentWriteRace(u) = ConcurrentWriteRace(s)
  <2>1. \A i \in DOMAIN u : \A j \in Earlier(s, i) : j \in DOMAIN u
    BY <1>5 DEF Earlier
  <2> QED BY <1>2, <1>5, <2>1 DEF ConcurrentWriteRace
<1> QED BY <1>1, <1>6, <1>7, <1>8, <1>9, <1>10

\* Whatever the calls: the findings about the rows of one moment do not
\* contradict each other, and a call that failed, whose row has no usage,
\* neither adds nor hides a finding of a session rule, but for the one about
\* tools (rowsWithUsage, rules.go:375-390).
THEOREM FindingsAlwaysAgree == RulesSpec => []FindingsAgree
<1>1. RulesInv => FindingsAgree
  <2> SUFFICES ASSUME RulesInv PROVE FindingsAgree
    OBVIOUS
  <2>1. PICK s \in Seq(Offered) : s = history
    BY DEF RulesInv
  <2>2. ASSUME NEW i \in DOMAIN s, NEW C \in Contradictory,
               \A k \in C : k \in Analyze(s[i])
                            \/ \E g \in AnalyzeSession(s) : g.id = i /\ g.kind = k
        PROVE  FALSE
    <3>1. CASE C = {"cache_write_never_read", "cache_ttl_mismatch"}
      <4>1. i \in NeverRead(s)
        BY <2>2, <3>1, CallKinds, FindingIs
      <4>2. i \in TTLMismatch(s)
        BY <2>2, <3>1, CallKinds, FindingIs
      <4>3. s[i].w1 > 0 /\ ReadsWithin(s, i, Long) # {}
        BY <4>2 DEF TTLMismatch
      <4> QED BY <4>1, <4>3 DEF NeverRead, Lifetime
    <3>2. CASE "cache_prefix_below_minimum" \in C
      <4>1. PICK k \in C :
              k \in {"cache_prefix_invalidation", "cache_invalidated_by_tools",
                     "cache_write_never_read", "cache_ttl_mismatch",
                     "cache_expired_between_turns", "cache_concurrent_write_race"}
        BY <3>2 DEF Contradictory
      <4>2. Writes(s[i]) > 0
        BY <2>2, <4>1, CallKinds, FoundWrites
      <4>3. "cache_prefix_below_minimum" \in Analyze(s[i])
        BY <2>2, <3>2, FindingIs
      <4>4. Writes(s[i]) = 0
        BY <4>3, CallKinds DEF BelowMinimum
      <4> QED BY <4>2, <4>4
    <3> QED BY <3>1, <3>2 DEF Contradictory
  <2>3. {f \in AnalyzeSession(s) : f.kind # "cache_invalidated_by_tools"}
          = {f \in AnalyzeSession(WithUsage(s)) : f.kind # "cache_invalidated_by_tools"}
    BY UsageIsAll DEF AnalyzeSession, Finding
  <2>4. ASSUME NEW i \in DOMAIN history, NEW C \in Contradictory,
               C \subseteq Analyze(history[i])
                    \cup {f.kind : f \in {g \in AnalyzeSession(history) : g.id = i}}
        PROVE  FALSE
    BY <2>1, <2>2, <2>4
  <2> QED BY <2>1, <2>3, <2>4 DEF FindingsAgree
<1> QED BY <1>1, RulesStart, RulesStep, PTL DEF RulesSpec

-----------------------------------------------------------------------------
(* The row and the session of a call.                                      *)

RowNames ==
    {<<q.header>> : q \in Requests} \cup {<<q.message>> : q \in Requests}
    \cup {<<q.body, t, n>> : q \in Requests, t \in Nat, n \in Nat}
SessionNames == {<<SessionHeader(q)>> : q \in Requests} \cup {<<"s", n>> : n \in Nat}

CallRecord == [request : Requests, at : Nat]
CapturedRecord == [request : Requests, at : Nat, life : Nat,
                   id : RowNames, session : SessionNames]

IdentityTyped ==
    /\ minute \in Nat /\ attempts \in Nat /\ minted \in Nat /\ restarts \in Nat
    /\ flying \in Seq(CallRecord) /\ captured \in Seq(CapturedRecord)
    /\ \A k \in DOMAIN resolved : resolved[k] \in [session : Nat, at : Nat]

\* Whatever an earlier life captured began before anything in this one.
LivesApart ==
    /\ \A k \in DOMAIN flying : flying[k].at <= minute
    /\ \A i \in DOMAIN captured :
         /\ captured[i].at <= minute /\ captured[i].life <= restarts
         /\ captured[i].life < restarts =>
              /\ captured[i].at < minute
              /\ \A k \in DOMAIN flying : captured[i].at < flying[k].at

\* A made-up key has the number of an attempt, which only an earlier life can
\* have reached again.
AttemptOf(a, n, life, last) ==
    a.id = <<a.request.body, a.at, n>> /\ (a.life = life => n <= last)

KeyOf(a) ==
    /\ MadeUp(a) => \E n \in Nat : AttemptOf(a, n, restarts, attempts)
    /\ ~ MadeUp(a) => \E x : a.id = <<x>>

KeysApart ==
    /\ \A i \in DOMAIN captured : KeyOf(captured[i])
    /\ \A i, j \in DOMAIN captured :
         i # j /\ MadeUp(captured[i]) /\ MadeUp(captured[j]) => captured[i].id # captured[j].id

SameGroup(a, b) ==
    Grouped(a) /\ Grouped(b) /\ a.life = b.life /\ PrefixHash(a.request) = PrefixHash(b.request)

SessionOf(a) ==
    /\ Grouped(a) => \E n \in Nat : n <= minted /\ a.session = <<"s", n>>
    /\ ~ Grouped(a) => a.session = <<SessionHeader(a.request)>>

SessionsApart ==
    /\ \A i \in DOMAIN captured : SessionOf(captured[i])
    /\ \A i, j \in DOMAIN captured :
         Grouped(captured[i]) /\ Grouped(captured[j]) /\ captured[i].session = captured[j].session
            => SameGroup(captured[i], captured[j])

\* The Resolver has seen the calls it grouped since it started, and of each
\* prefix it holds the last one.
InLife(a, key) == Grouped(a) /\ a.life = restarts /\ PrefixHash(a.request) = key

SeenLast(key, i) ==
    /\ InLife(captured[i], key)
    /\ \A j \in DOMAIN captured : i < j => ~ InLife(captured[j], key)
    /\ captured[i].session = <<"s", resolved[key].session>>
    /\ captured[i].at = resolved[key].at

ResolverHolds ==
    /\ \A key \in DOMAIN resolved : \E i \in DOMAIN captured : SeenLast(key, i)
    /\ \A i \in DOMAIN captured : \A key :
         InLife(captured[i], key) => key \in DOMAIN resolved

NextInGroup(i, j) ==
    /\ i < j /\ SameGroup(captured[i], captured[j])
    /\ ~ \E m \in DOMAIN captured : i < m /\ m < j /\ SameGroup(captured[i], captured[m])

GapsHold ==
    \A i, j \in DOMAIN captured : NextInGroup(i, j) =>
        (captured[i].session = captured[j].session <=> captured[j].at - captured[i].at <= Gap)

IdentityInv ==
    /\ IdentityTyped /\ LivesApart /\ KeysApart /\ SessionsApart /\ ResolverHolds /\ GapsHold

\* The first state satisfies the invariant.
LEMMA IdentityStart == IdentityInit => IdentityInv
<1> SUFFICES ASSUME IdentityInit PROVE IdentityInv
  OBVIOUS
<1>1. /\ flying \in Seq(CallRecord) /\ captured \in Seq(CapturedRecord)
      /\ DOMAIN flying = {} /\ DOMAIN captured = {} /\ DOMAIN resolved = {}
  BY DEF IdentityInit, NoSessions
<1>2. minute \in Nat /\ attempts \in Nat /\ minted \in Nat /\ restarts \in Nat
  BY DEF IdentityInit
<1> QED BY <1>1, <1>2 DEF IdentityInv, IdentityTyped, LivesApart, KeysApart, SessionsApart,
                          ResolverHolds, GapsHold

\* What is removed from a sequence leaves the rest of it.
LEMMA RemoveAtIs ==
    ASSUME NEW S, NEW s \in Seq(S), NEW i \in 1..Len(s)
    PROVE  /\ RemoveAt(s, i) \in Seq(S)
           /\ \A k \in DOMAIN RemoveAt(s, i) : \E l \in DOMAIN s : RemoveAt(s, i)[k] = s[l]
<1>1. SubSeq(s, 1, i - 1) \in Seq(S) /\ SubSeq(s, i + 1, Len(s)) \in Seq(S)
  OBVIOUS
<1>2. PICK a \in Seq(S), b \in Seq(S) : a = SubSeq(s, 1, i - 1) /\ b = SubSeq(s, i + 1, Len(s))
  BY <1>1
<1>3. RemoveAt(s, i) = a \o b
  BY <1>2 DEF RemoveAt
<1>4. Len(a) = i - 1 /\ \A k \in 1..Len(a) : a[k] = s[k]
  BY <1>2
<1>5. Len(b) = Len(s) - i /\ \A k \in 1..Len(b) : b[k] = s[i + k]
  BY <1>2
<1>6. a \o b \in Seq(S) /\ Len(a \o b) = Len(a) + Len(b)
      /\ \A k \in 1..Len(a) + Len(b) : (a \o b)[k] = IF k <= Len(a) THEN a[k] ELSE b[k - Len(a)]
  OBVIOUS
<1>7. ASSUME NEW k \in 1..Len(a) + Len(b) PROVE \E l \in DOMAIN s : (a \o b)[k] = s[l]
  <2>1. CASE k <= Len(a)
    BY <1>4, <1>6, <2>1, SMTT(30)
  <2>2. CASE k > Len(a)
    <3>1. PICK m \in 1..Len(b) : m = k - Len(a) /\ i + m \in DOMAIN s
      BY <1>4, <1>5, <2>2
    <3>2. (a \o b)[k] = b[m] /\ b[m] = s[i + m]
      BY <1>5, <1>6, <2>2, <3>1, SMTT(30)
    <3> QED BY <3>1, <3>2
  <2> QED BY <1>4, <2>1, <2>2
<1> QED BY <1>3, <1>6, <1>7

\* The request of a call that is resolved, and what becomes of it.
ResolvesTo(i, c, key, id, a) ==
    /\ i \in 1..Len(flying) /\ c = flying[i] /\ key = PrefixHash(c.request)
    /\ id = IF Continues(key, c.at) THEN resolved[key].session ELSE minted + 1
    /\ a.request = c.request /\ a.at = c.at /\ a.life = restarts
    /\ a.id = RequestID(c, attempts')
    /\ a.session = IF Grouped(a) THEN <<"s", id>> ELSE <<SessionHeader(c.request)>>
    /\ flying' = RemoveAt(flying, i)
    /\ attempts' = (IF MadeUp(c) THEN attempts + 1 ELSE attempts)
    /\ captured' = Append(captured, a)
    /\ ~ Grouped(a) => resolved' = resolved /\ minted' = minted
    /\ Grouped(a) =>
         /\ resolved' = [k \in DOMAIN resolved \cup {key} |->
                           IF k = key THEN Seen(key, c.at, id) ELSE resolved[k]]
         /\ minted' = IF Continues(key, c.at) THEN minted ELSE minted + 1
    /\ minute' = minute /\ restarts' = restarts

\* A call that is resolved gets one row and one session.
LEMMA ResolveIs ==
    ASSUME Resolve, IdentityTyped
    PROVE  \E i, c, key, id, a : ResolvesTo(i, c, key, id, a) /\ a \in CapturedRecord /\ c \in CallRecord
<1>1. PICK i \in 1..Len(flying) :
        LET c == flying[i]
            key == PrefixHash(c.request)
            named == SessionHeader(c.request) # ""
            id == IF Continues(key, c.at) THEN resolved[key].session ELSE minted + 1
        IN  /\ flying' = RemoveAt(flying, i)
            /\ attempts' = IF MadeUp(c) THEN attempts + 1 ELSE attempts
            /\ captured' = Append(captured,
                  [request |-> c.request, at |-> c.at, life |-> restarts,
                   id |-> RequestID(c, attempts'),
                   session |-> IF named THEN <<SessionHeader(c.request)>> ELSE <<"s", id>>])
            /\ IF named THEN UNCHANGED <<resolved, minted>>
               ELSE /\ resolved' = [k \in DOMAIN resolved \cup {key} |->
                           IF k = key THEN Seen(key, c.at, id) ELSE resolved[k]]
                    /\ minted' = IF Continues(key, c.at) THEN minted ELSE minted + 1
            /\ UNCHANGED <<minute, restarts>>
  BY DEF Resolve
<1>2. PICK c \in CallRecord : c = flying[i]
  BY DEF IdentityTyped
<1>3. PICK key : key = PrefixHash(c.request)
  OBVIOUS
<1>4. PICK id : id = IF Continues(key, c.at) THEN resolved[key].session ELSE minted + 1
  OBVIOUS
<1>5. PICK name : name = RequestID(c, attempts')
  OBVIOUS
<1>6. PICK session :
        session = IF SessionHeader(c.request) # "" THEN <<SessionHeader(c.request)>> ELSE <<"s", id>>
  OBVIOUS
<1>7. PICK a : a = [request |-> c.request, at |-> c.at, life |-> restarts,
                    id |-> name, session |-> session]
  OBVIOUS
<1>8. a.request = c.request /\ a.at = c.at /\ a.life = restarts /\ a.id = name /\ a.session = session
  BY <1>7
<1>9. Grouped(a) <=> SessionHeader(c.request) = ""
  BY <1>8 DEF Grouped
<1>10. id \in Nat
  BY <1>3, <1>4 DEF IdentityTyped, Continues
<1>11. attempts' \in Nat
  <2>1. attempts' = attempts + 1 \/ attempts' = attempts
    BY <1>1
  <2> QED BY <2>1 DEF IdentityTyped
<1>12. name \in RowNames
  <2>1. c.request \in Requests /\ c.at \in Nat
    BY DEF CallRecord
  <2>2. name \in {<<c.request.header>>, <<c.request.message>>, <<c.request.body, c.at, attempts'>>}
    BY <1>5 DEF RequestID
  <2>3. <<c.request.header>> \in RowNames /\ <<c.request.message>> \in RowNames
    BY <2>1 DEF RowNames
  <2>4. <<c.request.body, c.at, attempts'>> \in RowNames
    BY <1>11, <2>1 DEF RowNames
  <2> QED BY <2>2, <2>3, <2>4
<1>13. session \in SessionNames
  BY <1>2, <1>6, <1>10 DEF CallRecord, SessionNames
<1>14. a \in CapturedRecord
  BY <1>7, <1>12, <1>13 DEF CapturedRecord, CallRecord, IdentityTyped
<1>15. captured' = Append(captured, a)
  BY <1>1, <1>2, <1>3, <1>4, <1>5, <1>6, <1>7
<1>16. ~ Grouped(a) => resolved' = resolved /\ minted' = minted
  BY <1>1, <1>2, <1>9
<1>17. Grouped(a) =>
         /\ resolved' = [k \in DOMAIN resolved \cup {key} |->
                           IF k = key THEN Seen(key, c.at, id) ELSE resolved[k]]
         /\ minted' = IF Continues(key, c.at) THEN minted ELSE minted + 1
  BY <1>1, <1>2, <1>3, <1>4, <1>9
<1>18. flying' = RemoveAt(flying, i) /\ minute' = minute /\ restarts' = restarts
       /\ attempts' = IF MadeUp(c) THEN attempts + 1 ELSE attempts
  BY <1>1, <1>2
<1>19. ResolvesTo(i, c, key, id, a)
  BY <1>2, <1>3, <1>4, <1>5, <1>6, <1>8, <1>9, <1>15, <1>16, <1>17, <1>18 DEF ResolvesTo
<1> QED BY <1>14, <1>19

\* Resolving a call keeps the invariant.
LEMMA ResolveKeeps ==
    ASSUME IdentityInv, NEW i, NEW c \in CallRecord, NEW key, NEW id,
           NEW a \in CapturedRecord, ResolvesTo(i, c, key, id, a)
    PROVE  IdentityInv'
<1>1. PICK N \in Nat : N = Len(captured) + 1
  BY DEF IdentityInv, IdentityTyped
<1>2. /\ captured' \in Seq(CapturedRecord)
      /\ DOMAIN captured = 1..(N - 1) /\ DOMAIN captured' = 1..N
      /\ captured'[N] = a /\ \A k \in 1..(N - 1) : captured'[k] = captured[k]
  BY <1>1 DEF ResolvesTo, IdentityInv, IdentityTyped
<1>3. /\ minute' = minute /\ restarts' = restarts
      /\ a.request = c.request /\ a.at = c.at /\ a.life = restarts
      /\ key = PrefixHash(a.request)
      /\ a.id = RequestID(c, attempts')
      /\ a.session = IF Grouped(a) THEN <<"s", id>> ELSE <<SessionHeader(c.request)>>
      /\ id = IF Continues(key, c.at) THEN resolved[key].session ELSE minted + 1
  BY DEF ResolvesTo
<1>4. /\ i \in 1..Len(flying) /\ c = flying[i] /\ flying' \in Seq(CallRecord)
      /\ \A k \in DOMAIN flying' : \E l \in DOMAIN flying : flying'[k] = flying[l]
  BY RemoveAtIs DEF ResolvesTo, IdentityInv, IdentityTyped
<1>5. /\ minute \in Nat /\ attempts \in Nat /\ minted \in Nat /\ restarts \in Nat
      /\ \A k \in DOMAIN resolved : resolved[k] \in [session : Nat, at : Nat]
      /\ c.at \in Nat
  BY DEF IdentityInv, IdentityTyped, CallRecord
<1>6. /\ attempts' \in Nat /\ attempts <= attempts'
      /\ MadeUp(c) => attempts' = attempts + 1
  BY <1>5 DEF ResolvesTo
<1>7. /\ minted' \in Nat /\ minted <= minted'
      /\ Grouped(a) /\ ~ Continues(key, c.at) => minted' = minted + 1
      /\ Grouped(a) /\ Continues(key, c.at) => minted' = minted
  BY <1>5 DEF ResolvesTo
<1>8. /\ ~ Grouped(a) => resolved' = resolved
      /\ Grouped(a) =>
           /\ DOMAIN resolved' = DOMAIN resolved \cup {key}
           /\ resolved'[key] = [session |-> id, at |-> a.at]
           /\ \A k \in DOMAIN resolved \ {key} : resolved'[k] = resolved[k]
  BY <1>3 DEF ResolvesTo, Seen
<1>9. id \in Nat
  BY <1>3, <1>5 DEF Continues
<1>10. IdentityTyped'
  <2>1. \A k \in DOMAIN resolved' : resolved'[k] \in [session : Nat, at : Nat]
    BY <1>3, <1>5, <1>8, <1>9
  <2> QED BY <1>2, <1>3, <1>4, <1>5, <1>6, <1>7, <2>1 DEF IdentityTyped
<1>11. LivesApart'
  <2>1. a.at <= minute /\ a.life = restarts
    BY <1>3, <1>4 DEF IdentityInv, LivesApart
  <2>2. \A k \in DOMAIN flying' : flying'[k].at <= minute
    BY <1>4 DEF IdentityInv, LivesApart
  <2>3. ASSUME NEW k \in 1..(N - 1)
        PROVE  /\ captured[k].at <= minute /\ captured[k].life <= restarts
               /\ captured[k].life < restarts =>
                    /\ captured[k].at < minute
                    /\ \A l \in DOMAIN flying' : captured[k].at < flying'[l].at
    BY <1>2, <1>4 DEF IdentityInv, LivesApart
  <2> QED BY <1>2, <1>3, <1>5, <2>1, <2>2, <2>3 DEF LivesApart
<1>12. KeysApart'
  <2>1. MadeUp(a) <=> MadeUp(c)
    BY <1>3 DEF MadeUp
  <2>2. MadeUp(a) => a.id = <<a.request.body, a.at, attempts'>>
    BY <1>3, <2>1 DEF RequestID, MadeUp
  <2>3. ~ MadeUp(a) => \E x : a.id = <<x>>
    BY <1>3, <2>1 DEF RequestID, MadeUp
  <2>4. KeyOf(a)'
    <3>1. attempts' \in Nat /\ attempts' <= attempts'
      BY <1>6
    <3>2. MadeUp(a) => AttemptOf(a, attempts', restarts', attempts')
      BY <2>2, <3>1 DEF AttemptOf
    <3> QED BY <2>3, <3>1, <3>2 DEF KeyOf
  <2>5. ASSUME NEW k \in 1..(N - 1) PROVE KeyOf(captured[k])'
    <3>1. PICK b : b = captured[k] /\ b = captured'[k]
      BY <1>2
    <3>2. KeyOf(b)
      BY <1>2, <3>1 DEF IdentityInv, KeysApart
    <3>3. ASSUME NEW n \in Nat, AttemptOf(b, n, restarts, attempts)
          PROVE  AttemptOf(b, n, restarts', attempts')
      BY <1>3, <1>5, <1>6, <3>3 DEF AttemptOf
    <3>4. KeyOf(b)'
      BY <3>2, <3>3 DEF KeyOf
    <3> QED BY <3>1, <3>4 DEF KeyOf, MadeUp
  <2>6. ASSUME NEW k \in 1..(N - 1), MadeUp(captured[k]), MadeUp(a)
        PROVE  captured[k].id # a.id
    <3>1. captured[k] \in CapturedRecord /\ captured[k].life \in Nat /\ captured[k].at \in Nat
      <4>1. captured[k] \in CapturedRecord
        BY <1>2 DEF IdentityInv, IdentityTyped
      <4> QED BY <4>1 DEF CapturedRecord
    <3>2. PICK n \in Nat : /\ captured[k].id = <<captured[k].request.body, captured[k].at, n>>
                           /\ captured[k].life = restarts => n <= attempts
      BY <1>2, <2>6 DEF IdentityInv, KeysApart, KeyOf, AttemptOf
    <3>3. CASE captured[k].life = restarts
      <4>1. n # attempts'
        BY <1>5, <1>6, <2>1, <2>6, <3>2, <3>3
      <4> QED BY <2>2, <2>6, <3>2, <4>1
    <3>4. CASE captured[k].life # restarts
      <4>1. captured[k].life < restarts
        BY <1>2, <1>5, <3>1, <3>4 DEF IdentityInv, LivesApart
      <4>2. captured[k].at < a.at
        BY <1>2, <1>3, <1>4, <4>1 DEF IdentityInv, LivesApart
      <4>3. captured[k].at # a.at
        BY <1>3, <1>5, <3>1, <4>2
      <4> QED BY <2>2, <2>6, <3>2, <4>3
    <3> QED BY <3>3, <3>4
  <2>7. \A k, l \in 1..(N - 1) :
          k # l /\ MadeUp(captured[k]) /\ MadeUp(captured[l]) => captured[k].id # captured[l].id
    BY <1>2 DEF IdentityInv, KeysApart
  <2>8. \A k \in 1..N : KeyOf(captured[k])'
    <3> SUFFICES ASSUME NEW k \in 1..N PROVE KeyOf(captured[k])'
      OBVIOUS
    <3>1. CASE k = N
      BY <1>2, <2>4, <3>1 DEF KeyOf, MadeUp
    <3> QED BY <2>5, <3>1
  <2>9. \A k, l \in 1..N :
          k # l /\ MadeUp(captured'[k]) /\ MadeUp(captured'[l]) => captured'[k].id # captured'[l].id
    <3> SUFFICES ASSUME NEW k \in 1..N, NEW l \in 1..N, k # l,
                        MadeUp(captured'[k]), MadeUp(captured'[l])
                 PROVE  captured'[k].id # captured'[l].id
      OBVIOUS
    <3>1. CASE k # N /\ l # N
      BY <1>2, <2>7, <3>1
    <3>2. CASE k = N \/ l = N
      BY <1>2, <2>6, <3>2
    <3> QED BY <3>1, <3>2
  <2> QED BY <1>2, <2>8, <2>9 DEF KeysApart, MadeUp
<1>13. /\ \A k \in 1..(N - 1) : SessionOf(captured[k])
       /\ \A k, l \in 1..(N - 1) :
            Grouped(captured[k]) /\ Grouped(captured[l]) /\ captured[k].session = captured[l].session
              => SameGroup(captured[k], captured[l])
  BY <1>2 DEF IdentityInv, SessionsApart
\* The call's session, if it has one of the Resolver's.
<1>14. ASSUME Grouped(a), Continues(key, c.at)
       PROVE  /\ id <= minted
              /\ \E k \in 1..(N - 1) :
                   /\ InLife(captured[k], key) /\ captured[k].session = <<"s", id>>
  <2>1. key \in DOMAIN resolved /\ id = resolved[key].session
    BY <1>3, <1>14 DEF Continues
  <2>2. PICK k \in 1..(N - 1) : SeenLast(key, k)
    BY <1>2, <2>1 DEF IdentityInv, ResolverHolds
  <2>3. InLife(captured[k], key) /\ captured[k].session = <<"s", id>>
    BY <2>1, <2>2 DEF SeenLast
  <2>4. PICK n \in Nat : n <= minted /\ captured[k].session = <<"s", n>>
    BY <1>13, <2>3 DEF InLife, SessionOf
  <2>5. n = id
    BY <2>3, <2>4
  <2> QED BY <2>3, <2>4, <2>5
<1>15. Grouped(a) => id <= minted'
  BY <1>3, <1>5, <1>7, <1>14
<1>16. ASSUME NEW k \in 1..(N - 1), Grouped(captured[k]), Grouped(a),
              captured[k].session = a.session
       PROVE  SameGroup(captured[k], a)
  <2>1. PICK n \in Nat : n <= minted /\ captured[k].session = <<"s", n>>
    BY <1>13, <1>16 DEF SessionOf
  <2>2. n = id
    BY <1>3, <1>16, <2>1
  <2>3. Continues(key, c.at)
    BY <1>3, <1>5, <2>1, <2>2
  <2>4. PICK l \in 1..(N - 1) : InLife(captured[l], key) /\ captured[l].session = <<"s", id>>
    BY <1>14, <1>16, <2>3
  <2>5. SameGroup(captured[k], captured[l])
    BY <1>13, <1>16, <2>1, <2>2, <2>4 DEF InLife
  <2> QED BY <1>3, <1>16, <2>4, <2>5 DEF SameGroup, InLife
<1>17. SessionsApart'
  <2>1. SessionOf(a)'
    <3>1. Grouped(a) => \E n \in Nat : n <= minted' /\ a.session = <<"s", n>>
      BY <1>3, <1>9, <1>15
    <3>2. ~ Grouped(a) => a.session = <<SessionHeader(a.request)>>
      BY <1>3
    <3> QED BY <3>1, <3>2 DEF SessionOf, Grouped
  <2>2. ASSUME NEW k \in 1..N PROVE SessionOf(captured[k])'
    <3>1. CASE k = N
      BY <1>2, <2>1, <3>1 DEF SessionOf, Grouped
    <3>2. CASE k # N
      <4>1. PICK b : b = captured[k] /\ b = captured'[k] /\ SessionOf(b)
        BY <1>2, <1>13, <3>2
      <4>2. ASSUME Grouped(b) PROVE \E n \in Nat : n <= minted' /\ b.session = <<"s", n>>
        <5>1. PICK n \in Nat : n <= minted /\ b.session = <<"s", n>>
          BY <4>1, <4>2 DEF SessionOf
        <5> QED BY <1>5, <1>7, <5>1
      <4> QED BY <4>1, <4>2 DEF SessionOf, Grouped
    <3> QED BY <3>1, <3>2
  <2>3. ASSUME NEW k \in 1..N, NEW l \in 1..N, Grouped(captured'[k]), Grouped(captured'[l]),
               captured'[k].session = captured'[l].session
        PROVE  SameGroup(captured'[k], captured'[l])
    <3>1. CASE k # N /\ l # N
      BY <1>2, <1>13, <2>3, <3>1
    <3>2. CASE k = N /\ l = N
      BY <2>3, <3>2 DEF SameGroup
    <3>3. CASE k # N /\ l = N
      BY <1>2, <1>16, <2>3, <3>3
    <3>4. CASE k = N /\ l # N
      BY <1>2, <1>16, <2>3, <3>4 DEF SameGroup
    <3> QED BY <3>1, <3>2, <3>3, <3>4
  <2> QED BY <1>2, <2>2, <2>3 DEF SessionsApart, SameGroup, Grouped
<1>18. ResolverHolds'
  <2>1. ASSUME NEW y, NEW x PROVE InLife(y, x)' <=> InLife(y, x)
    BY <1>3 DEF InLife, Grouped
  <2>2. InLife(a, key) <=> Grouped(a)
    BY <1>3 DEF InLife
  <2>3. ASSUME NEW x \in DOMAIN resolved' PROVE \E k \in 1..N : SeenLast(x, k)'
    <3>1. CASE Grouped(a) /\ x = key
      <4>1. /\ captured'[N].session = <<"s", resolved'[key].session>>
            /\ captured'[N].at = resolved'[key].at
        BY <1>2, <1>3, <1>8, <3>1
      <4>2. InLife(captured'[N], key)
        BY <1>2, <2>2, <3>1
      <4>3. \A j \in 1..N : N < j => ~ InLife(captured'[j], key)
        OBVIOUS
      <4>4. SeenLast(key, N)'
        BY <1>2, <1>3, <4>1, <4>2, <4>3, <2>1 DEF SeenLast
      <4>5. SeenLast(x, N)' /\ N \in 1..N
        BY <1>1, <3>1, <4>4 DEF SeenLast
      <4> QED BY <4>5
    <3>2. CASE ~ (Grouped(a) /\ x = key)
      <4>1. x \in DOMAIN resolved /\ resolved'[x] = resolved[x]
        BY <1>8, <3>2
      <4>2. PICK k \in 1..(N - 1) : SeenLast(x, k)
        BY <1>2, <4>1 DEF IdentityInv, ResolverHolds
      <4>3. ~ InLife(a, x)
        BY <1>3, <3>2 DEF InLife
      <4>4. /\ InLife(captured[k], x) /\ captured[k].session = <<"s", resolved[x].session>>
            /\ captured[k].at = resolved[x].at
            /\ \A j \in 1..(N - 1) : k < j => ~ InLife(captured[j], x)
        BY <1>2, <4>2 DEF SeenLast
      <4>5. \A j \in 1..N : k < j => ~ InLife(captured'[j], x)
        BY <1>2, <4>3, <4>4
      <4>6. captured'[k] = captured[k] /\ k \in 1..N
        BY <1>2
      <4>7. /\ InLife(captured'[k], x) /\ captured'[k].session = <<"s", resolved'[x].session>>
            /\ captured'[k].at = resolved'[x].at
        BY <4>1, <4>4, <4>6
      <4>8. SeenLast(x, k)'
        BY <1>2, <2>1, <4>5, <4>7 DEF SeenLast
      <4> QED BY <4>6, <4>8
    <3> QED BY <3>1, <3>2
  <2>4. ASSUME NEW k \in 1..N, NEW x, InLife(captured'[k], x) PROVE x \in DOMAIN resolved'
    <3>1. CASE k = N
      BY <1>2, <1>3, <1>8, <2>4, <3>1 DEF InLife
    <3>2. CASE k # N
      <4>1. InLife(captured[k], x) /\ k \in 1..(N - 1)
        BY <1>2, <2>4, <3>2
      <4>2. x \in DOMAIN resolved
        BY <1>2, <4>1 DEF IdentityInv, ResolverHolds
      <4> QED BY <1>8, <4>2
    <3> QED BY <3>1, <3>2
  <2> QED BY <1>2, <1>3, <2>3, <2>4 DEF ResolverHolds, InLife, Grouped
<1>19. GapsHold'
  <2>1. ASSUME NEW k \in 1..N, NEW l \in 1..N, k < l, SameGroup(captured'[k], captured'[l]),
               ~ \E m \in 1..N : k < m /\ m < l /\ SameGroup(captured'[k], captured'[m])
        PROVE  captured'[k].session = captured'[l].session
                 <=> captured'[l].at - captured'[k].at <= Gap
    <3>1. CASE l # N
      <4>1. NextInGroup(k, l) /\ k \in 1..(N - 1) /\ l \in 1..(N - 1)
        BY <1>2, <2>1, <3>1 DEF NextInGroup
      <4> QED BY <1>2, <4>1 DEF IdentityInv, GapsHold
    <3>2. CASE l = N
      <4>1. k \in 1..(N - 1) /\ captured'[k] = captured[k] /\ captured'[l] = a
        BY <1>2, <2>1, <3>2
      <4>2. Grouped(a) /\ InLife(captured[k], key)
        BY <1>3, <2>1, <4>1 DEF SameGroup, InLife
      <4>3. key \in DOMAIN resolved
        BY <1>2, <4>1, <4>2 DEF IdentityInv, ResolverHolds
      <4>4. PICK m \in 1..(N - 1) : SeenLast(key, m)
        BY <1>2, <4>3 DEF IdentityInv, ResolverHolds
      <4>5. InLife(captured[m], key) /\ ~ k > m
        BY <1>2, <4>1, <4>2, <4>4 DEF SeenLast
      <4>6. m = k
        <5>1. captured'[m] = captured[m] /\ m \in 1..N /\ m < l
          BY <1>2, <3>2
        <5>2. SameGroup(captured'[k], captured'[m])
          BY <4>1, <4>2, <4>5, <5>1 DEF SameGroup, InLife
        <5> QED BY <2>1, <4>5, <5>1, <5>2
      <4>7. captured[k].session = <<"s", resolved[key].session>> /\ captured[k].at = resolved[key].at
        BY <4>4, <4>6 DEF SeenLast
      <4>8. a.session = <<"s", id>>
        BY <1>3, <4>2
      <4>9. CASE Continues(key, c.at)
        <5>1. captured[k].session = a.session
          BY <1>3, <4>7, <4>8, <4>9
        <5>2. a.at - captured[k].at <= Gap
          BY <1>3, <4>7, <4>9 DEF Continues
        <5> QED BY <4>1, <5>1, <5>2
      <4>10. CASE ~ Continues(key, c.at)
        <5>1. PICK n \in Nat : n <= minted /\ captured[k].session = <<"s", n>>
          BY <1>13, <4>1, <4>2 DEF InLife, SessionOf
        <5>2. id # n
          BY <1>3, <1>5, <4>10, <5>1
        <5>3. captured[k].session # a.session
          BY <4>8, <5>1, <5>2
        <5>4. ~ (a.at - captured[k].at <= Gap)
          BY <1>3, <4>3, <4>7, <4>10 DEF Continues
        <5> QED BY <4>1, <5>3, <5>4
      <4> QED BY <4>9, <4>10
    <3> QED BY <3>1, <3>2
  <2> QED BY <1>2, <2>1 DEF GapsHold, NextInGroup, SameGroup, Grouped
<1> QED BY <1>10, <1>11, <1>12, <1>17, <1>18, <1>19 DEF IdentityInv

\* Time passes, or a call arrives: nothing is captured.
LEMMA CapturedKeeps ==
    ASSUME IdentityInv, UNCHANGED <<captured, attempts, minted, restarts, resolved>>
    PROVE  /\ KeysApart' /\ SessionsApart' /\ ResolverHolds' /\ GapsHold'
<1>1. KeysApart'
  BY DEF IdentityInv, KeysApart, KeyOf, MadeUp
<1>2. SessionsApart'
  BY ZenonT(40) DEF IdentityInv, SessionsApart, SessionOf, SameGroup, Grouped
<1>3. ResolverHolds'
  BY DEF IdentityInv, ResolverHolds, SeenLast, InLife, Grouped
<1>4. GapsHold'
  <2>1. GapsHold
    BY DEF IdentityInv
  <2> QED BY <2>1 DEF GapsHold, NextInGroup
<1> QED BY <1>1, <1>2, <1>3, <1>4

\* The calls' times are numbers.
LEMMA CallsAre ==
    ASSUME IdentityTyped
    PROVE  /\ \A k \in DOMAIN captured : captured[k].at \in Nat /\ captured[k].life \in Nat
           /\ \A k \in DOMAIN flying : flying[k].at \in Nat
<1>1. \A k \in DOMAIN captured : captured[k] \in CapturedRecord
  BY DEF IdentityTyped
<1>2. \A k \in DOMAIN flying : flying[k] \in CallRecord
  BY DEF IdentityTyped
<1> QED BY <1>1, <1>2 DEF CapturedRecord, CallRecord

\* A restart forgets what was seen; what is captured is of an earlier life.
LEMMA RestartKeeps ==
    ASSUME IdentityInv, Restarts
    PROVE  IdentityInv'
<1>1. /\ restarts' = restarts + 1 /\ minute' = minute + 1 /\ flying' = <<>>
      /\ DOMAIN resolved' = {} /\ attempts' = 0
      /\ captured' = captured /\ minted' = minted
  BY DEF Restarts, NoSessions
<1>2. /\ minute \in Nat /\ restarts \in Nat /\ minted \in Nat
      /\ flying' \in Seq(CallRecord) /\ DOMAIN flying' = {}
  BY <1>1 DEF IdentityInv, IdentityTyped
<1>3. \A k \in DOMAIN captured : captured[k].at <= minute /\ captured[k].life <= restarts
                                  /\ captured[k].at \in Nat /\ captured[k].life \in Nat
  BY CallsAre DEF IdentityInv, LivesApart
<1>4. IdentityTyped'
  BY <1>1, <1>2 DEF IdentityInv, IdentityTyped
<1>5. LivesApart'
  BY <1>1, <1>2, <1>3 DEF LivesApart
<1>6. \A k \in DOMAIN captured : captured[k].life # restarts'
  BY <1>1, <1>2, <1>3
<1>7. KeysApart'
  <2>1. ASSUME NEW k \in DOMAIN captured PROVE KeyOf(captured[k])'
    <3>1. KeyOf(captured[k]) /\ captured[k].life # restarts'
      BY <1>6 DEF IdentityInv, KeysApart
    <3> QED BY <1>1, <3>1 DEF KeyOf, AttemptOf, MadeUp
  <2> QED BY <1>1, <2>1 DEF IdentityInv, KeysApart, MadeUp
<1>8. SessionsApart' /\ GapsHold'
  <2>1. SessionsApart'
    BY <1>1, ZenonT(40) DEF IdentityInv, SessionsApart, SessionOf, SameGroup, Grouped
  <2>2. GapsHold'
    <3>1. GapsHold
      BY DEF IdentityInv
    <3> QED BY <1>1, <3>1 DEF GapsHold, NextInGroup
  <2> QED BY <2>1, <2>2
<1>9. ResolverHolds'
  BY <1>1, <1>6 DEF ResolverHolds, InLife
<1> QED BY <1>4, <1>5, <1>7, <1>8, <1>9 DEF IdentityInv

\* Every step keeps the invariant.
LEMMA IdentityStep == IdentityInv /\ [IdentityNext]_identityVars => IdentityInv'
<1> SUFFICES ASSUME IdentityInv, [IdentityNext]_identityVars PROVE IdentityInv'
  OBVIOUS
<1>1. CASE Arrives
  <2>1. PICK c \in CallRecord : flying' = Append(flying, c) /\ c.at = minute
    <3>1. PICK q \in Requests : flying' = Append(flying, [request |-> q, at |-> minute])
      BY <1>1 DEF Arrives
    <3>2. [request |-> q, at |-> minute] \in CallRecord
      BY DEF CallRecord, IdentityInv, IdentityTyped
    <3> QED BY <3>1, <3>2
  <2>2. UNCHANGED <<minute, captured, resolved, attempts, minted, restarts>>
    BY <1>1 DEF Arrives
  <2>3. flying \in Seq(CallRecord) /\ minute \in Nat
    BY DEF IdentityInv, IdentityTyped
  <2>4. /\ flying' \in Seq(CallRecord)
        /\ \A k \in DOMAIN flying' : flying'[k] = c \/ \E l \in DOMAIN flying : flying'[k] = flying[l]
    BY <2>1, <2>3
  <2>5. IdentityTyped' /\ LivesApart'
    BY <2>1, <2>2, <2>3, <2>4 DEF IdentityInv, IdentityTyped, LivesApart
  <2> QED BY <2>2, <2>5, CapturedKeeps DEF IdentityInv
<1>2. CASE Resolve
  <2>1. PICK i, c, key, id, a :
          ResolvesTo(i, c, key, id, a) /\ a \in CapturedRecord /\ c \in CallRecord
    BY <1>2, ResolveIs DEF IdentityInv
  <2> QED BY <2>1, ResolveKeeps
<1>3. CASE TimePasses
  <2>1. minute' = minute + 1 /\ UNCHANGED <<flying, captured, resolved, attempts, minted, restarts>>
    BY <1>3 DEF TimePasses
  <2>2. IdentityTyped'
    BY <2>1 DEF IdentityInv, IdentityTyped
  <2>3. LivesApart'
    <3>1. /\ minute \in Nat /\ \A k \in DOMAIN captured : captured[k].at \in Nat
          /\ \A k \in DOMAIN flying : flying[k].at \in Nat
      BY CallsAre DEF IdentityInv, IdentityTyped
    <3> QED BY <2>1, <3>1 DEF IdentityInv, LivesApart
  <2> QED BY <2>1, <2>2, <2>3, CapturedKeeps DEF IdentityInv
<1>4. CASE Restarts
  BY <1>4, RestartKeeps
<1>5. CASE UNCHANGED identityVars
  <2>1. UNCHANGED <<minute, flying, captured, resolved, attempts, minted, restarts>>
    BY <1>5 DEF identityVars
  <2>2. IdentityTyped' /\ LivesApart'
    BY <2>1 DEF IdentityInv, IdentityTyped, LivesApart
  <2> QED BY <2>1, <2>2, CapturedKeeps DEF IdentityInv
<1> QED BY <1>1, <1>2, <1>3, <1>4, <1>5 DEF IdentityNext

\* For any requests, any number of calls and restarts and any order in which the
\* calls end: two calls share a row only under a name of the upstream's, a call
\* that names its session is in it, and calls without one share a session only
\* with calls of their prefix and process, a call with the one that was resolved
\* before it exactly when it began within the gap (requestID, Resolver.Resolve).
THEOREM CallsStayApart == IdentitySpec => []CallsKeepApart
<1>1. IdentityInv => CallsKeepApart
  <2> SUFFICES ASSUME IdentityInv, NEW i \in DOMAIN captured, NEW j \in DOMAIN captured
               PROVE  LET a == captured[i]  b == captured[j]  group == GroupOf(a)
                      IN  /\ i # j /\ a.id = b.id => ~ MadeUp(a) /\ ~ MadeUp(b)
                          /\ ~ Grouped(a) => a.session = <<SessionHeader(a.request)>>
                          /\ Grouped(a) /\ a.session = b.session =>
                                Grouped(b) /\ a.life = b.life
                                /\ PrefixHash(a.request) = PrefixHash(b.request)
                          /\ i \in group /\ j \in group /\ ResolvedNext(group, i, j) =>
                                (a.session = b.session <=> b.at - a.at <= Gap)
    BY DEF CallsKeepApart
  <2>1. PICK a, b : a = captured[i] /\ b = captured[j]
    OBVIOUS
  <2>2. ASSUME i # j, a.id = b.id PROVE ~ MadeUp(a) /\ ~ MadeUp(b)
    <3>1. KeyOf(a) /\ KeyOf(b)
      BY <2>1 DEF IdentityInv, KeysApart
    <3>2. ~ (MadeUp(a) /\ MadeUp(b))
      BY <2>1, <2>2 DEF IdentityInv, KeysApart
    <3>3. \A x, y, z, n : <<x>> # <<y, z, n>>
      OBVIOUS
    <3> QED BY <2>2, <3>1, <3>2, <3>3 DEF KeyOf, AttemptOf
  <2>3. SessionOf(a) /\ SessionOf(b)
    BY <2>1 DEF IdentityInv, SessionsApart
  <2>4. ASSUME Grouped(a), a.session = b.session PROVE SameGroup(a, b)
    <3>1. Grouped(b)
      <4>1. \A x, n : <<x>> # <<"s", n>>
        OBVIOUS
      <4> QED BY <2>3, <2>4, <4>1 DEF SessionOf
    <3> QED BY <2>1, <2>4, <3>1 DEF IdentityInv, SessionsApart
  <2>5. ASSUME i \in GroupOf(a), j \in GroupOf(a), ResolvedNext(GroupOf(a), i, j)
        PROVE  a.session = b.session <=> b.at - a.at <= Gap
    <3>1. SameGroup(a, b) /\ i < j
      BY <2>1, <2>5 DEF GroupOf, SameGroup, ResolvedNext
    <3>2. ASSUME NEW m \in DOMAIN captured, i < m, m < j, SameGroup(a, captured[m])
          PROVE  FALSE
      <4>1. m \in GroupOf(a)
        BY <3>2 DEF GroupOf, SameGroup
      <4> QED BY <2>5, <3>2, <4>1 DEF ResolvedNext
    <3>3. NextInGroup(i, j)
      BY <2>1, <3>1, <3>2 DEF NextInGroup
    <3> QED BY <2>1, <3>3 DEF IdentityInv, GapsHold
  <2> QED BY <2>1, <2>2, <2>3, <2>4, <2>5 DEF SessionOf, SameGroup
<1> QED BY <1>1, IdentityStart, IdentityStep, PTL DEF IdentitySpec

-----------------------------------------------------------------------------
(* The collectors: a marked poll is whole, and the usage report has the    *)
(* days behind its cursor, for any runs, accounts, windows, horizon and    *)
(* faults.                                                                 *)
(*                                                                         *)
(* WholeInv: the poll that began last for an account has stored every      *)
(* window it has not to do.  GapInv: a process's window starts where       *)
(* everything before is stored, or reaches as far back as a first pull;    *)
(* and a run stores its days before it saves its cursor.                   *)

AtWork == {"windows", "ask", "fetch", "save"}
RunRecord == [pc : {"idle", "next"} \cup AtWork, left : Seq(Entry), todo : SUBSET Windows,
              report : Reports, read : Nat, ok : BOOLEAN]

\* A collector at work has its entry at the head of what is left.
RunOK(s) == /\ s \in RunRecord
            /\ s.pc \in AtWork => s.left # <<>>
            /\ s.pc = "save" => s.report # "limits"

HostRecord == [up : BOOLEAN, entries : Seq(Entry), since : Nat, until : Nat]
Histories == {"usage", "cost"}

Typed == /\ today \in Nat /\ host \in [Hosts -> HostRecord]
         /\ run \in [Runs -> RunRecord] /\ \A r \in Runs : RunOK(run[r])
         /\ cursor \in [Histories -> Nat \cup {-1}] /\ days \in [Histories -> SUBSET Nat]
         /\ quota \in [Range(Accounts) -> SUBSET Windows]
         /\ poller \in [Range(Accounts) -> Runs] /\ mark \in [Range(Accounts) -> BOOLEAN]

-----------------------------------------------------------------------------
\* A run at rest is a run record.
LEMMA IdleIs == Idle \in RunRecord /\ RunOK(Idle) /\ Idle.pc = "idle"
  BY EmptySeq DEF Idle, RunRecord, RunOK, Reports, AtWork

\* What is registered is a sequence of entries.
LEMMA EntriesAre == Entries \in Seq(Entry)
<1>1. Accounts \in Seq(STRING) /\ DOMAIN Accounts = 1..Len(Accounts) /\ Len(Accounts) \in Nat
  BY CollectorsAssumption DEF CollectorsAssumption
<1>2. <<[source |-> "jsonl", name |-> "root"]>> \in Seq(Entry)
  BY DEF Entry
<1>3. <<[source |-> "admin", name |-> "org"]>> \in Seq(Entry)
  BY DEF Entry
<1>4. [i \in DOMAIN Accounts |-> [source |-> "snapshot", name |-> Accounts[i]]] \in Seq(Entry)
  <2>1. \A i \in 1..Len(Accounts) : [source |-> "snapshot", name |-> Accounts[i]] \in Entry
    BY <1>1 DEF Entry, Range
  <2> QED BY <1>1, <2>1, IsASeq
<1>5. <<>> \in Seq(Entry)
  OBVIOUS
<1> DEFINE S == IF "sessionKey" \in secrets
                THEN [i \in DOMAIN Accounts |-> [source |-> "snapshot", name |-> Accounts[i]]]
                ELSE <<>>
           A == IF "admin" \in secrets THEN <<[source |-> "admin", name |-> "org"]>> ELSE <<>>
<1>6. S \in Seq(Entry) /\ A \in Seq(Entry)
  BY <1>3, <1>4, <1>5
<1>7. Entries = (<<[source |-> "jsonl", name |-> "root"]>> \o S) \o A
  BY DEF Entries
<1> HIDE DEF S, A
<1> QED BY <1>2, <1>6, <1>7, ConcatProperties

\* A collector's end turns the run to its next entry.
LEMMA FinishIs ==
    ASSUME NEW r \in Runs, RunOK(run[r]), run[r].left # <<>>, NEW ok, Finish(r, ok)
    PROVE  \E s \in RunRecord : RunOK(s) /\ s.pc = "next" /\ run' = [run EXCEPT ![r] = s]
<1>1. PICK q \in RunRecord : q = run[r]
  BY DEF RunOK
<1>2. Tail(q.left) \in Seq(Entry)
  BY <1>1, HeadTailProperties DEF RunRecord
<1> DEFINE s == [[Idle EXCEPT !.pc = "next"] EXCEPT !.left = Tail(q.left)]
<1>3. run' = [run EXCEPT ![r] = s]
  BY <1>1 DEF Finish, FinishThen, Others, Set, Idle
<1>4. s \in RunRecord /\ s.pc = "next"
  BY <1>2, IdleIs DEF RunRecord
<1> HIDE DEF s
<1>5. RunOK(s)
  BY <1>4 DEF RunOK, AtWork
<1> QED BY <1>3, <1>4, <1>5

\* A report's end turns the run to the next report, or the next entry.
LEMMA ThenIs ==
    ASSUME NEW r \in Runs, RunOK(run[r]), run[r].left # <<>>, NEW ok \in BOOLEAN, Then(r, ok)
    PROVE  \E s \in RunRecord : /\ RunOK(s) /\ s.pc \in {"next", "ask"}
                                /\ run' = [run EXCEPT ![r] = s]
<1>1. PICK q \in RunRecord : q = run[r]
  BY DEF RunOK
<1>2. CASE q.report = "limits"
  <2>1. Finish(r, run[r].ok /\ ok)
    BY <1>1, <1>2 DEF Then
  <2> QED BY <2>1, FinishIs
<1>3. CASE q.report # "limits"
  <2>1. PICK both \in BOOLEAN : both = (q.ok /\ ok)
    OBVIOUS
  <2>2. PICK next \in Reports : next = IF q.report = "usage" THEN "cost" ELSE "limits"
    BY DEF Reports
  <2> DEFINE s == [[[[q EXCEPT !.pc = "ask"] EXCEPT !.read = 0] EXCEPT !.ok = both] EXCEPT !.report = next]
  <2>3. run' = [run EXCEPT ![r] = s]
    <3>1. Set(r, [run[r] EXCEPT !.pc = "ask", !.read = 0, !.ok = @ /\ ok,
                                !.report = IF @ = "usage" THEN "cost" ELSE "limits"])
      BY <1>1, <1>3 DEF Then
    <3> QED BY <1>1, <2>1, <2>2, <3>1 DEF Set, RunRecord
  <2>4. s \in RunRecord /\ s.pc = "ask" /\ s.left = q.left
    BY DEF RunRecord, AtWork
  <2> HIDE DEF s
  <2>5. RunOK(s)
    BY <1>1, <2>4 DEF RunOK
  <2> QED BY <2>3, <2>4, <2>5
<1> QED BY <1>2, <1>3

\* What a step of a run does to it: only an answer begins to write windows, and
\* only stored days come to be saved.
Quiet(r) == TailTranscripts(r) \/ Unconfigured(r) \/ Collect(r) \/ Ask(r) \/ FetchPage(r)
            \/ PageFails(r) \/ StoreLimits(r) \/ Fail(r)

\* A quiet step moves only its run.
LEMMA QuietIs ==
    ASSUME Typed, NEW r \in Runs, Quiet(r)
    PROVE  /\ \E s \in RunRecord : /\ RunOK(s) /\ s.pc \notin {"windows", "save"}
                                   /\ run' = [run EXCEPT ![r] = s]
           /\ run[r].pc # "idle"
           /\ UNCHANGED <<today, host, cursor, days, quota, poller, mark, blind>>
<1>1. PICK q \in RunRecord : q = run[r]
  BY DEF Typed
<1>2. RunOK(q) /\ RunOK(run[r])
  BY <1>1 DEF Typed
<1>3. UNCHANGED <<today, host, cursor, days, quota, poller, mark, blind>>
  BY DEF Quiet, TailTranscripts, Unconfigured, Collect, Ask, FetchPage, PageFails, StoreLimits, Fail,
         admin, snaps, bounds
<1>4. run[r].pc # "idle"
  BY DEF Quiet, TailTranscripts, Unconfigured, Collect, Ask, FetchPage, PageFails, StoreLimits, Fail,
         TurnOf, At
<1>5. CASE TailTranscripts(r) \/ Unconfigured(r) \/ Fail(r)
  <2>1. run[r].left # <<>> /\ \E ok : Finish(r, ok)
    BY <1>5 DEF TailTranscripts, Unconfigured, Fail, TurnOf
  <2>2. \E s \in RunRecord : RunOK(s) /\ s.pc = "next" /\ run' = [run EXCEPT ![r] = s]
    BY <1>2, <2>1, FinishIs
  <2> QED BY <1>3, <1>4, <2>2
<1>6. ASSUME NEW ok \in BOOLEAN, Then(r, ok), run[r].left # <<>>
      PROVE  \E s \in RunRecord : /\ RunOK(s) /\ s.pc \notin {"windows", "save"}
                                  /\ run' = [run EXCEPT ![r] = s]
  <2>1. \E s \in RunRecord : RunOK(s) /\ s.pc \in {"next", "ask"} /\ run' = [run EXCEPT ![r] = s]
    BY <1>2, <1>6, ThenIs
  <2> QED BY <2>1
<1>7. CASE Ask(r) \/ PageFails(r) \/ StoreLimits(r)
  <2>1. run[r].left # <<>>
    BY <1>2, <1>7 DEF Ask, PageFails, StoreLimits, At, RunOK, AtWork
  <2>2. \/ \E ok \in BOOLEAN : Then(r, ok)
        \/ q.pc = "ask" /\ Set(r, [run[r] EXCEPT !.pc = "fetch"])
    BY <1>1, <1>7 DEF Ask, PageFails, BreakOff, StoreLimits, At
  <2>3. CASE q.pc = "ask" /\ Set(r, [run[r] EXCEPT !.pc = "fetch"])
    <3> DEFINE s == [q EXCEPT !.pc = "fetch"]
    <3>1. run' = [run EXCEPT ![r] = s] /\ s \in RunRecord /\ s.pc = "fetch" /\ s.left = q.left
      BY <1>1, <2>3 DEF Set, RunRecord, AtWork
    <3> HIDE DEF s
    <3>2. RunOK(s)
      BY <1>1, <2>1, <3>1 DEF RunOK
    <3> QED BY <1>3, <1>4, <3>1, <3>2
  <2> QED BY <1>3, <1>4, <1>6, <2>1, <2>2, <2>3
<1>8. CASE Collect(r)
  <2> DEFINE s == [[q EXCEPT !.pc = "ask"] EXCEPT !.report = "usage"]
  <2>1. run' = [run EXCEPT ![r] = s]
    BY <1>1, <1>8 DEF Collect, Set, RunRecord
  <2>2. s \in RunRecord /\ s.pc = "ask" /\ s.left = q.left
    BY DEF RunRecord, AtWork, Reports
  <2> HIDE DEF s
  <2>3. RunOK(s)
    BY <1>1, <1>8, <2>2 DEF RunOK, Collect, TurnOf
  <2> QED BY <1>3, <1>4, <2>1, <2>2, <2>3
<1>9. CASE FetchPage(r)
  <2>1. PICK n \in Nat : n = q.read + 1
    BY DEF RunRecord
  <2> DEFINE s == [q EXCEPT !.read = n]
  <2>2. run' = [run EXCEPT ![r] = s] /\ q.pc = "fetch"
    BY <1>1, <1>9, <2>1 DEF FetchPage, Set, RunRecord, At
  <2>3. s \in RunRecord /\ s.pc = "fetch" /\ s.left = q.left
    BY <2>2 DEF RunRecord
  <2> HIDE DEF s
  <2>4. RunOK(s)
    BY <1>2, <2>2, <2>3 DEF RunOK, AtWork
  <2> QED BY <1>3, <1>4, <2>2, <2>3, <2>4
<1> QED BY <1>5, <1>7, <1>8, <1>9 DEF Quiet

\* An answered snapshot has all its windows to store.
LEMMA AnswerIs ==
    ASSUME Typed, NEW r \in Runs, Answer(r)
    PROVE  \E s \in RunRecord : /\ RunOK(s) /\ s.pc = "windows" /\ s.todo = Windows
                                /\ s.left = run[r].left /\ run' = [run EXCEPT ![r] = s]
<1>1. PICK q \in RunRecord : q = run[r] /\ q.left # <<>>
  BY DEF Typed, Answer, TurnOf
<1> DEFINE s == [[q EXCEPT !.pc = "windows"] EXCEPT !.todo = Windows]
<1>2. run' = [run EXCEPT ![r] = s]
  BY <1>1 DEF Answer, Set, RunRecord
<1>3. s \in RunRecord /\ s.pc = "windows" /\ s.todo = Windows /\ s.left = q.left
  BY DEF RunRecord, AtWork
<1> HIDE DEF s
<1>4. RunOK(s)
  BY <1>1, <1>3 DEF RunOK
<1> QED BY <1>1, <1>2, <1>3, <1>4

\* Storing a window takes it off those to store.
LEMMA StoreWindowIs ==
    ASSUME Typed, NEW r \in Runs, StoreWindow(r)
    PROVE  \E w \in Windows, s \in RunRecord :
              /\ RunOK(s) /\ s.pc = "windows" /\ s.todo = run[r].todo \ {w} /\ w \in run[r].todo
              /\ s.left = run[r].left /\ run' = [run EXCEPT ![r] = s]
              /\ quota' = IF poller[Turn(r).name] = r
                          THEN [quota EXCEPT ![Turn(r).name] = @ \cup {w}] ELSE quota
<1>1. PICK q \in RunRecord : q = run[r] /\ q.pc = "windows" /\ q.left # <<>>
  BY DEF Typed, StoreWindow, At, RunOK, AtWork
<1>2. PICK w \in q.todo :
        /\ quota' = IF poller[Turn(r).name] = r
                    THEN [quota EXCEPT ![Turn(r).name] = @ \cup {w}] ELSE quota
        /\ run' = [run EXCEPT ![r] = [q EXCEPT !.todo = @ \ {w}]]
  BY <1>1 DEF StoreWindow, Set
<1> DEFINE s == [q EXCEPT !.todo = q.todo \ {w}]
<1>3. run' = [run EXCEPT ![r] = s] /\ w \in Windows
  BY <1>2 DEF RunRecord
<1>4. s \in RunRecord /\ s.pc = "windows" /\ s.todo = q.todo \ {w} /\ s.left = q.left
  BY <1>1 DEF RunRecord
<1> HIDE DEF s
<1>5. RunOK(s)
  BY <1>1, <1>4 DEF RunOK
<1> QED BY <1>1, <1>2, <1>3, <1>4, <1>5

\* Storing a report's days leaves its cursor to save.
LEMMA StoreDaysIs ==
    ASSUME Typed, NEW r \in Runs, StoreDays(r)
    PROVE  \E s \in RunRecord : /\ RunOK(s) /\ s.pc = "save" /\ s.report = run[r].report
                                /\ run' = [run EXCEPT ![r] = s]
<1>1. PICK q \in RunRecord : q = run[r] /\ q.report # "limits" /\ q.left # <<>>
  BY DEF Typed, StoreDays, At, RunOK, AtWork
<1> DEFINE s == [q EXCEPT !.pc = "save"]
<1>2. run' = [run EXCEPT ![r] = s]
  BY <1>1 DEF StoreDays, Set
<1>3. s \in RunRecord /\ s.pc = "save" /\ s.report = q.report /\ s.left = q.left
  BY DEF RunRecord, AtWork
<1> HIDE DEF s
<1>4. RunOK(s)
  BY <1>1, <1>3 DEF RunOK
<1> QED BY <1>1, <1>2, <1>3, <1>4

\* A cursor saved, or a poll marked, ends its report or entry.
LEMMA EndsIs ==
    ASSUME Typed, NEW r \in Runs, SaveCursor(r) \/ MarkPoll(r)
    PROVE  \E s \in RunRecord : /\ RunOK(s) /\ s.pc \in {"next", "ask"}
                                /\ run' = [run EXCEPT ![r] = s]
<1>1. RunOK(run[r]) /\ run[r].left # <<>>
  BY DEF Typed, RunOK, SaveCursor, MarkPoll, At, AtWork
<1>2. CASE SaveCursor(r)
  BY <1>1, <1>2, ThenIs DEF SaveCursor
<1>3. CASE MarkPoll(r)
  <2>1. \E s \in RunRecord : RunOK(s) /\ s.pc = "next" /\ run' = [run EXCEPT ![r] = s]
    BY <1>1, <1>3, FinishIs DEF MarkPoll
  <2> QED BY <2>1
<1> QED BY <1>2, <1>3

\* A run begins with its first entry and ends at rest.
LEMMA BeginIs ==
    ASSUME Typed, NEW r \in Runs, Begin(r) \/ End(r)
    PROVE  \E s \in RunRecord : /\ RunOK(s) /\ s.pc \in {"next", "idle"}
                                /\ run' = [run EXCEPT ![r] = s]
                                /\ End(r) => s.pc = "idle"
<1>1. CASE End(r)
  BY <1>1, IdleIs DEF End, Set
<1>2. CASE Begin(r) /\ ~ End(r)
  <2>1. PICK es \in Seq(Entry) : es = host[Host(r)].entries
    BY DEF Typed, HostRecord, Host, Hosts
  <2> DEFINE s == [[Idle EXCEPT !.pc = "next"] EXCEPT !.left = es]
  <2>2. run' = [run EXCEPT ![r] = s]
    BY <1>2, <2>1 DEF Begin, Set, Idle
  <2>3. s \in RunRecord /\ s.pc = "next"
    BY IdleIs DEF RunRecord
  <2> HIDE DEF s
  <2>4. RunOK(s)
    BY <2>3 DEF RunOK, AtWork
  <2> QED BY <1>2, <2>2, <2>3, <2>4
<1> QED BY <1>1, <1>2

\* Every run is a process's.
LEMMA HostsAre == \A r \in Runs : Host(r) \in Hosts
  BY DEF Host, Hosts

\* The first state is well typed.
LEMMA TypedStarts == ASSUME Init PROVE Typed
<1>1. \A h \in Hosts : Down \in HostRecord
  BY EmptySeq DEF Down, HostRecord
<1>2. today \in Nat /\ "tick" \in Runs
  BY CollectorsAssumption DEF Init, CollectorsAssumption
<1> QED BY <1>1, <1>2, IdleIs DEF Init, Typed, Histories, NoDay

\* One run moves, and the rest keeps its type.
LEMMA TypedRun ==
    ASSUME Typed, NEW r \in Runs, NEW s \in RunRecord, RunOK(s), run' = [run EXCEPT ![r] = s],
           today' = today, host' \in [Hosts -> HostRecord],
           cursor' \in [Histories -> Nat \cup {-1}], days' \in [Histories -> SUBSET Nat],
           quota' \in [Range(Accounts) -> SUBSET Windows],
           poller' \in [Range(Accounts) -> Runs], mark' \in [Range(Accounts) -> BOOLEAN]
    PROVE  Typed'
<1>1. run' \in [Runs -> RunRecord] /\ \A x \in Runs : run'[x] = IF x = r THEN s ELSE run[x]
  BY DEF Typed
<1>2. \A x \in Runs : RunOK(run'[x])
  BY <1>1 DEF Typed
<1> QED BY <1>1, <1>2 DEF Typed, RunOK

\* Every step keeps the types.
LEMMA TypedSteps == ASSUME Typed, [Next]_vars PROVE Typed'
<1>1. ASSUME NEW r \in Runs, Quiet(r) PROVE Typed'
  BY <1>1, QuietIs, TypedRun DEF Typed
<1>2. ASSUME NEW r \in Runs, Begin(r) \/ End(r) PROVE Typed'
  <2>1. host' \in [Hosts -> HostRecord]
    <3>1. Down \in HostRecord /\ host \in [Hosts -> HostRecord]
      BY EmptySeq DEF Down, HostRecord, Typed
    <3>2. host' = host \/ host' = [host EXCEPT !["refresh"] = Down]
      BY <1>2 DEF Begin, End
    <3> QED BY <3>1, <3>2
  <2>2. UNCHANGED <<today, cursor, days, quota, poller, mark>>
    BY <1>2 DEF Begin, End, admin, snaps
  <2> QED BY <1>2, <2>1, <2>2, BeginIs, TypedRun DEF Typed
<1>3. ASSUME NEW r \in Runs, Answer(r) PROVE Typed'
  <2>1. /\ quota' = [quota EXCEPT ![Turn(r).name] = {}] /\ poller' = [poller EXCEPT ![Turn(r).name] = r]
        /\ mark' = [mark EXCEPT ![Turn(r).name] = FALSE] /\ UNCHANGED <<today, host, cursor, days>>
    BY <1>3 DEF Answer, admin
  <2>2. /\ quota' \in [Range(Accounts) -> SUBSET Windows] /\ poller' \in [Range(Accounts) -> Runs]
        /\ mark' \in [Range(Accounts) -> BOOLEAN]
    BY <2>1 DEF Typed
  <2> QED BY <1>3, <2>1, <2>2, AnswerIs, TypedRun DEF Typed
<1>4. ASSUME NEW r \in Runs, StoreWindow(r) PROVE Typed'
  <2>1. UNCHANGED <<today, host, cursor, days, poller, mark>>
    BY <1>4 DEF StoreWindow, admin
  <2>2. PICK w \in Windows, s \in RunRecord :
           /\ RunOK(s) /\ run' = [run EXCEPT ![r] = s]
           /\ quota' = IF poller[Turn(r).name] = r
                       THEN [quota EXCEPT ![Turn(r).name] = @ \cup {w}] ELSE quota
    BY <1>4, StoreWindowIs
  <2>3. quota' \in [Range(Accounts) -> SUBSET Windows]
    BY <2>2 DEF Typed
  <2> QED BY <2>1, <2>2, <2>3, TypedRun DEF Typed
<1>5. ASSUME NEW r \in Runs, MarkPoll(r) PROVE Typed'
  <2>1. UNCHANGED <<today, host, cursor, days, poller, quota>>
        /\ (mark' = mark \/ mark' = [mark EXCEPT ![Turn(r).name] = (poller[Turn(r).name] = r)])
    BY <1>5 DEF MarkPoll, admin
  <2>2. PICK b \in BOOLEAN : b = (poller[Turn(r).name] = r)
    OBVIOUS
  <2>3. mark' \in [Range(Accounts) -> BOOLEAN]
    BY <2>1, <2>2 DEF Typed
  <2>4. PICK s \in RunRecord : RunOK(s) /\ run' = [run EXCEPT ![r] = s]
    BY <1>5, EndsIs
  <2> QED BY <2>1, <2>3, <2>4, TypedRun DEF Typed
<1>6. ASSUME NEW r \in Runs, StoreDays(r) PROVE Typed'
  <2>1. UNCHANGED <<today, host, cursor, poller, quota, mark>>
        /\ days' = [days EXCEPT ![run[r].report] = @ \cup Answered(r)]
    BY <1>6 DEF StoreDays, snaps
  <2>2. Answered(r) \subseteq Nat
    <3>1. From(r) \in Nat
      BY HostsAre DEF From, Typed, HostRecord
    <3> QED BY <3>1 DEF Answered, Asked
  <2>3. days' \in [Histories -> SUBSET Nat]
    BY <2>1, <2>2 DEF Typed
  <2>4. PICK s \in RunRecord : RunOK(s) /\ run' = [run EXCEPT ![r] = s]
    BY <1>6, StoreDaysIs
  <2> QED BY <2>1, <2>3, <2>4, TypedRun DEF Typed
<1>7. ASSUME NEW r \in Runs, SaveCursor(r) PROVE Typed'
  <2>1. UNCHANGED <<today, host, days, poller, quota, mark>>
        /\ (cursor' = cursor \/ cursor' = [cursor EXCEPT ![run[r].report] = host[Host(r)].until])
    BY <1>7 DEF SaveCursor, snaps
  <2>2. host[Host(r)].until \in Nat
    BY HostsAre DEF Typed, HostRecord
  <2>3. cursor' \in [Histories -> Nat \cup {-1}]
    BY <2>1, <2>2 DEF Typed
  <2>4. PICK s \in RunRecord : RunOK(s) /\ run' = [run EXCEPT ![r] = s]
    BY <1>7, EndsIs
  <2> QED BY <2>1, <2>3, <2>4, TypedRun DEF Typed
<1>8. ASSUME NEW h \in Hosts, Boot(h) PROVE Typed'
  <2>1. PICK since \in {Since, Earliest} :
           host' = [host EXCEPT ![h] = [up |-> TRUE, entries |-> Entries,
                                        since |-> since, until |-> today]]
    BY <1>8 DEF Boot
  <2>2. since \in Nat
    BY CollectorsAssumption DEF Since, Earliest, Typed, Histories, NoDay, CollectorsAssumption
  <2>3. [up |-> TRUE, entries |-> Entries, since |-> since, until |-> today] \in HostRecord
    BY <2>2, EntriesAre DEF HostRecord, Typed
  <2>4. host' \in [Hosts -> HostRecord]
    BY <2>1, <2>3 DEF Typed
  <2> QED BY <1>8, <2>4 DEF Boot, Typed, RunOK, admin, snaps
<1>9. ASSUME NEW h \in Hosts, Stop(h) PROVE Typed'
  <2>1. host' \in [Hosts -> HostRecord]
    BY <1>9, EmptySeq DEF Stop, Down, HostRecord, Typed
  <2>2. run' \in [Runs -> RunRecord] /\ \A r \in Runs : run'[r] = Idle \/ run'[r] = run[r]
    BY <1>9, IdleIs DEF Stop, Typed
  <2>3. \A r \in Runs : RunOK(run'[r])
    BY <2>2, IdleIs DEF Typed
  <2> QED BY <1>9, <2>1, <2>2, <2>3 DEF Stop, Typed, RunOK, admin, snaps
<1>10. CASE UNCHANGED vars \/ NextDay \/ \E s \in Secrets : Toggle(s)
  <2>1. UNCHANGED <<host, run, cursor, days, quota, poller, mark>> /\ today' \in Nat
    BY <1>10 DEF vars, NextDay, Toggle, admin, snaps, Typed
  <2> QED BY <2>1 DEF Typed, RunOK
<1> QED BY <1>1, <1>2, <1>3, <1>4, <1>5, <1>6, <1>7, <1>8, <1>9, <1>10
       DEF Next, Step, Poll, Pull, Quiet

-----------------------------------------------------------------------------
(* The snapshot polls.                                                     *)

\* The poll of r that began last for an account has stored what it has not to do.
Filling(r) ==
    run[r].pc = "windows" =>
        \A a \in Range(Accounts) :
            a = Turn(r).name /\ poller[a] = r => Windows \subseteq quota[a] \cup run[r].todo

WholeInv == Typed /\ (\A r \in Runs : Filling(r)) /\ PollsAreWhole

\* A step that stores no window keeps the polls whole.
LEMMA WholeRest ==
    ASSUME WholeInv, Typed', UNCHANGED <<quota, poller, mark>>,
           \A r \in Runs : run'[r] = run[r] \/ run'[r].pc # "windows"
    PROVE  WholeInv'
  BY DEF WholeInv, Filling, PollsAreWhole, Turn

\* Every step keeps the polls whole.
LEMMA WholeSteps == ASSUME WholeInv, [Next]_vars PROVE WholeInv'
<1>1. Typed /\ Typed'
  BY TypedSteps DEF WholeInv
<1>2. ASSUME NEW r \in Runs, Quiet(r) \/ Begin(r) \/ End(r) \/ SaveCursor(r) \/ StoreDays(r)
      PROVE  WholeInv'
  <2>1. PICK s \in RunRecord : s.pc # "windows" /\ run' = [run EXCEPT ![r] = s]
    BY <1>1, <1>2, QuietIs, BeginIs, EndsIs, StoreDaysIs
  <2>2. UNCHANGED <<quota, poller, mark>>
    BY <1>1, <1>2, QuietIs DEF Begin, End, SaveCursor, StoreDays, snaps
  <2>3. \A x \in Runs : run'[x] = run[x] \/ run'[x].pc # "windows"
    BY <1>1, <2>1 DEF Typed
  <2> QED BY <1>1, <2>2, <2>3, WholeRest
<1>3. ASSUME NEW r \in Runs, Answer(r) PROVE WholeInv'
  <2>1. PICK s \in RunRecord : /\ s.todo = Windows /\ s.left = run[r].left
                               /\ run' = [run EXCEPT ![r] = s]
    BY <1>1, <1>3, AnswerIs
  <2>2. PICK b : b = Turn(r).name
    OBVIOUS
  <2>3. /\ quota' = [quota EXCEPT ![b] = {}] /\ poller' = [poller EXCEPT ![b] = r]
        /\ mark' = [mark EXCEPT ![b] = FALSE]
    BY <1>3, <2>2 DEF Answer
  <2>4. \A a \in Range(Accounts) :
           /\ quota'[a] = IF a = b THEN {} ELSE quota[a]
           /\ poller'[a] = IF a = b THEN r ELSE poller[a]
           /\ mark'[a] = IF a = b THEN FALSE ELSE mark[a]
    BY <1>1, <2>3 DEF Typed
  <2>5. ASSUME NEW x \in Runs PROVE Filling(x)'
    <3>1. CASE x = r
      <4>1. run'[x] = s
        BY <1>1, <2>1, <3>1 DEF Typed
      <4> QED BY <2>1, <4>1 DEF Filling
    <3>2. CASE x # r
      <4>1. run'[x] = run[x]
        BY <1>1, <2>1, <3>2 DEF Typed
      <4> QED BY <2>4, <3>2, <4>1 DEF Filling, Turn, WholeInv
    <3> QED BY <3>1, <3>2
  <2>6. PollsAreWhole'
    BY <2>4 DEF PollsAreWhole, WholeInv
  <2> QED BY <1>1, <2>5, <2>6 DEF WholeInv
<1>4. ASSUME NEW r \in Runs, StoreWindow(r) PROVE WholeInv'
  <2>1. PICK w \in Windows, s \in RunRecord :
           /\ s.pc = "windows" /\ s.todo = run[r].todo \ {w} /\ s.left = run[r].left
           /\ run' = [run EXCEPT ![r] = s]
           /\ quota' = IF poller[Turn(r).name] = r
                       THEN [quota EXCEPT ![Turn(r).name] = @ \cup {w}] ELSE quota
    BY <1>1, <1>4, StoreWindowIs
  <2>2. PICK b : b = Turn(r).name
    OBVIOUS
  <2>3. UNCHANGED <<poller, mark>> /\ run[r].pc = "windows"
    BY <1>4 DEF StoreWindow, At
  <2>4. \A a \in Range(Accounts) :
           quota'[a] = IF a = b /\ poller[a] = r THEN quota[a] \cup {w} ELSE quota[a]
    BY <1>1, <2>1, <2>2 DEF Typed
  <2>5. ASSUME NEW x \in Runs PROVE Filling(x)'
    <3>1. CASE x = r
      <4>1. run'[x] = s /\ Filling(r)
        BY <1>1, <2>1, <3>1 DEF Typed, WholeInv
      <4>2. Turn(r)' = Turn(r)
        BY <2>1, <3>1, <4>1 DEF Turn
      <4> QED BY <2>1, <2>2, <2>3, <2>4, <3>1, <4>1, <4>2 DEF Filling
    <3>2. CASE x # r
      <4>1. run'[x] = run[x]
        BY <1>1, <2>1, <3>2 DEF Typed
      <4> QED BY <2>3, <2>4, <3>2, <4>1 DEF Filling, Turn, WholeInv
    <3> QED BY <3>1, <3>2
  <2>6. PollsAreWhole'
    BY <1>1, <2>3, <2>4 DEF PollsAreWhole, WholeInv, Typed
  <2> QED BY <1>1, <2>5, <2>6 DEF WholeInv
<1>5. ASSUME NEW r \in Runs, MarkPoll(r) PROVE WholeInv'
  <2>1. PICK s \in RunRecord : s.pc # "windows" /\ run' = [run EXCEPT ![r] = s]
    BY <1>1, <1>5, EndsIs
  <2>2. PICK b : b = Turn(r).name
    OBVIOUS
  <2>3. /\ UNCHANGED <<poller, quota>> /\ run[r].pc = "windows" /\ run[r].todo = {}
        /\ (mark' = mark \/ mark' = [mark EXCEPT ![b] = (poller[b] = r)])
    BY <1>5, <2>2 DEF MarkPoll, At, AllStored
  <2>4. \A a \in Range(Accounts) : mark'[a] => mark[a] \/ (a = b /\ poller[a] = r)
    BY <1>1, <2>3 DEF Typed
  <2>5. \A a \in Range(Accounts) : a = b /\ poller[a] = r => quota[a] = Windows
    <3>1. Filling(r) /\ \A a \in Range(Accounts) : quota[a] \subseteq Windows
      BY <1>1 DEF WholeInv, Typed
    <3> QED BY <2>2, <2>3, <3>1, ZenonT(40) DEF Filling
  <2>6. PollsAreWhole'
    BY <2>3, <2>4, <2>5 DEF PollsAreWhole, WholeInv
  <2>7. ASSUME NEW x \in Runs PROVE Filling(x)'
    <3>1. (run'[x] = s /\ x = r) \/ run'[x] = run[x]
      BY <1>1, <2>1 DEF Typed
    <3> QED BY <2>1, <2>3, <3>1 DEF Filling, Turn, WholeInv
  <2> QED BY <1>1, <2>6, <2>7 DEF WholeInv
<1>6. ASSUME NEW h \in Hosts, Stop(h) PROVE WholeInv'
  <2>1. \A r \in Runs : run'[r] = run[r] \/ run'[r].pc # "windows"
    BY <1>6, IdleIs DEF Stop
  <2> QED BY <1>1, <1>6, <2>1, WholeRest DEF Stop, snaps
<1>7. CASE UNCHANGED vars \/ NextDay \/ (\E s \in Secrets : Toggle(s)) \/ \E h \in Hosts : Boot(h)
  <2>1. UNCHANGED <<run, quota, poller, mark>>
    BY <1>7 DEF vars, NextDay, Toggle, Boot, snaps
  <2> QED BY <1>1, <2>1, WholeRest
<1> QED BY <1>2, <1>3, <1>4, <1>5, <1>6, <1>7 DEF Next, Step, Poll, Pull, Quiet

\* The cursor of an account's snapshots names a poll all of whose windows are in
\* the store: never one that a failed insert, a panic or a crash cut between two
\* rows, nor one that another process's poll of the account has overtaken, for
\* any accounts, windows, runs and faults (snapshot.go:128-153).
THEOREM PollsStayWhole == Spec => []PollsAreWhole
<1>1. Init => WholeInv
  <2> SUFFICES ASSUME Init PROVE WholeInv
    OBVIOUS
  <2>1. \A r \in Runs : run[r].pc = "idle"
    BY IdleIs DEF Init
  <2>2. \A a \in Range(Accounts) : ~ mark[a]
    BY DEF Init
  <2> QED BY <2>1, <2>2, TypedStarts DEF WholeInv, Filling, PollsAreWhole
<1>2. WholeInv /\ [Next]_vars => WholeInv'
  BY WholeSteps
<1> QED BY <1>1, <1>2, PTL DEF Spec, WholeInv

-----------------------------------------------------------------------------
(* The days behind the usage cursor.                                       *)

Usage == days["usage"]

\* The Lookback days before c are stored.
Reach(c) == Lookback <= c /\ (c - Lookback)..(c - 1) \subseteq Usage

\* No installation younger than its first pull's reach has a hole.
Young == Days <= 2 * Lookback
Unbroken(c) == Young => Lookback..(c - 1) \subseteq Usage

Joined == Young => \A d \in Usage :
    (d < Lookback => d..(Lookback - 1) \subseteq Usage) /\ (d >= Lookback => Lookback..d \subseteq Usage)

\* The window of a process starts where everything before is stored, or reaches
\* back as far as the first pull.
Window(h) ==
    host[h].up =>
        /\ host[h].since <= host[h].until /\ Lookback <= host[h].until /\ host[h].until <= today
        /\ \/ host[h].since = host[h].until - Lookback
           \/ Reach(host[h].since) /\ Unbroken(host[h].since)

Up(r) == run[r].pc # "idle" => host[Host(r)].up

\* A run stores its days before it saves its cursor.
Stored(r) ==
    run[r].pc = "save" /\ run[r].report = "usage" =>
        host[Host(r)].since..(host[Host(r)].until - 1) \subseteq Usage

CursorOK ==
    cursor["usage"] # -1 =>
        Reach(cursor["usage"]) /\ Unbroken(cursor["usage"]) /\ cursor["usage"] <= today

GapOK == /\ \A h \in Hosts : Window(h)
         /\ \A r \in Runs : Up(r) /\ Stored(r)
         /\ CursorOK /\ Joined

GapInv == /\ Typed /\ Lookback <= today /\ today <= Days /\ blind \in BOOLEAN
          /\ ~ blind => GapOK

\* No window opens, and no day or cursor is written.
LEMMA GapRests ==
    ASSUME Typed, Typed', GapOK, UNCHANGED <<cursor, days>>, today' >= today,
           \A h \in Hosts : host'[h] = host[h] \/ ~ host'[h].up,
           \A r \in Runs :
              \/ run'[r] = run[r] /\ host'[Host(r)] = host[Host(r)]
              \/ run'[r].pc = "idle"
              \/ run'[r].pc # "save" /\ host'[Host(r)].up
    PROVE  GapOK'
<1>1. today \in Nat /\ today' \in Nat /\ cursor["usage"] \in Int
  BY DEF Typed, Histories
<1>2. \A h \in Hosts : Window(h)'
  <2> TAKE h \in Hosts
  <2>1. CASE ~ host'[h].up
    BY <2>1 DEF Window
  <2>2. CASE host'[h] = host[h]
    <3>1. Window(h) /\ host[h].until \in Nat
      BY DEF GapOK, Typed, HostRecord
    <3> QED BY <1>1, <2>2, <3>1 DEF Window, Reach, Unbroken, Usage
  <2> QED BY <2>1, <2>2
<1>3. \A r \in Runs : Up(r)' /\ Stored(r)'
  BY DEF GapOK, Up, Stored, Usage
<1>4. CursorOK' /\ Joined'
  BY <1>1 DEF GapOK, CursorOK, Joined, Reach, Unbroken, Usage
<1> QED BY <1>2, <1>3, <1>4 DEF GapOK

\* A start that computes its window from the cursor leaves no gap.
LEMMA GapBoots ==
    ASSUME GapInv, Typed', ~ blind', NEW h \in Hosts, Boot(h)
    PROVE  GapOK'
<1>1. Typed /\ ~ blind /\ GapOK /\ Lookback <= today
  BY DEF GapInv, Boot
<1>2. host' = [host EXCEPT ![h] = [up |-> TRUE, entries |-> Entries, since |-> Since, until |-> today]]
  BY DEF Boot
<1>3. host'[h].up /\ host'[h].since = Since /\ host'[h].until = today
      /\ \A g \in Hosts \ {h} : host'[g] = host[g]
  BY <1>1, <1>2 DEF Typed
<1>4. UNCHANGED <<today, run, cursor, days>>
  BY DEF Boot, admin
<1>5. today \in Nat /\ Lookback \in Nat /\ cursor["usage"] \in Int
  BY <1>1, CollectorsAssumption DEF Typed, Histories, CollectorsAssumption
<1>6. Window(h)'
  <2>1. CASE cursor["usage"] = -1
    BY <1>1, <1>3, <1>4, <1>5, <2>1 DEF Window, Since, NoDay, Earliest
  <2>2. CASE cursor["usage"] # -1
    <3>1. Since = cursor["usage"] /\ Reach(Since) /\ Unbroken(Since) /\ Since <= today
      BY <1>1, <2>2 DEF Since, NoDay, GapOK, CursorOK
    <3> QED BY <1>1, <1>3, <1>4, <1>5, <3>1 DEF Window, Reach, Unbroken, Usage
  <2> QED BY <2>1, <2>2
<1>7. ASSUME NEW g \in Hosts \ {h} PROVE Window(g)'
  BY <1>1, <1>3, <1>4 DEF GapOK, Window, Reach, Unbroken, Usage
<1>8. ASSUME NEW r \in Runs PROVE Up(r)' /\ Stored(r)'
  <2>1. CASE Host(r) = h
    <3>1. run[r].pc = "idle"
      BY <1>1, <2>1 DEF GapOK, Up, Boot
    <3> QED BY <1>4, <3>1 DEF Up, Stored
  <2>2. CASE Host(r) # h
    BY <1>1, <1>3, <1>4, <2>2, HostsAre DEF GapOK, Up, Stored, Usage
  <2> QED BY <2>1, <2>2
<1>9. CursorOK' /\ Joined'
  BY <1>1, <1>4 DEF GapOK, CursorOK, Joined, Reach, Unbroken, Usage
<1> QED BY <1>6, <1>7, <1>8, <1>9 DEF GapOK

\* More days: what is stored stays stored.
LEMMA GrowsReach ==
    ASSUME Usage \subseteq Usage'
    PROVE  \A c : (Reach(c) => Reach(c)') /\ (Unbroken(c) => Unbroken(c)')
  BY DEF Reach, Unbroken

\* Storing a report's days leaves no gap.
LEMMA GapStores ==
    ASSUME GapInv, Typed', ~ blind', NEW r \in Runs, StoreDays(r)
    PROVE  GapOK'
<1>1. Typed /\ ~ blind /\ GapOK /\ Lookback <= today
  BY DEF GapInv, StoreDays, bounds
<1>2. UNCHANGED <<today, host, cursor>>
      /\ days' = [days EXCEPT ![run[r].report] = @ \cup Answered(r)] /\ Answered(r) = Asked(r)
      /\ run[r].pc = "fetch" /\ run[r].report # "limits"
  BY DEF StoreDays, At
<1>3. PICK s \in RunRecord : /\ s.pc = "save" /\ s.report = run[r].report
                             /\ run' = [run EXCEPT ![r] = s]
  BY <1>1, StoreDaysIs
<1>4. run'[r] = s /\ \A x \in Runs \ {r} : run'[x] = run[x]
  BY <1>1, <1>3 DEF Typed
<1>5. PICK a \in Nat, b \in Nat : a = host[Host(r)].since /\ b = host[Host(r)].until /\ Asked(r) = a..(b - 1)
  BY <1>1, HostsAre DEF Typed, HostRecord, Asked, From
<1>6. /\ run[r].report = "usage" => Usage' = Usage \cup a..(b - 1)
      /\ run[r].report # "usage" => Usage' = Usage
  BY <1>1, <1>2, <1>5 DEF Usage, Typed, Histories
<1>7. Usage \subseteq Usage'
  BY <1>6
<1>8. \A h \in Hosts : Window(h)'
  BY <1>1, <1>2, <1>7, GrowsReach DEF GapOK, Window
<1>9. ASSUME NEW x \in Runs PROVE Up(x)' /\ Stored(x)'
  <2>1. CASE x = r
    BY <1>1, <1>2, <1>3, <1>4, <1>5, <1>6, <2>1 DEF GapOK, Up, Stored
  <2>2. CASE x # r
    BY <1>1, <1>2, <1>4, <1>7, <2>2 DEF GapOK, Up, Stored
  <2> QED BY <2>1, <2>2
<1>10. CursorOK'
  BY <1>1, <1>2, <1>7, GrowsReach DEF GapOK, CursorOK
<1>11. Joined'
  <2>1. CASE Usage' = Usage
    BY <1>1, <2>1 DEF GapOK, Joined
  <2>2. CASE Usage' = Usage \cup a..(b - 1)
    <3> SUFFICES ASSUME Young, NEW d \in Usage'
                 PROVE  /\ d < Lookback => d..(Lookback - 1) \subseteq Usage'
                        /\ d >= Lookback => Lookback..d \subseteq Usage'
      BY DEF Joined, Young
    <3>1. CASE d \in Usage
      BY <1>1, <1>7, <3>1 DEF GapOK, Joined
    <3>2. CASE d \in a..(b - 1)
      <4>1. Lookback \in Nat /\ Days \in Nat /\ Days <= 2 * Lookback /\ b <= Days
            /\ Lookback <= b /\ (a = b - Lookback \/ (Lookback <= a /\ Lookback..(a - 1) \subseteq Usage))
        <5>1. host[Host(r)].up /\ today <= Days
          BY <1>1, <1>2 DEF GapOK, Up, GapInv
        <5>2. Window(Host(r))
          BY <1>1, HostsAre DEF GapOK
        <5>3. Lookback \in Nat /\ Days \in Nat /\ today \in Nat
          BY <1>1, CollectorsAssumption DEF CollectorsAssumption, Typed
        <5> QED BY <1>5, <5>1, <5>2, <5>3 DEF Window, Young, Reach, Unbroken
      <4>2. CASE a = b - Lookback
        BY <2>2, <3>2, <4>1, <4>2
      <4>3. CASE Lookback <= a /\ Lookback..(a - 1) \subseteq Usage
        BY <2>2, <3>2, <4>1, <4>3
      <4> QED BY <4>1, <4>2, <4>3
    <3> QED BY <2>2, <3>1, <3>2
  <2> QED BY <1>6, <2>1, <2>2
<1> QED BY <1>8, <1>9, <1>10, <1>11 DEF GapOK

\* Saving a cursor leaves no gap.
LEMMA GapSaves ==
    ASSUME GapInv, Typed', ~ blind', NEW r \in Runs, SaveCursor(r)
    PROVE  GapOK'
<1>1. Typed /\ ~ blind /\ GapOK /\ Lookback <= today
  BY DEF GapInv, SaveCursor
<1>2. UNCHANGED <<today, host, days>> /\ run[r].pc = "save"
      /\ (cursor' = cursor \/ cursor' = [cursor EXCEPT ![run[r].report] = host[Host(r)].until])
  BY DEF SaveCursor, At
<1>3. PICK s \in RunRecord : s.pc \in {"next", "ask"} /\ run' = [run EXCEPT ![r] = s]
  BY <1>1, EndsIs
<1>4. run'[r] = s /\ \A x \in Runs \ {r} : run'[x] = run[x]
  BY <1>1, <1>3 DEF Typed
<1>5. PICK a \in Nat, b \in Nat : a = host[Host(r)].since /\ b = host[Host(r)].until
  BY <1>1, HostsAre DEF Typed, HostRecord
<1>6. host[Host(r)].up
  BY <1>1, <1>2 DEF GapOK, Up
<1>7. ASSUME NEW x \in Runs PROVE Up(x)' /\ Stored(x)'
  BY <1>1, <1>2, <1>3, <1>4, <1>6 DEF GapOK, Up, Stored, Usage
<1>8. \A h \in Hosts : Window(h)'
  BY <1>1, <1>2 DEF GapOK, Window, Reach, Unbroken, Usage
<1>9. CursorOK'
  <2>1. CASE cursor'["usage"] = cursor["usage"]
    BY <1>1, <1>2, <2>1 DEF GapOK, CursorOK, Reach, Unbroken, Usage
  <2>2. CASE cursor'["usage"] = b /\ run[r].report = "usage"
    <3>1. a..(b - 1) \subseteq Usage
      BY <1>1, <1>2, <1>5, <2>2 DEF GapOK, Stored
    <3>2. /\ Lookback <= b /\ b <= today /\ a <= b
          /\ a = b - Lookback \/ (Reach(a) /\ Unbroken(a))
      BY <1>1, <1>5, <1>6, HostsAre DEF GapOK, Window
    <3>3. Lookback \in Nat /\ Days \in Nat /\ today <= Days /\ today \in Nat
      BY <1>1, CollectorsAssumption DEF CollectorsAssumption, GapInv, Typed
    <3>4. Reach(b)
      BY <3>1, <3>2, <3>3 DEF Reach
    <3>5. Unbroken(b)
      <4> SUFFICES ASSUME Young, NEW d \in Lookback..(b - 1) PROVE d \in Usage
        BY DEF Unbroken
      <4>1. Lookback >= b - Lookback
        BY <3>2, <3>3 DEF Young
      <4> QED BY <3>1, <3>2, <3>3, <4>1 DEF Unbroken
    <3> QED BY <1>2, <2>2, <3>2, <3>4, <3>5 DEF CursorOK, Reach, Unbroken, Usage
  <2> QED BY <1>1, <1>2, <1>5, <2>1, <2>2 DEF Typed, Histories
<1>10. Joined'
  BY <1>1, <1>2 DEF GapOK, Joined, Usage
<1> QED BY <1>7, <1>8, <1>9, <1>10 DEF GapOK

\* Every step keeps the invariant.
LEMMA GapSteps == ASSUME GapInv, [Next]_vars PROVE GapInv'
<1>1. Typed /\ Typed' /\ today \in Nat /\ Days \in Nat /\ Lookback \in Nat
  BY TypedSteps, CollectorsAssumption DEF GapInv, CollectorsAssumption, Typed
<1>2. /\ \/ today' = today
         \/ today' = today + 1 /\ today < Days
      /\ blind' = blind \/ blind' = TRUE
  BY <1>1, QuietIs DEF Next, vars, NextDay, Toggle, Boot, Stop, Begin, End, Step, Poll, Pull, Quiet,
     Answer, StoreWindow, MarkPoll, StoreDays, SaveCursor, bounds
<1>3. today' >= Lookback /\ today' <= Days /\ blind' \in BOOLEAN /\ today' >= today /\ (blind => blind')
  <2>1. Lookback <= today /\ today <= Days /\ blind \in BOOLEAN
    BY DEF GapInv
  <2>2. today' >= Lookback /\ today' <= Days /\ today' >= today
    BY <1>1, <1>2, <2>1
  <2>3. blind' \in BOOLEAN /\ (blind => blind')
    BY <1>2, <2>1
  <2> QED BY <2>2, <2>3
<1> SUFFICES ASSUME ~ blind' PROVE GapOK'
  BY <1>1, <1>3 DEF GapInv
<1>4. GapOK
  BY <1>3 DEF GapInv
<1>5. ASSUME NEW r \in Runs, Quiet(r) \/ Answer(r) \/ StoreWindow(r) \/ MarkPoll(r) PROVE GapOK'
  <2>1. PICK s \in RunRecord : s.pc # "save" /\ run' = [run EXCEPT ![r] = s]
    BY <1>1, <1>5, QuietIs, AnswerIs, StoreWindowIs, EndsIs
  <2>2. UNCHANGED <<cursor, days, host>> /\ run[r].pc # "idle"
    BY <1>1, <1>5, QuietIs DEF Answer, StoreWindow, MarkPoll, TurnOf, At, admin
  <2>3. \A x \in Runs : run'[x] = run[x] \/ (x = r /\ run'[x] = s)
    BY <1>1, <2>1 DEF Typed
  <2>4. host[Host(r)].up
    BY <1>4, <2>2 DEF GapOK, Up
  <2> QED BY <1>1, <1>3, <1>4, <2>1, <2>2, <2>3, <2>4, GapRests
<1>6. ASSUME NEW r \in Runs, Begin(r) PROVE GapOK'
  <2>1. PICK s \in RunRecord : s.pc \in {"next", "idle"} /\ run' = [run EXCEPT ![r] = s]
    BY <1>1, <1>6, BeginIs
  <2>2. UNCHANGED <<cursor, days, host>> /\ host[Host(r)].up
    BY <1>6 DEF Begin, admin
  <2>3. \A x \in Runs : run'[x] = run[x] \/ (x = r /\ run'[x] = s)
    BY <1>1, <2>1 DEF Typed
  <2> QED BY <1>1, <1>3, <1>4, <2>1, <2>2, <2>3, GapRests
<1>7. ASSUME NEW r \in Runs, End(r) PROVE GapOK'
  <2>1. PICK s \in RunRecord : s.pc = "idle" /\ run' = [run EXCEPT ![r] = s]
    BY <1>1, <1>7, BeginIs
  <2>2. UNCHANGED <<cursor, days>>
        /\ host' = (IF r = "refresh" THEN [host EXCEPT !["refresh"] = Down] ELSE host)
    BY <1>7 DEF End, admin
  <2>3. \A x \in Runs : run'[x] = IF x = r THEN s ELSE run[x]
    BY <1>1, <2>1 DEF Typed
  <2>4. \A h \in Hosts : host'[h] = host[h] \/ (r = "refresh" /\ h = "refresh" /\ ~ host'[h].up)
    BY <1>1, <2>2 DEF Typed, Down
  <2>5. \A x \in Runs : x # r => ~ (r = "refresh" /\ Host(x) = "refresh")
    BY DEF Host
  <2> QED BY <1>1, <1>3, <1>4, <2>1, <2>2, <2>3, <2>4, <2>5, HostsAre, GapRests
<1>8. ASSUME NEW r \in Runs, StoreDays(r) \/ SaveCursor(r) PROVE GapOK'
  BY <1>1, <1>8, GapStores, GapSaves
<1>9. ASSUME NEW h \in Hosts, Boot(h) PROVE GapOK'
  BY <1>1, <1>9, GapBoots
<1>10. ASSUME NEW h \in Hosts, Stop(h) PROVE GapOK'
  <2>1. UNCHANGED <<cursor, days>> /\ host' = [host EXCEPT ![h] = Down]
        /\ run' = [r \in Runs |-> IF Host(r) = h THEN Idle ELSE run[r]]
    BY <1>10 DEF Stop, admin
  <2>2. \A g \in Hosts : host'[g] = IF g = h THEN Down ELSE host[g]
    BY <1>1, <2>1 DEF Typed
  <2>3. ~ Down.up
    BY DEF Down
  <2> QED BY <1>1, <1>3, <1>4, <2>1, <2>2, <2>3, IdleIs, HostsAre, GapRests
<1>11. CASE UNCHANGED vars \/ NextDay \/ \E s \in Secrets : Toggle(s)
  <2>1. UNCHANGED <<cursor, days, host, run>>
    BY <1>11 DEF vars, NextDay, Toggle, admin
  <2> QED BY <1>1, <1>3, <1>4, <2>1, GapRests
<1> QED BY <1>5, <1>6, <1>7, <1>8, <1>9, <1>10, <1>11 DEF Next, Step, Poll, Pull, Quiet

\* The first state satisfies the invariant.
LEMMA GapStarts == ASSUME Init PROVE GapInv
<1>1. Typed /\ Lookback <= today /\ today <= Days /\ blind = FALSE
  <2>1. today = Lookback /\ Lookback \in 0..Days /\ Days \in Nat
    BY CollectorsAssumption DEF Init, CollectorsAssumption
  <2>2. Typed /\ blind = FALSE
    BY TypedStarts DEF Init
  <2> QED BY <2>1, <2>2
<1>2. \A h \in Hosts : Window(h)
  BY DEF Init, Window, Down
<1>3. \A r \in Runs : Up(r) /\ Stored(r)
  BY IdleIs DEF Init, Up, Stored
<1>4. CursorOK /\ Joined
  BY DEF Init, CursorOK, Joined, Usage, NoDay
<1> QED BY <1>1, <1>2, <1>3, <1>4 DEF GapInv, GapOK, Init

\* What a pull owes the pull after it.
LookbackIsStored ==
    ~ blind /\ cursor["usage"] # NoDay =>
        (cursor["usage"] - Lookback)..(cursor["usage"] - 1) \subseteq days["usage"]

\* The Lookback days before the usage cursor are stored, whatever pulls of two
\* processes overlap, however often a page, a transaction or a cursor fails or a
\* process dies, and for any horizon; unless a window was computed without its
\* cursor (adminrep.go:239-244, refresh.go:154-157).
THEOREM LookbackStaysStored == Spec => []LookbackIsStored
<1>1. GapInv => LookbackIsStored
  BY DEF GapInv, GapOK, CursorOK, Reach, Usage, LookbackIsStored, NoDay
<1> QED BY <1>1, GapStarts, GapSteps, PTL DEF Spec

\* A set of numbers has a least one.
LEMMA Least ==
    ASSUME NEW R \in SUBSET Nat, R # {}
    PROVE  \E i \in R : \A j \in R : i <= j
<1>1. PICK i \in R : \A j \in R : ~ (<<j, i>> \in OpToRel(<, Nat))
  BY NatLessThanWellFounded, WFMin
<1>2. \A j \in R : ~ (j < i)
  BY <1>1 DEF OpToRel
<1> QED BY <1>2

\* On an installation no older than two lookbacks, the usage report has no hole
\* at all behind its cursor, however pulls overlap, fail half-way or die
\* (adminrep.go:239-244, refresh.go:154-157).  Past that horizon an early pull
\* that stored its days without ever saving the cursor may lie behind one.
THEOREM UsageStaysWhole ==
    ASSUME Days <= 2 * Lookback
    PROVE  Spec => []UsageHasNoGap
<1>1. GapInv => UsageHasNoGap
  <2> SUFFICES ASSUME GapInv, ~ blind, cursor["usage"] # NoDay
               PROVE  \E first \in 0..cursor["usage"] :
                          /\ first .. (cursor["usage"] - 1) \subseteq Usage
                          /\ Usage \cap 0..(first - 1) = {}
                          /\ cursor["usage"] - Lookback >= first
    BY DEF UsageHasNoGap, Usage
  <2>1. PICK c \in Nat : c = cursor["usage"]
    BY DEF GapInv, Typed, Histories, NoDay
  <2>2. /\ Lookback \in Nat /\ Days \in Nat /\ today \in Nat /\ Usage \subseteq Nat
        /\ c <= today /\ today <= Days /\ Days <= 2 * Lookback /\ Lookback <= c
    BY <2>1, CollectorsAssumption
       DEF CollectorsAssumption, GapInv, GapOK, CursorOK, Typed, Histories, Usage, Reach, NoDay
  <2>3. /\ (c - Lookback)..(c - 1) \subseteq Usage /\ Lookback..(c - 1) \subseteq Usage
        /\ \A d \in Usage : (d < Lookback => d..(Lookback - 1) \subseteq Usage)
                            /\ (d >= Lookback => Lookback..d \subseteq Usage)
    BY <2>1 DEF GapInv, GapOK, CursorOK, Reach, Unbroken, Joined, Young, NoDay
  <2>4. CASE Lookback = 0
    <3>1. c = 0
      BY <2>2, <2>4
    <3> QED BY <2>1, <2>4, <3>1
  <2>5. CASE Lookback # 0
    <3>1. c - Lookback \in Usage
      BY <2>2, <2>3, <2>5
    <3>2. PICK first \in Usage : \A d \in Usage : first <= d
      BY <2>2, <3>1, Least
    <3>3. first \in Nat /\ first <= c - Lookback /\ first <= Lookback
      BY <2>2, <3>1, <3>2
    <3>4. first..(c - 1) \subseteq Usage
      <4> SUFFICES ASSUME NEW d \in first..(c - 1) PROVE d \in Usage
        OBVIOUS
      <4>1. CASE d < Lookback
        <5>1. first < Lookback /\ d \in first..(Lookback - 1)
          BY <2>2, <3>3, <4>1
        <5> QED BY <2>3, <5>1
      <4>2. CASE d >= Lookback
        BY <2>2, <2>3, <3>3, <4>2
      <4> QED BY <2>2, <3>3, <4>1, <4>2
    <3>5. Usage \cap 0..(first - 1) = {}
      BY <2>2, <3>2, <3>3
    <3> QED BY <2>1, <2>2, <3>3, <3>4, <3>5
  <2> QED BY <2>4, <2>5
<1> QED BY <1>1, GapStarts, GapSteps, PTL DEF Spec

=============================================================================
