------------------------------ MODULE PriceFile ------------------------------
(***************************************************************************)
(* The price table in force.  prices.toml holds the user's overrides; it   *)
(* is read, changed and rewritten by `clens prices`, by POST /api/prices   *)
(* and by hand, with no lock and no rename, while the Loader that serve's  *)
(* consumer and dashboard share stats it and reloads it when its time has  *)
(* moved forward.                                                          *)
(*                                                                         *)
(* A rate is a number of units per token, None where there is none; rates  *)
(* are multiples of 8, so that the derived ones are whole.                 *)
(***************************************************************************)
EXTENDS Integers

CONSTANTS Models, Shipped,   \* Shipped: the built-in rows, by model
          Varying,           \* the shipped models with a peak window
          None,              \* no rate
          Editors, EditJobs, \* who edits, and the edits there are
          Readers,           \* goroutines of serve that ask for the table
          MaxPriceEdits      \* bound on edits

\* The classes of tokens, and the columns of a row: a rate for each class, and
\* those of fast mode for two of them.
Classes == {"input", "output", "w5", "w1", "read"}
Columns == Classes \cup {"fastIn", "fastOut"}

ASSUME PriceAssumption ==
    /\ DOMAIN Shipped \subseteq Models /\ Varying \subseteq DOMAIN Shipped
    /\ \A m \in DOMAIN Shipped :
          /\ Shipped[m] \in [Columns -> Nat \cup {None}]
          /\ \A c \in Classes : Shipped[m][c] # None
    /\ None \notin Nat \cup Editors /\ MaxPriceEdits \in Nat

\* `clens prices --set` and --unset, POST /api/prices and `--edit`.
ASSUME JobAssumption ==
    \A j \in EditJobs :
        /\ j # None /\ j.kind \in {"set", "post", "unset", "edit"}
        /\ j.kind = "set" => j.model \in Models /\ j.column \in Columns /\ j.rate \in Nat
        /\ j.kind = "post" => j.model \in Models /\ j.row \in [Columns -> Nat \cup {None}]

VARIABLES prices,   \* the file: there, text (the overrides), parses, mtime
          editor,   \* editor[e]: an edit in progress
          reader,   \* reader[r]: a lookup in progress
          loader,   \* the Loader: its table and the mtime it noted
          lastEdit, \* auxiliary: the last finished edit of one rate
          priceEdits

priceVars == <<prices, editor, reader, loader, lastEdit, priceEdits>>

NoOverrides == [m \in {} |-> None]
NoRates == [c \in Columns |-> None]
NoEdit == [job |-> None, before |-> NoOverrides]
Blank(p) == [pc |-> p, job |-> None, own |-> NoOverrides, all |-> NoOverrides, alone |-> TRUE]

-----------------------------------------------------------------------------
(* Reading the file. *)

\* A model that bills no write premium does not get one from an override.
NoWriteFee(m) == m \in DOMAIN Shipped /\ Shipped[m]["w5"] = 0 /\ Shipped[m]["w1"] = 0

Derived(m, row, c, num, den) ==
    IF row[c] # None THEN row[c]
    ELSE IF NoWriteFee(m) THEN 0
    ELSE IF row["input"] # None THEN (row["input"] * num) \div den ELSE None

LoadOverrides(text) ==
    [m \in DOMAIN text |->
        [text[m] EXCEPT !["w5"] = Derived(m, text[m], "w5", 5, 4),
                        !["w1"] = Derived(m, text[m], "w1", 2, 1)]]

\* A file that does not parse has no overrides to merge.
Readable(file) == IF file.parses THEN file.text ELSE NoOverrides

\* An override replaces the whole row; the window is re-taken from the shipped
\* one at the end.  A mutated Merged: it is not.
MergedWithoutWindow(text) ==
    LET own == LoadOverrides(text)
    IN  [m \in DOMAIN Shipped \cup DOMAIN own |->
            IF m \in DOMAIN own THEN [rates |-> own[m], peak |-> FALSE]
            ELSE [rates |-> Shipped[m], peak |-> m \in Varying]]

Merged(text) ==
    LET own == LoadOverrides(text)
    IN  [m \in DOMAIN Shipped \cup DOMAIN own |->
            [rates |-> IF m \in DOMAIN own THEN own[m] ELSE Shipped[m],
             peak |-> m \in Varying]]

\* The column a class is charged at.  A fast input rate switches both classes:
\* the output of a fast call then has the fast output rate, or none.
ColumnOf(rates, c, fast) ==
    IF fast /\ rates["fastIn"] # None
    THEN CASE c = "input" -> "fastIn" [] c = "output" -> "fastOut" [] OTHER -> c
    ELSE c

\* What a call costs: for each class its tokens at its rate, halved for a batch
\* and doubled at peak, in half units.  A used class without a rate leaves the
\* call unpriced.
Compute(table, m, usage, fast, batch, atPeak) ==
    LET used == {c \in Classes : usage[c] > 0}
        rate(c) == table[m].rates[ColumnOf(table[m].rates, c, fast)]
        factor == (IF batch THEN 1 ELSE 2) * (IF atPeak /\ table[m].peak THEN 2 ELSE 1)
        cost(c) == IF c \in used THEN usage[c] * rate(c) * factor ELSE 0
    IN  IF m \notin DOMAIN table \/ \E c \in used : rate(c) = None
        THEN None
        ELSE cost("input") + cost("output") + cost("w5") + cost("w1") + cost("read")

-----------------------------------------------------------------------------
PriceInit ==
    /\ prices = [there |-> FALSE, text |-> NoOverrides, parses |-> TRUE, mtime |-> 0]
    /\ editor = [e \in Editors |-> Blank("idle")]
    /\ reader = [r \in Readers |-> [pc |-> "idle", text |-> NoOverrides, raced |-> FALSE]]
    /\ loader = [table |-> Merged(NoOverrides), mtime |-> 0, raced |-> FALSE]
    /\ lastEdit = NoEdit /\ priceEdits = 0

PriceTypeOK ==
    /\ prices.there \in BOOLEAN /\ prices.mtime \in Nat /\ loader.mtime <= prices.mtime
    /\ \A e \in Editors : editor[e].pc \in {"idle", "own", "ready", "torn"}
    /\ \A r \in Readers : reader[r].pc \in {"idle", "stale", "read"}
    /\ priceEdits \in 0..MaxPriceEdits

\* A write: the file changes under everyone who has read it and not finished.
Write(text, parses, by, then) ==
    /\ prices' = [there |-> TRUE, text |-> text, parses |-> parses,
                  mtime |-> prices.mtime + 1]
    /\ editor' = [e \in Editors |-> IF e = by THEN then ELSE [editor[e] EXCEPT !.alone = FALSE]]
    /\ reader' = [r \in Readers |-> [reader[r] EXCEPT !.raced = TRUE]]

\* The user saves the file with a line in it that does not parse.
EditByHand ==
    /\ priceEdits < MaxPriceEdits /\ priceEdits' = priceEdits + 1
    /\ Write(NoOverrides, FALSE, None, None)
    /\ lastEdit' = NoEdit /\ UNCHANGED loader

\* LoadOverrides; what does not parse ends the edit, except that `--edit`,
\* which rewrites the file before it starts the editor, takes it as empty.
LoadOwn(e) ==
    /\ editor[e].pc = "idle" /\ priceEdits < MaxPriceEdits
    /\ priceEdits' = priceEdits + 1
    /\ \E j \in EditJobs :
        /\ prices.parses \/ j.kind = "edit"
        /\ editor' = [editor EXCEPT ![e] =
               [Blank("own") EXCEPT !.job = j, !.own = LoadOverrides(Readable(prices))]]
    /\ UNCHANGED <<prices, reader, loader, lastEdit>>

\* The edits that do not look at the effective table.
Direct == {"post", "edit"}

\* The command reads the file again for the effective table.
LoadAll(e) ==
    /\ editor[e].pc = "own" /\ editor[e].job.kind \notin Direct
    /\ editor' = [editor EXCEPT ![e].pc = "ready", ![e].all = Merged(Readable(prices))]
    /\ UNCHANGED <<prices, reader, loader, lastEdit, priceEdits>>

\* The row an edit of one rate starts from.
BaseRow(own, all, m) ==
    IF m \in DOMAIN own THEN own[m]
    ELSE IF m \in DOMAIN all THEN all[m].rates ELSE NoRates

\* A mutated RowSet: a row with nothing but the rate that was given.
RowSetAlone(own, all, j) == [NoRates EXCEPT ![j.column] = j.rate]

RowSet(own, all, j) == [BaseRow(own, all, j.model) EXCEPT ![j.column] = j.rate]

With(own, m, row) == [x \in DOMAIN own \cup {m} |-> IF x = m THEN row ELSE own[x]]

Edited(own, all, j) ==
    CASE j.kind = "set"   -> With(own, j.model, RowSet(own, all, j))
      [] j.kind = "post"  -> With(own, j.model, j.row)
      [] j.kind = "unset" -> [m \in DOMAIN own \ {j.model} |-> own[m]]
      [] j.kind = "edit"  -> own

\* os.WriteFile truncates, and then writes.
Truncate(e) ==
    /\ \/ editor[e].pc = "ready"
       \/ editor[e].pc = "own" /\ editor[e].job.kind \in Direct
    /\ Write(NoOverrides, TRUE, e, [editor[e] EXCEPT !.pc = "torn"])
    /\ lastEdit' = NoEdit /\ UNCHANGED <<loader, priceEdits>>

Rewrite(e) ==
    /\ editor[e].pc = "torn"
    /\ Write(Edited(editor[e].own, editor[e].all, editor[e].job), TRUE, e, Blank("idle"))
    /\ lastEdit' = IF editor[e].alone /\ editor[e].job.kind = "set"
                   THEN [job |-> editor[e].job, before |-> editor[e].all] ELSE NoEdit
    /\ UNCHANGED <<loader, priceEdits>>

\* The editor dies between the two, or the write fails.
LeaveTorn(e) ==
    /\ editor[e].pc = "torn"
    /\ editor' = [editor EXCEPT ![e] = Blank("idle")]
    /\ UNCHANGED <<prices, reader, loader, lastEdit, priceEdits>>

\* Table: the stat, the read of the file, and the new table together with a
\* second stat; only the last is under the lock.
Stat(r) ==
    /\ reader[r].pc = "idle" /\ prices.there /\ prices.mtime > loader.mtime
    /\ reader' = [reader EXCEPT ![r].pc = "stale"]
    /\ UNCHANGED <<prices, editor, loader, lastEdit, priceEdits>>

ReadPrices(r) ==
    /\ reader[r].pc = "stale"
    /\ reader' = [reader EXCEPT ![r] = [pc |-> "read", text |-> Readable(prices), raced |-> FALSE]]
    /\ UNCHANGED <<prices, editor, loader, lastEdit, priceEdits>>

Install(r) ==
    /\ reader[r].pc = "read"
    /\ loader' = [table |-> Merged(reader[r].text), mtime |-> prices.mtime,
                  raced |-> reader[r].raced]
    /\ reader' = [reader EXCEPT ![r] = [pc |-> "idle", text |-> NoOverrides, raced |-> FALSE]]
    /\ UNCHANGED <<prices, editor, lastEdit, priceEdits>>

PriceNext ==
    \/ EditByHand
    \/ \E e \in Editors : LoadOwn(e) \/ LoadAll(e) \/ Truncate(e) \/ Rewrite(e) \/ LeaveTorn(e)
    \/ \E r \in Readers : Stat(r) \/ ReadPrices(r) \/ Install(r)

PriceSpec == PriceInit /\ [][PriceNext]_priceVars
-----------------------------------------------------------------------------
\* A table loaded with no write under way charges what the file says: a rate
\* that is set is charged, a model without an override has its shipped row, an
\* override neither flattens a model that varies over the day ("without this,
\* `clens prices --set deepseek-flash` would silently revert the model to flat
\* pricing", pricing.go:435-437) nor gives one that bills no writes a premium,
\* and a file that does not parse overrides nothing.  A write that falls between
\* the read and the second stat is missed until the next one.
PricesFollowFile ==
    loader.mtime = prices.mtime /\ ~ loader.raced =>
        LET text == Readable(prices)  table == loader.table
        IN  /\ \A m \in DOMAIN table : table[m].peak <=> m \in Varying
            /\ \A m \in DOMAIN Shipped \ DOMAIN text : table[m].rates = Shipped[m]
            /\ \A m \in DOMAIN text, c \in Columns :
                  text[m][c] # None => table[m].rates[c] = text[m][c]
            /\ \A m \in DOMAIN text, c \in {"w5", "w1"} :
                  NoWriteFee(m) /\ text[m][c] = None => table[m].rates[c] = 0

\* The last edit of one rate was alone, and the row it started from had a rate for
\* every class.
Judged ==
    /\ lastEdit.job # None /\ lastEdit.job.model \in DOMAIN lastEdit.before
    /\ \A c \in Classes : lastEdit.before[lastEdit.job.model].rates[c] # None

\* Calls that use one class, the two that fast mode switches, and all.
Sample == {[c \in Classes |-> IF c \in used THEN 1 ELSE 0] :
              used \in {{c} : c \in Classes} \cup {{"input", "output"}, Classes}}

\* Setting a fast input rate decides which columns the prompt and the answer of a
\* fast call are charged at.
Switched(u, fast) ==
    fast /\ lastEdit.job.column = "fastIn" /\ (u["input"] > 0 \/ u["output"] > 0)

\* The calls of its model that an edit is about: those that are charged at its
\* column, and those it switched.
Meant(rates, u, fast) ==
    \/ Switched(u, fast)
    \/ \E c \in Classes : u[c] > 0 /\ ColumnOf(rates, c, fast) = lastEdit.job.column

\* `clens prices --set` with no other write beside it "changes one field and
\* leaves input, cache and the rest exactly as they were" (prices.go:85-87),
\* through the load, the derived rates, the file and the next load: a call that
\* is not charged at that rate costs what it did, and one that was priced still
\* is.  The one exception is an answer of a fast call that the edit switched to
\* a fast output rate the model does not have.
EditsAreLocal ==
    Judged =>
        LET after == Merged(Readable(prices))  before == lastEdit.before
        IN  \A m \in DOMAIN before, u \in Sample, fast, batch, atPeak \in BOOLEAN :
              LET now == Compute(after, m, u, fast, batch, atPeak)
                  was == Compute(before, m, u, fast, batch, atPeak)
              IN  /\ now = was \/ (m = lastEdit.job.model /\ Meant(after[m].rates, u, fast))
                  /\ now = None =>
                       \/ was = None
                       \/ /\ m = lastEdit.job.model /\ Switched(u, fast) /\ u["output"] > 0
                          /\ after[m].rates["fastOut"] = None
=============================================================================
