------------------------------ MODULE EventMerge ------------------------------
(***************************************************************************)
(* One request id in the events table: the proxy captures the call at most *)
(* once, the transcript reports it any number of times, in any order, and  *)
(* the second arrival and every later one is merged into the row that is   *)
(* there.  The reprice command rewrites the row's cost in between.         *)
(* Source: mergeEvents and its helpers in src/internal/store/merge.go,     *)
(* RepriceCosts in store.go, the two builders of rows in internal/consumer *)
(* and internal/jsonlogs.                                                  *)
(*                                                                         *)
(* The six token columns are one figure, 0 when all six are.  An account   *)
(* is named by its billing mode (the first configured one of a mode is the *)
(* one both builders pick).  A cost is the rates it was computed with, ""  *)
(* when the column is NULL.  A body is known to be whole or cut, which no  *)
(* column of the row says.                                                 *)
(***************************************************************************)
EXTENDS Integers, FiniteSets

CONSTANTS
    MaxUsage,   \* bound on a token figure
    Named       \* the billing modes an account is configured for

ASSUME MergeAssumption ==
    /\ MaxUsage \in Nat
    /\ Named \subseteq {"api", "subscription"}

Sources == {"proxy", "jsonl"}
Modes   == {"", "api", "subscription", "local"}
Rates   == {"", "cloud", "local"}
Bodies  == {"none", "whole", "cut"}
Usages  == 0 .. MaxUsage

Row == [source : Sources, refs : SUBSET Sources, complete : BOOLEAN,
        usage : Usages, mode : Modes, account : Named \cup {"", "local"},
        usd : Rates, equiv : Rates, req : Bodies, resp : Bodies]

NoRow == [source |-> "none"]

VARIABLES
    row,    \* the row of the request id, or NoRow
    seen,   \* auxiliary: the proxy's row as it arrived, or NoRow
    told,   \* auxiliary: the figures the transcript has reported, 0 left out
    warned  \* the row has a source_mismatch warning

vars == <<row, seen, told, warned>>

Init == row = NoRow /\ seen = NoRow /\ told = {} /\ warned = FALSE

-----------------------------------------------------------------------------
(* The rows the two collectors build. *)

AccountOf(mode) == IF mode \in Named \cup {"local"} THEN mode ELSE ""

RatesOf(mode) == IF mode = "local" THEN "local" ELSE "cloud"

\* A subscription's or a local call's cost is hypothetical: it was not paid.
Hypothetical(mode) == mode \in {"subscription", "local"}

Priced(e) == e.usd # "" \/ e.equiv # ""

\* e priced for its own mode, in the column of that mode.
WithCost(e) ==
    [e EXCEPT !.usd   = IF Hypothetical(e.mode) THEN "" ELSE RatesOf(e.mode),
              !.equiv = IF Hypothetical(e.mode) THEN RatesOf(e.mode) ELSE ""]

Unpriced(source, mode, usage, complete, req, resp) ==
    [source |-> source, refs |-> {}, complete |-> complete, usage |-> usage,
     mode |-> mode, account |-> AccountOf(mode), usd |-> "", equiv |-> "",
     req |-> req, resp |-> resp]

\* Usage is parsed from the response body; an upstream that aborts leaves a
\* prefix of it.  With the body policy off neither body is kept.
Captured(mode, usage, aborted, req, resp) ==
    Unpriced("proxy", mode, usage, ~aborted /\ "cut" \notin {req, resp}, req, resp)

ProxyRows ==
    {e \in {Captured(mode, usage, aborted, req, resp) :
                mode \in Modes, usage \in Usages, aborted \in BOOLEAN,
                req \in Bodies, resp \in Bodies} :
        /\ e.resp = "none" => e.usage = 0
        /\ e.resp = "whole" /\ e.req # "cut" => e.complete}

\* A transcript line has no bodies, and its mode is a guess from the model.
Guesses == {"api", "subscription", "local"}

Reported(mode, usage) == Unpriced("jsonl", mode, usage, TRUE, "none", "none")

TranscriptRows ==
    {Reported(mode, usage) : mode \in Guesses, usage \in Usages}

-----------------------------------------------------------------------------
(* mergeEvents, column by column. *)

usageObserved(e) == e.usage # 0

ByFlag(old, new) == IF new.complete THEN new ELSE old

\* Written down beside an operator, here and below: what it was, or could be
\* taken for, that the properties are to tell from it.
WinnerIsLast(old, new) == IF usageObserved(new) THEN new ELSE old

\* The more complete record wins, but a row that never saw usage does not win
\* over one that did.
Winner(old, new) ==
    IF usageObserved(old) = usageObserved(new) THEN ByFlag(old, new)
    ELSE IF usageObserved(new) THEN new ELSE old

MismatchOfWinner(old, new) ==
    /\ old.complete /\ new.complete
    /\ Winner(old, new).usage # new.usage
    /\ usageObserved(old) /\ usageObserved(new)

Mismatch(old, new) ==
    /\ old.complete /\ new.complete
    /\ old.usage # new.usage
    /\ usageObserved(old) /\ usageObserved(new)

proxyBuilt(e) == e.source = "proxy"

proxyInvolved(e) == e.source = "proxy" \/ "proxy" \in e.refs

proxySide(old, new) == IF proxyInvolved(new) THEN new ELSE old

\* The proxy decides between local and not local.
Arbitrated(old, new) ==
    /\ "local" \in {old.mode, new.mode}
    /\ proxyInvolved(old) # proxyInvolved(new)
    /\ proxySide(old, new).mode # ""

StoredModeFirst(winner, stored) ==
    IF stored.mode # "" THEN stored.mode ELSE winner.mode

\* An empty mode follows the money, and the stored mode where there is none.
ModeOf(winner, stored) ==
    CASE winner.mode # "" -> winner.mode
      [] winner.mode = "" /\ winner.usd # "" -> "api"
      [] winner.mode = "" /\ winner.usd = "" /\ winner.equiv # "" -> "subscription"
      [] OTHER -> stored.mode

BillingMode(old, new) ==
    IF Arbitrated(old, new) THEN proxySide(old, new).mode
    ELSE ModeOf(Winner(old, new), old)

\* A figure priced for another mode is dropped, never carried over.
KeepsCost(old, new) ==
    Arbitrated(old, new) => Winner(old, new).mode = proxySide(old, new).mode

preferNonEmpty(a, b) == IF a # "" THEN a ELSE b

Picked(old, new) ==
    LET first == preferNonEmpty(old.account, new.account) IN
    IF Arbitrated(old, new) THEN preferNonEmpty(proxySide(old, new).account, first)
    ELSE first

Real(account) == IF account = "local" THEN "" ELSE account

Account(old, new) ==
    IF BillingMode(old, new) = "local" THEN "local"
    ELSE IF Picked(old, new) # "local" THEN Picked(old, new)
    ELSE preferNonEmpty(Real(old.account), Real(new.account))

\* The bodies are backfilled one by one, so each has its own owner.
OldHasBody(old) == old.req # "none" \/ old.resp # "none"

NewGivesBody(old, new) ==
    \/ old.req = "none" /\ new.req # "none"
    \/ old.resp = "none" /\ new.resp # "none"

Backfilled(old, new) == IF old # "none" THEN old ELSE new

CompleteIfEither(old, new) == old.complete \/ new.complete

captureCompleteFromBodies(old, new) ==
    /\ OldHasBody(old) \/ ~NewGivesBody(old, new) => old.complete
    /\ NewGivesBody(old, new) => new.complete

mergeEvents(old, new) ==
    LET winner == Winner(old, new) IN
    [source   |-> old.source,
     refs     |-> old.refs \cup {old.source, new.source},
     complete |-> captureCompleteFromBodies(old, new),
     usage    |-> winner.usage,
     mode     |-> BillingMode(old, new),
     account  |-> Account(old, new),
     usd      |-> IF KeepsCost(old, new) THEN winner.usd ELSE "",
     equiv    |-> IF KeepsCost(old, new) THEN winner.equiv ELSE "",
     req      |-> Backfilled(old.req, new.req),
     resp     |-> Backfilled(old.resp, new.resp)]

-----------------------------------------------------------------------------
(* What happens to the row. *)

insertOrMerge(e) ==
    IF row = NoRow
    THEN row' = e /\ UNCHANGED warned
    ELSE /\ row' = mergeEvents(row, e)
         /\ warned' = (warned \/ Mismatch(row, e))

\* Whether the model of the call has a rate is the price table's choice.
MaybePriced(S) == S \cup {WithCost(e) : e \in S}

ProxyArrives ==
    /\ seen = NoRow
    /\ \E e \in MaybePriced(ProxyRows) :
        /\ insertOrMerge(e)
        /\ seen' = e
    /\ UNCHANGED told

\* Claude Code writes several lines for one request, and finalises its usage
\* in a later one; a re-read of the file reports them all again.
TranscriptArrives ==
    /\ \E e \in MaybePriced(TranscriptRows) :
        /\ insertOrMerge(e)
        /\ told' = told \cup ({e.usage} \ {0})
    /\ UNCHANGED seen

\* RepriceCosts: only a pass restricted to the row's model prices an unpriced
\* row.
Reprice(byModel) ==
    /\ row # NoRow
    /\ byModel \/ Priced(row)
    /\ row' = WithCost(row)
    /\ UNCHANGED <<seen, told, warned>>

Next ==
    \/ ProxyArrives
    \/ TranscriptArrives
    \/ \E byModel \in BOOLEAN : Reprice(byModel)

Spec == Init /\ [][Next]_vars

-----------------------------------------------------------------------------
(* Properties. *)

TypeOK ==
    /\ row \in Row \cup {NoRow}
    /\ seen \in Row \cup {NoRow}
    /\ told \subseteq Usages \ {0}
    /\ warned \in BOOLEAN

Stored == row # NoRow

CostFits(e) ==
    /\ e.usd # "" => ~Hypothetical(e.mode) /\ e.usd = RatesOf(e.mode)
    /\ e.equiv # "" => Hypothetical(e.mode) /\ e.equiv = RatesOf(e.mode)

\* A row's cost is in the column of its billing mode and was computed with the
\* rates of that mode, whatever merges, flips of the mode and reprices it has
\* been through (invariant 5 of the code).
CostFitsMode == Stored => CostFits(row)

HonestFlag(e) == e.complete => "cut" \notin {e.req, e.resp}

\* A row that says its capture is complete holds no truncated body, whichever
\* source brought the bodies and in whichever order.
CompleteMeansWhole == Stored => HonestFlag(row)

LocalTogether(e) == e.mode = "local" <=> e.account = "local"

\* The row is billed as local exactly when it is under the local account:
\* quota is burned by account name alone.
LocalAccountIsLocal == Stored => LocalTogether(row)

\* Once the proxy has captured the call and classified its credential, the row
\* is local exactly when the proxy says so, however often the transcript, which
\* only guesses from the model's name, reports the call before and after.
ProxyDecidesLocal ==
    seen # NoRow /\ seen.mode # "" => (row.mode = "local" <=> seen.mode = "local")

\* The figures that complete records have brought.
Measured ==
    told \cup (IF seen # NoRow /\ seen.complete THEN {seen.usage} \ {0} ELSE {})

\* Once any complete record has measured the call's usage, the row shows a
\* figure of a complete record, never one of a truncated capture.
CompleteUsageWins == Measured # {} => row.usage \in Measured

Disagree(S) == \E a, b \in S : a # b

\* When the proxy's capture was complete, or absent, two records that measured
\* different usage always leave a source_mismatch warning.
DisagreementIsReported ==
    (seen # NoRow => seen.complete) /\ Disagree(Measured) => warned

\* A source_mismatch warning is raised only when two complete records have
\* measured different usage; a capture that saw none disagrees with nobody.
MismatchIsReal == warned => Disagree(Measured)

\* Of the proxy's record and one transcript line it does not matter which was
\* written first: the row shows the same usage, unless the merge reports the
\* two as a mismatch, and the same side of local.
ArrivalOrderIsMoot ==
    seen # NoRow => \A e \in TranscriptRows :
        /\ \/ mergeEvents(seen, e).usage = mergeEvents(e, seen).usage
           \/ Mismatch(seen, e) /\ Mismatch(e, seen)
        /\ seen.mode # "" =>
              (mergeEvents(seen, e).mode = "local" <=> mergeEvents(e, seen).mode = "local")

\* Usage once measured is never replaced by the zero of a record that did not
\* look.
UsageNeverLost == [][Stored /\ row.usage # 0 => row'.usage # 0]_vars
=============================================================================
