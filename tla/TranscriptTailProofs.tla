------------------------ MODULE TranscriptTailProofs ------------------------
(***************************************************************************)
(* What holds of the transcript tail for every set of files, requests and  *)
(* serving polls, every text and every bound: nothing behind a cursor is   *)
(* skipped, the last line of a request wins, and a rebuild or a rekey      *)
(* gives back what it deleted.                                             *)
(*                                                                         *)
(* The three theorems share TailInv: a poll is of the incarnation it has   *)
(* read, and whatever lies behind the offset it will save is either        *)
(* counted (stored, failed or deleted) or has a representative in its      *)
(* hand.  LastInv adds that the row of a request says what its last line   *)
(* said, or that its last line is still in a hand; AgainInv adds which     *)
(* files a command has yet to read, is reading, and has read again.        *)
(***************************************************************************)
EXTENDS TranscriptTail, SequenceTheorems, WellFoundedInduction, TLAPS

Phases == {"idle", "walk", "read", "insert", "save"}
PollRecord == [pc : Phases, walk : SUBSET Files, file : Files \cup {AnyFile},
               of : Nat, at : Nat, off : Nat, upto : Nat, todo : SUBSET Nat]

Typed == /\ gen \in [Files -> 0..Generations] /\ size \in [Files -> Nat]
         /\ partial \in [Files -> BOOLEAN]
         /\ cursor \in [Files -> Nat \cup {-1}] /\ reads \in [Files -> Nat]
         /\ rows \in [Keys -> Nat] /\ minted \subseteq Keys
         /\ poll \in [Pollers -> PollRecord]

\* A file has no more complete lines than Claude Code writes to it, and an offset
\* is never of an incarnation to come.
WorldOK == \A f \in Files :
    /\ size[f] <= Len(Text(f))
    /\ partial[f] => size[f] < Len(Text(f))
    /\ reads[f] <= gen[f] /\ (reads[f] = gen[f] => cursor[f] <= size[f])

\* A request is in the store, or counted as failed or deleted.
Counted(k) == k \in Keys => Recorded(k) \/ k \in unwritten \cup wiped

\* What the poll q has in hand are lines of the incarnation it has read.
PollOK(q) ==
    /\ q.pc \in {"read", "insert", "save"} => q.file \in Files /\ q.of <= gen[q.file]
    /\ q.pc \in {"insert", "save"} =>
          /\ q.of <= q.at /\ q.at <= gen[q.file]
          /\ q.off <= q.upto /\ q.upto <= Len(TextOf(q.file, q.at))
          /\ q.at = gen[q.file] => q.upto <= size[q.file]
          /\ \A i \in q.todo : i \in (q.off + 1)..q.upto /\ TextOf(q.file, q.at)[i].key # Noise
    /\ q.pc = "save" => q.todo = {}

\* Whatever is behind the offset it will save is counted, or it has yet to
\* insert it.
PollCounts(q) ==
    /\ q.pc = "read" /\ q.of = gen[q.file] =>
          \A k \in Named(q.file, q.of, 0, q.off) : Counted(k)
    /\ q.pc \in {"insert", "save"} /\ q.of = gen[q.file] =>
          \A k \in Named(q.file, q.of, 0, q.upto) :
              Counted(k) \/ \E i \in q.todo : TextOf(q.file, q.of)[i].key = k

CursorCounts(f) ==
    reads[f] = gen[f] => \A k \in Named(f, gen[f], 0, cursor[f]) : Counted(k)

TailInv == /\ Typed /\ WorldOK
           /\ \A p \in Pollers : PollOK(poll[p]) /\ PollCounts(poll[p])
           /\ \A f \in Files : CursorCounts(f)

-----------------------------------------------------------------------------
\* A file's text is a sequence of lines, each of a key and a usage.
LEMMA TextIs ==
    ASSUME NEW f \in Files, NEW g \in 0..Generations
    PROVE  /\ TextOf(f, g) \in Seq(Line) /\ Len(TextOf(f, g)) \in Nat
           /\ \A i \in 1..Len(TextOf(f, g)) :
                 TextOf(f, g)[i].key \in Keys \cup {Noise} /\ TextOf(f, g)[i].usage \in Nat \ {0}
<1>1. TextOf(f, g) \in Seq(Line)
  BY TailAssumption DEF TailAssumption, TextOf
<1>2. \A t \in Seq(Line) : \A i \in 1..Len(t) : t[i] \in Line
  BY ElementOfSeq
<1>3. \A i \in 1..Len(TextOf(f, g)) : TextOf(f, g)[i] \in Line
  BY <1>1, <1>2
<1> QED BY <1>1, <1>3 DEF Line, Usages

\* A set of numbers with a bound has a greatest one.
LEMMA Greatest ==
    ASSUME NEW B \in Nat, NEW R \in SUBSET (0..B), R # {}
    PROVE  \E i \in R : \A j \in R : j <= i
<1> DEFINE T == {B - i : i \in R}
<1>0. \A i \in R : i \in 0..B
  OBVIOUS
<1>1. T \subseteq Nat /\ T # {}
  <2>1. PICK i \in R : TRUE
    OBVIOUS
  <2>2. B - i \in T
    BY <2>1
  <2>3. ASSUME NEW x \in T PROVE x \in Nat
    <3>1. PICK j \in R : x = B - j
      OBVIOUS
    <3> QED BY <1>0, <3>1
  <2> QED BY <2>2, <2>3
<1>2. PICK x \in T : \A y \in T : ~ (<<y, x>> \in OpToRel(<, Nat))
  BY <1>1, NatLessThanWellFounded, WFMin
<1>3. PICK i \in R : x = B - i
  BY <1>2
<1>4. ASSUME NEW j \in R PROVE j <= i
  <2>1. B - j \in T
    OBVIOUS
  <2>2. ~ (<<B - j, x>> \in OpToRel(<, Nat))
    BY <2>1, <1>2
  <2>3. ~ (B - j < x)
    BY <2>1, <2>2, <1>1 DEF OpToRel
  <2> QED BY <2>3, <1>3, <1>0
<1> QED BY <1>4

\* Every request that some lines name has one of them for a representative.
LEMMA Represented ==
    ASSUME NEW f \in Files, Typed, NEW lo \in Nat, NEW hi \in Nat,
           NEW k \in Named(f, gen[f], lo, hi)
    PROVE  \E i \in LastOfEach(f, lo, hi) :
              /\ TextOf(f, gen[f])[i].key = k
              /\ \A j \in (i + 1)..hi : TextOf(f, gen[f])[j].key # k
<1> DEFINE R == {i \in (lo + 1)..hi : TextOf(f, gen[f])[i].key = k}
<1>1. R # {} /\ R \in SUBSET (0..hi) /\ k # Noise
  BY DEF Named
<1>2. PICK i \in R : \A j \in R : j <= i
  BY <1>1, Greatest
<1>3. \A j \in (i + 1)..hi : TextOf(f, gen[f])[j].key # k
  BY <1>2
<1>4. i \in LastOfEach(f, lo, hi)
  BY <1>1, <1>2, <1>3 DEF LastOfEach, Text
<1> QED BY <1>2, <1>3, <1>4

\* The requests of some lines, up to a later one.
LEMMA NamedSplit ==
    ASSUME NEW f, NEW g, NEW mid \in Nat, NEW hi \in Nat, NEW k \in Named(f, g, 0, hi)
    PROVE  k \in Named(f, g, 0, mid) \/ k \in Named(f, g, mid, hi)
<1>1. PICK i \in 1..hi : TextOf(f, g)[i].key = k /\ k # Noise
  BY DEF Named
<1>2. i \in 1..mid \/ i \in (mid + 1)..hi
  BY <1>1
<1> QED BY <1>1, <1>2 DEF Named

\* Before the first line nothing is named.
LEMMA NamedNone == ASSUME NEW f, NEW g, NEW hi \in Int, hi <= 0 PROVE Named(f, g, 0, hi) = {}
  BY DEF Named

\* What a cursor has passed are requests, not noise.
LEMMA PassedIsKeys ==
    ASSUME Typed, WorldOK, NEW f \in Files, reads[f] = gen[f],
           NEW k \in Named(f, gen[f], 0, cursor[f])
    PROVE  k \in Keys
<1>1. PICK i \in 1..cursor[f] : TextOf(f, gen[f])[i].key = k /\ k # Noise
  BY DEF Named
<1>2. gen[f] \in 0..Generations /\ cursor[f] \in Int /\ cursor[f] <= Len(TextOf(f, gen[f]))
      /\ Len(TextOf(f, gen[f])) \in Nat
  BY TextIs DEF Typed, WorldOK, Text
<1> QED BY <1>1, <1>2, TextIs

-----------------------------------------------------------------------------
(* Files grow and start over; what is counted stays so.                    *)

Advances == \A f \in Files : /\ gen'[f] >= gen[f]
                             /\ gen'[f] = gen[f] => size'[f] >= size[f]
Counts == \A k : Counted(k) => Counted(k)'

\* A poll that did not move still has what it relies on.
LEMMA PollStays ==
    ASSUME Typed, Typed', Advances, Counts, NEW q \in PollRecord, PollOK(q), PollCounts(q)
    PROVE  PollOK(q)' /\ PollCounts(q)'
<1>1. CASE q.pc \in {"idle", "walk"}
  BY <1>1 DEF PollOK, PollCounts
<1>2. CASE q.pc \in {"read", "insert", "save"}
  <2>1. PICK f \in Files, g \in 0..Generations, h \in 0..Generations :
           /\ f = q.file /\ g = gen[f] /\ h = gen'[f] /\ g <= h /\ q.of <= g
           /\ g = h => size'[f] >= size[f]
    BY <1>2 DEF PollOK, Typed, Advances
  <2>2. PICK z \in Nat, y \in Nat : z = size[f] /\ y = size'[f]
    BY <2>1 DEF Typed
  <2>3. PollOK(q)'
    BY <1>2, <2>1, <2>2 DEF PollOK, PollRecord
  <2>4. q.of = h => q.of = g
    BY <2>1 DEF PollRecord
  <2>5. PollCounts(q)'
    BY <1>2, <2>1, <2>4 DEF PollCounts, Counts
  <2> QED BY <2>3, <2>5
<1> QED BY <1>1, <1>2 DEF PollRecord, Phases

\* A cursor that did not move still counts what it has passed.
LEMMA CursorStays ==
    ASSUME Typed, Typed', WorldOK, Advances, Counts, NEW f \in Files, CursorCounts(f),
           cursor'[f] = cursor[f], reads'[f] = reads[f]
    PROVE  CursorCounts(f)'
<1>1. gen[f] \in Nat /\ gen'[f] \in Nat /\ reads[f] \in Nat /\ reads[f] <= gen[f] /\ gen[f] <= gen'[f]
  BY DEF Typed, WorldOK, Advances
<1>2. reads[f] = gen'[f] => reads[f] = gen[f]
  BY <1>1
<1> QED BY <1>2 DEF CursorCounts, Counts

\* The invariant, from the polls and cursors that moved.
LEMMA TailKept ==
    ASSUME TailInv, Typed', WorldOK', Advances, Counts,
           \A p \in Pollers : poll'[p] = poll[p] \/ (PollOK(poll[p])' /\ PollCounts(poll[p])'),
           \A f \in Files : (cursor'[f] = cursor[f] /\ reads'[f] = reads[f]) \/ CursorCounts(f)'
    PROVE  TailInv'
<1>1. Typed /\ WorldOK /\ \A q \in Pollers : poll[q] \in PollRecord
  BY DEF TailInv, Typed
<1>2. \A p \in Pollers : PollOK(poll[p])' /\ PollCounts(poll[p])'
  <2> TAKE p \in Pollers
  <2>1. CASE poll'[p] = poll[p]
    <3>1. PICK s \in PollRecord : s = poll[p] /\ s = poll'[p]
      BY <1>1, <2>1
    <3>2. PollOK(s) /\ PollCounts(s)
      BY <3>1 DEF TailInv
    <3>3. PollOK(s)' /\ PollCounts(s)'
      BY <1>1, <3>2, PollStays
    <3> QED BY <3>1, <3>3 DEF PollOK, PollCounts
  <2> QED BY <2>1
<1>3. \A f \in Files : CursorCounts(f)'
  <2> TAKE f \in Files
  <2>1. CursorCounts(f)
    BY DEF TailInv
  <2>2. CASE cursor'[f] = cursor[f] /\ reads'[f] = reads[f]
    BY <1>1, <2>1, <2>2, CursorStays
  <2> QED BY <2>2
<1> QED BY <1>2, <1>3 DEF TailInv

\* A step of one poll.
LEMMA PollMoves ==
    ASSUME TailInv, NEW p \in Pollers, NEW r \in PollRecord, poll' = [poll EXCEPT ![p] = r],
           UNCHANGED <<gen, size, partial>>, Counts,
           rows' \in [Keys -> Nat], minted' \subseteq Keys,
           PollOK(r)', PollCounts(r)',
           UNCHANGED <<cursor, reads>>
    PROVE  TailInv'
<1>1. Typed /\ WorldOK
  BY DEF TailInv
<1>2. /\ poll' \in [Pollers -> PollRecord] /\ poll'[p] = r
      /\ \A q \in Pollers \ {p} : poll'[q] = poll[q]
  BY <1>1 DEF Typed
<1>3. Typed' /\ Advances
  BY <1>1, <1>2 DEF Typed, Advances
<1>4. WorldOK'
  BY <1>1 DEF WorldOK, Text
<1>5. PollOK(poll[p])' /\ PollCounts(poll[p])'
  BY <1>2 DEF PollOK, PollCounts
<1> QED BY <1>2, <1>3, <1>4, <1>5, TailKept

-----------------------------------------------------------------------------
(* The steps of a poll.                                                    *)

\* What the invariant says of one poll.
LEMMA PollIs ==
    ASSUME TailInv, NEW p \in Pollers
    PROVE  poll[p] \in PollRecord /\ PollOK(poll[p]) /\ PollCounts(poll[p])
  BY DEF TailInv, Typed

\* A poll that walks and one at rest are poll records.
LEMMA WalkIs ==
    /\ Walk \in PollRecord /\ Walk.pc = "walk"
    /\ Resting \in PollRecord /\ Resting.pc = "idle"
  BY DEF Walk, Resting, PollRecord, Phases

\* A poll that has no file in hand.
LEMMA NothingInHand ==
    ASSUME NEW r \in PollRecord, r.pc \in {"idle", "walk"}
    PROVE  PollOK(r)' /\ PollCounts(r)'
  BY DEF PollOK, PollCounts

\* Nothing that counts has changed.
LEMMA SameCounts ==
    ASSUME UNCHANGED <<rows, minted, unwritten, wiped>>
    PROVE  Counts
  BY DEF Counts, Counted, Recorded

\* Loading a cursor keeps the invariant.
LEMMA LoadsCursor ==
    ASSUME TailInv, NEW p \in Pollers, NEW f \in Files, LoadCursor(p, f)
    PROVE  TailInv'
<1>1. PICK q \in PollRecord : q = poll[p]
  BY PollIs
<1>2. Typed /\ WorldOK /\ CursorCounts(f)
  BY DEF TailInv
<1>3. PICK off \in {0, Stored(f)}, of \in Nat : of = reads[f] /\
        Set(p, [q EXCEPT !.pc = "read", !.file = f, !.walk = @ \ {f}, !.off = off, !.of = of])
  BY <1>1, <1>2 DEF LoadCursor, Typed
<1>4. UNCHANGED <<gen, size, partial, cursor, rows, minted, unwritten, wiped, reads>>
  BY DEF LoadCursor, world, store
<1>5. off \in Nat /\ (off # 0 => off = cursor[f])
  <2>1. cursor[f] \in Nat \cup {-1}
    BY <1>2 DEF Typed
  <2> QED BY <2>1 DEF Stored, Unseen
<1> DEFINE r == [[[[[q EXCEPT !.pc = "read"] EXCEPT !.file = f] EXCEPT !.walk = q.walk \ {f}]
                    EXCEPT !.off = off] EXCEPT !.of = of]
<1>6. poll' = [poll EXCEPT ![p] = r]
  BY <1>3 DEF Set, PollRecord
<1>7. r \in PollRecord /\ r.pc = "read" /\ r.file = f /\ r.of = of /\ r.off = off
  BY <1>5 DEF PollRecord, Phases
<1> HIDE DEF r
<1>8. PollOK(r)'
  BY <1>2, <1>3, <1>4, <1>7 DEF PollOK, WorldOK
<1>9. PollCounts(r)'
  <2> SUFFICES ASSUME of = gen[f], NEW k \in Named(f, of, 0, off) PROVE Counted(k)
    BY <1>4, <1>7 DEF PollCounts, Counted, Recorded
  <2>1. CASE off = 0
    BY <2>1, NamedNone
  <2>2. CASE off # 0
    BY <1>2, <1>3, <1>5, <2>2 DEF CursorCounts
  <2> QED BY <2>1, <2>2
<1>10. rows' \in [Keys -> Nat] /\ minted' \subseteq Keys
  BY <1>2, <1>4 DEF Typed
<1> QED BY <1>4, <1>6, <1>7, <1>8, <1>9, <1>10, SameCounts, PollMoves

\* Finding a transcript gone keeps the invariant.
LEMMA FindsGone ==
    ASSUME TailInv, NEW p \in Pollers, Gone(p)
    PROVE  TailInv'
<1>1. PICK q \in PollRecord : q = poll[p]
  BY PollIs
<1>2. PICK r \in PollRecord : r = [q EXCEPT !.pc = "walk"] /\ r.pc = "walk"
  <2>1. [q EXCEPT !.pc = "walk"] \in PollRecord /\ [q EXCEPT !.pc = "walk"].pc = "walk"
    BY DEF PollRecord, Phases
  <2> QED BY <2>1
<1>3. poll' = [poll EXCEPT ![p] = r] /\ UNCHANGED <<world, store, ghost>>
  BY <1>1, <1>2 DEF Gone, Set
<1>4. UNCHANGED <<gen, size, partial, cursor, rows, minted, unwritten, wiped, reads>>
  BY <1>3 DEF world, store, ghost
<1>5. rows' \in [Keys -> Nat] /\ minted' \subseteq Keys
  BY <1>4 DEF TailInv, Typed
<1>6. PollOK(r)' /\ PollCounts(r)'
  BY <1>2, NothingInHand
<1> QED BY <1>3, <1>4, <1>5, <1>6, SameCounts, PollMoves

\* The end of a poll keeps the invariant.
LEMMA Finishes ==
    ASSUME TailInv, NEW p \in Pollers, Finish(p)
    PROVE  TailInv'
<1>1. poll' = [poll EXCEPT ![p] = Resting] /\ UNCHANGED <<world, store, ghost>>
  BY DEF Finish, Set
<1>2. UNCHANGED <<gen, size, partial, cursor, rows, minted, unwritten, wiped, reads>>
  BY <1>1 DEF world, store, ghost
<1>3. rows' \in [Keys -> Nat] /\ minted' \subseteq Keys
  BY <1>2 DEF TailInv, Typed
<1>4. PICK r \in PollRecord : r = Resting /\ r.pc = "idle"
  BY WalkIs
<1>5. PollOK(r)' /\ PollCounts(r)'
  BY <1>4, NothingInHand
<1> QED BY <1>1, <1>2, <1>3, <1>4, <1>5, SameCounts, PollMoves

\* Reading a file's new lines keeps the invariant.
LEMMA Reads ==
    ASSUME TailInv, NEW p \in Pollers, Read(p)
    PROVE  TailInv'
<1>1. PICK q \in PollRecord : q = poll[p]
  BY PollIs
<1>2. Typed /\ WorldOK /\ PollOK(q) /\ PollCounts(q) /\ q.pc = "read"
  BY <1>1, PollIs DEF TailInv, Read
<1>3. PICK f \in Files, g \in 0..Generations, n \in Nat :
         f = q.file /\ g = gen[f] /\ n = size[f]
  BY <1>2 DEF PollOK, Typed
<1>4. PICK from \in Nat : from = Offset(f, q.off) /\ from <= n /\ (from # 0 => from = q.off)
  BY <1>3 DEF Offset, PollRecord
<1>5. PICK of \in Nat : of = (IF from = 0 THEN g ELSE q.of) /\ of <= g
  BY <1>2, <1>3 DEF PollOK, PollRecord
<1>6. PICK todo \in SUBSET Nat : todo = LastOfEach(f, from, n)
  <2>1. LastOfEach(f, from, n) \subseteq (from + 1)..n
    BY DEF LastOfEach
  <2>2. LastOfEach(f, from, n) \subseteq Nat
    BY <2>1
  <2> QED BY <2>2
<1> DEFINE r == [[[[[[q EXCEPT !.pc = "insert"] EXCEPT !.off = from] EXCEPT !.upto = n]
                     EXCEPT !.at = g] EXCEPT !.of = of] EXCEPT !.todo = todo]
<1>7. poll' = [poll EXCEPT ![p] = r]
  <2>1. Set(p, [q EXCEPT !.pc = "insert", !.off = from, !.upto = n, !.at = g,
                         !.of = IF from = 0 THEN g ELSE @, !.todo = todo])
    BY <1>1, <1>3, <1>4, <1>6 DEF Read, Complete
  <2> QED BY <1>5, <2>1 DEF Set, PollRecord
<1>8. /\ r \in PollRecord /\ r.pc = "insert" /\ r.file = f /\ r.of = of /\ r.at = g
      /\ r.off = from /\ r.upto = n /\ r.todo = todo
  <2>1. g \in Nat /\ q.file = f
    BY <1>3, TailAssumption DEF TailAssumption
  <2>2. r \in PollRecord
    BY <2>1 DEF PollRecord, Phases
  <2>3. r.pc = "insert" /\ r.file = q.file /\ r.of = of /\ r.at = g /\ r.off = from
    BY DEF PollRecord
  <2>4. r.upto = n /\ r.todo = todo
    BY DEF PollRecord
  <2> QED BY <2>1, <2>2, <2>3, <2>4
<1> HIDE DEF r
<1>9. UNCHANGED <<gen, size, partial, cursor, rows, minted, unwritten, wiped, reads>>
  BY DEF Read, world, store, ghost
<1>10. PollOK(r)'
  <2>1. n <= Len(TextOf(f, g))
    BY <1>2, <1>3 DEF WorldOK, Text
  <2>2. \A i \in todo : i \in (from + 1)..n /\ TextOf(f, g)[i].key # Noise
    BY <1>3, <1>6 DEF LastOfEach, Text
  <2>3. gen'[f] = g /\ size'[f] = n
    BY <1>3, <1>9
  <2>4. g \in Nat
    BY TailAssumption DEF TailAssumption
  <2>5. /\ r.file \in Files /\ r.of <= gen'[r.file] /\ r.of <= r.at /\ r.at <= gen'[r.file]
        /\ r.off <= r.upto /\ r.upto <= size'[r.file]
    BY <1>4, <1>5, <1>8, <2>3, <2>4
  <2>6. r.upto <= Len(TextOf(r.file, r.at))
    BY <1>8, <2>1
  <2>7. \A i \in r.todo : i \in (r.off + 1)..r.upto /\ TextOf(r.file, r.at)[i].key # Noise
    BY <1>8, <2>2
  <2>8. r.pc # "save"
    BY <1>8
  <2> QED BY <2>5, <2>6, <2>7, <2>8 DEF PollOK
<1>11. PollCounts(r)'
  <2> SUFFICES ASSUME of = g, NEW k \in Named(f, g, 0, n)
               PROVE  Counted(k) \/ \E i \in todo : TextOf(f, g)[i].key = k
    BY <1>3, <1>8, <1>9 DEF PollCounts, Counted, Recorded
  <2>1. CASE k \in Named(f, g, 0, from)
    <3>1. from # 0
      BY <2>1, NamedNone
    <3> QED BY <1>2, <1>3, <1>4, <1>5, <2>1, <3>1 DEF PollCounts
  <2>2. CASE k \in Named(f, g, from, n)
    BY <1>2, <1>3, <1>6, <2>2, Represented, SMTT(30)
  <2> QED BY <2>1, <2>2, NamedSplit
<1>12. rows' \in [Keys -> Nat] /\ minted' \subseteq Keys
  BY <1>2, <1>9 DEF Typed
<1> QED BY <1>7, <1>8, <1>9, <1>10, <1>11, <1>12, SameCounts, PollMoves

\* One representative leaves the hand of a poll, and its request is counted.
LEMMA Handled ==
    ASSUME TailInv, NEW p \in Pollers, NEW i \in poll[p].todo, poll[p].pc = "insert",
           NEW key, key = TextOf(poll[p].file, poll[p].at)[i].key, Counted(key)', Counts,
           poll' = [poll EXCEPT ![p] = [poll[p] EXCEPT !.todo = @ \ {i}]],
           UNCHANGED <<gen, size, partial, cursor, minted, reads>>, rows' \in [Keys -> Nat]
    PROVE  TailInv'
<1>1. PICK q \in PollRecord : q = poll[p]
  BY PollIs
<1>2. Typed /\ PollOK(q) /\ PollCounts(q) /\ q.pc = "insert" /\ i \in q.todo
  BY <1>1, PollIs DEF TailInv
<1>3. PICK f \in Files, g \in 0..Generations : f = q.file /\ g = gen[f]
  BY <1>2 DEF PollOK, Typed
<1> DEFINE r == [q EXCEPT !.todo = q.todo \ {i}]
<1>4. poll' = [poll EXCEPT ![p] = r]
  BY <1>1
<1>5. /\ r \in PollRecord /\ r.pc = "insert" /\ r.file = f /\ r.of = q.of /\ r.at = q.at
      /\ r.off = q.off /\ r.upto = q.upto /\ r.todo = q.todo \ {i}
  BY <1>2, <1>3 DEF PollRecord, Phases
<1> HIDE DEF r
<1>6. gen' = gen /\ size' = size
  OBVIOUS
<1>7. PollOK(r)'
  BY <1>2, <1>3, <1>5, <1>6 DEF PollOK
<1>8. PollCounts(r)'
  <2> SUFFICES ASSUME q.of = g, NEW k \in Named(f, q.of, 0, q.upto)
               PROVE  Counted(k)' \/ \E j \in q.todo \ {i} : TextOf(f, q.of)[j].key = k
    BY <1>3, <1>5, <1>6 DEF PollCounts
  <2>1. q.at = q.of
    BY <1>2, <1>3 DEF PollOK, PollRecord
  <2>2. Counted(k) \/ \E j \in q.todo : TextOf(f, q.of)[j].key = k
    BY <1>2, <1>3 DEF PollCounts
  <2>3. TextOf(f, q.of)[i].key = k => Counted(k)'
    BY <1>1, <1>3, <2>1
  <2> QED BY <2>2, <2>3 DEF Counts
<1>9. minted' \subseteq Keys
  BY <1>2 DEF Typed
<1> QED BY <1>4, <1>5, <1>7, <1>8, <1>9, PollMoves

\* The line of a representative names a request.
LEMMA LineIs ==
    ASSUME TailInv, NEW p \in Pollers, poll[p].pc = "insert", NEW i \in poll[p].todo
    PROVE  /\ TextOf(poll[p].file, poll[p].at)[i].key \in Keys
           /\ TextOf(poll[p].file, poll[p].at)[i].usage \in Nat \ {0}
<1>1. PICK q \in PollRecord : q = poll[p]
  BY PollIs
<1>2. Typed /\ PollOK(q) /\ q.pc = "insert" /\ i \in q.todo
  BY <1>1, PollIs DEF TailInv
<1>3. PICK f \in Files, g \in 0..Generations : f = q.file /\ g = gen[f]
  BY <1>2 DEF PollOK, Typed
<1>4. PICK h \in 0..Generations : h = q.at
  BY <1>2, <1>3, TailAssumption DEF PollOK, PollRecord, TailAssumption
<1>5. i \in 1..Len(TextOf(f, h)) /\ TextOf(f, h)[i].key # Noise
  <2>1. /\ i \in (q.off + 1)..q.upto /\ TextOf(f, h)[i].key # Noise /\ q.upto <= Len(TextOf(f, h))
        /\ q.off \in Nat /\ q.upto \in Nat
    BY <1>2, <1>3, <1>4 DEF PollOK, PollRecord
  <2> QED BY <2>1, TextIs
<1> QED BY <1>1, <1>3, <1>4, <1>5, TextIs

\* Storing a line keeps the invariant.
LEMMA Inserts ==
    ASSUME TailInv, NEW p \in Pollers, NEW i \in MaxLines, Insert(p, i)
    PROVE  TailInv'
<1>1. i \in poll[p].todo /\ poll[p].pc = "insert"
  BY DEF Insert, IsNext
<1>2. PICK k \in Keys, u \in Nat \ {0} : /\ k = TextOf(poll[p].file, poll[p].at)[i].key
                                         /\ u = TextOf(poll[p].file, poll[p].at)[i].usage
  BY <1>1, LineIs
<1>3. /\ rows' = [rows EXCEPT ![k] = u] /\ unwritten' = unwritten \ {k} /\ wiped' = wiped \ {k}
      /\ poll' = [poll EXCEPT ![p] = [poll[p] EXCEPT !.todo = @ \ {i}]]
      /\ UNCHANGED <<gen, size, partial, cursor, minted, reads>>
  BY <1>2 DEF Insert, Set, world
<1>4. rows \in [Keys -> Nat]
  BY DEF TailInv, Typed
<1>5. rows' \in [Keys -> Nat] /\ rows'[k] = u /\ \A x \in Keys \ {k} : rows'[x] = rows[x]
  BY <1>3, <1>4
<1>6. Counted(k)'
  BY <1>5 DEF Counted, Recorded
<1>7. Counts
  <2> SUFFICES ASSUME NEW x, Counted(x), x # k PROVE Counted(x)'
    BY <1>6 DEF Counts
  <2>1. rows'[x] = rows[x]
    BY <1>3
  <2> QED BY <1>3, <2>1 DEF Counted, Recorded
<1> QED BY <1>1, <1>2, <1>3, <1>5, <1>6, <1>7, Handled

\* A line whose insert fails keeps the invariant.
LEMMA Skips ==
    ASSUME TailInv, NEW p \in Pollers, NEW i \in MaxLines, Skip(p, i)
    PROVE  TailInv'
<1>1. i \in poll[p].todo /\ poll[p].pc = "insert"
  BY DEF Skip, IsNext
<1>2. PICK k \in Keys : k = TextOf(poll[p].file, poll[p].at)[i].key
  BY <1>1, LineIs
<1>3. /\ unwritten' = unwritten \cup {k} /\ UNCHANGED <<rows, wiped>>
      /\ poll' = [poll EXCEPT ![p] = [poll[p] EXCEPT !.todo = @ \ {i}]]
      /\ UNCHANGED <<gen, size, partial, cursor, minted, reads>>
  BY <1>2 DEF Skip, Set, world, store
<1>4. rows' \in [Keys -> Nat]
  BY <1>3 DEF TailInv, Typed
<1>5. Counts /\ Counted(k)'
  BY <1>3 DEF Counts, Counted, Recorded
<1> QED BY <1>1, <1>2, <1>3, <1>4, <1>5, Handled

\* The end of a file's lines keeps the invariant.
LEMMA InsertsAll ==
    ASSUME TailInv, NEW p \in Pollers, Inserted(p)
    PROVE  TailInv'
<1>1. PICK q \in PollRecord : q = poll[p]
  BY PollIs
<1>2. PollOK(q) /\ PollCounts(q) /\ q.pc = "insert" /\ q.todo = {}
  BY <1>1, PollIs DEF Inserted
<1> DEFINE r == [q EXCEPT !.pc = "save"]
<1>3. poll' = [poll EXCEPT ![p] = r] /\ UNCHANGED <<world, store, ghost>>
  BY <1>1 DEF Inserted, Set
<1>4. /\ r \in PollRecord /\ r.pc = "save" /\ r.file = q.file /\ r.of = q.of /\ r.at = q.at
      /\ r.off = q.off /\ r.upto = q.upto /\ r.todo = q.todo
  BY DEF PollRecord, Phases
<1> HIDE DEF r
<1>5. UNCHANGED <<gen, size, partial, cursor, rows, minted, unwritten, wiped, reads>>
  BY <1>3 DEF world, store, ghost
<1>6. rows' \in [Keys -> Nat] /\ minted' \subseteq Keys
  BY <1>5 DEF TailInv, Typed
<1>7. PollOK(r)'
  BY <1>2, <1>4, <1>5 DEF PollOK
<1>8. PollCounts(r)'
  BY <1>2, <1>4, <1>5 DEF PollCounts, Counted, Recorded
<1> QED BY <1>3, <1>4, <1>5, <1>6, <1>7, <1>8, SameCounts, PollMoves

\* Saving a cursor keeps the invariant.
LEMMA Saves ==
    ASSUME TailInv, NEW p \in Pollers, Save(p)
    PROVE  TailInv'
<1>1. PICK q \in PollRecord : q = poll[p]
  BY PollIs
<1>2. Typed /\ WorldOK /\ PollOK(q) /\ PollCounts(q) /\ q.pc = "save" /\ q.todo = {}
  BY <1>1, PollIs DEF TailInv, Save, PollOK
<1>3. PICK f \in Files : f = q.file /\ q.of <= gen[f]
  BY <1>2 DEF PollOK
<1>4. PICK r \in PollRecord : r = [q EXCEPT !.pc = "walk"] /\ r.pc = "walk"
  <2>1. [q EXCEPT !.pc = "walk"] \in PollRecord /\ [q EXCEPT !.pc = "walk"].pc = "walk"
    BY DEF PollRecord, Phases
  <2> QED BY <2>1
<1>5. poll' = [poll EXCEPT ![p] = r] /\ UNCHANGED <<gen, size, partial, rows, minted, unwritten, wiped>>
  BY <1>1, <1>4 DEF Save, Set, world
<1>6. \/ cursor' = [cursor EXCEPT ![f] = q.upto] /\ reads' = [reads EXCEPT ![f] = q.of]
      \/ UNCHANGED <<cursor, reads>>
  BY <1>1, <1>3 DEF Save
<1>7. poll' \in [Pollers -> PollRecord] /\ poll'[p] = r /\ \A x \in Pollers \ {p} : poll'[x] = poll[x]
  BY <1>2, <1>5 DEF Typed
<1>8. q.upto \in Nat /\ q.of \in Nat
  BY DEF PollRecord
<1>9. /\ cursor' \in [Files -> Nat \cup {-1}] /\ reads' \in [Files -> Nat]
      /\ \A x \in Files : \/ cursor'[x] = cursor[x] /\ reads'[x] = reads[x]
                          \/ x = f /\ cursor'[x] = q.upto /\ reads'[x] = q.of
  BY <1>2, <1>6, <1>8 DEF Typed
<1>10. Typed' /\ Advances
  BY <1>2, <1>5, <1>7, <1>9 DEF Typed, Advances
<1>11. WorldOK'
  <2>1. q.of = gen[f] => q.upto <= size[f]
    <3>1. gen[f] \in Nat /\ q.at \in Nat
      BY <1>2, TailAssumption DEF Typed, PollRecord, TailAssumption
    <3> QED BY <1>2, <1>3, <1>8, <3>1 DEF PollOK
  <2> SUFFICES ASSUME NEW x \in Files
               PROVE reads'[x] <= gen[x] /\ (reads'[x] = gen[x] => cursor'[x] <= size[x])
    BY <1>2, <1>5 DEF WorldOK, Text
  <2>2. CASE cursor'[x] = cursor[x] /\ reads'[x] = reads[x]
    BY <1>2, <2>2 DEF WorldOK
  <2>3. CASE x = f /\ cursor'[x] = q.upto /\ reads'[x] = q.of
    BY <1>3, <2>1, <2>3
  <2> QED BY <1>9, <2>2, <2>3
<1>12. PollOK(poll[p])' /\ PollCounts(poll[p])'
  <2>1. PollOK(r)' /\ PollCounts(r)'
    BY <1>4, NothingInHand
  <2> QED BY <1>7, <2>1 DEF PollOK, PollCounts
<1>13. cursor'[f] = q.upto /\ reads'[f] = q.of => CursorCounts(f)'
  BY <1>2, <1>3, <1>5 DEF PollCounts, CursorCounts, Counted, Recorded
<1> QED BY <1>5, <1>7, <1>9, <1>10, <1>11, <1>12, <1>13, SameCounts, TailKept

-----------------------------------------------------------------------------
(* Claude Code, the command line, a crash.                                 *)

\* Lines and files that come and go keep the invariant.
LEMMA ClientSteps ==
    ASSUME TailInv, NEW f \in Files, BeginLine(f) \/ EndLine(f) \/ Replace(f) \/ Remove(f)
    PROVE  TailInv'
<1>1. Typed /\ WorldOK /\ \A g \in 0..Generations : Len(TextOf(f, g)) \in Nat
  BY TextIs DEF TailInv
<1>2. UNCHANGED <<cursor, rows, minted, poll, unwritten, wiped, reads>>
  BY DEF BeginLine, EndLine, Replace, Remove, store, ghost
<1>3. /\ gen[f] \in 0..Generations /\ size[f] \in Nat /\ reads[f] \in Nat /\ cursor[f] \in Int
      /\ \A x \in Files : gen[x] \in Nat /\ size[x] \in Nat
  BY <1>1, TailAssumption DEF Typed, TailAssumption
<1>4. CASE BeginLine(f) \/ Remove(f)
  <2>1. UNCHANGED <<gen, size>> /\ partial' \in [Files -> BOOLEAN]
        /\ \A x \in Files : partial'[x] => size[x] < Len(Text(x))
    BY <1>1, <1>4 DEF BeginLine, Remove, Typed, WorldOK
  <2>2. Typed' /\ Advances
    BY <1>1, <1>2, <1>3, <2>1 DEF Typed, Advances
  <2>3. WorldOK'
    BY <1>1, <1>2, <2>1 DEF WorldOK, Text
  <2> QED BY <1>2, <2>2, <2>3, SameCounts, TailKept
<1>5. CASE EndLine(f)
  <2>1. /\ gen' = gen /\ partial' = [partial EXCEPT ![f] = FALSE] /\ size' = [size EXCEPT ![f] = @ + 1]
        /\ size[f] < Len(Text(f))
    BY <1>1, <1>5 DEF EndLine, WorldOK
  <2>2. /\ partial' \in [Files -> BOOLEAN] /\ size' \in [Files -> Nat]
        /\ \A x \in Files : size'[x] >= size[x]
        /\ \A x \in Files \ {f} : size'[x] = size[x] /\ partial'[x] = partial[x]
        /\ size'[f] = size[f] + 1 /\ ~ partial'[f]
    BY <1>1, <1>3, <2>1 DEF Typed
  <2>3. Typed' /\ Advances
    BY <1>1, <1>2, <1>3, <2>1, <2>2 DEF Typed, Advances
  <2>4. WorldOK'
    <3> SUFFICES ASSUME NEW x \in Files
                 PROVE  /\ size'[x] <= Len(TextOf(x, gen[x]))
                        /\ partial'[x] => size'[x] < Len(TextOf(x, gen[x]))
                        /\ reads[x] <= gen[x] /\ (reads[x] = gen[x] => cursor[x] <= size'[x])
      BY <1>2, <2>1 DEF WorldOK, Text
    <3>1. CASE x = f
      BY <1>1, <1>3, <2>1, <2>2, <3>1 DEF WorldOK, Text
    <3>2. CASE x # f
      BY <1>1, <2>2, <3>2 DEF WorldOK, Text
    <3> QED BY <3>1, <3>2
  <2> QED BY <1>2, <2>3, <2>4, SameCounts, TailKept
<1>6. CASE Replace(f)
  <2>1. /\ gen' = [gen EXCEPT ![f] = @ + 1] /\ size' = [size EXCEPT ![f] = 0]
        /\ partial' = [partial EXCEPT ![f] = FALSE] /\ gen[f] < Generations
    BY <1>6 DEF Replace
  <2>2. /\ gen' \in [Files -> 0..Generations] /\ partial' \in [Files -> BOOLEAN]
        /\ size' \in [Files -> Nat]
        /\ \A x \in Files \ {f} : gen'[x] = gen[x] /\ size'[x] = size[x] /\ partial'[x] = partial[x]
        /\ gen'[f] = gen[f] + 1 /\ size'[f] = 0 /\ ~ partial'[f]
    <3>1. gen[f] + 1 \in 0..Generations
      BY <1>3, <2>1, TailAssumption DEF TailAssumption
    <3> QED BY <1>1, <2>1, <3>1 DEF Typed
  <2>3. Typed' /\ Advances
    <3>1. Typed'
      BY <1>1, <1>2, <2>2 DEF Typed
    <3>2. ASSUME NEW x \in Files
          PROVE  gen'[x] >= gen[x] /\ (gen'[x] = gen[x] => size'[x] >= size[x])
      <4>1. CASE x = f
        BY <1>3, <2>2, <4>1
      <4>2. CASE x # f
        BY <1>3, <2>2, <4>2
      <4> QED BY <4>1, <4>2
    <3> QED BY <3>1, <3>2 DEF Advances
  <2>4. WorldOK'
    <3> SUFFICES ASSUME NEW x \in Files
                 PROVE  /\ size'[x] <= Len(TextOf(x, gen'[x]))
                        /\ partial'[x] => size'[x] < Len(TextOf(x, gen'[x]))
                        /\ reads[x] <= gen'[x] /\ (reads[x] = gen'[x] => cursor[x] <= size'[x])
      BY <1>2 DEF WorldOK, Text
    <3>1. CASE x = f
      <4>1. gen'[f] \in 0..Generations
        BY <2>2
      <4>2. Len(TextOf(f, gen'[f])) \in Nat
        BY <1>1, <4>1
      <4> QED BY <1>1, <1>3, <2>2, <3>1, <4>2 DEF WorldOK
    <3>2. CASE x # f
      BY <1>1, <2>2, <3>2 DEF WorldOK, Text
    <3> QED BY <3>1, <3>2
  <2> QED BY <1>2, <2>3, <2>4, SameCounts, TailKept
<1> QED BY <1>4, <1>5, <1>6

\* Every poll goes on, or rests, or begins a walk.
LEMMA PollsRest ==
    ASSUME TailInv, UNCHANGED <<gen, size, partial>>, Counts,
           rows' \in [Keys -> Nat], minted' \subseteq Keys,
           poll' \in [Pollers -> PollRecord],
           \A p \in Pollers : poll'[p] = poll[p] \/ poll'[p].pc \in {"idle", "walk"},
           UNCHANGED <<cursor, reads>>
    PROVE  TailInv'
<1>1. Typed /\ WorldOK
  BY DEF TailInv
<1>2. Typed' /\ Advances
  BY <1>1 DEF Typed, Advances
<1>3. WorldOK'
  BY <1>1 DEF WorldOK, Text
<1>4. \A p \in Pollers : poll'[p] = poll[p] \/ (PollOK(poll[p])' /\ PollCounts(poll[p])')
  <2> TAKE p \in Pollers
  <2>1. CASE poll'[p].pc \in {"idle", "walk"}
    BY <2>1 DEF PollOK, PollCounts
  <2> QED BY <2>1
<1> QED BY <1>2, <1>3, <1>4, TailKept

\* A poll of serve that starts keeps the invariant.
LEMMA ServedStarts ==
    ASSUME TailInv, NEW p \in Pollers, StartServed(p)
    PROVE  TailInv'
<1>1. poll' = [poll EXCEPT ![p] = Walk] /\ UNCHANGED <<world, store, unwritten, wiped, reads>>
  BY DEF StartServed, Set
<1>2. UNCHANGED <<gen, size, partial, cursor, rows, minted, unwritten, wiped, reads>>
  BY <1>1 DEF world, store
<1>3. PICK r \in PollRecord : r = Walk /\ r.pc = "walk"
  BY WalkIs
<1>4. rows' \in [Keys -> Nat] /\ minted' \subseteq Keys /\ poll \in [Pollers -> PollRecord]
  BY <1>2 DEF TailInv, Typed
<1>5. /\ poll' \in [Pollers -> PollRecord]
      /\ \A x \in Pollers : poll'[x] = poll[x] \/ poll'[x].pc \in {"idle", "walk"}
  BY <1>1, <1>3, <1>4
<1> QED BY <1>2, <1>4, <1>5, SameCounts, PollsRest

\* The death of serve keeps the invariant.
LEMMA Crashes ==
    ASSUME TailInv, Crash
    PROVE  TailInv'
<1>1. /\ poll' = [p \in Pollers |-> IF p \in Served THEN Resting ELSE poll[p]]
      /\ UNCHANGED <<world, store, ghost>>
  BY DEF Crash
<1>2. UNCHANGED <<gen, size, partial, cursor, rows, minted, unwritten, wiped, reads>>
  BY <1>1 DEF world, store, ghost
<1>3. PICK r \in PollRecord : r = Resting /\ r.pc = "idle"
  BY WalkIs
<1>4. rows' \in [Keys -> Nat] /\ minted' \subseteq Keys /\ poll \in [Pollers -> PollRecord]
  BY <1>2 DEF TailInv, Typed
<1>5. /\ poll' \in [Pollers -> PollRecord]
      /\ \A x \in Pollers : poll'[x] = poll[x] \/ poll'[x].pc \in {"idle", "walk"}
  BY <1>1, <1>3, <1>4
<1> QED BY <1>2, <1>4, <1>5, SameCounts, PollsRest

\* Each step of rekey and rebuild keeps the invariant.
LEMMA CommandSteps ==
    ASSUME TailInv, (\E name \in Commands : Ask(name)) \/ Check \/ Reread \/ Abort
    PROVE  TailInv'
<1>1. PICK r \in PollRecord, w \in PollRecord : /\ r = Resting /\ r.pc = "idle"
                                                /\ w = Walk /\ w.pc = "walk"
  BY WalkIs
<1>2. UNCHANGED <<gen, size, partial, cursor, rows, minted, unwritten, wiped, reads>>
  BY DEF Ask, Check, Reread, Abort, world, store, ghost
<1>3. rows' \in [Keys -> Nat] /\ minted' \subseteq Keys /\ poll \in [Pollers -> PollRecord]
  BY <1>2 DEF TailInv, Typed
<1>4. \/ poll' = poll \/ poll' = [poll EXCEPT !["cli"] = w] \/ poll' = [poll EXCEPT !["cli"] = r]
  BY <1>1 DEF Ask, Check, Reread, Abort, Set
<1>5. /\ poll' \in [Pollers -> PollRecord]
      /\ \A x \in Pollers : poll'[x] = poll[x] \/ poll'[x].pc \in {"idle", "walk"}
  BY <1>1, <1>3, <1>4
<1> QED BY <1>2, <1>3, <1>5, SameCounts, PollsRest

\* A rekey counts what it deletes.
LEMMA Deletes ==
    ASSUME TailInv, Delete
    PROVE  TailInv'
<1>1. /\ minted' = {} /\ rows' = [k \in Keys |-> IF k \in Keyless THEN 0 ELSE rows[k]]
      /\ wiped' = wiped \cup {k \in minted \cup {k \in Keyless : rows[k] # 0} : rows'[k] = 0}
      /\ UNCHANGED <<gen, size, partial, cursor, poll, unwritten, reads>>
  BY DEF Delete, DeleteAndReset, world
<1>2. Typed /\ Keyless \subseteq Keys
  BY TailAssumption DEF TailInv, TailAssumption
<1>3. rows' \in [Keys -> Nat] /\ minted' \subseteq Keys /\ poll' \in [Pollers -> PollRecord]
  BY <1>1, <1>2 DEF Typed
<1>4. Counts
  <2> SUFFICES ASSUME NEW k, Counted(k), k \notin unwritten \cup wiped PROVE Counted(k)'
    BY <1>1 DEF Counts, Counted
  <2>1. CASE k \in minted
    BY <1>1, <1>2, <2>1 DEF Counted, Recorded, Typed
  <2>2. CASE rows[k] # 0 /\ k \in Keyless
    BY <1>1, <1>2, <2>2 DEF Counted, Recorded, Typed
  <2>3. CASE rows[k] # 0 /\ k \in Keys \ Keyless
    BY <1>1, <2>3 DEF Counted, Recorded
  <2> QED BY <2>1, <2>2, <2>3 DEF Counted, Recorded
<1> QED BY <1>1, <1>3, <1>4, PollsRest

\* A cursor at 0 has passed nothing.
LEMMA Resets ==
    ASSUME TailInv, NEW f \in Files, Reset(f)
    PROVE  TailInv'
<1>1. /\ cursor' = [cursor EXCEPT ![f] = 0] /\ reads' = [reads EXCEPT ![f] = gen[f]]
      /\ UNCHANGED <<gen, size, partial, rows, minted, poll, unwritten, wiped>>
  BY DEF Reset, world
<1>2. Typed /\ WorldOK /\ \A x \in Files : gen[x] \in Nat /\ size[x] \in Nat
  BY TailAssumption DEF TailInv, Typed, TailAssumption
<1>3. /\ cursor' \in [Files -> Nat \cup {-1}] /\ reads' \in [Files -> Nat]
      /\ \A x \in Files \ {f} : cursor'[x] = cursor[x] /\ reads'[x] = reads[x]
      /\ cursor'[f] = 0 /\ reads'[f] = gen[f]
  BY <1>1, <1>2 DEF Typed
<1>4. Typed' /\ Advances
  BY <1>1, <1>2, <1>3 DEF Typed, Advances
<1>5. WorldOK'
  BY <1>1, <1>2, <1>3 DEF WorldOK, Text
<1>6. CursorCounts(f)'
  BY <1>3, NamedNone DEF CursorCounts
<1> QED BY <1>1, <1>3, <1>4, <1>5, <1>6, SameCounts, TailKept

\* The first state satisfies the invariant.
LEMMA TailStarts == ASSUME Init PROVE TailInv
<1>1. Resting \in PollRecord /\ \A f \in Files : Len(TextOf(f, 0)) \in Nat
  BY WalkIs, TextIs, TailAssumption DEF TailAssumption
<1>2. /\ gen = [f \in Files |-> 0] /\ reads = gen /\ partial = [f \in Files |-> FALSE]
      /\ poll = [p \in Pollers |-> Resting] /\ rows = [k \in Keys |-> 0]
      /\ minted = UNION {Named(f, 0, 0, size[f]) : f \in Files}
      /\ \/ size = [f \in Files |-> 0] /\ cursor = [f \in Files |-> -1]
         \/ size = [f \in Files |-> Len(TextOf(f, 0))] /\ cursor = size
  BY DEF Init, Unseen
<1>3. /\ size \in [Files -> Nat] /\ cursor \in [Files -> Nat \cup {-1}]
      /\ \A f \in Files : size[f] <= Len(TextOf(f, 0)) /\ (cursor[f] = -1 \/ cursor[f] = size[f])
  BY <1>1, <1>2
<1>4. minted \subseteq Keys
  <2> SUFFICES ASSUME NEW f \in Files, NEW k \in Named(f, 0, 0, size[f]) PROVE k \in Keys
    BY <1>2
  <2>1. PICK i \in 1..size[f] : TextOf(f, 0)[i].key = k /\ k # Noise
    BY DEF Named
  <2>2. i \in 1..Len(TextOf(f, 0))
    BY <1>1, <1>3, <2>1
  <2> QED BY <2>1, <2>2, TextIs, TailAssumption DEF TailAssumption
<1>5. Typed
  BY <1>1, <1>2, <1>3, <1>4, TailAssumption DEF Typed, TailAssumption
<1>6. WorldOK
  BY <1>2, <1>3 DEF WorldOK, Text
<1>7. \A p \in Pollers : PollOK(poll[p]) /\ PollCounts(poll[p])
  BY <1>2, WalkIs DEF PollOK, PollCounts
<1>8. \A f \in Files : CursorCounts(f)
  <2> SUFFICES ASSUME NEW f \in Files, NEW k \in Named(f, 0, 0, cursor[f]) PROVE k \in minted
    BY <1>2 DEF CursorCounts, Counted, Recorded
  <2>1. cursor[f] # -1
    BY NamedNone
  <2> QED BY <1>2, <1>3, <2>1
<1> QED BY <1>5, <1>6, <1>7, <1>8 DEF TailInv

\* Every step keeps the invariant.
LEMMA TailSteps ==
    ASSUME TailInv, [Next]_vars
    PROVE  TailInv'
<1>1. CASE UNCHANGED vars
  <2>1. UNCHANGED <<gen, size, partial, cursor, rows, minted, poll, unwritten, wiped, reads>>
    BY <1>1 DEF vars, world, store, ghost
  <2>2. rows' \in [Keys -> Nat] /\ minted' \subseteq Keys /\ poll' \in [Pollers -> PollRecord]
    BY <2>1 DEF TailInv, Typed
  <2> QED BY <2>1, <2>2, SameCounts, PollsRest
<1>2. CASE Client
  BY <1>2, ClientSteps DEF Client
<1>3. ASSUME NEW p \in Pollers, StartServed(p) \/ Step(p) PROVE TailInv'
  BY <1>3, ServedStarts, LoadsCursor, FindsGone, Reads, Inserts, Skips, InsertsAll, Saves, Finishes
     DEF Step
<1>4. CASE CommandStep
  BY <1>4, CommandSteps, Deletes, Resets DEF CommandStep
<1>5. CASE Crash
  BY <1>5, Crashes
<1> QED BY <1>1, <1>2, <1>3, <1>4, <1>5 DEF Next

\* Behind the cursor of a transcript lies no request without a row, save those
\* whose insert failed and was counted, or whose row a rekey deleted and has
\* yet to read again: for any number of files, rotations, concurrent polls,
\* failed calls, crashes and commands (tailFile, jsonlogs.go:287-400).
THEOREM NothingIsSkipped == Spec => []NothingSkipped
<1>1. TailInv => NothingSkipped
  <2> SUFFICES ASSUME TailInv, NEW f \in Files, reads[f] = gen[f],
                      NEW k \in Named(f, gen[f], 0, cursor[f])
               PROVE  Recorded(k) \/ k \in unwritten \cup wiped
    BY DEF NothingSkipped, Passed
  <2>1. k \in Keys
    BY PassedIsKeys DEF TailInv
  <2> QED BY <2>1 DEF TailInv, CursorCounts, Counted
<1> QED BY <1>1, TailStarts, TailSteps, PTL DEF Spec

-----------------------------------------------------------------------------
(* The last line of a request.                                             *)

\* The lines of a request are in one transcript.
OneFile == \A f, h \in Files : f # h =>
    \A a, b \in 0..Generations : \A i \in 1..Len(TextOf(f, a)), j \in 1..Len(TextOf(h, b)) :
        TextOf(f, a)[i].key = TextOf(h, b)[j].key => TextOf(f, a)[i].key = Noise

\* The row of k says what no line up to hi says otherwise.
RowRight(f, g, k, hi) == k \in Keys =>
    \/ k \in unwritten \cup wiped
    \/ k \in minted /\ rows[k] = 0
    \/ \E i \in 1..Len(TextOf(f, g)) :
          /\ TextOf(f, g)[i].key = k /\ rows[k] = TextOf(f, g)[i].usage
          /\ \A j \in (i + 1)..hi : TextOf(f, g)[j].key # k

Held(q) == q.pc \in {"read", "insert", "save"}

PollRight(q) ==
    /\ q.pc = "read" /\ q.of = gen[q.file] =>
          /\ q.off <= size[q.file]
          /\ \A k \in Named(q.file, q.of, 0, q.off) : RowRight(q.file, q.of, k, q.off)
    /\ q.pc \in {"insert", "save"} => \A i \in q.todo : \A j \in (i + 1)..q.upto :
          TextOf(q.file, q.at)[j].key # TextOf(q.file, q.at)[i].key
    /\ q.pc \in {"insert", "save"} /\ q.of = gen[q.file] =>
          \A k \in Named(q.file, q.of, 0, q.upto) :
              \/ RowRight(q.file, q.of, k, q.upto)
              \/ \E i \in q.todo : TextOf(q.file, q.of)[i].key = k

\* The cursor that a poll will replace is not ahead of it.
NotAhead(q) ==
    Held(q) /\ reads[q.file] = gen[q.file] /\ cursor[q.file] > 0 =>
        /\ q.of = gen[q.file]
        /\ q.pc \in {"insert", "save"} => cursor[q.file] <= q.upto

CursorRight(f) ==
    reads[f] = gen[f] =>
        \A k \in Named(f, gen[f], 0, cursor[f]) : RowRight(f, gen[f], k, cursor[f])

OneHolds == \A p, q \in Pollers :
    Held(poll[p]) /\ Held(poll[q]) /\ poll[p].file = poll[q].file => p = q

LastOK == /\ OneHolds
          /\ \A p \in Pollers : PollRight(poll[p]) /\ NotAhead(poll[p])
          /\ \A f \in Files : CursorRight(f)

LastInv == TailInv /\ overlap \in BOOLEAN /\ (~ overlap => LastOK)

-----------------------------------------------------------------------------
\* The requests of K apart, a row that is right stays so.
RightBut(K) == \A f \in Files, g \in 0..Generations, k \in Keys \ K, hi \in Int :
    RowRight(f, g, k, hi) => RowRight(f, g, k, hi)'

\* None of K is named in f.
Absent(K, f) == \A i \in 1..Len(Text(f)) : Text(f)[i].key \notin K

\* A request absent from a file is not named by any of its lines.
LEMMA AbsentIs ==
    ASSUME NEW K, NEW f \in Files, Absent(K, f), NEW hi \in Int, hi <= Len(Text(f)),
           Len(Text(f)) \in Nat, NEW k \in Named(f, gen[f], 0, hi)
    PROVE  k \notin K
<1>1. PICK i \in 1..hi : TextOf(f, gen[f])[i].key = k
  BY DEF Named
<1>2. i \in 1..Len(Text(f)) /\ Text(f)[i].key = k
  BY <1>1 DEF Text
<1> QED BY <1>2 DEF Absent

\* A poll that did not move is as right as it was about other requests.
LEMMA RightStays ==
    ASSUME TailInv, TailInv', Advances, NEW K, RightBut(K),
           NEW q \in PollRecord, PollOK(q), PollRight(q), Held(q) => Absent(K, q.file)
    PROVE  PollRight(q)'
<1>1. CASE ~ Held(q)
  BY <1>1 DEF Held, PollRight
<1>2. CASE Held(q)
  <2>1. PICK f \in Files, g \in 0..Generations, h \in 0..Generations :
           f = q.file /\ g = gen[f] /\ h = gen'[f] /\ g <= h /\ q.of <= g
    BY <1>2 DEF Held, PollOK, TailInv, Typed, Advances
  <2>2. q.of \in Nat /\ g \in Nat /\ h \in Nat /\ q.off \in Nat /\ q.upto \in Nat
    BY TailAssumption DEF PollRecord, TailAssumption
  <2>3. q.of = h => q.of = g
    BY <2>1, <2>2
  <2>4. ASSUME NEW hi \in Nat, hi <= Len(TextOf(f, g)), NEW k \in Named(f, g, 0, hi),
               RowRight(f, g, k, hi)
        PROVE  RowRight(f, g, k, hi)'
    <3>1. k \notin K
      BY <1>2, <2>1, <2>4, TextIs, AbsentIs DEF Text
    <3>2. CASE k \in Keys
      BY <2>4, <3>1, <3>2 DEF RightBut
    <3>3. CASE k \notin Keys
      BY <3>3 DEF RowRight
    <3> QED BY <3>2, <3>3
  <2>5. CASE q.pc = "read"
    <3>1. ASSUME q.of = h, NEW k \in Named(f, q.of, 0, q.off) PROVE RowRight(f, q.of, k, q.off)'
      <4>1. RowRight(f, g, k, q.off) /\ k \in Named(f, g, 0, q.off)
        BY <2>1, <2>3, <2>5, <3>1 DEF PollRight
      <4>2. q.off <= size[f] /\ size[f] <= Len(TextOf(f, g)) /\ size[f] \in Nat
            /\ Len(TextOf(f, g)) \in Nat
        BY <2>1, <2>3, <2>5, <3>1, TextIs DEF PollRight, TailInv, Typed, WorldOK, Text
      <4>3. RowRight(f, g, k, q.off)'
        BY <2>2, <2>4, <4>1, <4>2
      <4> QED BY <2>3, <3>1, <4>3
    <3>2. q.of = h => q.off <= size'[f]
      <4>1. size[f] \in Nat /\ size'[f] \in Nat
        BY DEF TailInv, Typed
      <4>2. q.of = h => q.off <= size[f] /\ size'[f] >= size[f]
        BY <2>1, <2>3, <2>5 DEF PollRight, Advances
      <4> QED BY <2>2, <4>1, <4>2
    <3> QED BY <2>1, <2>5, <3>1, <3>2 DEF PollRight
  <2>6. CASE q.pc \in {"insert", "save"}
    <3>1. ASSUME q.of = h, NEW k \in Named(f, q.of, 0, q.upto)
          PROVE RowRight(f, q.of, k, q.upto)' \/ \E i \in q.todo : TextOf(f, q.of)[i].key = k
      <4>1. /\ RowRight(f, g, k, q.upto) \/ \E i \in q.todo : TextOf(f, q.of)[i].key = k
            /\ k \in Named(f, g, 0, q.upto)
        BY <2>1, <2>3, <2>6, <3>1 DEF PollRight
      <4>3. q.upto <= Len(TextOf(f, g))
        <5>1. q.at \in Nat /\ q.at = g
          BY <2>1, <2>2, <2>3, <2>6, <3>1 DEF PollOK, PollRecord
        <5> QED BY <2>1, <2>6, <5>1 DEF PollOK
      <4>2. RowRight(f, g, k, q.upto) => RowRight(f, g, k, q.upto)'
        BY <2>2, <2>4, <4>1, <4>3
      <4> QED BY <2>3, <3>1, <4>1, <4>2
    <3> QED BY <2>1, <2>6, <3>1 DEF PollRight
  <2> QED BY <1>2, <2>5, <2>6 DEF Held
<1> QED BY <1>1, <1>2

\* A cursor that did not move ahead is as right as it was.
LEMMA CursorRightStays ==
    ASSUME TailInv, TailInv', Advances, NEW K, RightBut(K), NEW f \in Files, CursorRight(f),
           cursor[f] > 0 => reads[f] # gen[f] \/ Absent(K, f),
           \/ cursor'[f] = cursor[f] /\ reads'[f] = reads[f]
           \/ cursor'[f] = 0
    PROVE  CursorRight(f)'
<1>1. PICK g \in Nat, h \in Nat, n \in Nat \cup {-1} :
         g = gen[f] /\ h = gen'[f] /\ g <= h /\ reads[f] <= g /\ n = cursor[f] /\ reads[f] \in Nat
  <2>1. /\ gen[f] \in Nat /\ gen'[f] \in Nat /\ cursor[f] \in Nat \cup {-1} /\ reads[f] \in Nat
    BY TailAssumption DEF TailInv, Typed, TailAssumption
  <2>2. gen[f] <= gen'[f] /\ reads[f] <= gen[f]
    BY <2>1 DEF TailInv, WorldOK, Advances
  <2> QED BY <2>1, <2>2
<1>2. CASE cursor'[f] <= 0 /\ cursor'[f] \in Int
  BY <1>2, NamedNone DEF CursorRight
<1>3. CASE cursor'[f] = n /\ reads'[f] = reads[f] /\ n > 0
  <2> SUFFICES ASSUME reads[f] = h, NEW k \in Named(f, h, 0, n) PROVE RowRight(f, h, k, n)'
    BY <1>1, <1>3 DEF CursorRight
  <2>1. h = g /\ reads[f] = g
    BY <1>1
  <2>2. RowRight(f, g, k, n)
    BY <1>1, <2>1 DEF CursorRight
  <2>3. k \notin K
    <3>1. n <= Len(Text(f)) /\ Len(Text(f)) \in Nat
      <4>1. gen[f] \in 0..Generations /\ size[f] \in Nat /\ n <= size[f] /\ size[f] <= Len(Text(f))
        BY <1>1, <2>1 DEF TailInv, Typed, WorldOK
      <4> QED BY <4>1, TextIs DEF Text
    <3>2. k \in Named(f, gen[f], 0, n) /\ Absent(K, f)
      BY <1>1, <1>3, <2>1
    <3> QED BY <3>1, <3>2, AbsentIs
  <2>4. g \in 0..Generations
    BY <1>1 DEF TailInv, Typed
  <2>5. CASE k \in Keys
    BY <2>1, <2>2, <2>3, <2>4, <2>5 DEF RightBut
  <2>6. CASE k \notin Keys
    BY <2>6 DEF RowRight
  <2> QED BY <2>5, <2>6
<1>4. cursor'[f] \in Int
  BY DEF TailInv, Typed
<1> QED BY <1>1, <1>2, <1>3, <1>4

\* A poll that is not ahead of its cursor stays so.
LEMMA NotAheadStays ==
    ASSUME TailInv, TailInv', Advances, NEW q \in PollRecord, PollOK(q), NotAhead(q),
           Held(q) => \/ cursor'[q.file] = cursor[q.file] /\ reads'[q.file] = reads[q.file]
                      \/ cursor'[q.file] = 0
    PROVE  NotAhead(q)'
<1>1. CASE ~ Held(q)
  BY <1>1 DEF Held, NotAhead
<1>2. CASE Held(q)
  <2>1. PICK f \in Files : f = q.file
    BY <1>2 DEF Held, PollOK
  <2>2. PICK g \in Nat, h \in Nat : g = gen[f] /\ h = gen'[f] /\ g <= h /\ reads[f] <= g
                                    /\ reads[f] \in Nat /\ q.of <= g /\ q.of \in Nat
    BY <1>2, <2>1, TailAssumption DEF TailInv, Typed, WorldOK, Advances, TailAssumption, PollOK, Held,
       PollRecord
  <2>3. CASE cursor'[f] = 0
    BY <2>1, <2>3 DEF NotAhead
  <2>4. CASE cursor'[f] = cursor[f] /\ reads'[f] = reads[f]
    BY <1>2, <2>1, <2>2, <2>4 DEF NotAhead, Held
  <2> QED BY <1>2, <2>1, <2>3, <2>4
<1> QED BY <1>1, <1>2

\* The last lines, from the polls and cursors that moved.
LEMMA LastKept ==
    ASSUME TailInv, TailInv', Advances, LastOK, NEW K, RightBut(K), OneHolds',
           \A p \in Pollers :
              \/ /\ poll'[p] = poll[p]
                 /\ Held(poll[p]) => /\ Absent(K, poll[p].file)
                                     /\ \/ /\ cursor'[poll[p].file] = cursor[poll[p].file]
                                           /\ reads'[poll[p].file] = reads[poll[p].file]
                                        \/ cursor'[poll[p].file] = 0
              \/ PollRight(poll[p])' /\ NotAhead(poll[p])',
           \A f \in Files :
              \/ CursorRight(f)'
              \/ /\ cursor[f] > 0 => reads[f] # gen[f] \/ Absent(K, f)
                 /\ \/ cursor'[f] = cursor[f] /\ reads'[f] = reads[f]
                    \/ cursor'[f] = 0
    PROVE  LastOK'
<1>1. TailInv
  OBVIOUS
<1>2. \A p \in Pollers : PollRight(poll[p])' /\ NotAhead(poll[p])'
  <2> TAKE p \in Pollers
  <2>1. CASE PollRight(poll[p])' /\ NotAhead(poll[p])'
    BY <2>1
  <2>2. CASE ~ (PollRight(poll[p])' /\ NotAhead(poll[p])')
    <3>1. PICK q \in PollRecord : q = poll[p] /\ q = poll'[p]
      BY <1>1, <2>2, PollIs
    <3>2. PollOK(q) /\ PollRight(q) /\ NotAhead(q)
      BY <1>1, <3>1, PollIs DEF LastOK
    <3>3. Held(q) => /\ Absent(K, q.file)
                     /\ \/ cursor'[q.file] = cursor[q.file] /\ reads'[q.file] = reads[q.file]
                        \/ cursor'[q.file] = 0
      BY <2>2, <3>1
    <3>4. PollRight(q)' /\ NotAhead(q)'
      BY <1>1, <3>2, <3>3, RightStays, NotAheadStays
    <3> QED BY <3>1, <3>4 DEF PollRight, NotAhead, Held
  <2> QED BY <2>1, <2>2
<1>3. \A f \in Files : CursorRight(f)'
  BY <1>1, CursorRightStays DEF LastOK
<1> QED BY <1>2, <1>3 DEF LastOK

\* No poll takes a file into its hands.
LEMMA NoneTakes ==
    ASSUME OneHolds, \A p \in Pollers :
              Held(poll[p])' => Held(poll[p]) /\ poll'[p].file = poll[p].file
    PROVE  OneHolds'
  BY DEF OneHolds

\* A step that writes no row leaves every row right.
LEMMA SameRight ==
    ASSUME UNCHANGED <<rows, minted, wiped>>, unwritten \subseteq unwritten'
    PROVE  RightBut({})
  BY DEF RightBut, RowRight

\* No request is absent trivially.
LEMMA AbsentNone == ASSUME NEW f PROVE Absent({}, f)
  BY DEF Absent

-----------------------------------------------------------------------------
(* The steps of a poll.                                                    *)

\* No poll takes a file, and no cursor moves but to the start.
LEMMA LastRests ==
    ASSUME TailInv, TailInv', Advances, LastOK, RightBut({}),
           \A p \in Pollers : poll'[p] = poll[p] \/ poll'[p].pc \in {"idle", "walk"},
           \A f \in Files : \/ cursor'[f] = cursor[f] /\ reads'[f] = reads[f]
                            \/ cursor'[f] = 0
    PROVE  LastOK'
<1>1. OneHolds'
  BY NoneTakes DEF LastOK, Held
<1>2. ASSUME NEW p \in Pollers, poll'[p].pc \in {"idle", "walk"}
      PROVE  PollRight(poll[p])' /\ NotAhead(poll[p])'
  BY <1>2 DEF PollRight, NotAhead, Held
<1>3. ASSUME NEW p \in Pollers, Held(poll[p]) PROVE poll[p].file \in Files
  <2>1. PollOK(poll[p])
    BY PollIs
  <2> QED BY <1>3, <2>1 DEF Held, PollOK
<1>4. \A f : Absent({}, f)
  BY AbsentNone
<1> QED BY <1>1, <1>2, <1>3, <1>4, LastKept

\* What is said of a record is said of the poll that has it.
LEMMA Carries ==
    ASSUME NEW p, NEW r, poll'[p] = r, PollRight(r)', NotAhead(r)'
    PROVE  PollRight(poll[p])' /\ NotAhead(poll[p])'
  BY DEF PollRight, NotAhead, Held

\* One poll moves to r, and the cursors stay.
LEMMA LastMoves ==
    ASSUME TailInv, TailInv', Advances, LastOK, OneHolds', NEW p \in Pollers, NEW r \in PollRecord,
           poll' = [poll EXCEPT ![p] = r], PollRight(r)', NotAhead(r)',
           RightBut({}), UNCHANGED <<cursor, reads>>
    PROVE  LastOK'
<1>1. poll'[p] = r /\ \A x \in Pollers \ {p} : poll'[x] = poll[x]
  BY DEF TailInv, Typed
<1>2. PollRight(poll[p])' /\ NotAhead(poll[p])'
  BY <1>1, Carries
<1>3. \A f : Absent({}, f)
  BY AbsentNone
<1> QED BY <1>1, <1>2, <1>3, LastKept

\* Loading a cursor keeps the last lines.
LEMMA LastLoads ==
    ASSUME TailInv, TailInv', LastOK, ~ overlap', NEW p \in Pollers, NEW f \in Files, LoadCursor(p, f)
    PROVE  LastOK'
<1>1. PICK q \in PollRecord : q = poll[p]
  BY PollIs
<1>2. Typed /\ WorldOK /\ CursorRight(f) /\ OneHolds
  BY DEF TailInv, LastOK
<1>3. PICK off \in {0, Stored(f)}, of \in Nat : of = reads[f] /\
        Set(p, [q EXCEPT !.pc = "read", !.file = f, !.walk = @ \ {f}, !.off = off, !.of = of])
  BY <1>1, <1>2 DEF LoadCursor, Typed
<1>4. UNCHANGED <<gen, size, cursor, rows, minted, unwritten, wiped, reads>>
  BY DEF LoadCursor, world, store
<1>5. off \in Nat /\ (off # 0 => off = cursor[f])
  <2>1. cursor[f] \in Nat \cup {-1}
    BY <1>2 DEF Typed
  <2> QED BY <2>1 DEF Stored, Unseen
<1> DEFINE r == [[[[[q EXCEPT !.pc = "read"] EXCEPT !.file = f] EXCEPT !.walk = q.walk \ {f}]
                    EXCEPT !.off = off] EXCEPT !.of = of]
<1>6. poll' = [poll EXCEPT ![p] = r]
  BY <1>3 DEF Set, PollRecord
<1>7. r \in PollRecord /\ r.pc = "read" /\ r.file = f /\ r.of = of /\ r.off = off
  BY <1>5 DEF PollRecord, Phases
<1> HIDE DEF r
<1>8. Advances /\ RightBut({})
  <2>1. \A x \in Files : gen[x] \in Nat /\ size[x] \in Nat
    BY <1>2, TailAssumption DEF Typed, TailAssumption
  <2> QED BY <1>4, <2>1, SameRight DEF Advances
<1>9. poll'[p] = r /\ \A x \in Pollers \ {p} : poll'[x] = poll[x]
  BY <1>2, <1>6 DEF Typed
<1>10. OneHolds'
  <2>1. \A x \in Pollers \ {p} : ~ (Held(poll[x]) /\ poll[x].file = f)
    BY DEF LoadCursor, InHand, Held
  <2> SUFFICES ASSUME NEW x \in Pollers, NEW y \in Pollers, Held(poll[x])', Held(poll[y])',
                      poll'[x].file = poll'[y].file
               PROVE  x = y
    BY DEF OneHolds
  <2>2. CASE x = p
    BY <1>7, <1>9, <2>1, <2>2 DEF Held
  <2>3. CASE y = p
    BY <1>7, <1>9, <2>1, <2>3 DEF Held
  <2>4. CASE x # p /\ y # p
    BY <1>2, <1>9, <2>4 DEF Held, OneHolds
  <2> QED BY <2>2, <2>3, <2>4
<1>11. PollRight(r)'
  <2> SUFFICES ASSUME of = gen[f]
               PROVE  /\ off <= size[f]
                      /\ \A k \in Named(f, of, 0, off) : RowRight(f, of, k, off)
    BY <1>4, <1>7 DEF PollRight, RowRight
  <2>1. CASE off = 0
    BY <1>2, <2>1, NamedNone DEF Typed
  <2>2. CASE off # 0
    BY <1>2, <1>3, <1>5, <2>2 DEF CursorRight, WorldOK
  <2> QED BY <2>1, <2>2
<1>12. NotAhead(r)'
  BY <1>3, <1>4, <1>7 DEF NotAhead
<1> QED BY <1>4, <1>6, <1>7, <1>8, <1>10, <1>11, <1>12, LastMoves

\* Reading a file's new lines keeps the last lines.
LEMMA LastReads ==
    ASSUME TailInv, TailInv', LastOK, NEW p \in Pollers, Read(p)
    PROVE  LastOK'
<1>1. PICK q \in PollRecord : q = poll[p]
  BY PollIs
<1>2. Typed /\ WorldOK /\ PollOK(q) /\ PollRight(q) /\ NotAhead(q) /\ OneHolds /\ q.pc = "read"
  BY <1>1, PollIs DEF TailInv, LastOK, Read
<1>3. PICK f \in Files, g \in 0..Generations, n \in Nat :
         f = q.file /\ g = gen[f] /\ n = size[f]
  BY <1>2 DEF PollOK, Typed
<1>4. PICK from \in Nat : from = Offset(f, q.off) /\ from <= n /\ (from # 0 => from = q.off)
  BY <1>3 DEF Offset, PollRecord
<1>5. PICK of \in Nat : of = (IF from = 0 THEN g ELSE q.of) /\ of <= g
  BY <1>2, <1>3 DEF PollOK, PollRecord
<1>6. PICK todo \in SUBSET Nat : todo = LastOfEach(f, from, n)
  <2>1. LastOfEach(f, from, n) \subseteq (from + 1)..n
    BY DEF LastOfEach
  <2>2. LastOfEach(f, from, n) \subseteq Nat
    BY <2>1
  <2> QED BY <2>2
<1> DEFINE r == [[[[[[q EXCEPT !.pc = "insert"] EXCEPT !.off = from] EXCEPT !.upto = n]
                     EXCEPT !.at = g] EXCEPT !.of = of] EXCEPT !.todo = todo]
<1>7. poll' = [poll EXCEPT ![p] = r]
  <2>1. Set(p, [q EXCEPT !.pc = "insert", !.off = from, !.upto = n, !.at = g,
                         !.of = IF from = 0 THEN g ELSE @, !.todo = todo])
    BY <1>1, <1>3, <1>4, <1>6 DEF Read, Complete
  <2> QED BY <1>5, <2>1 DEF Set, PollRecord
<1>8. /\ r \in PollRecord /\ r.pc = "insert" /\ r.file = f /\ r.of = of /\ r.at = g
      /\ r.off = from /\ r.upto = n /\ r.todo = todo
  <2>1. g \in Nat /\ q.file = f
    BY <1>3, TailAssumption DEF TailAssumption
  <2>2. r \in PollRecord
    BY <2>1 DEF PollRecord, Phases
  <2>3. r.pc = "insert" /\ r.file = q.file /\ r.of = of /\ r.at = g /\ r.off = from
    BY DEF PollRecord
  <2>4. r.upto = n /\ r.todo = todo
    BY DEF PollRecord
  <2> QED BY <2>1, <2>2, <2>3, <2>4
<1> HIDE DEF r
<1>9. UNCHANGED <<gen, size, cursor, rows, minted, unwritten, wiped, reads>>
  BY DEF Read, world, store, ghost
<1>10. Advances /\ RightBut({})
  <2>1. \A x \in Files : gen[x] \in Nat /\ size[x] \in Nat
    BY <1>2, TailAssumption DEF Typed, TailAssumption
  <2> QED BY <1>9, <2>1, SameRight DEF Advances
<1>11. OneHolds'
  <2>1. poll'[p] = r /\ \A x \in Pollers \ {p} : poll'[x] = poll[x]
    BY <1>2, <1>7 DEF Typed
  <2>2. \A x \in Pollers : Held(poll[x])' => Held(poll[x]) /\ poll'[x].file = poll[x].file
    BY <1>1, <1>2, <1>3, <1>8, <2>1 DEF Held
  <2> QED BY <1>2, <2>2, NoneTakes
<1>12. PollRight(r)'
  <2>1. \A i \in todo : \A j \in (i + 1)..n : TextOf(f, g)[j].key # TextOf(f, g)[i].key
    BY <1>3, <1>6 DEF LastOfEach, Text
  <2>2. ASSUME of = g, NEW k \in Named(f, g, 0, n)
        PROVE  RowRight(f, g, k, n) \/ \E i \in todo : TextOf(f, g)[i].key = k
    <3>1. CASE k \in Named(f, g, from, n)
      <4>1. k \in Named(f, gen[f], from, n)
        BY <1>3, <3>1
      <4>2. \E i \in LastOfEach(f, from, n) : TextOf(f, gen[f])[i].key = k
        BY <1>2, <4>1, Represented
      <4> QED BY <1>3, <1>6, <4>2
    <3>2. CASE k \notin Named(f, g, from, n)
      <4>1. k \in Named(f, g, 0, from)
        BY <2>2, <3>2, NamedSplit
      <4>2. from # 0
        BY <4>1, NamedNone
      <4>3. RowRight(f, g, k, from)
        BY <1>2, <1>3, <1>4, <1>5, <2>2, <4>1, <4>2 DEF PollRight
      <4>4. k # Noise /\ \A j \in (from + 1)..n : TextOf(f, g)[j].key # k
        BY <2>2, <3>2 DEF Named
      <4>5. \A i \in 1..Len(TextOf(f, g)) :
              (\A j \in (i + 1)..from : TextOf(f, g)[j].key # k)
                => \A j \in (i + 1)..n : TextOf(f, g)[j].key # k
        <5> TAKE i \in 1..Len(TextOf(f, g))
        <5> HAVE \A j \in (i + 1)..from : TextOf(f, g)[j].key # k
        <5> TAKE j \in (i + 1)..n
        <5>1. j \in (i + 1)..from \/ j \in (from + 1)..n
          BY <1>3, <1>4, TextIs
        <5> QED BY <4>4, <5>1
      <4> QED BY <4>3, <4>5 DEF RowRight
    <3> QED BY <3>1, <3>2
  <2>3. ASSUME of = g, NEW k \in Named(f, g, 0, n)
        PROVE  RowRight(f, g, k, n)' \/ \E i \in todo : TextOf(f, g)[i].key = k
    <3>1. CASE RowRight(f, g, k, n)
      BY <1>9, <3>1 DEF RowRight
    <3> QED BY <2>2, <2>3, <3>1
  <2>4. ASSUME r.of = g, NEW k \in Named(r.file, r.of, 0, r.upto)
        PROVE  RowRight(r.file, r.of, k, r.upto)' \/ \E i \in r.todo : TextOf(r.file, r.of)[i].key = k
    <3>1. RowRight(f, g, k, n)' \/ \E i \in todo : TextOf(f, g)[i].key = k
      BY <1>8, <2>3, <2>4
    <3> QED BY <1>8, <2>4, <3>1 DEF RowRight
  <2>5. \A i \in r.todo : \A j \in (i + 1)..r.upto :
           TextOf(r.file, r.at)[j].key # TextOf(r.file, r.at)[i].key
    BY <1>8, <2>1
  <2>6. gen'[r.file] = g /\ r.pc # "read"
    BY <1>3, <1>8, <1>9
  <2> QED BY <2>4, <2>5, <2>6 DEF PollRight
<1>13. NotAhead(r)'
  <2> SUFFICES ASSUME reads[f] = g, cursor[f] > 0 PROVE of = g /\ cursor[f] <= n
    BY <1>3, <1>8, <1>9 DEF NotAhead
  <2>1. q.of = g
    BY <1>2, <1>3 DEF NotAhead, Held
  <2> QED BY <1>2, <1>3, <1>5, <2>1 DEF WorldOK
<1> QED BY <1>7, <1>8, <1>9, <1>10, <1>11, <1>12, <1>13, LastMoves

\* One representative leaves the hand of a poll, and its request's row is right.
LEMMA LastHandled ==
    ASSUME OneFile, TailInv, TailInv', LastOK, NEW p \in Pollers, NEW i \in poll[p].todo,
           poll[p].pc = "insert",
           NEW key \in Keys, key = TextOf(poll[p].file, poll[p].at)[i].key, RightBut({key}),
           NEW q \in PollRecord, q = poll[p],
           \A hi \in Int : hi <= q.upto => RowRight(q.file, q.at, key, hi)',
           poll' = [poll EXCEPT ![p] = [poll[p] EXCEPT !.todo = @ \ {i}]],
           UNCHANGED <<gen, size, cursor, reads>>
    PROVE  LastOK'
<1>1. q = poll[p]
  OBVIOUS
<1>2. /\ Typed /\ WorldOK /\ PollOK(q) /\ PollRight(q) /\ NotAhead(q) /\ OneHolds
      /\ q.pc = "insert" /\ i \in q.todo
  BY <1>1, PollIs DEF TailInv, LastOK
<1>3. PICK f \in Files, g \in 0..Generations : f = q.file /\ g = gen[f]
  BY <1>2 DEF PollOK, Typed
<1> DEFINE r == [q EXCEPT !.todo = q.todo \ {i}]
<1>4. poll' = [poll EXCEPT ![p] = r]
  BY <1>1
<1>5. /\ r \in PollRecord /\ r.pc = "insert" /\ r.file = f /\ r.of = q.of /\ r.at = q.at
      /\ r.upto = q.upto /\ r.todo = q.todo \ {i}
  BY <1>2, <1>3 DEF PollRecord, Phases
<1> HIDE DEF r
<1>6. gen' = gen /\ size' = size /\ cursor' = cursor /\ reads' = reads
  OBVIOUS
<1>7. Advances
  <2>1. \A x \in Files : gen[x] \in Nat /\ size[x] \in Nat
    BY <1>2, TailAssumption DEF Typed, TailAssumption
  <2> QED BY <1>6, <2>1 DEF Advances
<1>8. poll'[p] = r /\ \A x \in Pollers \ {p} : poll'[x] = poll[x]
  BY <1>2, <1>4 DEF Typed
<1>9. OneHolds'
  <2>1. \A x \in Pollers : Held(poll[x])' => Held(poll[x]) /\ poll'[x].file = poll[x].file
    BY <1>1, <1>2, <1>3, <1>5, <1>8 DEF Held
  <2> QED BY <1>2, <2>1, NoneTakes
<1>10. i \in 1..Len(TextOf(f, q.at)) /\ q.at \in 0..Generations
       /\ key = TextOf(f, q.at)[i].key /\ key # Noise
  <2>1. q.at \in 0..Generations
    BY <1>2, <1>3, TailAssumption DEF PollOK, PollRecord, TailAssumption
  <2>2. /\ i \in (q.off + 1)..q.upto /\ TextOf(f, q.at)[i].key # Noise /\ q.upto <= Len(TextOf(f, q.at))
        /\ q.off \in Nat /\ q.upto \in Nat
    BY <1>2, <1>3, <2>1 DEF PollOK, PollRecord
  <2> QED BY <1>1, <1>3, <2>1, <2>2, TextIs
<1>11. ASSUME NEW h \in Files, h # f PROVE Absent({key}, h)
  <2>1. gen[h] \in 0..Generations
    BY <1>2 DEF Typed
  <2> QED BY <1>10, <1>11, <2>1 DEF OneFile, Absent, Text
<1>12. q.of = g => q.at = g /\ q.upto <= Len(TextOf(f, g))
  <2>1. q.of = g => q.at = g
    BY <1>2, <1>3 DEF PollOK, PollRecord
  <2> QED BY <1>2, <1>3, <2>1 DEF PollOK
<1>13. ASSUME q.at = g, NEW k, NEW hi \in Int, hi <= q.upto, RowRight(f, g, k, hi) \/ k = key
       PROVE  RowRight(f, g, k, hi)'
  <2>1. CASE k = key
    <3>1. RowRight(f, g, key, hi)'
      BY <1>1, <1>3, <1>13
    <3> QED BY <2>1, <3>1, ZenonT(40) DEF RowRight
  <2>2. CASE k # key /\ k \in Keys
    BY <1>13, <2>2 DEF RightBut
  <2>3. CASE k \notin Keys
    BY <2>3 DEF RowRight
  <2> QED BY <2>1, <2>2, <2>3
<1>14. PollRight(r)'
  <2>1. \A x \in r.todo : \A j \in (x + 1)..r.upto :
           TextOf(r.file, r.at)[j].key # TextOf(r.file, r.at)[x].key
    <3>1. PollRight(q) /\ q.pc = "insert"
      BY <1>2
    <3>2. \A x \in q.todo : \A j \in (x + 1)..q.upto :
             TextOf(q.file, q.at)[j].key # TextOf(q.file, q.at)[x].key
      BY <3>1 DEF PollRight
    <3>3. r.todo \subseteq q.todo /\ r.upto = q.upto /\ r.at = q.at /\ r.file = q.file
      BY <1>3, <1>5
    <3> QED BY <3>2, <3>3
  <2>2. ASSUME q.of = g, NEW k \in Named(f, g, 0, q.upto)
        PROVE  RowRight(f, g, k, q.upto)' \/ \E j \in q.todo \ {i} : TextOf(f, g)[j].key = k
    <3>1. RowRight(f, g, k, q.upto) \/ \E j \in q.todo : TextOf(f, g)[j].key = k
      BY <1>2, <1>3, <2>2, SMTT(30) DEF PollRight
    <3>2. q.upto \in Int /\ q.upto <= q.upto
      BY DEF PollRecord
    <3>3. TextOf(f, g)[i].key = key
      BY <1>10, <1>12, <2>2
    <3> QED BY <1>12, <1>13, <2>2, <3>1, <3>2, <3>3
  <2>3. ASSUME r.of = g, NEW k \in Named(r.file, r.of, 0, r.upto)
        PROVE  RowRight(r.file, r.of, k, r.upto)' \/ \E j \in r.todo : TextOf(r.file, r.of)[j].key = k
    <3>1. RowRight(f, g, k, q.upto)' \/ \E j \in q.todo \ {i} : TextOf(f, g)[j].key = k
      BY <1>5, <2>2, <2>3
    <3>2. r.file = f /\ r.of = g /\ r.upto = q.upto /\ r.todo = q.todo \ {i}
      BY <1>5, <2>3
    <3>3. CASE RowRight(f, g, k, q.upto)'
      BY <3>2, <3>3 DEF RowRight
    <3>4. CASE \E j \in q.todo \ {i} : TextOf(f, g)[j].key = k
      BY <3>2, <3>4
    <3> QED BY <3>1, <3>3, <3>4
  <2>4. gen'[r.file] = g /\ r.pc # "read"
    BY <1>3, <1>5, <1>6
  <2> QED BY <2>1, <2>3, <2>4 DEF PollRight
<1>15. NotAhead(r)'
  BY <1>2, <1>3, <1>5, <1>6 DEF NotAhead, Held
<1>16. CursorRight(f)'
  <2>1. gen'[f] = g /\ reads'[f] = reads[f] /\ cursor'[f] = cursor[f]
    BY <1>3, <1>6
  <2>2. ASSUME reads[f] = g, NEW k \in Named(f, g, 0, cursor[f])
        PROVE  RowRight(f, gen[f], k, cursor[f])'
    <3>1. cursor[f] \in Int /\ cursor[f] > 0
      <4>1. cursor[f] \in Int
        BY <1>2 DEF Typed
      <4> QED BY <2>2, <4>1, NamedNone
    <3>2. q.of = g /\ cursor[f] <= q.upto
      BY <1>2, <1>3, <2>2, <3>1 DEF NotAhead, Held
    <3>3. RowRight(f, g, k, cursor[f])
      BY <1>3, <2>2 DEF LastOK, CursorRight
    <3>4. PICK hi \in Int : hi = cursor[f]
      BY <3>1
    <3>5. RowRight(f, g, k, hi)'
      BY <1>12, <1>13, <3>2, <3>3, <3>4
    <3> QED BY <2>1, <3>4, <3>5 DEF RowRight
  <2> QED BY <2>1, <2>2 DEF CursorRight
<1>17. PollRight(poll[p])' /\ NotAhead(poll[p])'
  BY <1>8, <1>14, <1>15, Carries
<1>18. ASSUME NEW x \in Pollers \ {p}, Held(poll[x]) PROVE Absent({key}, poll[x].file)
  <2>1. poll[x].file \in Files /\ poll[x].file # f
    BY <1>1, <1>2, <1>3, <1>18, PollIs DEF OneHolds, Held, PollOK
  <2> QED BY <1>11, <2>1
<1> QED BY <1>6, <1>7, <1>8, <1>9, <1>11, <1>16, <1>17, <1>18, LastKept

\* Storing a line keeps the last lines.
LEMMA LastInserts ==
    ASSUME OneFile, TailInv, TailInv', LastOK, NEW p \in Pollers, NEW i \in MaxLines, Insert(p, i)
    PROVE  LastOK'
<1>1. i \in poll[p].todo /\ poll[p].pc = "insert"
  BY DEF Insert, IsNext
<1>2. PICK k \in Keys, u \in Nat \ {0} : /\ k = TextOf(poll[p].file, poll[p].at)[i].key
                                         /\ u = TextOf(poll[p].file, poll[p].at)[i].usage
  BY <1>1, LineIs
<1>3. /\ rows' = [rows EXCEPT ![k] = u] /\ unwritten' = unwritten \ {k} /\ wiped' = wiped \ {k}
      /\ poll' = [poll EXCEPT ![p] = [poll[p] EXCEPT !.todo = @ \ {i}]]
      /\ UNCHANGED <<gen, size, cursor, minted, reads>>
  BY <1>2 DEF Insert, Set, world
<1>4. rows'[k] = u /\ \A x \in Keys \ {k} : rows'[x] = rows[x]
  BY <1>3 DEF TailInv, Typed
<1>5. RightBut({k})
  BY <1>3, <1>4 DEF RightBut, RowRight
<1>6. PICK q \in PollRecord : q = poll[p] /\ PollOK(q) /\ PollRight(q)
  BY PollIs DEF LastOK
<1>7. i \in 1..Len(TextOf(q.file, q.at))
  <2>1. PICK f \in Files, g \in 0..Generations : f = q.file /\ g = gen[f]
    BY <1>1, <1>6 DEF PollOK, TailInv, Typed
  <2>2. q.at \in 0..Generations
    BY <1>1, <1>6, <2>1, TailAssumption DEF PollOK, PollRecord, TailAssumption
  <2>3. /\ i \in (q.off + 1)..q.upto /\ q.upto <= Len(TextOf(f, q.at))
        /\ q.off \in Nat /\ q.upto \in Nat
    BY <1>1, <1>6, <2>1 DEF PollOK, PollRecord
  <2> QED BY <2>1, <2>2, <2>3, TextIs
<1>8. ASSUME NEW hi \in Int, hi <= q.upto PROVE RowRight(q.file, q.at, k, hi)'
  <2>1. \A j \in (i + 1)..q.upto : TextOf(q.file, q.at)[j].key # k
    BY <1>1, <1>2, <1>6 DEF PollRight
  <2>2. \A j \in (i + 1)..hi : j \in (i + 1)..q.upto
    BY <1>7, <1>8 DEF PollRecord
  <2> QED BY <1>2, <1>4, <1>6, <1>7, <2>1, <2>2 DEF RowRight
<1> QED BY <1>1, <1>2, <1>3, <1>5, <1>6, <1>8, LastHandled

\* A line whose insert fails keeps the last lines.
LEMMA LastSkips ==
    ASSUME OneFile, TailInv, TailInv', LastOK, NEW p \in Pollers, NEW i \in MaxLines, Skip(p, i)
    PROVE  LastOK'
<1>1. i \in poll[p].todo /\ poll[p].pc = "insert"
  BY DEF Skip, IsNext
<1>2. PICK k \in Keys : k = TextOf(poll[p].file, poll[p].at)[i].key
  BY <1>1, LineIs
<1>3. /\ unwritten' = unwritten \cup {k} /\ UNCHANGED <<rows, minted, wiped>>
      /\ poll' = [poll EXCEPT ![p] = [poll[p] EXCEPT !.todo = @ \ {i}]]
      /\ UNCHANGED <<gen, size, cursor, reads>>
  BY <1>2 DEF Skip, Set, world, store
<1>4. RightBut({k})
  BY <1>3, SameRight DEF RightBut
<1>5. PICK q \in PollRecord : q = poll[p]
  BY PollIs
<1>6. \A hi \in Int : RowRight(q.file, q.at, k, hi)'
  BY <1>3 DEF RowRight
<1> QED BY <1>1, <1>2, <1>3, <1>4, <1>5, <1>6, LastHandled

\* The end of a file's lines keeps the last lines.
LEMMA LastInserted ==
    ASSUME TailInv, TailInv', LastOK, NEW p \in Pollers, Inserted(p)
    PROVE  LastOK'
<1>1. PICK q \in PollRecord : q = poll[p]
  BY PollIs
<1>2. PollRight(q) /\ NotAhead(q) /\ OneHolds /\ q.pc = "insert" /\ Typed
  BY <1>1, PollIs DEF Inserted, LastOK, TailInv
<1> DEFINE r == [q EXCEPT !.pc = "save"]
<1>3. poll' = [poll EXCEPT ![p] = r] /\ UNCHANGED <<world, store, ghost>>
  BY <1>1 DEF Inserted, Set
<1>4. /\ r \in PollRecord /\ r.pc = "save" /\ r.file = q.file /\ r.of = q.of /\ r.at = q.at
      /\ r.off = q.off /\ r.upto = q.upto /\ r.todo = q.todo
  BY DEF PollRecord, Phases
<1> HIDE DEF r
<1>5. UNCHANGED <<gen, size, cursor, rows, minted, unwritten, wiped, reads>>
  BY <1>3 DEF world, store, ghost
<1>6. Advances /\ RightBut({})
  <2>1. \A x \in Files : gen[x] \in Nat /\ size[x] \in Nat
    BY <1>2, TailAssumption DEF Typed, TailAssumption
  <2> QED BY <1>5, <2>1, SameRight DEF Advances
<1>7. OneHolds'
  <2>1. poll'[p] = r /\ \A x \in Pollers \ {p} : poll'[x] = poll[x]
    BY <1>2, <1>3 DEF Typed
  <2>2. \A x \in Pollers : Held(poll[x])' => Held(poll[x]) /\ poll'[x].file = poll[x].file
    BY <1>1, <1>2, <1>4, <2>1 DEF Held
  <2> QED BY <1>2, <2>2, NoneTakes
<1>8. PollRight(r)'
  BY <1>2, <1>4, <1>5 DEF PollRight, RowRight
<1>9. NotAhead(r)'
  BY <1>2, <1>4, <1>5 DEF NotAhead, Held
<1> QED BY <1>3, <1>4, <1>5, <1>6, <1>7, <1>8, <1>9, LastMoves

\* Saving a cursor keeps the last lines.
LEMMA LastSaves ==
    ASSUME TailInv, TailInv', LastOK, NEW p \in Pollers, Save(p)
    PROVE  LastOK'
<1>1. PICK q \in PollRecord : q = poll[p]
  BY PollIs
<1>2. Typed /\ PollOK(q) /\ PollRight(q) /\ OneHolds /\ q.pc = "save" /\ q.todo = {}
  BY <1>1, PollIs DEF TailInv, Save, PollOK, LastOK
<1>3. PICK f \in Files : f = q.file
  BY <1>2 DEF PollOK
<1>4. PICK r \in PollRecord : r = [q EXCEPT !.pc = "walk"] /\ r.pc = "walk"
  <2>1. [q EXCEPT !.pc = "walk"] \in PollRecord /\ [q EXCEPT !.pc = "walk"].pc = "walk"
    BY DEF PollRecord, Phases
  <2> QED BY <2>1
<1>5. poll' = [poll EXCEPT ![p] = r] /\ UNCHANGED <<gen, size, rows, minted, unwritten, wiped>>
  BY <1>1, <1>4 DEF Save, Set, world
<1>6. \/ cursor' = [cursor EXCEPT ![f] = q.upto] /\ reads' = [reads EXCEPT ![f] = q.of]
      \/ UNCHANGED <<cursor, reads>>
  BY <1>1, <1>3 DEF Save
<1>7. poll'[p] = r /\ \A x \in Pollers \ {p} : poll'[x] = poll[x]
  BY <1>2, <1>5 DEF Typed
<1>8. \A x \in Files : \/ cursor'[x] = cursor[x] /\ reads'[x] = reads[x]
                       \/ x = f /\ cursor'[x] = q.upto /\ reads'[x] = q.of
  BY <1>2, <1>6 DEF Typed
<1>9. Advances /\ RightBut({})
  <2>1. \A x \in Files : gen[x] \in Nat /\ size[x] \in Nat
    BY <1>2, TailAssumption DEF Typed, TailAssumption
  <2> QED BY <1>5, <2>1, SameRight DEF Advances
<1>10. OneHolds'
  <2>2. \A x \in Pollers : Held(poll[x])' => Held(poll[x]) /\ poll'[x].file = poll[x].file
    BY <1>4, <1>7 DEF Held
  <2> QED BY <1>2, <2>2, NoneTakes
<1>11. cursor'[f] = q.upto /\ reads'[f] = q.of => CursorRight(f)'
  BY <1>2, <1>3, <1>5 DEF PollRight, CursorRight, RowRight
<1>12. PollRight(poll[p])' /\ NotAhead(poll[p])'
  BY <1>4, <1>7 DEF PollRight, NotAhead, Held
<1>13. ASSUME NEW x \in Pollers \ {p}, Held(poll[x])
       PROVE  poll[x].file \in Files /\ poll[x].file # f
  BY <1>1, <1>2, <1>3, <1>13, PollIs DEF OneHolds, Held, PollOK
<1>14. \A g : Absent({}, g)
  BY AbsentNone
<1> QED BY <1>7, <1>8, <1>9, <1>10, <1>11, <1>12, <1>13, <1>14, LastKept

-----------------------------------------------------------------------------
(* Everything else.                                                        *)

\* So they do what is said of the last lines.
LEMMA LastClient ==
    ASSUME TailInv, TailInv', LastOK,
           NEW f \in Files, BeginLine(f) \/ EndLine(f) \/ Replace(f) \/ Remove(f)
    PROVE  LastOK'
<1>1. UNCHANGED <<cursor, rows, minted, poll, unwritten, wiped, reads>>
  BY DEF BeginLine, EndLine, Replace, Remove, store, ghost
<1>2. Advances
  <2>1. /\ \A x \in Files : gen[x] \in Nat /\ size[x] \in Nat
        /\ gen \in [Files -> 0..Generations] /\ size \in [Files -> Nat]
    BY TailAssumption DEF TailInv, Typed, TailAssumption
  <2>2. CASE UNCHANGED <<gen, size>>
    BY <2>1, <2>2 DEF Advances
  <2>3. CASE EndLine(f)
    <3>1. gen' = gen /\ \A x \in Files : size'[x] = IF x = f THEN size[f] + 1 ELSE size[x]
      BY <2>1, <2>3 DEF EndLine
    <3> QED BY <2>1, <3>1 DEF Advances
  <2>4. CASE Replace(f)
    <3>1. \A x \in Files : /\ gen'[x] = IF x = f THEN gen[f] + 1 ELSE gen[x]
                           /\ x # f => size'[x] = size[x]
      BY <2>1, <2>4 DEF Replace
    <3> QED BY <2>1, <3>1 DEF Advances
  <2> QED BY <2>2, <2>3, <2>4 DEF BeginLine, Remove
<1> QED BY <1>1, <1>2, SameRight, LastRests

\* A deleted row is counted as deleted.
LEMMA LastDeletes ==
    ASSUME TailInv, TailInv', LastOK, Delete
    PROVE  LastOK'
<1>1. /\ minted' = {} /\ rows' = [k \in Keys |-> IF k \in Keyless THEN 0 ELSE rows[k]]
      /\ wiped' = wiped \cup {k \in minted \cup {k \in Keyless : rows[k] # 0} : rows'[k] = 0}
      /\ UNCHANGED <<gen, size, cursor, poll, unwritten, reads>>
  BY DEF Delete, DeleteAndReset, world
<1>2. \A k \in Keys : rows'[k] = IF k \in Keyless THEN 0 ELSE rows[k]
  BY <1>1
<1>3. RightBut({})
  <2> SUFFICES ASSUME NEW f \in Files, NEW g \in 0..Generations, NEW k \in Keys, NEW hi \in Int,
                      RowRight(f, g, k, hi)
               PROVE  RowRight(f, g, k, hi)'
    BY DEF RightBut
  <2> SUFFICES ASSUME k \notin unwritten' \cup wiped'
               PROVE  RowRight(f, g, k, hi)'
    BY DEF RowRight
  <2>1. k \notin unwritten \cup wiped /\ (k \in minted => rows'[k] # 0)
        /\ (k \in Keyless /\ rows[k] # 0 => rows'[k] # 0)
    BY <1>1
  <2>2. k \in Keyless => rows[k] = 0
    BY <1>2, <2>1
  <2>3. k \notin minted \/ rows[k] # 0
    BY <1>2, <2>1
  <2>4. PICK i \in 1..Len(TextOf(f, g)) :
          /\ TextOf(f, g)[i].key = k /\ rows[k] = TextOf(f, g)[i].usage
          /\ \A j \in (i + 1)..hi : TextOf(f, g)[j].key # k
    BY <2>1, <2>3 DEF RowRight
  <2>5. rows'[k] = rows[k]
    BY <1>2, <2>2
  <2> QED BY <2>4, <2>5 DEF RowRight
<1>4. Advances
  <2>1. \A x \in Files : gen[x] \in Nat /\ size[x] \in Nat
    BY TailAssumption DEF TailInv, Typed, TailAssumption
  <2> QED BY <1>1, <2>1 DEF Advances
<1> QED BY <1>1, <1>3, <1>4, LastRests

\* What neither writes a row nor reads a line.
LEMMA LastRest ==
    ASSUME TailInv, TailInv', LastOK,
           \/ UNCHANGED vars \/ Check \/ Reread \/ Abort \/ Crash
           \/ \E p \in Pollers : StartServed(p) \/ Gone(p) \/ Finish(p)
           \/ \E name \in Commands : Ask(name)
           \/ \E f \in Files : Reset(f)
    PROVE  LastOK'
<1>1. UNCHANGED <<gen, size, rows, minted, unwritten, wiped>>
  BY DEF vars, Check, Reread, Abort, Crash, StartServed, Gone, Finish, Ask, Reset, world, store, ghost
<1>2. Advances /\ RightBut({})
  <2>1. \A x \in Files : gen[x] \in Nat /\ size[x] \in Nat
    BY TailAssumption DEF TailInv, Typed, TailAssumption
  <2> QED BY <1>1, <2>1, SameRight DEF Advances
<1>3. \A f \in Files : \/ cursor'[f] = cursor[f] /\ reads'[f] = reads[f]
                       \/ cursor'[f] = 0
  <2>1. CASE UNCHANGED <<cursor, reads>>
    BY <2>1
  <2>2. ASSUME NEW f \in Files, Reset(f)
        PROVE  \A x \in Files : \/ cursor'[x] = cursor[x] /\ reads'[x] = reads[x]
                                \/ cursor'[x] = 0
    BY <2>2 DEF Reset, TailInv, Typed
  <2> QED BY <2>1, <2>2
          DEF vars, Check, Reread, Abort, Crash, StartServed, Gone, Finish, Ask, store, ghost
<1>4. PICK r \in PollRecord, w \in PollRecord : /\ r = Resting /\ r.pc = "idle"
                                                /\ w = Walk /\ w.pc = "walk"
  BY WalkIs
<1>5. poll \in [Pollers -> PollRecord]
  BY DEF TailInv, Typed
<1>6. \A x \in Pollers : poll'[x] = poll[x] \/ poll'[x].pc \in {"idle", "walk"}
  <2>1. CASE poll' = poll
    BY <2>1
  <2>2. CASE Reread \/ Abort \/ Crash \/ \E name \in Commands : Ask(name)
    <3>1. \/ poll' = poll \/ poll' = [poll EXCEPT !["cli"] = w] \/ poll' = [poll EXCEPT !["cli"] = r]
          \/ poll' = [p \in Pollers |-> IF p \in Served THEN r ELSE poll[p]]
      BY <1>4, <2>2 DEF Reread, Abort, Crash, Ask, Set
    <3> QED BY <1>4, <1>5, <3>1
  <2>3. ASSUME NEW p \in Pollers, StartServed(p) \/ Gone(p) \/ Finish(p)
        PROVE  \A x \in Pollers : poll'[x] = poll[x] \/ poll'[x].pc \in {"idle", "walk"}
    <3>1. PICK q \in PollRecord : q = poll[p]
      BY <1>5
    <3>2. PICK s : poll' = [poll EXCEPT ![p] = s] /\ s.pc \in {"idle", "walk"}
      <4>1. [q EXCEPT !.pc = "walk"].pc = "walk"
        BY DEF PollRecord
      <4>2. \/ poll' = [poll EXCEPT ![p] = [q EXCEPT !.pc = "walk"]]
            \/ poll' = [poll EXCEPT ![p] = w] \/ poll' = [poll EXCEPT ![p] = r]
        BY <1>4, <2>3, <3>1 DEF StartServed, Gone, Finish, Set
      <4> QED BY <1>4, <4>1, <4>2
    <3> QED BY <1>5, <3>2
  <2> QED BY <2>1, <2>2, <2>3 DEF vars, Check, Reset
<1> QED BY <1>2, <1>3, <1>6, LastRests

\* At the start every row is of its last line.
LEMMA LastStarts == ASSUME Init PROVE LastInv
<1>1. TailInv
  BY TailStarts
<1>2. /\ gen = [f \in Files |-> 0] /\ reads = gen
      /\ poll = [p \in Pollers |-> Resting] /\ rows = [k \in Keys |-> 0]
      /\ minted = UNION {Named(f, 0, 0, size[f]) : f \in Files} /\ overlap = FALSE
      /\ \/ cursor = [f \in Files |-> -1]
         \/ cursor = size
  BY DEF Init, Unseen
<1>3. PICK r \in PollRecord : r = Resting /\ r.pc = "idle"
  BY WalkIs
<1>4. OneHolds /\ \A p \in Pollers : PollRight(poll[p]) /\ NotAhead(poll[p])
  BY <1>2, <1>3 DEF OneHolds, PollRight, NotAhead, Held
<1>5. \A f \in Files : CursorRight(f)
  <2> SUFFICES ASSUME NEW f \in Files, NEW k \in Named(f, gen[f], 0, cursor[f]), k \in Keys
               PROVE  k \in minted /\ rows[k] = 0
    BY DEF CursorRight, RowRight
  <2>1. cursor[f] # -1
    BY NamedNone
  <2> QED BY <1>2, <2>1
<1> QED BY <1>1, <1>2, <1>4, <1>5 DEF LastInv, LastOK

\* Every step keeps the last lines.
LEMMA LastSteps ==
    ASSUME OneFile, LastInv, [Next]_vars
    PROVE  LastInv'
<1>1. TailInv /\ TailInv'
  BY TailSteps DEF LastInv
<1>2. overlap' \in BOOLEAN /\ (overlap => overlap')
  <2>1. CASE overlap' = overlap
    BY <2>1 DEF LastInv
  <2>2. ASSUME NEW p \in Pollers, NEW f \in Files, LoadCursor(p, f)
        PROVE  overlap' \in BOOLEAN /\ (overlap => overlap')
    BY <2>2 DEF LoadCursor, LastInv
  <2> QED BY <2>1, <2>2 DEF Next, vars, Client, CommandStep, Step, Crash, StartServed, Gone, Read,
             Insert, Skip, Inserted, Save, Finish, BeginLine, EndLine, Replace, Remove, Ask, Check,
             Delete, DeleteAndReset, Reread, Abort, Reset, ghost
<1> SUFFICES ASSUME ~ overlap' PROVE LastOK'
  BY <1>1, <1>2 DEF LastInv
<1>3. LastOK
  BY <1>2 DEF LastInv
<1>4. CASE Client
  BY <1>1, <1>3, <1>4, LastClient DEF Client
<1>5. ASSUME NEW p \in Pollers, Step(p) PROVE LastOK'
  BY <1>1, <1>3, <1>5, LastLoads, LastReads, LastInserts, LastSkips, LastInserted, LastSaves, LastRest
     DEF Step
<1>6. ASSUME NEW p \in Pollers, StartServed(p) PROVE LastOK'
  BY <1>1, <1>3, <1>6, LastRest
<1>7. CASE CommandStep
  BY <1>1, <1>3, <1>7, LastDeletes, LastRest DEF CommandStep
<1>8. CASE Crash \/ UNCHANGED vars
  BY <1>1, <1>3, <1>8, LastRest
<1> QED BY <1>4, <1>5, <1>6, <1>7, <1>8 DEF Next

\* As long as no two polls have had one file in hand at the same time, the row
\* of a request behind the cursor holds what the last of its lines there said,
\* or what a line after it says: a replayed line, a rotation, a reset cursor, a
\* crash between the insert and the save never leaves an older line's usage
\* (dedup.go:99-161, jsonlogs.go:287-400).
THEOREM TheLastLineWins ==
    ASSUME OneFile
    PROVE  Spec => []LastLineWins
<1>1. LastInv => LastLineWins
  <2> SUFFICES ASSUME LastInv, ~ overlap, NEW f \in Files, reads[f] = gen[f],
                      NEW k \in Named(f, gen[f], 0, cursor[f]) \ (unwritten \cup wiped \cup minted)
               PROVE  \E i \in DOMAIN Text(f) : LaterLine(f, k, i) /\ rows[k] = Text(f)[i].usage
    BY DEF LastLineWins, Passed
  <2>1. k \in Keys /\ gen[f] \in 0..Generations
    BY PassedIsKeys DEF LastInv, TailInv, Typed
  <2>2. RowRight(f, gen[f], k, cursor[f])
    BY DEF LastInv, LastOK, CursorRight
  <2>3. PICK i \in 1..Len(Text(f)) : LaterLine(f, k, i) /\ rows[k] = Text(f)[i].usage
    BY <2>1, <2>2 DEF RowRight, LaterLine, Text
  <2>4. DOMAIN Text(f) = 1..Len(Text(f))
    BY <2>1, TextIs DEF Text
  <2> QED BY <2>3, <2>4
<1> QED BY <1>1, LastStarts, LastSteps, PTL DEF Spec

-----------------------------------------------------------------------------
(* What a rebuild and a rekey read again.                                  *)

CommandRecord == [pc : {"idle", "check", "delete", "reset", "poll", "done"},
                  name : {"ingest", "rebuild", "rekey"}, left : SUBSET Files]

\* No deleted row that the cursor of f has passed is missing.
Back(f) ==
    reads[f] = gen[f] =>
        \A k \in Named(f, gen[f], 0, cursor[f]) : k \in wiped => k \in unwritten

\* The poll q has yet to begin with f.
Holds(f, q) == q.pc \in {"read", "insert", "save"} /\ f = q.file
Due(f, q) == ~ Holds(f, q) /\ f \in q.walk /\ cursor[f] <= 0

\* The poll q reads f from its start, and has yet to insert what is missing.
Taken(f, q) ==
    /\ Holds(f, q) /\ f \notin q.walk /\ cursor[f] <= 0
    /\ q.pc = "read" => q.off = 0
    /\ q.pc \in {"insert", "save"} =>
          /\ q.of = gen[f]
          /\ \A k \in Named(f, q.of, 0, q.upto) :
                k \in wiped => k \in unwritten \/ \E i \in q.todo : TextOf(f, q.of)[i].key = k

\* The poll q is done with f.
Done(f, q) == ~ Holds(f, q) /\ f \notin q.walk /\ Back(f)

Redone(f, q) == Due(f, q) \/ Taken(f, q) \/ Done(f, q)

Alone == command.pc # "idle" => \A p \in Served : poll[p].pc = "idle"

Again ==
    command.name # "ingest" =>
        /\ command.pc = "reset" => \A f \in Files : present[f] => f \in command.left \/ cursor[f] = 0
        /\ command.pc = "poll" => \A f \in Files : present[f] => Redone(f, poll["cli"])
        /\ command.pc = "done" => \A f \in Files : present[f] => Back(f)

CommandOK == command \in CommandRecord /\ (poll["cli"].pc # "idle" => command.pc = "poll")

AgainInv == TailInv /\ CommandOK /\ (~ disturbed => Alone /\ Again)

\* The command's poll is not one of serve's.
LEMMA CliIs == "cli" \in Pollers /\ "cli" \notin Served /\ Served \subseteq Pollers
  BY TailAssumption DEF Pollers, TailAssumption

\* A poll of the serve process moves: no command is alone.
LEMMA AgainServed ==
    ASSUME AgainInv, TailInv', NEW p \in Served, Step(p)
    PROVE  AgainInv'
<1>1. poll[p].pc # "idle" /\ p \in Pollers /\ p # "cli"
  BY CliIs DEF Step, LoadCursor, Gone, Read, Insert, Skip, Inserted, Save, Finish
<1>2. poll'["cli"] = poll["cli"]
  <2>1. \E s : poll' = [poll EXCEPT ![p] = s]
    BY DEF Step, LoadCursor, Gone, Read, Insert, Skip, Inserted, Save, Finish, Set
  <2> QED BY <1>1, <2>1, CliIs DEF AgainInv, TailInv, Typed
<1>3. command' = command /\ disturbed' = disturbed
  BY <1>1 DEF Step, LoadCursor, Gone, Read, Insert, Skip, Inserted, Save, Finish, ghost
<1>4. disturbed \/ command.pc = "idle"
  BY <1>1 DEF AgainInv, Alone
<1> QED BY <1>2, <1>3, <1>4 DEF AgainInv, CommandOK, Alone, Again

\* The poll of the command moves to r.
LEMMA AgainMoves ==
    ASSUME AgainInv, TailInv', NEW r \in PollRecord, poll' = [poll EXCEPT !["cli"] = r],
           command.pc = "poll", UNCHANGED <<gen, present, command, disturbed>>,
           ~ disturbed /\ command.name # "ingest" => \A f \in Files : present[f] => Redone(f, r)'
    PROVE  AgainInv'
<1>1. poll'["cli"] = r /\ \A p \in Served : poll'[p] = poll[p]
  BY CliIs DEF AgainInv, TailInv, Typed
<1>2. CommandOK'
  BY DEF AgainInv, CommandOK
<1>3. ASSUME ~ disturbed PROVE Alone' /\ Again'
  <2>1. Alone'
    BY <1>1, <1>3 DEF AgainInv, Alone
  <2>2. Again'
    BY <1>1, <1>3 DEF Again, Redone, Due, Taken
  <2> QED BY <2>1, <2>2
<1> QED BY <1>2, <1>3 DEF AgainInv

\* The command's load of a cursor keeps what a re-read restores.
LEMMA AgainLoads ==
    ASSUME AgainInv, TailInv', NEW h \in Files, LoadCursor("cli", h)
    PROVE  AgainInv'
<1>1. PICK q \in PollRecord : q = poll["cli"] /\ q.pc = "walk"
  BY PollIs, CliIs DEF AgainInv, LoadCursor
<1>2. Typed /\ command.pc = "poll"
  BY <1>1 DEF AgainInv, TailInv, CommandOK
<1>3. PICK off \in {0, Stored(h)}, of \in Nat : of = reads[h] /\
        Set("cli", [q EXCEPT !.pc = "read", !.file = h, !.walk = @ \ {h}, !.off = off, !.of = of])
  BY <1>1, <1>2 DEF LoadCursor, Typed
<1>4. UNCHANGED <<gen, present, cursor, unwritten, wiped, reads, command, disturbed>>
  BY DEF LoadCursor, world, store
<1>5. off \in Nat /\ (cursor[h] <= 0 => off = 0)
  <2>1. cursor[h] \in Nat \cup {-1}
    BY <1>2 DEF Typed
  <2> QED BY <2>1 DEF Stored, Unseen
<1> DEFINE r == [[[[[q EXCEPT !.pc = "read"] EXCEPT !.file = h] EXCEPT !.walk = q.walk \ {h}]
                    EXCEPT !.off = off] EXCEPT !.of = of]
<1>6. poll' = [poll EXCEPT !["cli"] = r]
  BY <1>3 DEF Set, PollRecord
<1>7. r \in PollRecord /\ r.pc = "read" /\ r.file = h /\ r.of = of /\ r.off = off
      /\ r.walk = q.walk \ {h}
  BY <1>5 DEF PollRecord, Phases
<1> HIDE DEF r
<1>8. h \in q.walk
  BY <1>1 DEF LoadCursor
<1>9. ASSUME NEW f \in Files, Redone(f, q) PROVE Redone(f, r)'
  <2>1. CASE Done(f, q)
    BY <1>4, <1>7, <1>8, <2>1 DEF Redone, Done, Back, Holds
  <2>2. CASE Due(f, q) /\ f # h
    BY <1>4, <1>7, <2>2 DEF Redone, Due, Holds
  <2>3. CASE Due(f, q) /\ f = h
    BY <1>4, <1>5, <1>7, <2>3 DEF Redone, Due, Taken, Holds, Done
  <2>4. CASE Taken(f, q)
    BY <1>1, <2>4 DEF Taken, Holds
  <2> QED BY <1>9, <2>1, <2>2, <2>3, <2>4 DEF Redone
<1>10. ~ disturbed /\ command.name # "ingest" => \A f \in Files : present[f] => Redone(f, q)
  BY <1>1, <1>2 DEF AgainInv, Again
<1> QED BY <1>2, <1>4, <1>6, <1>7, <1>9, <1>10, AgainMoves

\* The command's finding a transcript gone keeps what a re-read restores.
LEMMA AgainGone ==
    ASSUME AgainInv, TailInv', Gone("cli")
    PROVE  AgainInv'
<1>1. PICK q \in PollRecord : q = poll["cli"] /\ q.pc = "read"
  BY PollIs, CliIs DEF AgainInv, Gone
<1>2. command.pc = "poll" /\ ~ present[q.file]
  BY <1>1 DEF AgainInv, CommandOK, Gone
<1>3. PICK r \in PollRecord : r = [q EXCEPT !.pc = "walk"] /\ r.pc = "walk" /\ r.walk = q.walk
  <2>1. [q EXCEPT !.pc = "walk"] \in PollRecord /\ [q EXCEPT !.pc = "walk"].pc = "walk"
        /\ [q EXCEPT !.pc = "walk"].walk = q.walk
    BY DEF PollRecord, Phases
  <2> QED BY <2>1
<1>4. poll' = [poll EXCEPT !["cli"] = r]
      /\ UNCHANGED <<gen, present, cursor, unwritten, wiped, reads, command, disturbed>>
  BY <1>1, <1>3 DEF Gone, Set, world, store, ghost
<1>5. ASSUME NEW f \in Files, present[f], Redone(f, q) PROVE Redone(f, r)'
  <2>1. CASE Done(f, q)
    BY <1>3, <1>4, <2>1 DEF Redone, Done, Back, Holds
  <2>2. CASE Due(f, q)
    BY <1>3, <1>4, <2>2 DEF Redone, Due, Holds
  <2>3. CASE Taken(f, q)
    BY <1>2, <1>5, <2>3 DEF Taken, Holds
  <2> QED BY <1>5, <2>1, <2>2, <2>3 DEF Redone
<1>6. ~ disturbed /\ command.name # "ingest" => \A f \in Files : present[f] => Redone(f, q)
  BY <1>1, <1>2 DEF AgainInv, Again
<1> QED BY <1>2, <1>4, <1>5, <1>6, AgainMoves

\* The command's reading keeps what a re-read restores.
LEMMA AgainReads ==
    ASSUME AgainInv, TailInv', Read("cli")
    PROVE  AgainInv'
<1>1. PICK q \in PollRecord : q = poll["cli"] /\ q.pc = "read" /\ PollOK(q)
  BY PollIs, CliIs DEF AgainInv, Read
<1>2. Typed /\ command.pc = "poll"
  BY <1>1 DEF AgainInv, TailInv, CommandOK
<1>3. PICK h \in Files, g \in 0..Generations, n \in Nat :
         h = q.file /\ g = gen[h] /\ n = size[h]
  BY <1>1, <1>2 DEF PollOK, Typed
<1>4. PICK from \in Nat : from = Offset(h, q.off) /\ (q.off = 0 => from = 0)
  BY <1>3 DEF Offset, PollRecord
<1>5. PICK of \in Nat : of = (IF from = 0 THEN g ELSE q.of)
  BY <1>1, <1>3, TailAssumption DEF PollRecord, TailAssumption
<1>6. PICK todo \in SUBSET Nat : todo = LastOfEach(h, from, n)
  <2>1. LastOfEach(h, from, n) \subseteq (from + 1)..n
    BY DEF LastOfEach
  <2>2. LastOfEach(h, from, n) \subseteq Nat
    BY <2>1
  <2> QED BY <2>2
<1> DEFINE r == [[[[[[q EXCEPT !.pc = "insert"] EXCEPT !.off = from] EXCEPT !.upto = n]
                     EXCEPT !.at = g] EXCEPT !.of = of] EXCEPT !.todo = todo]
<1>7. poll' = [poll EXCEPT !["cli"] = r]
  <2>1. Set("cli", [q EXCEPT !.pc = "insert", !.off = from, !.upto = n, !.at = g,
                             !.of = IF from = 0 THEN g ELSE @, !.todo = todo])
    BY <1>1, <1>3, <1>4, <1>6 DEF Read, Complete
  <2> QED BY <1>5, <2>1 DEF Set, PollRecord
<1>8. /\ r \in PollRecord /\ r.pc = "insert" /\ r.file = h /\ r.of = of
      /\ r.upto = n /\ r.todo = todo /\ r.walk = q.walk
  <2>1. g \in Nat /\ q.file = h
    BY <1>3, TailAssumption DEF TailAssumption
  <2>2. r \in PollRecord
    BY <2>1 DEF PollRecord, Phases
  <2>3. r.pc = "insert" /\ r.file = q.file /\ r.of = of /\ r.walk = q.walk
    BY DEF PollRecord
  <2>4. r.upto = n /\ r.todo = todo
    BY DEF PollRecord
  <2> QED BY <2>1, <2>2, <2>3, <2>4
<1> HIDE DEF r
<1>9. UNCHANGED <<gen, present, cursor, unwritten, wiped, reads, command, disturbed>>
  BY DEF Read, world, store, ghost
<1>10. ASSUME NEW f \in Files, Redone(f, q) PROVE Redone(f, r)'
  <2>1. CASE Done(f, q)
    BY <1>1, <1>3, <1>8, <1>9, <2>1 DEF Redone, Done, Back, Holds
  <2>2. CASE Due(f, q)
    BY <1>1, <1>3, <1>8, <1>9, <2>2 DEF Redone, Due, Holds
  <2>3. CASE Taken(f, q)
    <3>1. f = h /\ from = 0 /\ of = g /\ cursor[f] <= 0 /\ f \notin q.walk
      BY <1>1, <1>3, <1>4, <1>5, <2>3 DEF Taken, Holds
    <3>2. ASSUME NEW k \in Named(h, g, 0, n) PROVE \E i \in todo : TextOf(h, g)[i].key = k
      <4>1. k \in Named(h, gen[h], 0, n)
        BY <1>3, <3>2
      <4>2. \E i \in LastOfEach(h, 0, n) : TextOf(h, gen[h])[i].key = k
        BY <1>2, <4>1, Represented
      <4> QED BY <1>3, <1>6, <3>1, <4>2
    <3>3. Taken(f, r)'
      BY <1>3, <1>8, <1>9, <3>1, <3>2 DEF Taken, Holds
    <3> QED BY <3>3 DEF Redone
  <2> QED BY <1>10, <2>1, <2>2, <2>3 DEF Redone
<1>11. ~ disturbed /\ command.name # "ingest" => \A f \in Files : present[f] => Redone(f, q)
  BY <1>1, <1>2 DEF AgainInv, Again
<1> QED BY <1>2, <1>7, <1>8, <1>9, <1>10, <1>11, AgainMoves

\* A request leaves the hand of the command's poll: written, or counted as failed.
LEMMA AgainHandled ==
    ASSUME AgainInv, TailInv', NEW i \in MaxLines, Insert("cli", i) \/ Skip("cli", i)
    PROVE  AgainInv'
<1>1. PICK q \in PollRecord : q = poll["cli"] /\ q.pc = "insert" /\ i \in q.todo /\ PollOK(q)
  BY PollIs, CliIs DEF AgainInv, Insert, Skip, IsNext
<1>2. command.pc = "poll" /\ Typed
  BY <1>1 DEF AgainInv, CommandOK, TailInv
<1>3. PICK key : key = TextOf(q.file, q.at)[i].key
  OBVIOUS
<1>4. /\ \/ wiped' = wiped \ {key} /\ unwritten' = unwritten \ {key}
         \/ wiped' = wiped /\ unwritten' = unwritten \cup {key}
      /\ UNCHANGED <<gen, present, cursor, reads, command, disturbed>>
      /\ poll' = [poll EXCEPT !["cli"] = [q EXCEPT !.todo = @ \ {i}]]
  BY <1>1, <1>3 DEF Insert, Skip, Set, world, store
<1> DEFINE r == [q EXCEPT !.todo = q.todo \ {i}]
<1>5. poll' = [poll EXCEPT !["cli"] = r]
  BY <1>4
<1>6. /\ r \in PollRecord /\ r.pc = "insert" /\ r.file = q.file /\ r.of = q.of /\ r.walk = q.walk
      /\ r.upto = q.upto /\ r.todo = q.todo \ {i}
  BY <1>1 DEF PollRecord, Phases
<1> HIDE DEF r
<1>7. \A k : (k \in wiped => k \in unwritten) \/ k = key => (k \in wiped' => k \in unwritten')
  BY <1>4
<1>8. ASSUME NEW f \in Files, Redone(f, q) PROVE Redone(f, r)'
  <2>1. CASE Done(f, q)
    <3>1. Back(f)'
      BY <1>4, <1>7, <2>1 DEF Done, Back
    <3> QED BY <1>1, <1>6, <2>1, <3>1 DEF Redone, Done, Holds
  <2>2. CASE Due(f, q)
    BY <1>1, <1>4, <1>6, <2>2 DEF Redone, Due, Holds
  <2>3. CASE Taken(f, q)
    <3>1. f = q.file /\ q.of = gen[f] /\ cursor[f] <= 0 /\ f \notin q.walk
          /\ \A k \in Named(f, q.of, 0, q.upto) :
                k \in wiped => k \in unwritten \/ \E j \in q.todo : TextOf(f, q.of)[j].key = k
      BY <1>1, <2>3 DEF Taken, Holds
    <3>2. q.at = q.of
      <4>1. gen[f] \in 0..Generations
        BY <1>2 DEF Typed
      <4> QED BY <1>1, <3>1, <4>1 DEF PollOK, PollRecord
    <3>3. ASSUME NEW k \in Named(f, q.of, 0, q.upto), k \in wiped', k \notin unwritten'
          PROVE  \E j \in q.todo \ {i} : TextOf(f, q.of)[j].key = k
      <4>1. k \in wiped /\ k \notin unwritten /\ k # key
        BY <1>7, <3>3
      <4>2. PICK j \in q.todo : TextOf(f, q.of)[j].key = k
        BY <3>1, <3>3, <4>1
      <4> QED BY <1>3, <3>1, <3>2, <4>1, <4>2
    <3>4. Taken(f, r)'
      BY <1>4, <1>6, <3>1, <3>3 DEF Taken, Holds
    <3> QED BY <3>4 DEF Redone
  <2> QED BY <1>8, <2>1, <2>2, <2>3 DEF Redone
<1>9. ~ disturbed /\ command.name # "ingest" => \A f \in Files : present[f] => Redone(f, q)
  BY <1>1, <1>2 DEF AgainInv, Again
<1> QED BY <1>2, <1>4, <1>5, <1>6, <1>8, <1>9, AgainMoves

\* The end of a file's lines keeps what a re-read restores.
LEMMA AgainInserted ==
    ASSUME AgainInv, TailInv', Inserted("cli")
    PROVE  AgainInv'
<1>1. PICK q \in PollRecord : q = poll["cli"] /\ q.pc = "insert" /\ q.todo = {}
  BY PollIs, CliIs DEF AgainInv, Inserted
<1>2. command.pc = "poll"
  BY <1>1 DEF AgainInv, CommandOK
<1> DEFINE r == [q EXCEPT !.pc = "save"]
<1>3. poll' = [poll EXCEPT !["cli"] = r]
      /\ UNCHANGED <<gen, present, cursor, unwritten, wiped, reads, command, disturbed>>
  BY <1>1 DEF Inserted, Set, world, store, ghost
<1>4. /\ r \in PollRecord /\ r.pc = "save" /\ r.file = q.file /\ r.of = q.of /\ r.walk = q.walk
      /\ r.upto = q.upto /\ r.todo = q.todo
  BY <1>1 DEF PollRecord, Phases
<1> HIDE DEF r
<1>5. ASSUME NEW f \in Files, Redone(f, q) PROVE Redone(f, r)'
  BY <1>1, <1>3, <1>4, <1>5 DEF Redone, Done, Back, Holds, Due, Taken
<1>6. ~ disturbed /\ command.name # "ingest" => \A f \in Files : present[f] => Redone(f, q)
  BY <1>1, <1>2 DEF AgainInv, Again
<1> QED BY <1>2, <1>3, <1>4, <1>5, <1>6, AgainMoves

\* The command's saving of a cursor keeps what a re-read restores.
LEMMA AgainSaves ==
    ASSUME AgainInv, TailInv', Save("cli")
    PROVE  AgainInv'
<1>1. PICK q \in PollRecord : q = poll["cli"] /\ q.pc = "save" /\ PollOK(q)
  BY PollIs, CliIs DEF AgainInv, Save
<1>2. command.pc = "poll" /\ Typed /\ q.todo = {}
  BY <1>1 DEF AgainInv, CommandOK, TailInv, PollOK
<1>3. PICK h \in Files : h = q.file
  BY <1>1 DEF PollOK
<1>4. PICK r \in PollRecord : r = [q EXCEPT !.pc = "walk"] /\ r.pc = "walk" /\ r.walk = q.walk
  <2>1. [q EXCEPT !.pc = "walk"] \in PollRecord /\ [q EXCEPT !.pc = "walk"].pc = "walk"
        /\ [q EXCEPT !.pc = "walk"].walk = q.walk
    BY DEF PollRecord, Phases
  <2> QED BY <2>1
<1>5. poll' = [poll EXCEPT !["cli"] = r]
      /\ UNCHANGED <<gen, present, unwritten, wiped, command, disturbed>>
  BY <1>1, <1>4 DEF Save, Set, world
<1>6. \A x \in Files : \/ cursor'[x] = cursor[x] /\ reads'[x] = reads[x]
                       \/ x = h /\ cursor'[x] = q.upto /\ reads'[x] = q.of
  <2>1. \/ cursor' = [cursor EXCEPT ![h] = q.upto] /\ reads' = [reads EXCEPT ![h] = q.of]
        \/ UNCHANGED <<cursor, reads>>
    BY <1>1, <1>3 DEF Save
  <2> QED BY <1>2, <2>1 DEF Typed
<1>7. ASSUME NEW f \in Files, Redone(f, q) PROVE Redone(f, r)'
  <2>1. CASE cursor'[f] = cursor[f] /\ reads'[f] = reads[f]
    <3>1. CASE Done(f, q)
      BY <1>4, <1>5, <2>1, <3>1 DEF Redone, Done, Back, Holds
    <3>2. CASE Due(f, q)
      BY <1>4, <2>1, <3>2 DEF Redone, Due, Holds
    <3>3. CASE Taken(f, q)
      <4>1. cursor'[f] \in Int /\ cursor'[f] <= 0
        BY <1>2, <2>1, <3>3 DEF Typed, Taken
      <4>2. Back(f)'
        BY <4>1, NamedNone DEF Back
      <4> QED BY <1>4, <3>3, <4>2 DEF Redone, Done, Taken, Holds
    <3> QED BY <1>7, <3>1, <3>2, <3>3 DEF Redone
  <2>2. CASE f = h /\ cursor'[f] = q.upto /\ reads'[f] = q.of
    <3>1. Taken(f, q)
      BY <1>1, <1>3, <1>7, <2>2 DEF Redone, Done, Due, Holds
    <3>2. Back(f)'
      BY <1>1, <1>2, <1>5, <2>2, <3>1 DEF Taken, Back
    <3> QED BY <1>4, <3>1, <3>2 DEF Redone, Done, Taken, Holds
  <2> QED BY <1>6, <2>1, <2>2
<1>8. ~ disturbed /\ command.name # "ingest" => \A f \in Files : present[f] => Redone(f, q)
  BY <1>1, <1>2 DEF AgainInv, Again
<1> QED BY <1>2, <1>5, <1>7, <1>8, AgainMoves

\* The command's poll is done with every file.
LEMMA AgainFinishes ==
    ASSUME AgainInv, TailInv', Finish("cli")
    PROVE  AgainInv'
<1>1. PICK q \in PollRecord : q = poll["cli"] /\ q.pc = "walk" /\ q.walk = {}
  BY PollIs, CliIs DEF AgainInv, Finish
<1>2. command.pc = "poll" /\ command \in CommandRecord
  BY <1>1 DEF AgainInv, CommandOK
<1>3. PICK r \in PollRecord : r = Resting /\ r.pc = "idle"
  BY WalkIs
<1>4. poll' = [poll EXCEPT !["cli"] = r] /\ command' = [command EXCEPT !.pc = "done"]
      /\ UNCHANGED <<gen, present, cursor, unwritten, wiped, reads, disturbed>>
  BY <1>3 DEF Finish, Set, world, store, ghost
<1>5. command' \in CommandRecord /\ command'.pc = "done" /\ command'.name = command.name
  BY <1>2, <1>4 DEF CommandRecord
<1>6. poll'["cli"] = r /\ \A p \in Served : poll'[p] = poll[p]
  BY <1>4, CliIs DEF AgainInv, TailInv, Typed
<1>7. CommandOK'
  BY <1>3, <1>5, <1>6 DEF CommandOK
<1>8. ASSUME ~ disturbed PROVE Alone' /\ Again'
  <2>1. Alone /\ Again
    BY <1>8 DEF AgainInv
  <2>2. command.name # "ingest" => \A f \in Files : present[f] => Back(f)
    BY <1>1, <1>2, <2>1 DEF Again, Redone, Due, Taken, Done, Holds
  <2>3. Alone'
    BY <1>2, <1>6, <2>1 DEF Alone
  <2>4. Again'
    BY <1>4, <1>5, <2>2 DEF Again, Back
  <2> QED BY <2>3, <2>4
<1> QED BY <1>4, <1>7, <1>8 DEF AgainInv

\* Every step of a poll keeps what a re-read restores.
LEMMA AgainPolls ==
    ASSUME AgainInv, TailInv', NEW p \in Pollers, Step(p)
    PROVE  AgainInv'
  BY AgainServed, AgainLoads, AgainGone, AgainReads, AgainHandled, AgainInserted, AgainSaves,
     AgainFinishes DEF Step, Pollers

\* The serve process begins or ends a poll, or Claude Code moves a file.
LEMMA AgainWorld ==
    ASSUME AgainInv, TailInv',
           Client \/ Crash \/ UNCHANGED vars \/ \E p \in Pollers : StartServed(p)
    PROVE  AgainInv'
<1>1. command' = command
  BY DEF Client, BeginLine, EndLine, Replace, Remove, Crash, vars, StartServed
<1>2. poll'["cli"] = poll["cli"]
  BY CliIs DEF AgainInv, TailInv, Typed, Client, BeginLine, EndLine, Replace, Remove, Crash, vars,
                StartServed, Set
<1>3. CommandOK'
  BY <1>1, <1>2 DEF AgainInv, CommandOK
<1>4. CASE disturbed' = TRUE
  BY <1>3, <1>4 DEF AgainInv
<1>5. CASE UNCHANGED <<gen, present, cursor, unwritten, wiped, reads, disturbed>>
           /\ \A p \in Served : poll'[p] = poll[p] \/ poll'[p].pc = "idle"
  <2> SUFFICES ASSUME ~ disturbed PROVE Alone' /\ Again'
    BY <1>3, <1>5 DEF AgainInv
  <2>1. Alone'
    BY <1>1, <1>5 DEF AgainInv, Alone
  <2>2. Again
    BY DEF AgainInv
  <2>3. \A f \in Files : (Back(f) => Back(f)') /\ (Redone(f, poll["cli"]) => Redone(f, poll["cli"])')
    BY <1>2, <1>5 DEF Back, Redone, Due, Taken, Done, Holds
  <2>4. Again'
    BY <1>1, <1>5, <2>2, <2>3 DEF Again
  <2> QED BY <2>1, <2>4
<1>6. CASE Client \/ UNCHANGED vars
  <2>1. disturbed' = TRUE \/ UNCHANGED <<gen, present, cursor, unwritten, wiped, reads, disturbed>>
    BY <1>6 DEF Client, BeginLine, EndLine, Replace, Remove, vars, world, store, ghost
  <2>2. poll' = poll
    BY <1>6 DEF Client, BeginLine, EndLine, Replace, Remove, vars
  <2> QED BY <1>4, <1>5, <2>1, <2>2
<1>7. CASE Crash
  <2>1. UNCHANGED <<gen, present, cursor, unwritten, wiped, reads, disturbed>>
    BY <1>7 DEF Crash, world, store, ghost
  <2>2. \A p \in Served : poll'[p].pc = "idle"
    BY <1>7, CliIs, WalkIs DEF Crash
  <2> QED BY <1>5, <2>1, <2>2
<1>8. CASE \E p \in Pollers : StartServed(p)
  BY <1>4, <1>8 DEF StartServed
<1> QED BY <1>6, <1>7, <1>8

\* Each step of a command keeps what a re-read restores.
LEMMA AgainCommands ==
    ASSUME AgainInv, TailInv', CommandStep
    PROVE  AgainInv'
<1>1. command \in CommandRecord /\ TailInv /\ Typed
  BY DEF AgainInv, CommandOK, TailInv
<1>2. PICK c \in CommandRecord : c = command
  BY <1>1
<1>3. PICK w \in PollRecord : w = Walk /\ w.pc = "walk" /\ w.walk = {f \in Files : present[f]}
  <2>1. Walk.walk = {f \in Files : present[f]}
    BY DEF Walk, Resting
  <2> QED BY <2>1, WalkIs
<1>4. PICK r \in PollRecord : r = Resting /\ r.pc = "idle"
  BY WalkIs
<1>5. ASSUME NEW name \in Commands, Ask(name) PROVE AgainInv'
  <2>1. PICK d \in CommandRecord :
           /\ d = command' /\ d.name = name /\ d.left = {f \in Files : present[f]}
           /\ d.pc = CASE name = "ingest" -> "poll" [] name = "rebuild" -> "reset"
                       [] name = "rekey" -> "check"
    <3>1. name \in {"ingest", "rebuild", "rekey"}
      BY TailAssumption DEF TailAssumption
    <3> QED BY <1>5, <3>1 DEF Ask, CommandRecord
  <2>2. poll' = (IF name = "ingest" THEN [poll EXCEPT !["cli"] = w] ELSE poll)
        /\ disturbed' = (\E p \in Served : Busy(p)) /\ c.pc = "idle"
    BY <1>2, <1>3, <1>5 DEF Ask
  <2>3. \A p \in Served : poll'[p] = poll[p]
    BY <1>1, <2>2, CliIs DEF Typed
  <2>4. CommandOK'
    <3>1. poll["cli"].pc # "idle" => FALSE
      BY <1>2, <2>2 DEF AgainInv, CommandOK
    <3>2. name # "ingest" => poll' = poll
      BY <2>2
    <3>3. name = "ingest" => d.pc = "poll"
      BY <2>1
    <3> QED BY <2>1, <3>1, <3>2, <3>3 DEF CommandOK
  <2>5. ASSUME ~ disturbed' PROVE Alone' /\ Again'
    <3>1. Alone'
      BY <2>2, <2>3, <2>5 DEF Alone, Busy
    <3>2. Again'
      <4>1. present' = present
        BY <1>5 DEF Ask, world
      <4>2. d.name # "ingest" => d.pc \in {"reset", "check"}
        BY <2>1, TailAssumption DEF TailAssumption
      <4> QED BY <2>1, <4>1, <4>2 DEF Again
    <3> QED BY <3>1, <3>2
  <2> QED BY <2>4, <2>5 DEF AgainInv
<1>6. CASE Check
  <2>1. command' = [c EXCEPT !.pc = IF \A f \in Files : Reliable(f) THEN "delete" ELSE "idle"]
        /\ c.pc = "check" /\ poll' = poll /\ disturbed' = disturbed
    BY <1>2, <1>6 DEF Check, ghost
  <2>2. command' \in CommandRecord /\ command'.pc \in {"delete", "idle"}
    BY <2>1 DEF CommandRecord
  <2>3. CommandOK'
    BY <1>2, <2>1, <2>2 DEF AgainInv, CommandOK
  <2>4. Again' /\ (Alone => Alone')
    BY <1>2, <2>1, <2>2 DEF Again, Alone
  <2> QED BY <2>1, <2>3, <2>4 DEF AgainInv
<1>7. CASE Delete
  <2>1. command' = [[c EXCEPT !.pc = "reset"] EXCEPT !.left = {f \in Files : present[f]}]
        /\ c.pc = "delete" /\ poll' = poll /\ disturbed' = disturbed /\ present' = present
    BY <1>2, <1>7 DEF Delete, DeleteAndReset, world, CommandRecord
  <2>2. command' \in CommandRecord /\ command'.pc = "reset"
        /\ command'.left = {f \in Files : present[f]}
    BY <2>1 DEF CommandRecord
  <2>3. CommandOK'
    BY <1>2, <2>1, <2>2 DEF AgainInv, CommandOK
  <2>4. Again'
    BY <2>1, <2>2 DEF Again
  <2>5. Alone => Alone'
    BY <1>2, <2>1, <2>2 DEF Alone
  <2> QED BY <2>1, <2>3, <2>4, <2>5 DEF AgainInv
<1>8. ASSUME NEW h \in Files, Reset(h) PROVE AgainInv'
  <2>1. command' = [c EXCEPT !.left = c.left \ {h}]
        /\ c.pc = "reset" /\ poll' = poll /\ disturbed' = disturbed /\ present' = present
        /\ cursor' = [cursor EXCEPT ![h] = 0]
    BY <1>2, <1>8 DEF Reset, world
  <2>2. command' \in CommandRecord /\ command'.pc = "reset" /\ command'.name = c.name
        /\ command'.left = c.left \ {h}
    BY <2>1 DEF CommandRecord
  <2>3. CommandOK'
    BY <1>2, <2>1, <2>2 DEF AgainInv, CommandOK
  <2>4. \A f \in Files : (f \in c.left \/ cursor[f] = 0) => (f \in c.left \ {h} \/ cursor'[f] = 0)
    BY <1>1, <2>1 DEF Typed
  <2>5. Again => Again'
    BY <1>2, <2>1, <2>2, <2>4 DEF Again
  <2>6. Alone => Alone'
    BY <1>2, <2>1, <2>2 DEF Alone
  <2> QED BY <2>1, <2>3, <2>5, <2>6 DEF AgainInv
<1>9. CASE Reread
  <2>1. command' = [c EXCEPT !.pc = "poll"] /\ c.pc = "reset" /\ c.left = {}
        /\ poll' = [poll EXCEPT !["cli"] = w] /\ UNCHANGED <<disturbed, present, cursor>>
    BY <1>2, <1>3, <1>9 DEF Reread, Set, world, store, ghost
  <2>2. command' \in CommandRecord /\ command'.pc = "poll" /\ command'.name = c.name
    BY <2>1 DEF CommandRecord
  <2>3. poll'["cli"] = w /\ \A p \in Served : poll'[p] = poll[p]
    BY <1>1, <2>1, CliIs DEF Typed
  <2>4. CommandOK'
    BY <2>2 DEF CommandOK
  <2>5. ASSUME Again PROVE Again'
    <3>1. c.name # "ingest" => \A f \in Files : present[f] => f \in w.walk /\ cursor[f] <= 0
      BY <1>2, <1>3, <2>1, <2>5 DEF Again
    <3>2. c.name # "ingest" => \A f \in Files : present[f] => Redone(f, w)'
      BY <1>3, <2>1, <3>1 DEF Redone, Due, Holds
    <3>3. \A f \in Files : Redone(f, w)' => Redone(f, poll["cli"])'
      BY <2>3 DEF Redone, Due, Taken, Done, Holds
    <3> QED BY <2>1, <2>2, <3>2, <3>3 DEF Again
  <2>6. Alone => Alone'
    BY <1>2, <2>1, <2>3 DEF Alone
  <2> QED BY <2>1, <2>4, <2>5, <2>6 DEF AgainInv
<1>10. CASE Abort
  <2>1. command' = NoCommand /\ poll' = [poll EXCEPT !["cli"] = r] /\ disturbed' = disturbed
    BY <1>4, <1>10 DEF Abort, Set, ghost
  <2>2. command' \in CommandRecord /\ command'.pc = "idle"
    BY <2>1 DEF NoCommand, CommandRecord
  <2>3. poll'["cli"] = r
    BY <1>1, <2>1, CliIs DEF Typed
  <2>4. CommandOK' /\ Alone' /\ Again'
    BY <1>4, <2>2, <2>3 DEF CommandOK, Alone, Again
  <2> QED BY <2>4 DEF AgainInv
<1> QED BY <1>5, <1>6, <1>7, <1>8, <1>9, <1>10 DEF CommandStep

\* A rebuild or a rekey that ran to its end undisturbed (no other poll, no file
\* removed or replaced since it began) gave back every row it deleted that the
\* cursors have passed again, wherever an earlier attempt was killed and
\* whatever Claude Code appended meanwhile (rekey.go:91-103, cli/ingest.go:142-158).
THEOREM RereadsRestore == Spec => []RereadRestores
<1>1. Init => AgainInv
  <2> SUFFICES ASSUME Init PROVE AgainInv
    OBVIOUS
  <2>1. TailInv /\ command = NoCommand /\ poll["cli"] = Resting
    BY TailStarts, CliIs DEF Init
  <2> QED BY <2>1, WalkIs DEF AgainInv, CommandOK, Alone, Again, NoCommand, CommandRecord
<1>2. AgainInv /\ [Next]_vars => AgainInv'
  <2> SUFFICES ASSUME AgainInv, [Next]_vars PROVE AgainInv'
    OBVIOUS
  <2>1. TailInv'
    BY TailSteps DEF AgainInv
  <2> QED BY <2>1, AgainPolls, AgainWorld, AgainCommands DEF Next
<1>3. AgainInv => RereadRestores
  <2> SUFFICES ASSUME AgainInv, command.pc = "done", command.name # "ingest", ~ disturbed,
                      NEW f \in Files, present[f], reads[f] = gen[f],
                      NEW k \in Named(f, gen[f], 0, cursor[f]), k \in wiped
               PROVE  k \in unwritten
    BY DEF RereadRestores, Restored, Passed
  <2> QED BY DEF AgainInv, Again, Back
<1> QED BY <1>1, <1>2, <1>3, PTL DEF Spec
=============================================================================
