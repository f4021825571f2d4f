---------------------------- MODULE StreamProofs ----------------------------
(***************************************************************************)
(* StreamParse, for every stream of events, every line ending and every    *)
(* chunking: a response is read as what was sent.                          *)
(*                                                                         *)
(* ReadsOn: the carry holds no whole event; followed by what is yet to     *)
(* come it is the text of the events after the first k, of which the last  *)
(* blank line may be cut off; and the frames are those of the first k.     *)
(* The first half is about texts (an event is found where it ends, and     *)
(* nowhere else), the second about frames and what they cost.              *)
(***************************************************************************)
EXTENDS StreamParse, FiniteSetTheorems, WellFoundedInduction, TLAPS

Symbols == Lines \cup {CR, LF}

-----------------------------------------------------------------------------
\* A set that has 0 and with a number the next has all up to a bound: how facts
\* about a loop are proved.
LEMMA Climb ==
    ASSUME NEW N \in Nat, NEW S, 0 \in S, \A n \in 0..(N - 1) : n \in S => n + 1 \in S
    PROVE  \A n \in 0..N : n \in S
<1> DEFINE T == (0..N) \ S
<1>1. ASSUME T # {} PROVE FALSE
  <2>1. T \subseteq Nat
    OBVIOUS
  <2>2. PICK x \in T : \A y \in T : ~ (<<y, x>> \in OpToRel(<, Nat))
    BY <1>1, <2>1, NatLessThanWellFounded, WFMin
  <2>3. x \in 0..N /\ x \notin S /\ x # 0
    BY <2>2
  <2>4. x - 1 \in 0..(N - 1) /\ x - 1 \in Nat /\ x \in Nat
    BY <2>3
  <2>5. x - 1 \notin S
    BY <2>3, <2>4
  <2>6. x - 1 \in T
    BY <2>4, <2>5
  <2>7. <<x - 1, x>> \in OpToRel(<, Nat)
    BY <2>4 DEF OpToRel
  <2> QED BY <2>2, <2>6, <2>7
<1> QED BY <1>1

-----------------------------------------------------------------------------
(* Sequences joined.                                                       *)

\* What two sequences joined are.
LEMMA ConcatIs ==
    ASSUME NEW A, NEW s \in Seq(A), NEW t \in Seq(A)
    PROVE  /\ s \o t \in Seq(A) /\ Len(s \o t) = Len(s) + Len(t)
           /\ Len(s) \in Nat /\ Len(t) \in Nat
           /\ \A i \in 1..Len(s) : (s \o t)[i] = s[i]
           /\ \A i \in 1..Len(t) : (s \o t)[Len(s) + i] = t[i]
OBVIOUS

\* Sequences of the same elements are the same.
LEMMA SameSeq ==
    ASSUME NEW A, NEW s \in Seq(A), NEW t \in Seq(A), Len(s) = Len(t),
           \A i \in 1..Len(s) : s[i] = t[i]
    PROVE  s = t
OBVIOUS

\* g has the joins of the first parts of p.
Joining(p, g) ==
    g = [i \in 1..Len(p) |-> IF i = 1 THEN p[i] ELSE g[i - 1] \o p[i]]

\* Each is the one before with a part added.
LEMMA JoiningAt ==
    ASSUME NEW p, NEW g, Joining(p, g), NEW i \in 1..Len(p)
    PROVE  g[i] = IF i = 1 THEN p[i] ELSE g[i - 1] \o p[i]
BY DEF Joining

\* There are such joins.
LEMMA JoiningExists == ASSUME NEW p, Len(p) \in Nat PROVE \E g : Joining(p, g)
<1> DEFINE Upto(n, g) == g = [i \in 1..n |-> IF i = 1 THEN p[i] ELSE g[i - 1] \o p[i]]
           S == {n \in 0..Len(p) : \E g : Upto(n, g)}
<1>1. 0 \in S
  <2>1. Upto(0, <<>>)
    OBVIOUS
  <2> HIDE DEF Upto
  <2> QED BY <2>1
<1>2. ASSUME NEW n \in 0..(Len(p) - 1), n \in S PROVE n + 1 \in S
  <2>1. PICK g : Upto(n, g)
    BY <1>2
  <2> DEFINE h == [i \in 1..(n + 1) |-> IF i = 1 THEN p[i] ELSE g[i - 1] \o p[i]]
  <2>2. ASSUME NEW i \in 1..n PROVE h[i] = g[i]
    <3>1. g[i] = IF i = 1 THEN p[i] ELSE g[i - 1] \o p[i]
      BY <2>1
    <3>2. i \in 1..(n + 1)
      OBVIOUS
    <3>3. h[i] = IF i = 1 THEN p[i] ELSE g[i - 1] \o p[i]
      BY <3>2
    <3> QED BY <3>1, <3>3
  <2>3. ASSUME NEW i \in 1..(n + 1)
        PROVE  (IF i = 1 THEN p[i] ELSE g[i - 1] \o p[i]) = IF i = 1 THEN p[i] ELSE h[i - 1] \o p[i]
    <3>1. i # 1 => i - 1 \in 1..n
      OBVIOUS
    <3> HIDE DEF h
    <3> QED BY <2>2, <3>1
  <2>4. Upto(n + 1, h)
    <3> DEFINE k == [i \in 1..(n + 1) |-> IF i = 1 THEN p[i] ELSE h[i - 1] \o p[i]]
    <3>1. h = k
      <4> SUFFICES \A i \in 1..(n + 1) : h[i] = k[i]
        OBVIOUS
      <4> QED BY <2>3
    <3> QED BY <3>1
  <2> HIDE DEF Upto, h
  <2> QED BY <2>4 DEF S
<1> HIDE DEF S
<1>3. Len(p) \in 0..Len(p) /\ \A n \in 0..Len(p) : n \in S
  BY <1>1, <1>2, Climb
<1>4. PICK g : Upto(Len(p), g)
  BY <1>3 DEF S
<1> QED BY <1>4 DEF Joining

\* Joining an added part adds it.
LEMMA FlattenIs ==
    ASSUME NEW A, NEW p \in Seq(Seq(A))
    PROVE  /\ FlattenSeq(p) \in Seq(A)
           /\ p = <<>> => FlattenSeq(p) = <<>>
           /\ \A q \in Seq(A) : FlattenSeq(Append(p, q)) = FlattenSeq(p) \o q
<1>1. Len(p) \in Nat
  OBVIOUS
<1>2. ASSUME NEW r \in Seq(Seq(A)), r # <<>>
      PROVE  \E h : Joining(r, h) /\ FlattenSeq(r) = h[Len(r)]
  <2>1. \E g : Joining(r, g)
    BY JoiningExists
  <2>2. Len(r) # 0
    BY <1>2
  <2> QED BY <2>1, <2>2 DEF FlattenSeq, Joining
<1>3. p = <<>> => FlattenSeq(p) = <<>>
  BY DEF FlattenSeq
<1>4. FlattenSeq(p) \in Seq(A)
  <2>1. CASE p = <<>>
    <3>1. <<>> \in Seq(A)
      OBVIOUS
    <3> QED BY <1>3, <2>1, <3>1
  <2>2. CASE p # <<>>
    <3>1. PICK h : Joining(p, h) /\ FlattenSeq(p) = h[Len(p)]
      BY <1>2, <2>2
    <3> DEFINE S == {n \in 0..Len(p) : n # 0 => h[n] \in Seq(A)}
    <3>2. 0 \in S
      OBVIOUS
    <3>3. ASSUME NEW n \in 0..(Len(p) - 1), n \in S PROVE n + 1 \in S
      <4>1. n + 1 \in 1..Len(p) /\ p[n + 1] \in Seq(A) /\ n + 1 - 1 = n
        OBVIOUS
      <4>2. h[n + 1] = IF n + 1 = 1 THEN p[n + 1] ELSE h[n + 1 - 1] \o p[n + 1]
        BY <3>1, <4>1, JoiningAt
      <4>3. CASE n = 0
        BY <4>1, <4>2, <4>3
      <4>4. CASE n # 0
        <5>1. h[n + 1] = h[n] \o p[n + 1]
          <6>1. n + 1 # 1
            BY <4>4
          <6> QED BY <4>1, <4>2, <6>1
        <5>2. h[n] \in Seq(A)
          BY <3>3, <4>4
        <5>3. h[n + 1] \in Seq(A)
          BY <4>1, <5>1, <5>2
        <5> QED BY <4>1, <5>3
      <4> QED BY <4>3, <4>4
    <3> HIDE DEF S
    <3>4. Len(p) \in Nat /\ \A n \in 0..Len(p) : n \in S
      BY <1>1, <3>2, <3>3, Climb
    <3> QED BY <2>2, <3>1, <3>4 DEF S
  <2> QED BY <2>1, <2>2
<1>5. ASSUME NEW q \in Seq(A) PROVE FlattenSeq(Append(p, q)) = FlattenSeq(p) \o q
  <2> DEFINE r == Append(p, q)
  <2>1. r \in Seq(Seq(A)) /\ r # <<>> /\ Len(r) = Len(p) + 1 /\ r[Len(p) + 1] = q
        /\ \A i \in 1..Len(p) : r[i] = p[i]
    <3>1. r \in Seq(Seq(A))
      OBVIOUS
    <3>2. Len(r) = Len(p) + 1
      OBVIOUS
    <3>3. r[Len(p) + 1] = q
      OBVIOUS
    <3>4. \A i \in 1..Len(p) : r[i] = p[i]
      OBVIOUS
    <3> HIDE DEF r
    <3> QED BY <1>1, <3>1, <3>2, <3>3, <3>4
  <2>2. Append(p, q) = r
    OBVIOUS
  <2> HIDE DEF r
  <2>3. PICK h : Joining(r, h) /\ FlattenSeq(r) = h[Len(r)]
    BY <1>2, <2>1
  <2>4. CASE p = <<>>
    <3>1. h[1] = r[1]
      BY <2>1, <2>3 DEF Joining
    <3>2. FlattenSeq(r) = q
      BY <2>1, <2>3, <2>4, <3>1
    <3>3. <<>> \o q = q
      OBVIOUS
    <3> QED BY <1>3, <2>2, <2>4, <3>2, <3>3
  <2>5. CASE p # <<>>
    <3>1. PICK g : Joining(p, g) /\ FlattenSeq(p) = g[Len(p)]
      BY <1>2, <2>5
    <3> DEFINE S == {n \in 0..Len(p) : n # 0 => h[n] = g[n]}
    <3>2. 0 \in S
      OBVIOUS
    <3>3. ASSUME NEW n \in 0..(Len(p) - 1), n \in S PROVE n + 1 \in S
      <4>1. n + 1 \in 1..Len(p) /\ n + 1 \in 1..Len(r) /\ n + 1 - 1 = n
        BY <2>1
      <4>2. h[n + 1] = IF n + 1 = 1 THEN r[n + 1] ELSE h[n + 1 - 1] \o r[n + 1]
        BY <2>3, <4>1, JoiningAt
      <4>3. g[n + 1] = IF n + 1 = 1 THEN p[n + 1] ELSE g[n + 1 - 1] \o p[n + 1]
        BY <3>1, <4>1, JoiningAt
      <4> QED BY <3>3, <4>1, <4>2, <4>3, <2>1
    <3> HIDE DEF S
    <3>4. Len(p) \in Nat /\ \A n \in 0..Len(p) : n \in S
      BY <1>1, <3>2, <3>3, Climb
    <3>5. h[Len(p)] = g[Len(p)] /\ Len(p) \in Nat \ {0}
      BY <2>5, <3>4 DEF S
    <3>6. Len(r) \in 1..Len(r) /\ Len(r) - 1 = Len(p) /\ Len(r) # 1
      BY <2>1, <3>5
    <3>7. h[Len(r)] = IF Len(r) = 1 THEN r[Len(r)] ELSE h[Len(r) - 1] \o r[Len(r)]
      BY <2>3, <3>6, JoiningAt
    <3> QED BY <2>2, <2>1, <2>3, <3>1, <3>5, <3>6, <3>7
  <2> QED BY <2>4, <2>5
<1> QED BY <1>3, <1>4, <1>5

\* The first n parts of p joined.
JoinedUpto(p, n) == FlattenSeq(SubSeq(p, 1, n))

\* They start with nothing, end with all, and each adds a part.
LEMMA JoinedUptoIs ==
    ASSUME NEW A, NEW p \in Seq(Seq(A))
    PROVE  /\ \A n \in 0..Len(p) : JoinedUpto(p, n) \in Seq(A)
           /\ JoinedUpto(p, 0) = <<>> /\ JoinedUpto(p, Len(p)) = FlattenSeq(p)
           /\ \A n \in 0..(Len(p) - 1) : JoinedUpto(p, n + 1) = JoinedUpto(p, n) \o p[n + 1]
<1>1. ASSUME NEW n \in 0..Len(p) PROVE SubSeq(p, 1, n) \in Seq(Seq(A))
  OBVIOUS
<1>2. SubSeq(p, 1, 0) = <<>> /\ SubSeq(p, 1, Len(p)) = p
  OBVIOUS
<1>3. <<>> \in Seq(Seq(A)) /\ Len(p) \in Nat
  OBVIOUS
<1>4. FlattenSeq(<<>>) = <<>>
  BY <1>3, FlattenIs
<1>5. ASSUME NEW n \in 0..(Len(p) - 1) PROVE JoinedUpto(p, n + 1) = JoinedUpto(p, n) \o p[n + 1]
  <2>1. p[n + 1] \in Seq(A)
    OBVIOUS
  <2>2. SubSeq(p, 1, n + 1) = Append(SubSeq(p, 1, n), p[n + 1])
    OBVIOUS
  <2>3. SubSeq(p, 1, n) \in Seq(Seq(A))
    BY <1>1, <1>3
  <2> DEFINE s == SubSeq(p, 1, n)
             q == p[n + 1]
  <2> HIDE DEF s, q
  <2>4. FlattenSeq(Append(s, q)) = FlattenSeq(s) \o q
    BY <2>1, <2>3, FlattenIs DEF s, q
  <2> QED BY <2>2, <2>4 DEF JoinedUpto, s, q
<1>6. \A n \in 0..Len(p) : JoinedUpto(p, n) \in Seq(A)
  BY <1>1, FlattenIs DEF JoinedUpto
<1> QED BY <1>2, <1>4, <1>5, <1>6 DEF JoinedUpto

-----------------------------------------------------------------------------
(* The text of an event.                                                   *)

\* Lines, each with its ending.
Ended(lines, e) == [i \in 1..Len(lines) |-> <<lines[i]>> \o e]

\* They are sequences of symbols.
LEMMA EndedIs ==
    ASSUME NEW lines \in Seq(Lines), NEW e \in Endings
    PROVE  /\ Ended(lines, e) \in Seq(Seq(Symbols)) /\ Len(Ended(lines, e)) = Len(lines)
           /\ \A i \in 1..Len(lines) : Ended(lines, e)[i] = <<lines[i]>> \o e
           /\ e \in Seq(Symbols)
<1>1. e \in Seq(Symbols)
  <2>1. CR \in Symbols /\ LF \in Symbols
    BY DEF Symbols
  <2>2. e = <<LF>> \/ e = <<CR>> \/ e = <<CR, LF>>
    BY DEF Endings
  <2>3. <<LF>> \in Seq(Symbols) /\ <<CR>> \in Seq(Symbols)
    BY <2>1
  <2>4. <<CR, LF>> \in Seq(Symbols)
    BY <2>1
  <2> QED BY <2>2, <2>3, <2>4
<1>2. \A i \in 1..Len(lines) : <<lines[i]>> \in Seq(Symbols)
  BY DEF Symbols
<1>3. \A i \in 1..Len(lines) : <<lines[i]>> \o e \in Seq(Symbols)
  BY <1>1, <1>2, ConcatIs
<1>4. Len(lines) \in Nat
  OBVIOUS
<1> QED BY <1>1, <1>3, <1>4 DEF Ended

\* The text of lines under an ending of one byte.
LEMMA ShortText ==
    ASSUME NEW lines \in Seq(Lines), NEW x \in {CR, LF}
    PROVE  LET T == EventText(lines, <<x>>)
           IN  /\ T \in Seq(Symbols) /\ Len(T) = 2 * Len(lines) + 1
               /\ \A k \in 1..Len(lines) : T[2 * k - 1] = lines[k] /\ T[2 * k] = x
               /\ T[2 * Len(lines) + 1] = x
<1> DEFINE N == Len(lines)
           p == Ended(lines, <<x>>)
           S == {n \in 0..N :
                    /\ Len(JoinedUpto(p, n)) = 2 * n
                    /\ \A k \in 1..n : JoinedUpto(p, n)[2 * k - 1] = lines[k] /\ JoinedUpto(p, n)[2 * k] = x}
<1>1. N \in Nat /\ x \in Symbols /\ \A i \in 1..N : lines[i] \in Symbols
  BY DEF Symbols
<1>2. <<x>> \in Endings
  BY DEF Endings
<1>3. /\ p \in Seq(Seq(Symbols)) /\ Len(p) = N
      /\ \A i \in 1..N : p[i] = <<lines[i]>> \o <<x>>
  BY <1>2, EndedIs
<1>4. EventText(lines, <<x>>) = FlattenSeq(p) \o <<x>>
  BY DEF EventText, Ended
<1> HIDE DEF p, N
<1>5. /\ \A n \in 0..N : JoinedUpto(p, n) \in Seq(Symbols)
      /\ JoinedUpto(p, 0) = <<>> /\ JoinedUpto(p, N) = FlattenSeq(p)
      /\ \A n \in 0..(N - 1) : JoinedUpto(p, n + 1) = JoinedUpto(p, n) \o p[n + 1]
  BY <1>3, JoinedUptoIs
<1>6. 0 \in S
  <2>1. Len(<<>>) = 0
    OBVIOUS
  <2> QED BY <1>1, <1>5, <2>1
<1>7. ASSUME NEW n \in 0..(N - 1), n \in S PROVE n + 1 \in S
  <2>1. n + 1 \in 1..N /\ n \in 0..N /\ n \in Nat /\ n + 1 \in 0..N
    BY <1>1
  <2>2. PICK q : q = p[n + 1]
    OBVIOUS
  <2>3. q \in Seq(Symbols) /\ Len(q) = 2 /\ q[1] = lines[n + 1] /\ q[2] = x
    <3>1. q = <<lines[n + 1]>> \o <<x>>
      BY <1>3, <2>1, <2>2
    <3>2. PICK y : y = lines[n + 1] /\ y \in Symbols
      BY <1>1, <2>1
    <3>3. /\ <<y>> \in Seq(Symbols) /\ Len(<<y>>) = 1 /\ <<y>>[1] = y
          /\ <<x>> \in Seq(Symbols) /\ Len(<<x>>) = 1 /\ <<x>>[1] = x
      BY <1>1, <3>2
    <3>4. q = <<y>> \o <<x>>
      BY <3>1, <3>2
    <3>5. q \in Seq(Symbols) /\ Len(q) = 2 /\ q[1] = <<y>>[1] /\ q[1 + 1] = <<x>>[1]
      BY <3>3, <3>4, ConcatIs
    <3> QED BY <3>2, <3>3, <3>5
  <2>4. PICK f : f = JoinedUpto(p, n)
    OBVIOUS
  <2>5. PICK g : g = JoinedUpto(p, n + 1)
    OBVIOUS
  <2>6. f \in Seq(Symbols) /\ Len(f) = 2 * n
        /\ \A k \in 1..n : f[2 * k - 1] = lines[k] /\ f[2 * k] = x
    BY <1>5, <1>7, <2>1, <2>4
  <2>7. g = f \o q
    BY <1>5, <2>2, <2>4, <2>5
  <2>8. /\ Len(g) = 2 * n + 2
        /\ \A i \in 1..(2 * n) : g[i] = f[i]
        /\ \A i \in 1..2 : g[2 * n + i] = q[i]
    <3>1. /\ Len(f \o q) = Len(f) + Len(q)
          /\ \A i \in 1..Len(f) : (f \o q)[i] = f[i]
          /\ \A i \in 1..Len(q) : (f \o q)[Len(f) + i] = q[i]
      <4>1. f \in Seq(Symbols) /\ q \in Seq(Symbols)
        BY <2>3, <2>6
      <4> QED BY <4>1, ConcatIs
    <3> QED BY <2>3, <2>6, <2>7, <3>1
  <2>9. Len(g) = 2 * (n + 1)
    BY <2>1, <2>8
  <2>10. ASSUME NEW k \in 1..(n + 1) PROVE g[2 * k - 1] = lines[k] /\ g[2 * k] = x
    <3>1. CASE k = n + 1
      <4>1. 2 * k - 1 = 2 * n + 1 /\ 2 * k = 2 * n + 2
        BY <2>1, <3>1
      <4>2. g[2 * n + 1] = q[1] /\ g[2 * n + 2] = q[2]
        BY <2>8
      <4> QED BY <2>3, <3>1, <4>1, <4>2
    <3>2. CASE k \in 1..n
      <4>1. 2 * k - 1 \in 1..(2 * n) /\ 2 * k \in 1..(2 * n)
        BY <2>1, <3>2
      <4> QED BY <2>6, <2>8, <3>2, <4>1
    <3> QED BY <2>1, <3>1, <3>2
  <2> QED BY <2>1, <2>5, <2>9, <2>10
<1> HIDE DEF S
<1>8. N \in S
  <2>1. \A n \in 0..N : n \in S
    BY <1>1, <1>6, <1>7, Climb
  <2> QED BY <1>1, <2>1
<1>9. PICK G : G = JoinedUpto(p, N)
  OBVIOUS
<1>10. /\ G \in Seq(Symbols) /\ Len(G) = 2 * N
       /\ \A k \in 1..N : G[2 * k - 1] = lines[k] /\ G[2 * k] = x
  BY <1>1, <1>5, <1>8, <1>9 DEF S
<1>11. EventText(lines, <<x>>) = G \o <<x>>
  BY <1>4, <1>5, <1>9
<1>12. <<x>> \in Seq(Symbols) /\ Len(<<x>>) = 1 /\ <<x>>[1] = x
  BY <1>1
<1>13. /\ G \o <<x>> \in Seq(Symbols) /\ Len(G \o <<x>>) = 2 * N + 1
       /\ \A i \in 1..(2 * N) : (G \o <<x>>)[i] = G[i]
       /\ (G \o <<x>>)[2 * N + 1] = x
  BY <1>10, <1>12, ConcatIs
<1>14. \A k \in 1..N : 2 * k - 1 \in 1..(2 * N) /\ 2 * k \in 1..(2 * N)
  BY <1>1
<1> QED BY <1>10, <1>11, <1>13, <1>14 DEF N

\* The text of lines under an ending of two bytes.
LEMMA LongText ==
    ASSUME NEW lines \in Seq(Lines)
    PROVE  LET T == EventText(lines, <<CR, LF>>)
           IN  /\ T \in Seq(Symbols) /\ Len(T) = 3 * Len(lines) + 2
               /\ \A k \in 1..Len(lines) :
                       T[3 * k - 2] = lines[k] /\ T[3 * k - 1] = CR /\ T[3 * k] = LF
               /\ T[3 * Len(lines) + 1] = CR /\ T[3 * Len(lines) + 2] = LF
<1> DEFINE N == Len(lines)
           e == <<CR, LF>>
           p == Ended(lines, e)
           S == {n \in 0..N :
                    /\ Len(JoinedUpto(p, n)) = 3 * n
                    /\ \A k \in 1..n : /\ JoinedUpto(p, n)[3 * k - 2] = lines[k]
                                       /\ JoinedUpto(p, n)[3 * k - 1] = CR
                                       /\ JoinedUpto(p, n)[3 * k] = LF}
<1>1. N \in Nat /\ CR \in Symbols /\ LF \in Symbols /\ \A i \in 1..N : lines[i] \in Symbols
  BY DEF Symbols
<1>2. e \in Endings
  BY DEF Endings
<1>3. /\ p \in Seq(Seq(Symbols)) /\ Len(p) = N
      /\ \A i \in 1..N : p[i] = <<lines[i]>> \o e
  BY <1>2, EndedIs
<1>4. EventText(lines, e) = FlattenSeq(p) \o e
  BY DEF EventText, Ended
<1>5. e \in Seq(Symbols) /\ Len(e) = 2 /\ e[1] = CR /\ e[2] = LF
  BY <1>1
<1> HIDE DEF p, N, e
<1>6. /\ \A n \in 0..N : JoinedUpto(p, n) \in Seq(Symbols)
      /\ JoinedUpto(p, 0) = <<>> /\ JoinedUpto(p, N) = FlattenSeq(p)
      /\ \A n \in 0..(N - 1) : JoinedUpto(p, n + 1) = JoinedUpto(p, n) \o p[n + 1]
  BY <1>3, JoinedUptoIs
<1>7. 0 \in S
  <2>1. Len(<<>>) = 0
    OBVIOUS
  <2> QED BY <1>1, <1>6, <2>1
<1>8. ASSUME NEW n \in 0..(N - 1), n \in S PROVE n + 1 \in S
  <2>1. n + 1 \in 1..N /\ n \in 0..N /\ n \in Nat /\ n + 1 \in 0..N
    BY <1>1
  <2>2. PICK q : q = p[n + 1]
    OBVIOUS
  <2>3. q \in Seq(Symbols) /\ Len(q) = 3 /\ q[1] = lines[n + 1] /\ q[2] = CR /\ q[3] = LF
    <3>1. q = <<lines[n + 1]>> \o e
      BY <1>3, <2>1, <2>2
    <3>2. PICK y : y = lines[n + 1] /\ y \in Symbols
      BY <1>1, <2>1
    <3>3. <<y>> \in Seq(Symbols) /\ Len(<<y>>) = 1 /\ <<y>>[1] = y
      BY <3>2
    <3>4. q = <<y>> \o e
      BY <3>1, <3>2
    <3>5. q \in Seq(Symbols) /\ Len(q) = 3 /\ q[1] = <<y>>[1]
          /\ q[1 + 1] = e[1] /\ q[1 + 2] = e[2]
      BY <1>5, <3>3, <3>4, ConcatIs, SMTT(30)
    <3> QED BY <1>5, <3>2, <3>3, <3>5
  <2>4. PICK f : f = JoinedUpto(p, n)
    OBVIOUS
  <2>5. PICK g : g = JoinedUpto(p, n + 1)
    OBVIOUS
  <2>6. f \in Seq(Symbols) /\ Len(f) = 3 * n
        /\ \A k \in 1..n : f[3 * k - 2] = lines[k] /\ f[3 * k - 1] = CR /\ f[3 * k] = LF
    BY <1>6, <1>8, <2>1, <2>4
  <2>7. g = f \o q
    BY <1>6, <2>2, <2>4, <2>5
  <2>8. /\ Len(g) = 3 * n + 3
        /\ \A i \in 1..(3 * n) : g[i] = f[i]
        /\ \A i \in 1..3 : g[3 * n + i] = q[i]
    <3>1. /\ Len(f \o q) = Len(f) + Len(q)
          /\ \A i \in 1..Len(f) : (f \o q)[i] = f[i]
          /\ \A i \in 1..Len(q) : (f \o q)[Len(f) + i] = q[i]
      <4>1. f \in Seq(Symbols) /\ q \in Seq(Symbols)
        BY <2>3, <2>6
      <4> QED BY <4>1, ConcatIs
    <3> QED BY <2>3, <2>6, <2>7, <3>1
  <2>9. Len(g) = 3 * (n + 1)
    BY <2>1, <2>8
  <2>10. ASSUME NEW k \in 1..(n + 1) PROVE g[3 * k - 2] = lines[k] /\ g[3 * k - 1] = CR /\ g[3 * k] = LF
    <3>1. CASE k = n + 1
      <4>1. 3 * k - 2 = 3 * n + 1 /\ 3 * k - 1 = 3 * n + 2 /\ 3 * k = 3 * n + 3
        BY <2>1, <3>1
      <4>2. g[3 * n + 1] = q[1] /\ g[3 * n + 2] = q[2] /\ g[3 * n + 3] = q[3]
        BY <2>8
      <4> QED BY <2>3, <3>1, <4>1, <4>2
    <3>2. CASE k \in 1..n
      <4>1. 3 * k - 2 \in 1..(3 * n) /\ 3 * k - 1 \in 1..(3 * n) /\ 3 * k \in 1..(3 * n)
        BY <2>1, <3>2
      <4> QED BY <2>6, <2>8, <3>2, <4>1
    <3> QED BY <2>1, <3>1, <3>2
  <2> QED BY <2>1, <2>5, <2>9, <2>10
<1> HIDE DEF S
<1>9. N \in S
  <2>1. \A n \in 0..N : n \in S
    BY <1>1, <1>7, <1>8, Climb
  <2> QED BY <1>1, <2>1
<1>10. PICK G : G = JoinedUpto(p, N)
  OBVIOUS
<1>11. /\ G \in Seq(Symbols) /\ Len(G) = 3 * N
       /\ \A k \in 1..N : G[3 * k - 2] = lines[k] /\ G[3 * k - 1] = CR /\ G[3 * k] = LF
  BY <1>1, <1>6, <1>9, <1>10 DEF S
<1>12. EventText(lines, e) = G \o e
  BY <1>4, <1>6, <1>10
<1>13. /\ G \o e \in Seq(Symbols) /\ Len(G \o e) = 3 * N + 2
       /\ \A i \in 1..(3 * N) : (G \o e)[i] = G[i]
       /\ (G \o e)[3 * N + 1] = CR /\ (G \o e)[3 * N + 2] = LF
  <2>1. G \in Seq(Symbols) /\ Len(G) = 3 * N
    BY <1>11
  <2>2. /\ G \o e \in Seq(Symbols) /\ Len(G \o e) = Len(G) + Len(e)
        /\ \A i \in 1..Len(G) : (G \o e)[i] = G[i]
        /\ \A i \in 1..Len(e) : (G \o e)[Len(G) + i] = e[i]
    <3>1. G \in Seq(Symbols) /\ e \in Seq(Symbols)
      BY <1>5, <2>1
    <3> QED BY <3>1, ConcatIs
  <2>3. (G \o e)[Len(G) + 1] = e[1] /\ (G \o e)[Len(G) + 2] = e[2]
    BY <1>5, <2>2
  <2> QED BY <1>5, <2>1, <2>2, <2>3
<1>14. \A k \in 1..N : 3 * k - 2 \in 1..(3 * N) /\ 3 * k - 1 \in 1..(3 * N) /\ 3 * k \in 1..(3 * N)
  BY <1>1
<1> QED BY <1>11, <1>12, <1>13, <1>14 DEF N, e

-----------------------------------------------------------------------------
(* The end of an event.                                                    *)

Blanks == {<<LF, LF>>, <<CR, CR>>, <<CR, LF, CR, LF>>}

\* A line is no byte of an ending.
LEMMA LinesAreNoEnds == CR # LF /\ \A x \in Lines : x # CR /\ x # LF /\ x # "end"
BY DEF CR, LF, Lines, Names, Data, Torn

\* Where two bytes occur, and where four.
LEMMA OccursIs ==
    ASSUME NEW s \in Seq(Symbols), NEW i \in 1..Len(s)
    PROVE  /\ \A x, y \in {CR, LF} :
                Occurs(<<x, y>>, s, i) <=> i + 1 <= Len(s) /\ s[i] = x /\ s[i + 1] = y
           /\ Occurs(<<CR, LF, CR, LF>>, s, i) <=>
                  /\ i + 3 <= Len(s) /\ s[i] = CR /\ s[i + 1] = LF
                  /\ s[i + 2] = CR /\ s[i + 3] = LF
<1>1. Len(s) \in Nat
  OBVIOUS
<1>2. ASSUME NEW x \in {CR, LF}, NEW y \in {CR, LF}
      PROVE  Occurs(<<x, y>>, s, i) <=> i + 1 <= Len(s) /\ s[i] = x /\ s[i + 1] = y
  <2>1. Occurs(<<x, y>>, s, i) <=> i + 1 <= Len(s) /\ SubSeq(s, i, i + 1) = <<x, y>>
    BY <1>1 DEF Occurs
  <2>2. ASSUME i + 1 <= Len(s)
        PROVE  SubSeq(s, i, i + 1) = <<x, y>> <=> s[i] = x /\ s[i + 1] = y
    <3>1. PICK q : q = SubSeq(s, i, i + 1)
      OBVIOUS
    <3>2. q \in Seq(Symbols) /\ Len(q) = 2
      BY <2>2, <1>1, <3>1
    <3>3. q[1] = s[i] /\ q[2] = s[i + 1]
      BY <2>2, <1>1, <3>1
    <3>4. q = <<q[1], q[2]>>
      BY <3>2
    <3>5. q = <<x, y>> => q[1] = x /\ q[2] = y
      OBVIOUS
    <3>6. q[1] = x /\ q[2] = y => q = <<x, y>>
      BY <3>4
    <3> QED BY <3>1, <3>3, <3>5, <3>6
  <2> QED BY <2>1, <2>2
<1>3. Occurs(<<CR, LF, CR, LF>>, s, i) <=>
          /\ i + 3 <= Len(s) /\ s[i] = CR /\ s[i + 1] = LF
          /\ s[i + 2] = CR /\ s[i + 3] = LF
  <2>1. Occurs(<<CR, LF, CR, LF>>, s, i) <=>
            i + 3 <= Len(s) /\ SubSeq(s, i, i + 3) = <<CR, LF, CR, LF>>
    BY <1>1 DEF Occurs
  <2>2. ASSUME i + 3 <= Len(s)
        PROVE  SubSeq(s, i, i + 3) = <<s[i], s[i + 1], s[i + 2], s[i + 3]>>
    <3>1. PICK q : q = SubSeq(s, i, i + 3)
      OBVIOUS
    <3>2. q \in Seq(Symbols) /\ Len(q) = 4
      BY <2>2, <1>1, <3>1
    <3>3. q[1] = s[i] /\ q[2] = s[i + 1] /\ q[3] = s[i + 2] /\ q[4] = s[i + 3]
      BY <2>2, <1>1, <3>1
    <3>4. q = <<q[1], q[2], q[3], q[4]>>
      BY <3>2
    <3> QED BY <3>1, <3>3, <3>4
  <2> QED BY <2>1, <2>2
<1> QED BY <1>2, <1>3

\* What is found is the first blank line.
LEMMA FindIs ==
    ASSUME NEW s \in Seq(Symbols)
    PROVE  /\ (\A i \in 1..Len(s) : \A t \in Blanks : ~ Occurs(t, s, i)) => FindEvent(s) = <<>>
           /\ \A i \in 1..Len(s) : \A t \in Blanks :
                Occurs(t, s, i) /\ (\A j \in 1..(i - 1) : \A u \in Blanks : ~ Occurs(u, s, j))
                    => FindEvent(s) = <<i, t>>
<1> DEFINE E == Ends(Blanks, s)
<1>1. E = {e \in (1..Len(s)) \X Blanks : Occurs(e[2], s, e[1])}
  BY DEF Ends
<1>2. FindEvent(s) = IF E = {} THEN <<>> ELSE CHOOSE e \in E : \A f \in E : e[1] <= f[1]
  BY DEF FindEvent, FirstEnd, Blanks
<1> HIDE DEF E
<1>3. ASSUME \A i \in 1..Len(s) : \A t \in Blanks : ~ Occurs(t, s, i)
      PROVE  FindEvent(s) = <<>>
  BY <1>1, <1>2, <1>3
<1>4. ASSUME NEW i \in 1..Len(s), NEW t \in Blanks, Occurs(t, s, i),
             \A j \in 1..(i - 1) : \A u \in Blanks : ~ Occurs(u, s, j)
      PROVE  FindEvent(s) = <<i, t>>
  <2>1. <<i, t>> \in E
    BY <1>1, <1>4
  <2>2. ASSUME NEW f \in E PROVE i <= f[1]
    <3>1. f[1] \in 1..Len(s) /\ f[2] \in Blanks /\ Occurs(f[2], s, f[1])
      BY <1>1
    <3>2. f[1] \notin 1..(i - 1)
      BY <1>4, <3>1
    <3>3. i \in Int /\ f[1] \in Int /\ f[1] >= 1
      BY <3>1
    <3> QED BY <3>2, <3>3
  <2>3. ASSUME NEW u \in Blanks, Occurs(u, s, i) PROVE u = t
    <3>1. \A x, y \in {CR, LF} :
              Occurs(<<x, y>>, s, i) <=> i + 1 <= Len(s) /\ s[i] = x /\ s[i + 1] = y
      BY OccursIs
    <3>2. Occurs(<<CR, LF, CR, LF>>, s, i) => s[i] = CR /\ s[i + 1] = LF
      BY OccursIs
    <3>3. u \in Blanks /\ t \in Blanks /\ Occurs(u, s, i) /\ Occurs(t, s, i)
      BY <1>4, <2>3
    <3>4. \A v \in Blanks : v = <<LF, LF>> \/ v = <<CR, CR>> \/ v = <<CR, LF, CR, LF>>
      BY DEF Blanks
    <3>5. Occurs(<<LF, LF>>, s, i) => s[i] = LF
      BY <3>1
    <3>6. Occurs(<<CR, CR>>, s, i) => s[i] = CR /\ s[i + 1] = CR
      BY <3>1
    <3> HIDE DEF E
    <3>7. CASE s[i] = LF
      <4>1. \A v \in Blanks : Occurs(v, s, i) => v = <<LF, LF>>
        BY <3>2, <3>4, <3>6, <3>7, LinesAreNoEnds
      <4> QED BY <3>3, <4>1
    <3>8. CASE s[i] # LF /\ s[i + 1] = CR
      <4>1. \A v \in Blanks : Occurs(v, s, i) => v = <<CR, CR>>
        BY <3>2, <3>4, <3>5, <3>8, LinesAreNoEnds
      <4> QED BY <3>3, <4>1
    <3>9. CASE s[i] # LF /\ s[i + 1] # CR
      <4>1. \A v \in Blanks : Occurs(v, s, i) => v = <<CR, LF, CR, LF>>
        BY <3>4, <3>5, <3>6, <3>9
      <4> QED BY <3>3, <4>1
    <3> QED BY <3>7, <3>8, <3>9
  <2>4. ASSUME NEW e \in E, \A f \in E : e[1] <= f[1] PROVE e = <<i, t>>
    <3>1. e[1] \in 1..Len(s) /\ e[2] \in Blanks /\ Occurs(e[2], s, e[1]) /\ e = <<e[1], e[2]>>
      BY <1>1
    <3>2. e[1] <= i /\ i <= e[1]
      <4>1. <<i, t>>[1] = i
        OBVIOUS
      <4> QED BY <2>1, <2>2, <2>4, <4>1
    <3>3. e[1] = i
      BY <3>1, <3>2
    <3> QED BY <2>3, <3>1, <3>3
  <2>5. \A f \in E : <<i, t>>[1] <= f[1]
    BY <2>2
  <2>6. (CHOOSE e \in E : \A f \in E : e[1] <= f[1]) = <<i, t>>
    BY <2>1, <2>4, <2>5
  <2> QED BY <1>2, <2>1, <2>6
<1> QED BY <1>3, <1>4

\* Every number is a multiple of two or comes after one.
LEMMA Halves == ASSUME NEW i \in Nat PROVE \E k \in Nat : i = 2 * k \/ i = 2 * k + 1
<1>1. i = 2 * (i \div 2) + (i % 2)
  OBVIOUS
<1>2. i % 2 \in 0..1 /\ i \div 2 \in Nat
  OBVIOUS
<1> QED BY <1>1, <1>2
\* The same of three.
LEMMA Thirds ==
    ASSUME NEW i \in Nat PROVE \E k \in Nat : i = 3 * k \/ i = 3 * k + 1 \/ i = 3 * k + 2
<1>1. i = 3 * (i \div 3) + (i % 3)
  OBVIOUS
<1>2. i % 3 \in 0..2 /\ i \div 3 \in Nat
  OBVIOUS
<1> QED BY <1>1, <1>2

\* b has the bytes of T as far as both go.
Starts(b, T) == \A i \in 1..Len(b) : i <= Len(T) => b[i] = T[i]

\* The first blank line of a text is the one that ends its first event; a text
\* that stops before has none.
LEMMA ShortEnds ==
    ASSUME NEW lines \in Seq(Lines), lines # <<>>, NEW x \in {CR, LF},
           NEW b \in Seq(Symbols), Starts(b, EventText(lines, <<x>>))
    PROVE  LET M == 2 * Len(lines) + 1
           IN  /\ Len(b) < M => FindEvent(b) = <<>>
               /\ Len(b) >= M => FindEvent(b) = <<M - 1, <<x, x>>>>
<1> DEFINE N == Len(lines)
<1>1. N \in Nat /\ N >= 1 /\ Len(b) \in Nat /\ \A k \in 1..N : lines[k] \in Lines
  OBVIOUS
<1>2. PICK T : T = EventText(lines, <<x>>)
  OBVIOUS
<1>3. /\ Len(T) = 2 * N + 1 /\ T[2 * N + 1] = x
      /\ \A k \in 1..N : T[2 * k - 1] = lines[k] /\ T[2 * k] = x
  BY <1>2, ShortText
<1>4. \A i \in 1..Len(b) : i <= 2 * N + 1 => b[i] = T[i]
  BY <1>2, <1>3 DEF Starts
<1> HIDE DEF N
<1>5. ASSUME NEW k \in 1..N, 2 * k - 1 <= Len(b) PROVE b[2 * k - 1] # CR /\ b[2 * k - 1] # LF
  <2>1. 2 * k - 1 \in 1..Len(b) /\ 2 * k - 1 <= 2 * N + 1
    BY <1>1, <1>5
  <2>2. b[2 * k - 1] = lines[k]
    BY <1>3, <1>4, <2>1
  <2> QED BY <1>1, <2>2, LinesAreNoEnds
<1>6. ASSUME NEW i \in 1..Len(b), NEW t \in Blanks, Occurs(t, b, i), i < 2 * N PROVE FALSE
  <2>1. /\ i + 1 <= Len(b) /\ b[i] \in {CR, LF} /\ b[i + 1] \in {CR, LF}
    <3>1. /\ Occurs(<<LF, LF>>, b, i) => i + 1 <= Len(b) /\ b[i] = LF /\ b[i + 1] = LF
          /\ Occurs(<<CR, CR>>, b, i) => i + 1 <= Len(b) /\ b[i] = CR /\ b[i + 1] = CR
      BY OccursIs
    <3>2. Occurs(<<CR, LF, CR, LF>>, b, i) =>
              i + 3 <= Len(b) /\ b[i] = CR /\ b[i + 1] = LF
      BY OccursIs
    <3>3. t = <<LF, LF>> \/ t = <<CR, CR>> \/ t = <<CR, LF, CR, LF>>
      BY DEF Blanks
    <3>4. CASE t = <<LF, LF>>
      BY <1>6, <3>1, <3>4
    <3>5. CASE t = <<CR, CR>>
      BY <1>6, <3>1, <3>5
    <3>6. CASE t = <<CR, LF, CR, LF>>
      BY <1>1, <1>6, <3>2, <3>6
    <3> QED BY <3>3, <3>4, <3>5, <3>6
  <2>2. PICK k \in 1..N : i = 2 * k - 1 \/ i = 2 * k
    <3>1. i \in Nat
      BY <1>1
    <3>2. PICK m \in Nat : i = 2 * m \/ i = 2 * m + 1
      BY <3>1, Halves
    <3>3. i = 2 * m => m \in 1..N
      BY <1>1, <1>6, <3>2
    <3>4. i = 2 * m + 1 => m + 1 \in 1..N /\ i = 2 * (m + 1) - 1
      BY <1>1, <1>6, <3>2
    <3> QED BY <3>2, <3>3, <3>4
  <2>3. CASE i = 2 * k - 1
    BY <1>5, <2>1, <2>3
  <2>4. CASE i = 2 * k
    <3>1. k + 1 \in 1..N /\ i + 1 = 2 * (k + 1) - 1
      BY <1>1, <1>6, <2>4
    <3> QED BY <1>5, <2>1, <3>1
  <2> QED BY <2>2, <2>3, <2>4
<1>7. ASSUME Len(b) < 2 * N + 1 PROVE FindEvent(b) = <<>>
  <2>1. ASSUME NEW i \in 1..Len(b), NEW t \in Blanks, Occurs(t, b, i) PROVE FALSE
    <3>1. i + 1 <= Len(b)
      <4>1. Len(t) \in {2, 4}
        BY DEF Blanks
      <4> QED BY <1>1, <2>1, <4>1 DEF Occurs
    <3> QED BY <1>1, <1>6, <1>7, <2>1, <3>1
  <2> QED BY <2>1, FindIs
<1>8. ASSUME Len(b) >= 2 * N + 1 PROVE FindEvent(b) = <<2 * N, <<x, x>>>>
  <2>1. /\ 2 * N \in 1..Len(b) /\ 2 * N + 1 \in 1..Len(b)
        /\ b[2 * N] = x /\ b[2 * N + 1] = x
    <3>1. 2 * N \in 1..Len(b) /\ 2 * N + 1 \in 1..Len(b) /\ N \in 1..N
      BY <1>1, <1>8
    <3> QED BY <1>3, <1>4, <3>1
  <2>2. Occurs(<<x, x>>, b, 2 * N)
    BY <1>1, <1>8, <2>1, OccursIs
  <2>3. <<x, x>> \in Blanks
    BY DEF Blanks
  <2>4. \A j \in 1..(2 * N - 1) : \A u \in Blanks : ~ Occurs(u, b, j)
    BY <1>1, <1>6, <1>8
  <2> QED BY <2>1, <2>2, <2>3, <2>4, FindIs
<1> QED BY <1>1, <1>7, <1>8 DEF N

\* So under the ending of two bytes.
LEMMA LongEnds ==
    ASSUME NEW lines \in Seq(Lines), lines # <<>>,
           NEW b \in Seq(Symbols), Starts(b, EventText(lines, <<CR, LF>>))
    PROVE  LET M == 3 * Len(lines) + 2
           IN  /\ Len(b) < M => FindEvent(b) = <<>>
               /\ Len(b) >= M => FindEvent(b) = <<M - 3, <<CR, LF, CR, LF>>>>
<1> DEFINE N == Len(lines)
<1>1. N \in Nat /\ N >= 1 /\ Len(b) \in Nat /\ \A k \in 1..N : lines[k] \in Lines
  OBVIOUS
<1>2. PICK T : T = EventText(lines, <<CR, LF>>)
  OBVIOUS
<1>3. /\ Len(T) = 3 * N + 2 /\ T[3 * N + 1] = CR /\ T[3 * N + 2] = LF
      /\ \A k \in 1..N : T[3 * k - 2] = lines[k] /\ T[3 * k - 1] = CR /\ T[3 * k] = LF
  BY <1>2, LongText
<1>4. \A i \in 1..Len(b) : i <= 3 * N + 2 => b[i] = T[i]
  BY <1>2, <1>3 DEF Starts
<1> HIDE DEF N
<1>5. ASSUME NEW k \in 1..N
      PROVE  /\ 3 * k - 2 <= Len(b) => b[3 * k - 2] # CR /\ b[3 * k - 2] # LF
             /\ 3 * k - 1 <= Len(b) => b[3 * k - 1] = CR
             /\ 3 * k <= Len(b) => b[3 * k] = LF
  <2>1. /\ 3 * k - 2 <= Len(b) => 3 * k - 2 \in 1..Len(b)
        /\ 3 * k - 1 <= Len(b) => 3 * k - 1 \in 1..Len(b)
        /\ 3 * k <= Len(b) => 3 * k \in 1..Len(b)
        /\ 3 * k - 2 <= 3 * N + 2 /\ 3 * k - 1 <= 3 * N + 2 /\ 3 * k <= 3 * N + 2
    BY <1>1
  <2>2. 3 * k - 2 <= Len(b) => b[3 * k - 2] = lines[k]
    BY <1>3, <1>4, <2>1
  <2>3. 3 * k - 1 <= Len(b) => b[3 * k - 1] = CR
    BY <1>3, <1>4, <2>1
  <2>4. 3 * k <= Len(b) => b[3 * k] = LF
    BY <1>3, <1>4, <2>1
  <2> QED BY <1>1, <2>2, <2>3, <2>4, LinesAreNoEnds
<1>6. ASSUME NEW i \in 1..Len(b), NEW t \in Blanks, Occurs(t, b, i), i < 3 * N - 1 PROVE FALSE
  <2>1. \/ i + 1 <= Len(b) /\ b[i] = b[i + 1]
        \/ i + 2 <= Len(b) /\ b[i] = CR /\ b[i + 2] = CR
    <3>1. /\ Occurs(<<LF, LF>>, b, i) => i + 1 <= Len(b) /\ b[i] = LF /\ b[i + 1] = LF
          /\ Occurs(<<CR, CR>>, b, i) => i + 1 <= Len(b) /\ b[i] = CR /\ b[i + 1] = CR
      BY OccursIs
    <3>2. Occurs(<<CR, LF, CR, LF>>, b, i) =>
              i + 3 <= Len(b) /\ b[i] = CR /\ b[i + 2] = CR
      BY OccursIs
    <3>3. t = <<LF, LF>> \/ t = <<CR, CR>> \/ t = <<CR, LF, CR, LF>>
      BY DEF Blanks
    <3>4. CASE t = <<LF, LF>>
      BY <1>6, <3>1, <3>4
    <3>5. CASE t = <<CR, CR>>
      BY <1>6, <3>1, <3>5
    <3>6. CASE t = <<CR, LF, CR, LF>>
      BY <1>1, <1>6, <3>2, <3>6
    <3> QED BY <3>3, <3>4, <3>5, <3>6
  <2>2. PICK k \in 1..N : (i = 3 * k - 2 \/ i = 3 * k - 1 \/ i = 3 * k) /\ (i # 3 * k - 2 => k + 1 \in 1..N)
    <3>1. i \in Nat
      BY <1>1
    <3>2. PICK m \in Nat : i = 3 * m \/ i = 3 * m + 1 \/ i = 3 * m + 2
      BY <3>1, Thirds
    <3>3. i = 3 * m => m \in 1..N /\ m + 1 \in 1..N
      BY <1>1, <1>6, <3>2
    <3>4. i = 3 * m + 1 => m + 1 \in 1..N /\ i = 3 * (m + 1) - 2
      BY <1>1, <1>6, <3>2
    <3>5. i = 3 * m + 2 => m + 1 \in 1..N /\ m + 1 + 1 \in 1..N /\ i = 3 * (m + 1) - 1
      BY <1>1, <1>6, <3>2
    <3> QED BY <3>2, <3>3, <3>4, <3>5
  <2>3. CASE i = 3 * k - 2
    <3>1. 3 * k - 2 <= Len(b) /\ i + 1 = 3 * k - 1
      BY <1>1, <2>3
    <3> QED BY <1>5, <2>1, <2>3, <3>1
  <2>4. CASE i = 3 * k - 1
    <3>1. k + 1 \in 1..N /\ i + 2 = 3 * (k + 1) - 2 /\ i + 1 = 3 * k /\ i <= Len(b)
      BY <1>1, <2>2, <2>4
    <3> QED BY <1>5, <2>1, <2>4, <3>1, LinesAreNoEnds
  <2>5. CASE i = 3 * k
    <3>1. k + 1 \in 1..N /\ i + 2 = 3 * (k + 1) - 1 /\ i + 1 = 3 * (k + 1) - 2 /\ i <= Len(b)
      BY <1>1, <2>2, <2>5
    <3>2. b[i] = LF
      BY <1>5, <2>5, <3>1
    <3>3. i + 1 <= Len(b) => b[i + 1] # LF
      BY <1>5, <3>1
    <3> QED BY <2>1, <3>2, <3>3, LinesAreNoEnds
  <2> QED BY <2>2, <2>3, <2>4, <2>5
<1>7. ASSUME NEW i \in 1..Len(b), NEW t \in Blanks, Occurs(t, b, i), Len(b) < 3 * N + 2
      PROVE  FALSE
  <2>1. i >= 3 * N - 1
    BY <1>1, <1>6, <1>7
  <2>2. N \in 1..N /\ (3 * N + 1 <= Len(b) => b[3 * N + 1] = CR)
    <3>1. 3 * N + 1 <= Len(b) => 3 * N + 1 \in 1..Len(b) /\ 3 * N + 1 <= 3 * N + 2
      BY <1>1
    <3>2. N \in 1..N
      BY <1>1
    <3> QED BY <1>3, <1>4, <3>1, <3>2
  <2>3. /\ 3 * N - 1 <= Len(b) => b[3 * N - 1] = CR
        /\ 3 * N <= Len(b) => b[3 * N] = LF
    BY <1>5, <2>2
  <2>4. /\ t # <<LF, LF>> /\ t # <<CR, CR>>
    <3>1. /\ Occurs(<<LF, LF>>, b, i) => i + 1 <= Len(b) /\ b[i] = b[i + 1]
          /\ Occurs(<<CR, CR>>, b, i) => i + 1 <= Len(b) /\ b[i] = b[i + 1]
      BY OccursIs
    <3>2. i + 1 <= Len(b) => b[i] # b[i + 1]
      <4>1. i + 1 <= Len(b) => i = 3 * N - 1 \/ i = 3 * N
        BY <1>1, <1>7, <2>1
      <4>2. i = 3 * N - 1 => i + 1 = 3 * N
        BY <1>1
      <4> QED BY <1>1, <2>2, <2>3, <4>1, <4>2, LinesAreNoEnds
    <3> QED BY <1>7, <3>1, <3>2
  <2>5. Occurs(<<CR, LF, CR, LF>>, b, i) => i + 3 <= Len(b)
    BY OccursIs
  <2>6. t = <<CR, LF, CR, LF>>
    BY <2>4 DEF Blanks
  <2> QED BY <1>1, <1>7, <2>1, <2>5, <2>6
<1>8. ASSUME Len(b) < 3 * N + 2 PROVE FindEvent(b) = <<>>
  BY <1>7, <1>8, FindIs
<1>9. ASSUME Len(b) >= 3 * N + 2 PROVE FindEvent(b) = <<3 * N - 1, <<CR, LF, CR, LF>>>>
  <2>1. /\ 3 * N - 1 \in 1..Len(b) /\ 3 * N - 1 + 3 <= Len(b)
        /\ b[3 * N - 1] = CR /\ b[3 * N] = LF /\ b[3 * N + 1] = CR /\ b[3 * N + 2] = LF
    <3>1. /\ 3 * N - 1 \in 1..Len(b) /\ 3 * N \in 1..Len(b) /\ 3 * N + 1 \in 1..Len(b)
          /\ 3 * N + 2 \in 1..Len(b) /\ N \in 1..N /\ 3 * N - 1 + 3 <= Len(b)
      BY <1>1, <1>9
    <3>2. b[3 * N - 1] = CR /\ b[3 * N] = LF
      BY <1>5, <3>1, SMTT(30)
    <3>3. b[3 * N + 1] = CR /\ b[3 * N + 2] = LF
      BY <1>3, <1>4, <3>1, SMTT(30)
    <3> QED BY <3>1, <3>2, <3>3
  <2>2. Occurs(<<CR, LF, CR, LF>>, b, 3 * N - 1)
    <3>1. 3 * N - 1 + 1 = 3 * N /\ 3 * N - 1 + 2 = 3 * N + 1 /\ 3 * N - 1 + 3 = 3 * N + 2
      BY <1>1
    <3> QED BY <2>1, <3>1, OccursIs
  <2>3. <<CR, LF, CR, LF>> \in Blanks
    BY DEF Blanks
  <2>4. \A j \in 1..(3 * N - 1 - 1) : \A u \in Blanks : ~ Occurs(u, b, j)
    <3>1. \A j \in 1..(3 * N - 1 - 1) : j \in 1..Len(b) /\ j < 3 * N - 1
      BY <1>1, <1>9
    <3> QED BY <1>6, <3>1
  <2> QED BY <2>1, <2>2, <2>3, <2>4, FindIs
<1>10. 3 * N + 2 - 3 = 3 * N - 1
  BY <1>1
<1> QED BY <1>8, <1>9, <1>10, <1>1 DEF N

-----------------------------------------------------------------------------
(* The lines of an event.                                                  *)

\* What a line adds to what those above it said, and the frame of all.
Unread == [data |-> <<>>, name |-> ""]
Read(above, line) ==
    [data |-> IF line \in Data THEN Append(above.data, line) ELSE above.data,
     name |-> IF line \in Names THEN TypeOf[line] ELSE above.name]
FrameOf(event) ==
    IF event.data \in {<<>>, <<"done">>} THEN <<>>
    ELSE <<[type |-> IF event.name # "" THEN event.name
                     ELSE IF Len(event.data) = 1 THEN TypeOf[event.data[1]] ELSE "",
            data |-> event.data]>>

\* g has what is read of each beginning of raw.
Reading(raw, g) ==
    g = [i \in 0..Len(raw) |-> IF i = 0 THEN Unread ELSE Read(g[i - 1], raw[i])]

\* Each is the one before and a line.
LEMMA ReadingAt ==
    ASSUME NEW raw, NEW g, Reading(raw, g), NEW i \in 0..Len(raw)
    PROVE  g[i] = IF i = 0 THEN Unread ELSE Read(g[i - 1], raw[i])
BY DEF Reading

\* There are such readings, and a frame is that of the last.
LEMMA ReadingIs ==
    ASSUME NEW raw, Len(raw) \in Nat
    PROVE  \E g : Reading(raw, g) /\ ParseEvent(raw) = FrameOf(g[Len(raw)])
<1> DEFINE Upto(n, g) == g = [i \in 0..n |-> IF i = 0 THEN Unread ELSE Read(g[i - 1], raw[i])]
           S == {n \in 0..Len(raw) : \E g : Upto(n, g)}
<1>1. 0 \in S
  <2> DEFINE g == [i \in 0..0 |-> Unread]
  <2>1. g = [i \in 0..0 |-> IF i = 0 THEN Unread ELSE Read(g[i - 1], raw[i])]
    OBVIOUS
  <2>2. Upto(0, g)
    BY <2>1
  <2> HIDE DEF Upto, g
  <2> QED BY <2>2
<1>2. ASSUME NEW n \in 0..(Len(raw) - 1), n \in S PROVE n + 1 \in S
  <2>1. PICK g : Upto(n, g)
    BY <1>2
  <2> DEFINE h == [i \in 0..(n + 1) |-> IF i = 0 THEN Unread ELSE Read(g[i - 1], raw[i])]
  <2>2. ASSUME NEW i \in 0..n PROVE h[i] = g[i]
    <3>1. g[i] = IF i = 0 THEN Unread ELSE Read(g[i - 1], raw[i])
      BY <2>1
    <3>2. i \in 0..(n + 1)
      OBVIOUS
    <3>3. h[i] = IF i = 0 THEN Unread ELSE Read(g[i - 1], raw[i])
      BY <3>2
    <3> QED BY <3>1, <3>3
  <2>3. ASSUME NEW i \in 0..(n + 1)
        PROVE  (IF i = 0 THEN Unread ELSE Read(g[i - 1], raw[i]))
                   = IF i = 0 THEN Unread ELSE Read(h[i - 1], raw[i])
    <3>1. i # 0 => i - 1 \in 0..n
      OBVIOUS
    <3> HIDE DEF h
    <3> QED BY <2>2, <3>1
  <2>4. Upto(n + 1, h)
    <3> DEFINE k == [i \in 0..(n + 1) |-> IF i = 0 THEN Unread ELSE Read(h[i - 1], raw[i])]
    <3>1. h = k
      <4> SUFFICES \A i \in 0..(n + 1) : h[i] = k[i]
        OBVIOUS
      <4> QED BY <2>3
    <3> QED BY <3>1
  <2> HIDE DEF Upto, h
  <2> QED BY <2>4 DEF S
<1> HIDE DEF S
<1>3. Len(raw) \in 0..Len(raw) /\ \A n \in 0..Len(raw) : n \in S
  BY <1>1, <1>2, Climb
<1>4. PICK g : Upto(Len(raw), g)
  BY <1>3 DEF S
<1>5. \E h : Upto(Len(raw), h) /\ ParseEvent(raw) = FrameOf(h[Len(raw)])
  BY <1>4 DEF ParseEvent, FrameOf, Unread, Read
<1> QED BY <1>5 DEF Reading

\* A byte of an ending says nothing.
LEMMA EndsSayNothing ==
    ASSUME NEW raw \in Seq(Symbols), NEW g, Reading(raw, g), NEW i \in 1..Len(raw),
           raw[i] \in {CR, LF}
    PROVE  g[i] = g[i - 1]
<1>1. raw[i] \notin Data /\ raw[i] \notin Names
  BY LinesAreNoEnds DEF Lines
<1>2. i \in 0..Len(raw) /\ i - 1 \in 0..Len(raw) /\ i # 0
  OBVIOUS
<1>3. g[i] = Read(g[i - 1], raw[i])
  BY <1>2, ReadingAt
<1>4. g[i - 1] = IF i - 1 = 0 THEN Unread ELSE Read(g[i - 1 - 1], raw[i - 1])
  BY <1>2, ReadingAt
<1>5. g[i - 1] = [data |-> g[i - 1].data, name |-> g[i - 1].name]
  <2>1. Unread = [data |-> Unread.data, name |-> Unread.name]
    BY DEF Unread
  <2>2. \A a, l : Read(a, l) = [data |-> Read(a, l).data, name |-> Read(a, l).name]
    BY DEF Read
  <2> QED BY <1>4, <2>1, <2>2
<1> QED BY <1>1, <1>3, <1>5 DEF Read

\* An event is read the same whatever ends its lines, and wherever in the blank
\* line after it the text stops.
LEMMA ShortParses ==
    ASSUME NEW lines \in Seq(Lines), lines # <<>>, NEW x \in {CR, LF},
           NEW b \in Seq(Symbols), Starts(b, EventText(lines, <<x>>)),
           Len(b) \in (2 * Len(lines) - 1)..(2 * Len(lines) + 1)
    PROVE  ParseEvent(b) = ParseEvent(lines)
<1> DEFINE N == Len(lines)
<1>1. N \in Nat /\ N >= 1 /\ Len(b) \in Nat
  OBVIOUS
<1>2. PICK T : T = EventText(lines, <<x>>)
  OBVIOUS
<1>3. /\ Len(T) = 2 * N + 1 /\ T[2 * N + 1] = x
      /\ \A k \in 1..N : T[2 * k - 1] = lines[k] /\ T[2 * k] = x
  BY <1>2, ShortText
<1>4. \A i \in 1..Len(b) : b[i] = T[i]
  <2>1. \A i \in 1..Len(b) : i <= 2 * N + 1
    BY <1>1
  <2> QED BY <1>2, <1>3, <2>1 DEF Starts
<1>5. PICK g : Reading(b, g) /\ ParseEvent(b) = FrameOf(g[Len(b)])
  BY <1>1, ReadingIs
<1>6. PICK h : Reading(lines, h) /\ ParseEvent(lines) = FrameOf(h[N])
  BY <1>1, ReadingIs
<1>L. Len(b) \in (2 * N - 1)..(2 * N + 1)
  OBVIOUS
<1> DEFINE S == {p \in 0..Len(b) :
                    \A k \in 0..N : 2 * k - 1 <= p /\ (p <= 2 * k \/ k = N) => g[p] = h[k]}
<1>7. 0 \in S
  <2>1. g[0] = Unread /\ h[0] = Unread
    BY <1>1, <1>5, <1>6, ReadingAt DEF N
  <2>2. \A k \in 0..N : 2 * k - 1 <= 0 => k = 0
    BY <1>1
  <2> QED BY <1>1, <2>1, <2>2
<1>8. ASSUME NEW p \in 0..(Len(b) - 1), p \in S PROVE p + 1 \in S
  <2>1. p + 1 \in 1..Len(b) /\ p \in Nat /\ p + 1 - 1 = p /\ p + 1 \in 0..Len(b)
    BY <1>1
  <2> SUFFICES ASSUME NEW k \in 0..N, 2 * k - 1 <= p + 1, p + 1 <= 2 * k \/ k = N
               PROVE  g[p + 1] = h[k]
    BY <2>1
  <2>2. CASE p + 1 = 2 * k - 1
    <3>1. k \in 1..N /\ k - 1 \in 0..N /\ p = 2 * (k - 1) /\ k \in 0..Len(lines) /\ k # 0
      BY <1>1, <2>1, <2>2
    <3>2. g[p] = h[k - 1]
      <4>1. 2 * (k - 1) - 1 <= p /\ p <= 2 * (k - 1)
        BY <1>1, <3>1
      <4> QED BY <1>8, <3>1, <4>1
    <3>3. b[p + 1] = lines[k]
      BY <1>3, <1>4, <2>1, <2>2, <3>1
    <3>4. g[p + 1] = Read(g[p], b[p + 1])
      <4>1. p + 1 # 0
        BY <2>1
      <4> QED BY <1>5, <2>1, <4>1, ReadingAt
    <3>5. h[k] = Read(h[k - 1], lines[k])
      BY <1>6, <3>1, ReadingAt
    <3> QED BY <3>2, <3>3, <3>4, <3>5
  <2>3. CASE p + 1 # 2 * k - 1
    <3>1. 2 * k - 1 <= p /\ (p <= 2 * k \/ k = N)
      BY <1>1, <2>1, <2>3
    <3>2. g[p] = h[k]
      BY <1>8, <3>1
    <3>3. b[p + 1] = x
      <4>1. CASE p + 1 <= 2 * k /\ k # 0
        <5>1. p + 1 = 2 * k /\ k \in 1..N
          BY <1>1, <2>1, <3>1, <4>1
        <5>2. b[p + 1] = T[p + 1]
          BY <1>4, <2>1
        <5> QED BY <1>3, <5>1, <5>2
      <4>2. CASE ~ (p + 1 <= 2 * k /\ k # 0)
        <5>1. k = N /\ p + 1 = 2 * N + 1
          BY <1>1, <1>L, <2>1, <3>1, <4>2
        <5>2. b[p + 1] = T[p + 1]
          BY <1>4, <2>1
        <5> QED BY <1>3, <5>1, <5>2
      <4> QED BY <4>1, <4>2
    <3>4. g[p + 1] = g[p + 1 - 1]
      BY <1>5, <2>1, <3>3, EndsSayNothing
    <3> QED BY <2>1, <3>2, <3>4
  <2> QED BY <2>2, <2>3
<1> HIDE DEF S
<1>9. \A p \in 0..Len(b) : p \in S
  BY <1>1, <1>7, <1>8, Climb
<1>10. g[Len(b)] = h[N]
  <2>1. Len(b) \in S /\ N \in 0..N /\ 2 * N - 1 <= Len(b)
    BY <1>1, <1>9, <1>L
  <2> QED BY <2>1 DEF S
<1> QED BY <1>5, <1>6, <1>10

\* So under the ending of two bytes.
LEMMA LongParses ==
    ASSUME NEW lines \in Seq(Lines), lines # <<>>,
           NEW b \in Seq(Symbols), Starts(b, EventText(lines, <<CR, LF>>)),
           Len(b) \in (3 * Len(lines) - 2)..(3 * Len(lines) + 2)
    PROVE  ParseEvent(b) = ParseEvent(lines)
<1> DEFINE N == Len(lines)
<1>1. N \in Nat /\ N >= 1 /\ Len(b) \in Nat
  OBVIOUS
<1>2. PICK T : T = EventText(lines, <<CR, LF>>)
  OBVIOUS
<1>3. /\ Len(T) = 3 * N + 2 /\ T[3 * N + 1] = CR /\ T[3 * N + 2] = LF
      /\ \A k \in 1..N : T[3 * k - 2] = lines[k] /\ T[3 * k - 1] = CR /\ T[3 * k] = LF
  BY <1>2, LongText
<1>4. \A i \in 1..Len(b) : b[i] = T[i]
  <2>1. \A i \in 1..Len(b) : i <= 3 * N + 2
    BY <1>1
  <2> QED BY <1>2, <1>3, <2>1 DEF Starts
<1>5. PICK g : Reading(b, g) /\ ParseEvent(b) = FrameOf(g[Len(b)])
  BY <1>1, ReadingIs
<1>6. PICK h : Reading(lines, h) /\ ParseEvent(lines) = FrameOf(h[N])
  BY <1>1, ReadingIs
<1>L. Len(b) \in (3 * N - 2)..(3 * N + 2)
  OBVIOUS
<1> DEFINE S == {p \in 0..Len(b) :
                    \A k \in 0..N : 3 * k - 2 <= p /\ (p <= 3 * k \/ k = N) => g[p] = h[k]}
<1>7. 0 \in S
  <2>1. g[0] = Unread /\ h[0] = Unread
    BY <1>1, <1>5, <1>6, ReadingAt DEF N
  <2>2. \A k \in 0..N : 3 * k - 2 <= 0 => k = 0
    BY <1>1
  <2> QED BY <1>1, <2>1, <2>2
<1>8. ASSUME NEW p \in 0..(Len(b) - 1), p \in S PROVE p + 1 \in S
  <2>1. p + 1 \in 1..Len(b) /\ p \in Nat /\ p + 1 - 1 = p /\ p + 1 \in 0..Len(b)
    BY <1>1
  <2> SUFFICES ASSUME NEW k \in 0..N, 3 * k - 2 <= p + 1, p + 1 <= 3 * k \/ k = N
               PROVE  g[p + 1] = h[k]
    BY <2>1
  <2>2. CASE p + 1 = 3 * k - 2
    <3>1. k \in 1..N /\ k - 1 \in 0..N /\ p = 3 * (k - 1) /\ k \in 0..Len(lines) /\ k # 0
      BY <1>1, <2>1, <2>2
    <3>2. g[p] = h[k - 1]
      <4>1. 3 * (k - 1) - 2 <= p /\ p <= 3 * (k - 1)
        BY <1>1, <3>1
      <4> QED BY <1>8, <3>1, <4>1
    <3>3. b[p + 1] = lines[k]
      BY <1>3, <1>4, <2>1, <2>2, <3>1
    <3>4. g[p + 1] = Read(g[p], b[p + 1])
      <4>1. p + 1 # 0
        BY <2>1
      <4> QED BY <1>5, <2>1, <4>1, ReadingAt
    <3>5. h[k] = Read(h[k - 1], lines[k])
      BY <1>6, <3>1, ReadingAt
    <3> QED BY <3>2, <3>3, <3>4, <3>5
  <2>3. CASE p + 1 # 3 * k - 2
    <3>1. 3 * k - 2 <= p /\ (p <= 3 * k \/ k = N)
      BY <1>1, <2>1, <2>3
    <3>2. g[p] = h[k]
      BY <1>8, <3>1
    <3>3. b[p + 1] \in {CR, LF}
      <4>1. b[p + 1] = T[p + 1]
        BY <1>4, <2>1
      <4>2. CASE p + 1 <= 3 * k /\ k # 0
        <5>1. (p + 1 = 3 * k - 1 \/ p + 1 = 3 * k) /\ k \in 1..N
          BY <1>1, <2>1, <3>1, <4>2
        <5> QED BY <1>3, <4>1, <5>1
      <4>3. CASE ~ (p + 1 <= 3 * k /\ k # 0)
        <5>1. k = N /\ (p + 1 = 3 * N + 1 \/ p + 1 = 3 * N + 2)
          BY <1>1, <1>L, <2>1, <3>1, <4>3
        <5> QED BY <1>3, <4>1, <5>1
      <4> QED BY <4>2, <4>3
    <3>4. g[p + 1] = g[p + 1 - 1]
      BY <1>5, <2>1, <3>3, EndsSayNothing
    <3> QED BY <2>1, <3>2, <3>4
  <2> QED BY <2>2, <2>3
<1> HIDE DEF S
<1>9. \A p \in 0..Len(b) : p \in S
  BY <1>1, <1>7, <1>8, Climb
<1>10. g[Len(b)] = h[N]
  <2>1. Len(b) \in S /\ N \in 0..N /\ 3 * N - 2 <= Len(b)
    BY <1>1, <1>9, <1>L
  <2> QED BY <2>1 DEF S
<1> QED BY <1>5, <1>6, <1>10

\* The beginning of a sequence that starts a text starts it.
LEMMA BeginningStarts ==
    ASSUME NEW b \in Seq(Symbols), NEW T, Starts(b, T), NEW i \in 0..Len(b)
    PROVE  /\ SubSeq(b, 1, i) \in Seq(Symbols) /\ Len(SubSeq(b, 1, i)) = i
           /\ Starts(SubSeq(b, 1, i), T)
<1>1. SubSeq(b, 1, i) \in Seq(Symbols) /\ Len(SubSeq(b, 1, i)) = i
  OBVIOUS
<1>2. \A j \in 1..i : SubSeq(b, 1, i)[j] = b[j] /\ j \in 1..Len(b)
  OBVIOUS
<1> QED BY <1>1, <1>2 DEF Starts

\* An event's text: where its end is found once it is there, that nothing is
\* found before, and what is read of it, whole or cut in its blank line.
LEMMA EventFound ==
    ASSUME NEW lines \in Seq(Lines), lines # <<>>, NEW e \in Endings,
           NEW b \in Seq(Symbols), Starts(b, EventText(lines, e))
    PROVE  LET M == Len(EventText(lines, e))
           IN  /\ EventText(lines, e) \in Seq(Symbols)
               /\ M \in Nat /\ M > 2 * Len(e)
               /\ Len(b) < M => FindEvent(b) = <<>>
               /\ Len(b) >= M =>
                    \E i \in 1..Len(b), t \in Blanks :
                        /\ FindEvent(b) = <<i, t>> /\ i + Len(t) = M + 1
                        /\ ParseEvent(SubSeq(b, 1, i - 1)) = ParseEvent(lines)
               /\ M - 2 * Len(e) <= Len(b) /\ Len(b) <= M =>
                    ParseEvent(b) = ParseEvent(lines)
<1>N. PICK N : N = Len(lines)
  OBVIOUS
<1>1. N \in Nat /\ N >= 1 /\ Len(b) \in Nat
  BY <1>N
<1>2. CASE e = <<CR, LF>>
  <2>1. Len(EventText(lines, e)) = 3 * N + 2 /\ EventText(lines, e) \in Seq(Symbols)
    BY <1>N, <1>2, LongText
  <2>2. Len(e) = 2
    BY <1>2
  <2>3. /\ Len(b) < 3 * N + 2 => FindEvent(b) = <<>>
        /\ Len(b) >= 3 * N + 2 => FindEvent(b) = <<3 * N + 2 - 3, <<CR, LF, CR, LF>>>>
    <3>1. Starts(b, EventText(lines, <<CR, LF>>))
      BY <1>2
    <3> QED BY <1>N, <3>1, LongEnds, SMTT(40)
  <2>4. ASSUME NEW i \in 0..Len(b), i \in (3 * N - 2)..(3 * N + 2)
        PROVE  ParseEvent(SubSeq(b, 1, i)) = ParseEvent(lines)
    <3>1. /\ SubSeq(b, 1, i) \in Seq(Symbols) /\ Len(SubSeq(b, 1, i)) = i
          /\ Starts(SubSeq(b, 1, i), EventText(lines, <<CR, LF>>))
      BY <1>2, BeginningStarts
    <3> QED BY <1>N, <2>4, <3>1, LongParses
  <2>5. <<CR, LF, CR, LF>> \in Blanks /\ Len(<<CR, LF, CR, LF>>) = 4
    BY DEF Blanks
  <2>6. SubSeq(b, 1, Len(b)) = b
    OBVIOUS
  <2>7. ASSUME Len(b) >= 3 * N + 2
        PROVE  \E i \in 1..Len(b), t \in Blanks :
                   /\ FindEvent(b) = <<i, t>> /\ i + Len(t) = 3 * N + 2 + 1
                   /\ ParseEvent(SubSeq(b, 1, i - 1)) = ParseEvent(lines)
    <3>1. PICK i \in Int : i = 3 * N + 2 - 3
      BY <1>1
    <3>2. /\ i \in 1..Len(b) /\ i - 1 \in 0..Len(b) /\ i - 1 \in (3 * N - 2)..(3 * N + 2)
          /\ i + 4 = 3 * N + 2 + 1
      BY <1>1, <2>7, <3>1
    <3>3. ParseEvent(SubSeq(b, 1, i - 1)) = ParseEvent(lines)
      BY <2>4, <3>2
    <3>4. FindEvent(b) = <<i, <<CR, LF, CR, LF>>>>
      BY <2>3, <2>7, <3>1
    <3> QED BY <2>5, <3>2, <3>3, <3>4
  <2>8. ASSUME 3 * N + 2 - 2 * 2 <= Len(b), Len(b) <= 3 * N + 2 PROVE ParseEvent(b) = ParseEvent(lines)
    <3>1. Len(b) \in 0..Len(b) /\ Len(b) \in (3 * N - 2)..(3 * N + 2)
      BY <1>1, <2>8
    <3>2. ParseEvent(SubSeq(b, 1, Len(b))) = ParseEvent(lines)
      BY <2>4, <3>1
    <3> QED BY <2>6, <3>2
  <2>9. 3 * N + 2 \in Nat /\ 3 * N + 2 > 2 * 2
    BY <1>1
  <2>10. Len(b) < Len(EventText(lines, e)) => FindEvent(b) = <<>>
    BY <2>1, <2>3
  <2>11. Len(b) >= Len(EventText(lines, e)) =>
             \E i \in 1..Len(b), t \in Blanks :
                 /\ FindEvent(b) = <<i, t>> /\ i + Len(t) = Len(EventText(lines, e)) + 1
                 /\ ParseEvent(SubSeq(b, 1, i - 1)) = ParseEvent(lines)
    BY <2>1, <2>7
  <2>12. Len(EventText(lines, e)) - 2 * Len(e) <= Len(b) /\ Len(b) <= Len(EventText(lines, e))
             => ParseEvent(b) = ParseEvent(lines)
    <3>1. Len(EventText(lines, e)) - 2 * Len(e) = 3 * N + 2 - 2 * 2
      BY <1>1, <2>1, <2>2
    <3> QED BY <2>1, <2>8, <3>1
  <2>13. /\ EventText(lines, e) \in Seq(Symbols)
         /\ Len(EventText(lines, e)) \in Nat /\ Len(EventText(lines, e)) > 2 * Len(e)
    BY <2>1, <2>2, <2>9
  <2> QED BY <2>10, <2>11, <2>12, <2>13
<1>3. CASE e # <<CR, LF>>
  <2>1. PICK x \in {CR, LF} : e = <<x>>
    BY <1>3 DEF Endings
  <2>2. Len(EventText(lines, e)) = 2 * N + 1 /\ EventText(lines, e) \in Seq(Symbols)
    BY <1>N, <2>1, ShortText
  <2>3. Len(e) = 1
    BY <2>1
  <2>4. /\ Len(b) < 2 * N + 1 => FindEvent(b) = <<>>
        /\ Len(b) >= 2 * N + 1 => FindEvent(b) = <<2 * N + 1 - 1, <<x, x>>>>
    <3>1. Starts(b, EventText(lines, <<x>>))
      BY <2>1
    <3>2. /\ Len(b) < 2 * Len(lines) + 1 => FindEvent(b) = <<>>
          /\ Len(b) >= 2 * Len(lines) + 1 =>
                FindEvent(b) = <<(2 * Len(lines) + 1) - 1, <<x, x>>>>
      <4>1. x \in {CR, LF} /\ lines # <<>>
        BY <2>1
      <4> QED BY <3>1, <4>1, ShortEnds
    <3> QED BY <1>N, <3>2
  <2>5. ASSUME NEW i \in 0..Len(b), i \in (2 * N - 1)..(2 * N + 1)
        PROVE  ParseEvent(SubSeq(b, 1, i)) = ParseEvent(lines)
    <3>1. /\ SubSeq(b, 1, i) \in Seq(Symbols) /\ Len(SubSeq(b, 1, i)) = i
          /\ Starts(SubSeq(b, 1, i), EventText(lines, <<x>>))
      BY <2>1, BeginningStarts
    <3> QED BY <1>N, <2>5, <3>1, ShortParses
  <2>6. <<x, x>> \in Blanks /\ Len(<<x, x>>) = 2
    BY DEF Blanks
  <2>7. SubSeq(b, 1, Len(b)) = b
    OBVIOUS
  <2>8. ASSUME Len(b) >= 2 * N + 1
        PROVE  \E i \in 1..Len(b), t \in Blanks :
                   /\ FindEvent(b) = <<i, t>> /\ i + Len(t) = 2 * N + 1 + 1
                   /\ ParseEvent(SubSeq(b, 1, i - 1)) = ParseEvent(lines)
    <3>1. PICK i \in Int : i = 2 * N + 1 - 1
      BY <1>1
    <3>2. /\ i \in 1..Len(b) /\ i - 1 \in 0..Len(b) /\ i - 1 \in (2 * N - 1)..(2 * N + 1)
          /\ i + 2 = 2 * N + 1 + 1
      BY <1>1, <2>8, <3>1
    <3>3. ParseEvent(SubSeq(b, 1, i - 1)) = ParseEvent(lines)
      BY <2>5, <3>2
    <3>4. FindEvent(b) = <<i, <<x, x>>>>
      BY <2>4, <2>8, <3>1
    <3> QED BY <2>6, <3>2, <3>3, <3>4
  <2>9. ASSUME 2 * N + 1 - 2 * 1 <= Len(b), Len(b) <= 2 * N + 1 PROVE ParseEvent(b) = ParseEvent(lines)
    <3>1. Len(b) \in 0..Len(b) /\ Len(b) \in (2 * N - 1)..(2 * N + 1)
      BY <1>1, <2>9
    <3>2. ParseEvent(SubSeq(b, 1, Len(b))) = ParseEvent(lines)
      BY <2>5, <3>1
    <3> QED BY <2>7, <3>2
  <2>10. 2 * N + 1 \in Nat /\ 2 * N + 1 > 2 * 1
    BY <1>1
  <2>11. Len(b) < Len(EventText(lines, e)) => FindEvent(b) = <<>>
    BY <2>2, <2>4
  <2>12. Len(b) >= Len(EventText(lines, e)) =>
             \E i \in 1..Len(b), t \in Blanks :
                 /\ FindEvent(b) = <<i, t>> /\ i + Len(t) = Len(EventText(lines, e)) + 1
                 /\ ParseEvent(SubSeq(b, 1, i - 1)) = ParseEvent(lines)
    BY <2>2, <2>8
  <2>13. Len(EventText(lines, e)) - 2 * Len(e) <= Len(b) /\ Len(b) <= Len(EventText(lines, e))
             => ParseEvent(b) = ParseEvent(lines)
    <3>1. Len(EventText(lines, e)) - 2 * Len(e) = 2 * N + 1 - 2 * 1
      BY <1>1, <2>2, <2>3
    <3> QED BY <2>2, <2>9, <3>1
  <2>14. /\ EventText(lines, e) \in Seq(Symbols)
         /\ Len(EventText(lines, e)) \in Nat /\ Len(EventText(lines, e)) > 2 * Len(e)
    BY <2>2, <2>3, <2>10
  <2> QED BY <2>11, <2>12, <2>13, <2>14
<1> QED BY <1>2, <1>3

-----------------------------------------------------------------------------
(* The text of a stream.                                                   *)

\* The texts of its events.
Texts(s, e) == [i \in 1..Len(s) |-> EventText(s[i], e)]

\* A stream of events that have lines.
LinedUp(s) == s \in Seq(Seq(Lines)) /\ \A i \in 1..Len(s) : s[i] # <<>>

\* What a text is, without its events.
LEMMA TextOf ==
    ASSUME NEW lines \in Seq(Lines), lines # <<>>, NEW e \in Endings
    PROVE  /\ EventText(lines, e) \in Seq(Symbols) /\ Len(EventText(lines, e)) \in Nat
           /\ Len(EventText(lines, e)) > 2 * Len(e)
<1>1. <<>> \in Seq(Symbols) /\ Starts(<<>>, EventText(lines, e))
  BY DEF Starts
<1> QED BY <1>1, EventFound

\* The texts of events are sequences of symbols.
LEMMA TextsAre ==
    ASSUME NEW s, LinedUp(s), NEW e \in Endings
    PROVE  /\ Texts(s, e) \in Seq(Seq(Symbols)) /\ Len(Texts(s, e)) = Len(s) /\ Len(s) \in Nat
           /\ \A i \in 1..Len(s) : /\ s[i] \in Seq(Lines) /\ s[i] # <<>>
                                   /\ Texts(s, e)[i] = EventText(s[i], e)
           /\ Text(s, e) = FlattenSeq(Texts(s, e))
<1>1. s \in Seq(Seq(Lines)) /\ Len(s) \in Nat
  BY DEF LinedUp
<1>2. \A i \in 1..Len(s) : s[i] \in Seq(Lines) /\ s[i] # <<>>
  BY <1>1 DEF LinedUp
<1>3. \A i \in 1..Len(s) : EventText(s[i], e) \in Seq(Symbols)
  BY <1>2, TextOf
<1>4. Text(s, e) = FlattenSeq(Texts(s, e))
  BY DEF Text, Texts
<1>5. Texts(s, e) \in Seq(Seq(Symbols)) /\ Len(Texts(s, e)) = Len(s)
  BY <1>1, <1>3 DEF Texts
<1> QED BY <1>1, <1>2, <1>4, <1>5 DEF Texts

\* The first k events in text, and what comes after them.
Upto(s, e, k) == JoinedUpto(Texts(s, e), k)
Rest(s, e, cut, k) == SubSeq(Text(s, e), Len(Upto(s, e, k)) + 1, Len(Text(s, e)) - cut)

\* Each event's text is added to those before.
LEMMA UptoIs ==
    ASSUME NEW s, LinedUp(s), NEW e \in Endings
    PROVE  /\ \A k \in 0..Len(s) : Upto(s, e, k) \in Seq(Symbols) /\ Len(Upto(s, e, k)) \in Nat
           /\ Upto(s, e, 0) = <<>> /\ Upto(s, e, Len(s)) = Text(s, e)
           /\ \A k \in 0..(Len(s) - 1) :
                  /\ Len(Upto(s, e, k + 1)) = Len(Upto(s, e, k)) + Len(EventText(s[k + 1], e))
                  /\ \A i \in 1..Len(Upto(s, e, k)) : Upto(s, e, k + 1)[i] = Upto(s, e, k)[i]
                  /\ \A i \in 1..Len(EventText(s[k + 1], e)) :
                        Upto(s, e, k + 1)[Len(Upto(s, e, k)) + i] = EventText(s[k + 1], e)[i]
<1> DEFINE p == Texts(s, e)
<1>1. /\ p \in Seq(Seq(Symbols)) /\ Len(p) = Len(s) /\ Len(s) \in Nat
      /\ \A i \in 1..Len(s) : p[i] = EventText(s[i], e)
      /\ Text(s, e) = FlattenSeq(p)
  BY TextsAre
<1>2. /\ \A n \in 0..Len(s) : Upto(s, e, n) \in Seq(Symbols)
      /\ Upto(s, e, 0) = <<>> /\ Upto(s, e, Len(s)) = FlattenSeq(p)
      /\ \A n \in 0..(Len(s) - 1) : Upto(s, e, n + 1) = Upto(s, e, n) \o p[n + 1]
  <2> HIDE DEF p
  <2>1. /\ \A n \in 0..Len(p) : JoinedUpto(p, n) \in Seq(Symbols)
        /\ JoinedUpto(p, 0) = <<>> /\ JoinedUpto(p, Len(p)) = FlattenSeq(p)
        /\ \A n \in 0..(Len(p) - 1) : JoinedUpto(p, n + 1) = JoinedUpto(p, n) \o p[n + 1]
    BY <1>1, JoinedUptoIs
  <2>2. \A n : Upto(s, e, n) = JoinedUpto(p, n)
    BY DEF Upto, p
  <2> QED BY <1>1, <2>1, <2>2
<1> HIDE DEF p
<1>3. ASSUME NEW k \in 0..(Len(s) - 1)
      PROVE  /\ Len(Upto(s, e, k + 1)) = Len(Upto(s, e, k)) + Len(EventText(s[k + 1], e))
             /\ \A i \in 1..Len(Upto(s, e, k)) : Upto(s, e, k + 1)[i] = Upto(s, e, k)[i]
             /\ \A i \in 1..Len(EventText(s[k + 1], e)) :
                   Upto(s, e, k + 1)[Len(Upto(s, e, k)) + i] = EventText(s[k + 1], e)[i]
  <2>1. k \in 0..Len(s) /\ k + 1 \in 1..Len(s)
    BY <1>1
  <2>2. p[k + 1] = EventText(s[k + 1], e)
    BY <1>1, <2>1
  <2>3. p[k + 1] \in Seq(Symbols)
    BY <1>1, <2>1
  <2>4. PICK f : f = Upto(s, e, k) /\ f \in Seq(Symbols)
    BY <1>2, <2>1
  <2>5. PICK t : t = EventText(s[k + 1], e) /\ t \in Seq(Symbols)
    BY <2>2, <2>3
  <2>6. Upto(s, e, k + 1) = f \o t
    BY <1>2, <2>2, <2>4, <2>5
  <2>7. /\ Len(f \o t) = Len(f) + Len(t)
        /\ \A i \in 1..Len(f) : (f \o t)[i] = f[i]
        /\ \A i \in 1..Len(t) : (f \o t)[Len(f) + i] = t[i]
    BY <2>4, <2>5, ConcatIs
  <2> QED BY <2>4, <2>5, <2>6, <2>7
<1>4. \A k \in 0..Len(s) : Len(Upto(s, e, k)) \in Nat
  BY <1>2
<1> QED BY <1>1, <1>2, <1>3, <1>4

\* What the first events are, the whole text starts with.
LEMMA UptoStarts ==
    ASSUME NEW s, LinedUp(s), NEW e \in Endings, NEW k \in 0..Len(s)
    PROVE  /\ Len(Upto(s, e, k)) <= Len(Text(s, e))
           /\ \A i \in 1..Len(Upto(s, e, k)) : Text(s, e)[i] = Upto(s, e, k)[i]
<1> DEFINE n == Len(s) - k
           S == {m \in 0..n :
                    /\ Len(Upto(s, e, k)) <= Len(Upto(s, e, k + m))
                    /\ \A i \in 1..Len(Upto(s, e, k)) : Upto(s, e, k + m)[i] = Upto(s, e, k)[i]}
<1>1. Len(s) \in Nat
  BY TextsAre
<1>2. n \in Nat /\ k + n = Len(s) /\ k \in Nat /\ \A m \in 0..n : k + m \in 0..Len(s)
  BY <1>1
<1>3. 0 \in S
  BY <1>2, UptoIs
<1>4. ASSUME NEW m \in 0..(n - 1), m \in S PROVE m + 1 \in S
  <2>1. /\ k + m \in 0..(Len(s) - 1) /\ k + m \in 0..Len(s) /\ k + m + 1 = k + (m + 1)
        /\ k + m + 1 \in 1..Len(s) /\ m + 1 \in 0..n
    BY <1>1, <1>2
  <2>2. PICK A : A = Upto(s, e, k) /\ Len(A) \in Nat
    BY UptoIs
  <2>3. PICK B : B = Upto(s, e, k + m) /\ Len(B) \in Nat
    BY <2>1, UptoIs
  <2>4. PICK C : C = Upto(s, e, k + m + 1)
    OBVIOUS
  <2>5. s[k + m + 1] \in Seq(Lines) /\ s[k + m + 1] # <<>>
    BY <2>1, TextsAre
  <2>6. PICK t : t = EventText(s[k + m + 1], e) /\ Len(t) \in Nat
    BY <2>5, TextOf
  <2>7. Len(C) = Len(B) + Len(t) /\ \A i \in 1..Len(B) : C[i] = B[i]
    BY <2>1, <2>3, <2>4, <2>6, UptoIs
  <2>8. Len(A) <= Len(B) /\ \A i \in 1..Len(A) : B[i] = A[i]
    BY <1>4, <2>2, <2>3
  <2>9. Len(A) <= Len(C) /\ \A i \in 1..Len(A) : C[i] = A[i]
    <3>1. \A i \in 1..Len(A) : i \in 1..Len(B)
      BY <2>2, <2>3, <2>8
    <3>2. Len(A) <= Len(C)
      BY <2>2, <2>3, <2>6, <2>7, <2>8
    <3> QED BY <2>7, <2>8, <3>1, <3>2
  <2>10. C = Upto(s, e, k + (m + 1))
    BY <2>1, <2>4
  <2> QED BY <2>1, <2>2, <2>9, <2>10
<1> HIDE DEF S
<1>5. \A m \in 0..n : m \in S
  <2> HIDE DEF n
  <2> QED BY <1>2, <1>3, <1>4, Climb
<1>6. n \in S
  BY <1>2, <1>5
<1>7. /\ Len(Upto(s, e, k)) <= Len(Upto(s, e, k + n))
      /\ \A i \in 1..Len(Upto(s, e, k)) : Upto(s, e, k + n)[i] = Upto(s, e, k)[i]
  BY <1>6 DEF S
<1>8. Upto(s, e, k + n) = Text(s, e)
  BY <1>2, UptoIs
<1> QED BY <1>7, <1>8

\* What comes after the first events: nothing after the last; before, a text
\* that starts with the next event's, and unless that is the last, and cut,
\* what comes after that.
LEMMA RestIs ==
    ASSUME NEW s, LinedUp(s), NEW e \in Endings, NEW cut \in 0..(2 * Len(e)),
           cut <= Len(Text(s, e)), NEW k \in 0..Len(s)
    PROVE  /\ Rest(s, e, cut, k) \in Seq(Symbols)
           /\ k = Len(s) => Rest(s, e, cut, k) = <<>>
           /\ k # Len(s) =>
                LET R == Rest(s, e, cut, k)
                    T == EventText(s[k + 1], e)
                IN  /\ Starts(R, T)
                    /\ k + 1 # Len(s) \/ cut = 0 =>
                          /\ Len(R) >= Len(T)
                          /\ Rest(s, e, cut, k + 1) = SubSeq(R, Len(T) + 1, Len(R))
                    /\ k + 1 = Len(s) => Len(R) = Len(T) - cut
<1>1. Len(s) \in Nat /\ k \in Nat /\ Len(e) \in Nat
  BY TextsAre DEF Endings
<1>2. PICK X : X = Text(s, e)
  OBVIOUS
<1>3. X \in Seq(Symbols) /\ Len(X) \in Nat
  BY <1>1, <1>2, UptoIs
<1>4. PICK U : U = Upto(s, e, k)
  OBVIOUS
<1>5. Len(U) \in Nat /\ Len(U) <= Len(X)
  BY <1>2, <1>4, UptoIs, UptoStarts
<1>6. Rest(s, e, cut, k) = SubSeq(X, Len(U) + 1, Len(X) - cut)
  BY <1>2, <1>4 DEF Rest
<1>7. cut \in Nat /\ cut <= 2 * Len(e) /\ cut <= Len(X)
  BY <1>1, <1>2
<1>8. PICK R : R = SubSeq(X, Len(U) + 1, Len(X) - cut)
  OBVIOUS
<1>9. R \in Seq(Symbols)
  BY <1>3, <1>5, <1>7, <1>8
<1>10. CASE k = Len(s)
  <2>1. U = X
    BY <1>2, <1>4, <1>10, UptoIs
  <2>2. R = <<>>
    BY <1>3, <1>7, <1>8, <2>1
  <2> QED BY <1>6, <1>8, <1>9, <1>10, <2>2
<1>11. CASE k # Len(s)
  <2>1. k \in 0..(Len(s) - 1) /\ k + 1 \in 0..Len(s) /\ k + 1 \in 1..Len(s)
    BY <1>1, <1>11
  <2>2. PICK T : T = EventText(s[k + 1], e)
    OBVIOUS
  <2>3. Len(T) \in Nat /\ Len(T) > 2 * Len(e)
    BY <2>1, <2>2, TextsAre, TextOf
  <2>4. PICK V : V = Upto(s, e, k + 1)
    OBVIOUS
  <2>5. Len(V) = Len(U) + Len(T) /\ \A i \in 1..Len(T) : V[Len(U) + i] = T[i]
    <3>1. \A j \in 0..(Len(s) - 1) :
             /\ Len(Upto(s, e, j + 1)) = Len(Upto(s, e, j)) + Len(EventText(s[j + 1], e))
             /\ \A i \in 1..Len(EventText(s[j + 1], e)) :
                   Upto(s, e, j + 1)[Len(Upto(s, e, j)) + i] = EventText(s[j + 1], e)[i]
      BY UptoIs, SMTT(30)
    <3>2. /\ Len(Upto(s, e, k + 1)) = Len(Upto(s, e, k)) + Len(EventText(s[k + 1], e))
          /\ \A i \in 1..Len(EventText(s[k + 1], e)) :
                Upto(s, e, k + 1)[Len(Upto(s, e, k)) + i] = EventText(s[k + 1], e)[i]
      BY <2>1, <3>1, ZenonT(40)
    <3> QED BY <1>4, <2>2, <2>4, <3>2, ZenonT(40)
  <2>6. Len(V) <= Len(X) /\ \A i \in 1..Len(V) : X[i] = V[i]
    BY <1>2, <2>1, <2>4, UptoStarts
  <2>7. Len(X) - cut >= Len(U)
    BY <1>1, <1>3, <1>5, <1>7, <2>3, <2>5, <2>6
  <2>8. Len(R) = Len(X) - cut - Len(U) /\ \A i \in 1..Len(R) : R[i] = X[Len(U) + i]
    BY <1>3, <1>5, <1>7, <1>8, <2>7
  <2>9. Starts(R, T)
    <3> SUFFICES ASSUME NEW i \in 1..Len(R), i <= Len(T) PROVE R[i] = T[i]
      BY DEF Starts
    <3>1. i \in 1..Len(T) /\ Len(U) + i \in 1..Len(V)
      BY <1>5, <2>3, <2>5
    <3> QED BY <2>5, <2>6, <2>8, <3>1
  <2>10. Rest(s, e, cut, k + 1) = SubSeq(X, Len(V) + 1, Len(X) - cut)
    BY <1>2, <2>4 DEF Rest
  <2>11. ASSUME k + 1 = Len(s) PROVE Len(R) = Len(T) - cut
    <3>1. V = X
      BY <1>2, <2>4, <2>11, UptoIs
    <3> QED BY <1>3, <1>5, <1>7, <2>3, <2>5, <2>8, <3>1
  <2>12. ASSUME k + 1 # Len(s) \/ cut = 0 PROVE Len(X) - cut >= Len(V)
    <3>1. CASE cut = 0
      BY <1>3, <2>6, <3>1
    <3>2. CASE k + 1 # Len(s)
      <4>1. k + 1 \in 0..(Len(s) - 1) /\ k + 1 + 1 \in 0..Len(s) /\ k + 1 + 1 \in 1..Len(s)
        BY <1>1, <2>1, <3>2
      <4>2. PICK t : t = EventText(s[k + 1 + 1], e) /\ Len(t) \in Nat /\ Len(t) > 2 * Len(e)
        BY <4>1, TextsAre, TextOf
      <4>3. PICK W : W = Upto(s, e, k + 1 + 1)
        OBVIOUS
      <4>4. Len(W) = Len(V) + Len(t)
        BY <2>4, <4>1, <4>2, <4>3, UptoIs
      <4>5. Len(W) <= Len(X)
        BY <1>2, <4>1, <4>3, UptoStarts
      <4> QED BY <1>1, <1>3, <1>5, <1>7, <2>3, <2>5, <4>2, <4>4, <4>5
    <3> QED BY <2>12, <3>1, <3>2
  <2>13. ASSUME k + 1 # Len(s) \/ cut = 0
         PROVE  Len(R) >= Len(T) /\ SubSeq(X, Len(V) + 1, Len(X) - cut) = SubSeq(R, Len(T) + 1, Len(R))
    <3>1. Len(R) >= Len(T)
      BY <1>3, <1>5, <1>7, <2>3, <2>5, <2>8, <2>12, <2>13
    <3>2. PICK A : A = SubSeq(X, Len(V) + 1, Len(X) - cut)
      OBVIOUS
    <3>3. PICK B : B = SubSeq(R, Len(T) + 1, Len(R))
      OBVIOUS
    <3>4. /\ A \in Seq(Symbols) /\ Len(A) = Len(X) - cut - Len(V)
          /\ \A i \in 1..Len(A) : A[i] = X[Len(V) + i]
      BY <1>3, <1>5, <1>7, <2>3, <2>5, <2>12, <2>13, <3>2, SMTT(30)
    <3>5. /\ B \in Seq(Symbols) /\ Len(B) = Len(R) - Len(T)
          /\ \A i \in 1..Len(B) : B[i] = R[Len(T) + i]
      BY <1>9, <2>3, <3>1, <3>3
    <3>6. Len(A) = Len(B)
      BY <1>3, <1>5, <1>7, <2>3, <2>5, <2>8, <3>4, <3>5
    <3>7. \A i \in 1..Len(A) : A[i] = B[i]
      <4>1. ASSUME NEW i \in 1..Len(A) PROVE A[i] = B[i]
        <5>1. Len(T) + i \in 1..Len(R) /\ Len(U) + (Len(T) + i) = Len(V) + i
          BY <1>5, <1>9, <2>3, <2>5, <3>1, <3>5, <3>6
        <5> QED BY <2>8, <3>4, <3>5, <3>6, <5>1
      <4> QED BY <4>1
    <3>8. A = B
      BY <3>4, <3>5, <3>6, <3>7, SMTT(30)
    <3> QED BY <3>1, <3>2, <3>3, <3>8
  <2> QED BY <1>6, <1>8, <1>9, <1>11, <2>2, <2>9, <2>10, <2>11, <2>13
<1> QED BY <1>10, <1>11

\* The stream comes under an ending, less a part of its last blank line.
Cut(s, e, cut) ==
    LinedUp(s) /\ e \in Endings /\ cut \in 0..(2 * Len(e)) /\ cut <= Len(Text(s, e))

\* What is joined to b goes on where b stops.
LEMMA JoinedStarts ==
    ASSUME NEW b \in Seq(Symbols), NEW w \in Seq(Symbols), NEW T, Starts(b \o w, T)
    PROVE  Starts(b, T)
<1>1. /\ Len(b \o w) = Len(b) + Len(w) /\ Len(b) \in Nat /\ Len(w) \in Nat
      /\ \A i \in 1..Len(b) : (b \o w)[i] = b[i]
  BY ConcatIs
<1>2. \A i \in 1..Len(b) : i \in 1..Len(b \o w)
  BY <1>1
<1> QED BY <1>1, <1>2 DEF Starts

\* Nothing is found in nothing, nor read of it.
LEMMA NothingInNothing == FindEvent(<<>>) = <<>> /\ ParseEvent(<<>>) = <<>>
<1>1. <<>> \in Seq(Symbols) /\ Len(<<>>) = 0
  OBVIOUS
<1>2. PICK z : z = <<>> /\ z \in Seq(Symbols) /\ Len(z) = 0
  BY <1>1
<1>3. FindEvent(z) = <<>>
  <2>1. \A i \in 1..Len(z) : FALSE
    BY <1>2
  <2> QED BY <1>2, <2>1, FindIs
<1>4. PICK g : Reading(z, g) /\ ParseEvent(z) = FrameOf(g[Len(z)])
  BY <1>2, ReadingIs
<1>5. g[Len(z)] = Unread
  BY <1>2, <1>4, ReadingAt
<1>6. FrameOf(Unread) = <<>>
  <2>1. Unread.data = <<>>
    BY DEF Unread
  <2> QED BY <2>1 DEF FrameOf
<1> QED BY <1>2, <1>3, <1>4, <1>5, <1>6

\* Of what comes after the first k events, b has come and w is to come.
Coming(s, e, cut, k, b, w) ==
    b \in Seq(Symbols) /\ w \in Seq(Symbols) /\ b \o w = Rest(s, e, cut, k)

\* An end that is found is that of the next event.
LEMMA CutOne ==
    ASSUME NEW s, NEW e, NEW cut, Cut(s, e, cut), NEW k \in 0..Len(s),
           NEW b, NEW w, Coming(s, e, cut, k, b, w), NEW f, f = FindEvent(b), f # <<>>
    PROVE  \E rest, raw :
               /\ rest = SubSeq(b, f[1] + Len(f[2]), Len(b)) /\ raw = SubSeq(b, 1, f[1] - 1)
               /\ k + 1 \in 1..Len(s)
               /\ Coming(s, e, cut, k + 1, rest, w) /\ Len(rest) < Len(b)
               /\ ParseEvent(raw) = ParseEvent(s[k + 1])
<1> SUFFICES ASSUME b \in Seq(Symbols), w \in Seq(Symbols), b \o w = Rest(s, e, cut, k)
             PROVE  \E rest, raw :
                       /\ rest = SubSeq(b, f[1] + Len(f[2]), Len(b)) /\ raw = SubSeq(b, 1, f[1] - 1)
                       /\ k + 1 \in 1..Len(s)
                       /\ Coming(s, e, cut, k + 1, rest, w) /\ Len(rest) < Len(b)
                       /\ ParseEvent(raw) = ParseEvent(s[k + 1])
  BY DEF Coming
<1>1. LinedUp(s) /\ e \in Endings /\ cut \in 0..(2 * Len(e)) /\ cut <= Len(Text(s, e))
  BY DEF Cut
<1>2. Len(s) \in Nat
  BY <1>1, TextsAre
<1>3. PICK R : R = Rest(s, e, cut, k) /\ R \in Seq(Symbols)
  BY <1>1, RestIs
<1>4. /\ Len(R) = Len(b) + Len(w) /\ Len(b) \in Nat /\ Len(w) \in Nat /\ R = b \o w
      /\ \A i \in 1..Len(b) : R[i] = b[i]
      /\ \A i \in 1..Len(w) : R[Len(b) + i] = w[i]
  BY <1>3, ConcatIs
<1>5. k # Len(s)
  <2>1. ASSUME k = Len(s) PROVE FALSE
    <3>1. R = <<>>
      BY <1>1, <1>3, <2>1, RestIs
    <3>2. Len(b) = 0
      BY <1>4, <3>1
    <3>3. b = <<>>
      BY <3>2
    <3> QED BY <3>3, NothingInNothing
  <2> QED BY <2>1
<1>6. k + 1 \in 1..Len(s) /\ k + 1 \in 0..Len(s)
  BY <1>2, <1>5
<1>7. PICK l : l = s[k + 1] /\ l \in Seq(Lines) /\ l # <<>>
  BY <1>1, <1>6, TextsAre
<1>8. PICK T : T = EventText(l, e) /\ Len(T) \in Nat
  BY <1>1, <1>7, TextOf
<1>9. Starts(R, T)
  BY <1>1, <1>3, <1>5, <1>7, <1>8, RestIs
<1>10. Starts(b, EventText(l, e))
  BY <1>4, <1>8, <1>9, JoinedStarts
<1>11. Len(b) >= Len(T)
  <2>1. Len(b) < Len(T) => FindEvent(b) = <<>>
    BY <1>1, <1>7, <1>8, <1>10, EventFound
  <2> QED BY <1>4, <1>8, <2>1
<1>12. PICK i \in 1..Len(b), t \in Blanks :
           /\ FindEvent(b) = <<i, t>> /\ i + Len(t) = Len(T) + 1
           /\ ParseEvent(SubSeq(b, 1, i - 1)) = ParseEvent(l)
  <2>1. Len(b) >= Len(EventText(l, e)) =>
            \E i \in 1..Len(b), t \in Blanks :
                /\ FindEvent(b) = <<i, t>> /\ i + Len(t) = Len(EventText(l, e)) + 1
                /\ ParseEvent(SubSeq(b, 1, i - 1)) = ParseEvent(l)
    <3>1. l \in Seq(Lines) /\ l # <<>> /\ e \in Endings /\ Starts(b, EventText(l, e))
      BY <1>1, <1>7, <1>10
    <3> QED BY <3>1, EventFound, ZenonT(60)
  <2> QED BY <1>8, <1>11, <2>1
<1>13. f[1] = i /\ f[2] = t
  BY <1>12
<1>14. PICK rest : rest = SubSeq(b, Len(T) + 1, Len(b))
  OBVIOUS
<1>15. SubSeq(b, f[1] + Len(f[2]), Len(b)) = rest
  BY <1>12, <1>13, <1>14
<1>16. /\ rest \in Seq(Symbols) /\ Len(rest) = Len(b) - Len(T)
       /\ \A j \in 1..Len(rest) : rest[j] = b[Len(T) + j]
  BY <1>4, <1>8, <1>11, <1>14
<1>17. Len(T) > 0
  <2>1. Len(e) \in Nat
    BY <1>1 DEF Endings
  <2>2. Len(T) > 2 * Len(e)
    BY <1>1, <1>7, <1>8, TextOf
  <2> QED BY <1>8, <2>1, <2>2
<1>18. k + 1 # Len(s) \/ cut = 0
  <2>1. k + 1 = Len(s) => Len(R) = Len(T) - cut
    BY <1>1, <1>3, <1>5, <1>7, <1>8, RestIs
  <2>2. cut \in Int /\ cut >= 0
    BY <1>1 DEF Endings
  <2> QED BY <1>4, <1>8, <1>11, <2>1, <2>2
<1>19. Rest(s, e, cut, k + 1) = SubSeq(R, Len(T) + 1, Len(R))
  BY <1>1, <1>3, <1>5, <1>7, <1>8, <1>18, RestIs
<1>20. rest \o w = SubSeq(R, Len(T) + 1, Len(R))
  <2>1. PICK A : A = SubSeq(R, Len(T) + 1, Len(R))
    OBVIOUS
  <2>2. PICK B : B = rest \o w
    OBVIOUS
  <2>3. /\ B \in Seq(Symbols) /\ Len(B) = Len(rest) + Len(w)
        /\ \A j \in 1..Len(rest) : B[j] = rest[j]
        /\ \A j \in 1..Len(w) : B[Len(rest) + j] = w[j]
    <3>1. rest \in Seq(Symbols) /\ w \in Seq(Symbols)
      BY <1>16
    <3> QED BY <2>2, <3>1, ConcatIs
  <2>4. /\ A \in Seq(Symbols) /\ Len(A) = Len(R) - Len(T)
        /\ \A j \in 1..Len(A) : A[j] = R[Len(T) + j]
    <3>1. Len(T) <= Len(R) /\ Len(R) \in Nat /\ R \in Seq(Symbols)
      BY <1>3, <1>4, <1>8, <1>11
    <3> QED BY <1>8, <2>1, <3>1
  <2>5. Len(A) = Len(B)
    BY <1>4, <1>8, <1>16, <2>3, <2>4
  <2>6. ASSUME NEW j \in 1..Len(A) PROVE A[j] = B[j]
    <3>1. CASE j <= Len(rest)
      <4>1. j \in 1..Len(rest) /\ Len(T) + j \in 1..Len(b)
        BY <1>4, <1>8, <1>16, <3>1
      <4> QED BY <1>4, <1>16, <2>3, <2>4, <4>1
    <3>2. CASE j > Len(rest)
      <4>1. j - Len(rest) \in Int
        BY <1>16
      <4>2. PICK m \in Int : m = j - Len(rest)
        BY <4>1
      <4>3. m \in 1..Len(w) /\ Len(T) + j = Len(b) + m /\ j = Len(rest) + m
        BY <1>4, <1>8, <1>11, <1>16, <2>3, <2>5, <3>2, <4>2
      <4>4. A[j] = R[Len(b) + m]
        BY <2>4, <4>3
      <4>5. R[Len(b) + m] = w[m]
        BY <1>4, <4>3
      <4>6. B[j] = w[m]
        BY <2>3, <4>3
      <4> QED BY <4>4, <4>5, <4>6
    <3> QED BY <1>16, <3>1, <3>2
  <2>7. A = B
    <3>1. A \in Seq(Symbols) /\ B \in Seq(Symbols) /\ Len(A) = Len(B)
          /\ \A j \in 1..Len(A) : A[j] = B[j]
      BY <2>3, <2>4, <2>5, <2>6
    <3> QED BY <3>1, SameSeq
  <2> QED BY <2>1, <2>2, <2>7
<1>21. PICK raw : raw = SubSeq(b, 1, f[1] - 1)
  OBVIOUS
<1>22. ParseEvent(raw) = ParseEvent(s[k + 1])
  BY <1>7, <1>12, <1>13, <1>21
<1>23. Len(rest) < Len(b)
  BY <1>4, <1>8, <1>16, <1>17
<1>24. Coming(s, e, cut, k + 1, rest, w)
  BY <1>16, <1>19, <1>20 DEF Coming
<1> WITNESS rest, raw
<1> QED BY <1>6, <1>15, <1>22, <1>23, <1>21, <1>24

\* When all has come and no end is found, what is left is read as the last
\* event, if that was cut, and as none if it was not.
LEMMA NoneLeft ==
    ASSUME NEW s, NEW e, NEW cut, Cut(s, e, cut), NEW k \in 0..Len(s),
           NEW b \in Seq(Symbols), b = Rest(s, e, cut, k), FindEvent(b) = <<>>
    PROVE  \/ k = Len(s) /\ ParseEvent(b) = <<>>
           \/ k + 1 = Len(s) /\ ParseEvent(b) = ParseEvent(s[k + 1])
<1>1. LinedUp(s) /\ e \in Endings /\ cut \in 0..(2 * Len(e)) /\ cut <= Len(Text(s, e))
  BY DEF Cut
<1>2. Len(s) \in Nat /\ Len(b) \in Nat
  BY <1>1, TextsAre
<1>3. CASE k = Len(s)
  <2>1. b = <<>>
    BY <1>1, <1>3, RestIs
  <2> QED BY <1>3, <2>1, NothingInNothing
<1>4. CASE k # Len(s)
  <2>1. k + 1 \in 1..Len(s)
    BY <1>2, <1>4
  <2>2. PICK l : l = s[k + 1] /\ l \in Seq(Lines) /\ l # <<>>
    BY <1>1, <2>1, TextsAre
  <2>3. PICK T : T = EventText(l, e) /\ Len(T) \in Nat
    BY <1>1, <2>2, TextOf
  <2>4. Starts(b, EventText(l, e))
    BY <1>1, <1>4, <2>2, RestIs
  <2>5. Len(b) < Len(T)
    <3>1. Len(b) >= Len(T) => FindEvent(b) # <<>>
      <4>1. Len(b) >= Len(T) => \E i \in 1..Len(b), t \in Blanks : FindEvent(b) = <<i, t>>
        BY <1>1, <2>2, <2>3, <2>4, EventFound
      <4> QED BY <4>1
    <3> QED BY <1>2, <2>3, <3>1
  <2>6. k + 1 = Len(s)
    <3>1. k + 1 # Len(s) => Len(b) >= Len(T)
      BY <1>1, <1>4, <2>2, <2>3, RestIs
    <3> QED BY <1>2, <2>3, <2>5, <3>1
  <2>7. Len(b) = Len(T) - cut
    BY <1>1, <1>4, <2>2, <2>3, <2>6, RestIs
  <2>8. Len(T) - 2 * Len(e) <= Len(b) /\ Len(b) <= Len(T)
    <3>1. Len(e) \in Nat
      BY <1>1 DEF Endings
    <3> QED BY <1>1, <1>2, <2>3, <2>7, <3>1
  <2>9. ParseEvent(b) = ParseEvent(l)
    BY <1>1, <2>2, <2>3, <2>4, <2>8, EventFound
  <2> QED BY <2>2, <2>6, <2>9
<1> QED BY <1>3, <1>4

-----------------------------------------------------------------------------
(* The frames of a stream.                                                 *)

Types == {"message_start", "message_delta", "message_stop", "message", ""}
FrameRecords == [type : Types, data : Seq(Data) \ {<<>>}]

\* Every line has one of the types.
LEMMA TypesOf == TypeOf \in [Lines -> Types]
BY DEF TypeOf, Types

\* What is read of lines is data and a type.
LEMMA ReadingTyped ==
    ASSUME NEW raw \in Seq(Symbols), NEW g, Reading(raw, g), NEW i \in 0..Len(raw)
    PROVE  g[i] \in [data : Seq(Data), name : Types]
<1> DEFINE S == {n \in 0..Len(raw) : g[n] \in [data : Seq(Data), name : Types]}
<1>1. Len(raw) \in Nat
  OBVIOUS
<1>2. 0 \in S
  <2>1. g[0] = Unread
    BY <1>1, ReadingAt
  <2>2. <<>> \in Seq(Data) /\ "" \in Types
    BY DEF Types
  <2>3. Unread \in [data : Seq(Data), name : Types]
    BY <2>2 DEF Unread
  <2> QED BY <1>1, <2>1, <2>3
<1>3. ASSUME NEW n \in 0..(Len(raw) - 1), n \in S PROVE n + 1 \in S
  <2>1. n + 1 \in 0..Len(raw) /\ n + 1 # 0 /\ n + 1 - 1 = n
    BY <1>1
  <2>2. g[n + 1] = Read(g[n], raw[n + 1])
    BY <2>1, ReadingAt
  <2>3. PICK a : a = g[n] /\ a.data \in Seq(Data) /\ a.name \in Types
    BY <1>3
  <2>4. PICK l : l = raw[n + 1]
    OBVIOUS
  <2>5. (IF l \in Data THEN Append(a.data, l) ELSE a.data) \in Seq(Data)
    BY <2>3
  <2>6. (IF l \in Names THEN TypeOf[l] ELSE a.name) \in Types
    BY <2>3, TypesOf DEF Lines
  <2>7. Read(a, l) \in [data : Seq(Data), name : Types]
    BY <2>5, <2>6 DEF Read
  <2> QED BY <2>1, <2>2, <2>3, <2>4, <2>7
<1> HIDE DEF S
<1>4. \A n \in 0..Len(raw) : n \in S
  BY <1>1, <1>2, <1>3, Climb
<1> QED BY <1>4 DEF S

\* An event gives at most one frame.
LEMMA FrameTyped ==
    ASSUME NEW raw \in Seq(Symbols)
    PROVE  /\ ParseEvent(raw) = <<>> \/ \E f \in FrameRecords : ParseEvent(raw) = <<f>>
           /\ ParseEvent(raw) \in Seq(FrameRecords)
<1>1. Len(raw) \in Nat
  OBVIOUS
<1>2. PICK g : Reading(raw, g) /\ ParseEvent(raw) = FrameOf(g[Len(raw)])
  BY <1>1, ReadingIs
<1>3. PICK event : event = g[Len(raw)]
  OBVIOUS
<1>4. event \in [data : Seq(Data), name : Types]
  BY <1>1, <1>2, <1>3, ReadingTyped
<1>5. CASE event.data \in {<<>>, <<"done">>}
  <2>1. ParseEvent(raw) = <<>>
    BY <1>2, <1>3, <1>5 DEF FrameOf
  <2>2. <<>> \in Seq(FrameRecords)
    OBVIOUS
  <2> QED BY <2>1, <2>2
<1>6. CASE event.data \notin {<<>>, <<"done">>}
  <2> DEFINE type == IF event.name # "" THEN event.name
                     ELSE IF Len(event.data) = 1 THEN TypeOf[event.data[1]] ELSE ""
             f == [type |-> type, data |-> event.data]
  <2>1. type \in Types
    <3>1. event.name \in Types /\ "" \in Types
      BY <1>4 DEF Types
    <3>2. ASSUME Len(event.data) = 1 PROVE TypeOf[event.data[1]] \in Types
      <4>1. event.data[1] \in Lines
        BY <1>4, <3>2 DEF Lines
      <4> QED BY <4>1, TypesOf
    <3> QED BY <3>1, <3>2
  <2>2. f \in FrameRecords
    <3> HIDE DEF type
    <3>1. event.data \in Seq(Data) /\ event.data # <<>>
      BY <1>4, <1>6
    <3> QED BY <2>1, <3>1 DEF FrameRecords
  <2>3. ParseEvent(raw) = <<f>>
    BY <1>2, <1>3, <1>6 DEF FrameOf
  <2> HIDE DEF f
  <2>4. <<f>> \in Seq(FrameRecords)
    BY <2>2
  <2> QED BY <2>2, <2>3, <2>4
<1> QED BY <1>5, <1>6

\* Lines are symbols.
LEMMA LinesAreSymbols == ASSUME NEW l \in Seq(Lines) PROVE l \in Seq(Symbols)
BY DEF Symbols

\* The frames of the events of a stream, and of its first k.
Parsed(s) == [i \in 1..Len(s) |-> ParseEvent(s[i])]
FramesUpto(s, k) == JoinedUpto(Parsed(s), k)

\* Each event adds its frame, if it has one.
LEMMA FramesUptoIs ==
    ASSUME NEW s, LinedUp(s)
    PROVE  /\ \A k \in 0..Len(s) : FramesUpto(s, k) \in Seq(FrameRecords)
           /\ FramesUpto(s, 0) = <<>>
           /\ FramesUpto(s, Len(s)) = FlattenSeq([i \in 1..Len(s) |-> ParseEvent(s[i])])
           /\ \A k \in 0..(Len(s) - 1) :
                  FramesUpto(s, k + 1) = FramesUpto(s, k) \o ParseEvent(s[k + 1])
           /\ \A k \in 1..Len(s) : ParseEvent(s[k]) \in Seq(FrameRecords)
<1>1. s \in Seq(Seq(Lines)) /\ Len(s) \in Nat
  BY DEF LinedUp
<1>2. \A i \in 1..Len(s) : s[i] \in Seq(Lines)
  BY <1>1
<1>3. \A i \in 1..Len(s) : ParseEvent(s[i]) \in Seq(FrameRecords)
  BY <1>2, LinesAreSymbols, FrameTyped
<1>4. PICK p : p = Parsed(s)
  OBVIOUS
<1>5. p \in Seq(Seq(FrameRecords)) /\ Len(p) = Len(s) /\ \A i \in 1..Len(s) : p[i] = ParseEvent(s[i])
  BY <1>1, <1>3, <1>4 DEF Parsed
<1>6. \A k : FramesUpto(s, k) = JoinedUpto(p, k)
  BY <1>4 DEF FramesUpto
<1>7. /\ \A n \in 0..Len(p) : JoinedUpto(p, n) \in Seq(FrameRecords)
      /\ JoinedUpto(p, 0) = <<>> /\ JoinedUpto(p, Len(p)) = FlattenSeq(p)
      /\ \A n \in 0..(Len(p) - 1) : JoinedUpto(p, n + 1) = JoinedUpto(p, n) \o p[n + 1]
  BY <1>5, JoinedUptoIs
<1>8. FlattenSeq(p) = FlattenSeq([i \in 1..Len(s) |-> ParseEvent(s[i])])
  BY <1>4 DEF Parsed
<1>9. \A k \in 0..(Len(s) - 1) : p[k + 1] = ParseEvent(s[k + 1])
  <2>1. \A k \in 0..(Len(s) - 1) : k + 1 \in 1..Len(s)
    BY <1>1
  <2> QED BY <1>5, <2>1
<1> QED BY <1>3, <1>5, <1>6, <1>7, <1>8, <1>9

-----------------------------------------------------------------------------
(* The loop of Feed.                                                       *)

Undrained(s) == [rest |-> s, frames |-> <<>>]
DrainOne(so) ==
    LET e == FindEvent(so.rest)
    IN  IF e = <<>> THEN so
        ELSE [rest |-> SubSeq(so.rest, e[1] + Len(e[2]), Len(so.rest)),
              frames |-> so.frames \o ParseEvent(SubSeq(so.rest, 1, e[1] - 1))]

\* g has what is left and found after each turn.
Draining(s, g) == g = [n \in 0..Len(s) |-> IF n = 0 THEN Undrained(s) ELSE DrainOne(g[n - 1])]

\* Each turn goes on from the one before.
LEMMA DrainingAt ==
    ASSUME NEW s, NEW g, Draining(s, g), NEW n \in 0..Len(s)
    PROVE  g[n] = IF n = 0 THEN Undrained(s) ELSE DrainOne(g[n - 1])
BY DEF Draining

\* There are such turns, and Feed returns what the last leaves.
LEMMA DrainingIs ==
    ASSUME NEW s, Len(s) \in Nat
    PROVE  \E g : Draining(s, g) /\ Drained(s) = g[Len(s)]
<1> DEFINE Till(n, g) == g = [i \in 0..n |-> IF i = 0 THEN Undrained(s) ELSE DrainOne(g[i - 1])]
           S == {n \in 0..Len(s) : \E g : Till(n, g)}
<1>1. 0 \in S
  <2> DEFINE g == [i \in 0..0 |-> Undrained(s)]
  <2>1. g = [i \in 0..0 |-> IF i = 0 THEN Undrained(s) ELSE DrainOne(g[i - 1])]
    OBVIOUS
  <2>2. Till(0, g)
    BY <2>1
  <2> HIDE DEF Till, g
  <2> QED BY <2>2
<1>2. ASSUME NEW n \in 0..(Len(s) - 1), n \in S PROVE n + 1 \in S
  <2>1. PICK g : Till(n, g)
    BY <1>2
  <2> DEFINE h == [i \in 0..(n + 1) |-> IF i = 0 THEN Undrained(s) ELSE DrainOne(g[i - 1])]
  <2>2. ASSUME NEW i \in 0..n PROVE h[i] = g[i]
    <3>1. g[i] = IF i = 0 THEN Undrained(s) ELSE DrainOne(g[i - 1])
      BY <2>1
    <3>2. i \in 0..(n + 1)
      OBVIOUS
    <3>3. h[i] = IF i = 0 THEN Undrained(s) ELSE DrainOne(g[i - 1])
      BY <3>2
    <3> QED BY <3>1, <3>3
  <2>3. ASSUME NEW i \in 0..(n + 1)
        PROVE  (IF i = 0 THEN Undrained(s) ELSE DrainOne(g[i - 1]))
                   = IF i = 0 THEN Undrained(s) ELSE DrainOne(h[i - 1])
    <3>1. i # 0 => i - 1 \in 0..n
      OBVIOUS
    <3> HIDE DEF h
    <3> QED BY <2>2, <3>1
  <2>4. Till(n + 1, h)
    <3> DEFINE k == [i \in 0..(n + 1) |-> IF i = 0 THEN Undrained(s) ELSE DrainOne(h[i - 1])]
    <3>1. h = k
      <4> SUFFICES \A i \in 0..(n + 1) : h[i] = k[i]
        OBVIOUS
      <4> QED BY <2>3
    <3> QED BY <3>1
  <2> HIDE DEF Till, h
  <2> QED BY <2>4 DEF S
<1> HIDE DEF S
<1>3. Len(s) \in 0..Len(s) /\ \A n \in 0..Len(s) : n \in S
  BY <1>1, <1>2, Climb
<1>4. PICK g : Till(Len(s), g)
  BY <1>3 DEF S
<1>5. \E h : Till(Len(s), h) /\ Drained(s) = h[Len(s)]
  BY <1>4 DEF Drained, DrainOne, Undrained
<1> QED BY <1>5 DEF Draining

\* so is where the loop stands when the events after the first k have been cut
\* off, of which w is yet to come.
DrainedTo(s, e, cut, k, w, so) ==
    \E m \in 0..Len(s) :
        /\ Coming(s, e, cut, m, so.rest, w)
        /\ so.frames \in Seq(FrameRecords)
        /\ FramesUpto(s, k) \o so.frames = FramesUpto(s, m)

\* A turn cuts off the next event, and leaves less.
LEMMA DrainStep ==
    ASSUME NEW s, NEW e, NEW cut, Cut(s, e, cut), NEW k \in 0..Len(s), NEW w,
           NEW so, DrainedTo(s, e, cut, k, w, so), FindEvent(so.rest) # <<>>
    PROVE  /\ DrainedTo(s, e, cut, k, w, DrainOne(so))
           /\ Len(so.rest) \in Nat /\ Len(DrainOne(so).rest) \in Nat
           /\ Len(DrainOne(so).rest) < Len(so.rest)
<1>1. LinedUp(s)
  BY DEF Cut
<1>2. PICK m \in 0..Len(s) :
        /\ Coming(s, e, cut, m, so.rest, w)
        /\ so.frames \in Seq(FrameRecords)
        /\ FramesUpto(s, k) \o so.frames = FramesUpto(s, m)
  BY DEF DrainedTo
<1>3. PICK b : b = so.rest
  OBVIOUS
<1>4. PICK f : f = FindEvent(b) /\ f # <<>>
  BY <1>3
<1>5. Coming(s, e, cut, m, b, w) /\ b \in Seq(Symbols)
  BY <1>2, <1>3 DEF Coming
<1>6. PICK rest, raw :
           /\ rest = SubSeq(b, f[1] + Len(f[2]), Len(b)) /\ raw = SubSeq(b, 1, f[1] - 1)
           /\ m + 1 \in 1..Len(s)
           /\ Coming(s, e, cut, m + 1, rest, w) /\ Len(rest) < Len(b)
           /\ ParseEvent(raw) = ParseEvent(s[m + 1])
  BY <1>5, <1>4, CutOne, SMTT(30)
<1>7. PICK p : p = ParseEvent(raw)
  OBVIOUS
<1>8. m \in 0..(Len(s) - 1) /\ m + 1 \in 0..Len(s)
  <2>1. Len(s) \in Nat
    BY <1>1 DEF LinedUp
  <2> QED BY <1>6, <2>1
<1>9. p \in Seq(FrameRecords) /\ FramesUpto(s, m + 1) = FramesUpto(s, m) \o p
  BY <1>1, <1>6, <1>7, <1>8, FramesUptoIs
<1>10. PICK F : F = FramesUpto(s, k) /\ F \in Seq(FrameRecords)
  BY <1>1, FramesUptoIs
<1>11. PICK fs : fs = so.frames /\ fs \in Seq(FrameRecords)
  BY <1>2
<1>12. (F \o fs) \o p = F \o (fs \o p)
  <2>1. F \in Seq(FrameRecords) /\ fs \in Seq(FrameRecords) /\ p \in Seq(FrameRecords)
    BY <1>9, <1>10, <1>11
  <2> QED BY <2>1, SMTT(30)
<1>13. fs \o p \in Seq(FrameRecords) /\ F \o (fs \o p) = FramesUpto(s, m + 1)
  <2>1. fs \o p \in Seq(FrameRecords)
    BY <1>9, <1>11
  <2>2. (F \o fs) \o p = FramesUpto(s, m + 1)
    BY <1>2, <1>9, <1>10, <1>11
  <2> QED BY <1>12, <2>1, <2>2
<1>14. DrainOne(so) = [rest |-> rest, frames |-> fs \o p]
  BY <1>3, <1>4, <1>6, <1>7, <1>11 DEF DrainOne
<1>15. DrainOne(so).rest = rest /\ DrainOne(so).frames = fs \o p
  BY <1>14
<1>16. DrainedTo(s, e, cut, k, w, DrainOne(so))
  BY <1>6, <1>8, <1>10, <1>13, <1>15 DEF DrainedTo
<1>17. Len(b) \in Nat /\ Len(rest) \in Nat
  BY <1>5, <1>6 DEF Coming
<1> QED BY <1>3, <1>6, <1>15, <1>16, <1>17

\* Feed cuts off every event that has come, each with its frame.
LEMMA DrainedIs ==
    ASSUME NEW s, NEW e, NEW cut, Cut(s, e, cut), NEW k \in 0..Len(s),
           NEW b, NEW w, Coming(s, e, cut, k, b, w)
    PROVE  DrainedTo(s, e, cut, k, w, Drained(b)) /\ FindEvent(Drained(b).rest) = <<>>
<1>1. Len(b) \in Nat
  BY DEF Coming
<1>2. PICK g : Draining(b, g) /\ Drained(b) = g[Len(b)]
  BY <1>1, DrainingIs
<1> DEFINE S == {n \in 0..Len(b) :
                    /\ DrainedTo(s, e, cut, k, w, g[n])
                    /\ FindEvent(g[n].rest) = <<>> \/ Len(g[n].rest) + n <= Len(b)}
<1>3. 0 \in S
  <2>1. g[0] = Undrained(b)
    BY <1>1, <1>2, DrainingAt
  <2>2. g[0].rest = b /\ g[0].frames = <<>>
    BY <2>1 DEF Undrained
  <2>3. LinedUp(s)
    BY DEF Cut
  <2>4. FramesUpto(s, k) \in Seq(FrameRecords)
    BY <2>3, FramesUptoIs
  <2>5. FramesUpto(s, k) \o <<>> = FramesUpto(s, k) /\ <<>> \in Seq(FrameRecords)
    BY <2>4
  <2>6. DrainedTo(s, e, cut, k, w, g[0])
    BY <2>2, <2>5 DEF DrainedTo
  <2> QED BY <1>1, <2>2, <2>6
<1>4. ASSUME NEW n \in 0..(Len(b) - 1), n \in S PROVE n + 1 \in S
  <2>1. n + 1 \in 0..Len(b) /\ n + 1 # 0 /\ n + 1 - 1 = n
    BY <1>1
  <2>2. g[n + 1] = DrainOne(g[n])
    BY <1>2, <2>1, DrainingAt
  <2>3. PICK so : so = g[n] /\ DrainedTo(s, e, cut, k, w, so)
                  /\ (FindEvent(so.rest) = <<>> \/ Len(so.rest) + n <= Len(b))
    BY <1>4
  <2>4. CASE FindEvent(so.rest) = <<>>
    <3>1. DrainOne(so) = so
      BY <2>4 DEF DrainOne
    <3> QED BY <2>1, <2>2, <2>3, <2>4, <3>1
  <2>5. CASE FindEvent(so.rest) # <<>>
    <3>1. PICK to : to = DrainOne(so)
      OBVIOUS
    <3>2. /\ DrainedTo(s, e, cut, k, w, to)
          /\ Len(so.rest) \in Nat /\ Len(to.rest) \in Nat /\ Len(to.rest) < Len(so.rest)
      BY <2>3, <2>5, <3>1, DrainStep
    <3>3. Len(to.rest) + (n + 1) <= Len(b)
      <4>1. PICK x \in Nat : x = Len(so.rest)
        BY <3>2
      <4>2. PICK y \in Nat : y = Len(to.rest)
        BY <3>2
      <4>3. x + n <= Len(b) /\ y < x
        BY <2>3, <2>5, <3>2, <4>1, <4>2
      <4>4. y + (n + 1) <= Len(b)
        BY <1>1, <4>3
      <4> QED BY <4>2, <4>4
    <3> QED BY <2>1, <2>2, <2>3, <3>1, <3>2, <3>3
  <2> QED BY <2>4, <2>5
<1> HIDE DEF S
<1>5. Len(b) \in 0..Len(b) /\ \A n \in 0..Len(b) : n \in S
  <2>1. \A n \in 0..Len(b) : n \in S
    BY <1>1, <1>3, <1>4, Climb
  <2> QED BY <1>1, <2>1
<1>6. PICK so : so = Drained(b) /\ DrainedTo(s, e, cut, k, w, so)
                /\ (FindEvent(so.rest) = <<>> \/ Len(so.rest) + Len(b) <= Len(b))
  BY <1>2, <1>5 DEF S
<1>7. FindEvent(so.rest) = <<>>
  <2>1. so.rest \in Seq(Symbols)
    BY <1>6 DEF DrainedTo, Coming
  <2>2. CASE Len(so.rest) + Len(b) <= Len(b)
    <3>1. so.rest = <<>>
      BY <1>1, <2>1, <2>2
    <3> QED BY <3>1, NothingInNothing
  <2> QED BY <1>6, <2>2
<1> QED BY <1>6, <1>7

-----------------------------------------------------------------------------
(* What an event says.                                                     *)

\* What is read of an event: its line of data, and the type of one of its names.
LEMMA EventRead ==
    ASSUME NEW e, IsEvent(e), NEW g, Reading(e, g)
    PROVE  /\ \/ g[Len(e)].data = <<>> /\ \A i \in 1..Len(e) : e[i] \notin Data
              \/ \E i \in 1..Len(e) : e[i] \in Data /\ g[Len(e)].data = <<e[i]>>
           /\ \/ g[Len(e)].name = "" /\ \A i \in 1..Len(e) : e[i] \notin Names
              \/ \E i \in 1..Len(e) : e[i] \in Names /\ g[Len(e)].name = TypeOf[e[i]]
<1> DEFINE P(n) ==
        /\ \/ g[n].data = <<>> /\ \A i \in 1..n : e[i] \notin Data
           \/ \E i \in 1..n : e[i] \in Data /\ g[n].data = <<e[i]>>
        /\ \/ g[n].name = "" /\ \A i \in 1..n : e[i] \notin Names
           \/ \E i \in 1..n : e[i] \in Names /\ g[n].name = TypeOf[e[i]]
    S == {n \in 0..Len(e) : P(n)}
<1>1. /\ Len(e) \in Nat /\ e \in Seq(Lines)
      /\ \A i, j \in 1..Len(e) : {e[i], e[j]} \subseteq Data => i = j
  <2>1. e \in Seq(Lines \ {"body"})
    BY DEF IsEvent
  <2>2. e \in Seq(Lines) /\ Len(e) \in Nat
    BY <2>1
  <2> QED BY <2>2 DEF IsEvent
<1>2. 0 \in S
  <2>1. g[0] = Unread
    BY <1>1, ReadingAt
  <2>2. Unread.data = <<>> /\ Unread.name = ""
    BY DEF Unread
  <2>3. g[0].data = <<>> /\ g[0].name = ""
    BY <2>1, <2>2
  <2>4. \A i \in 1..0 : FALSE
    OBVIOUS
  <2>5. P(0)
    BY <2>3, <2>4
  <2>6. 0 \in 0..Len(e)
    BY <1>1
  <2> HIDE DEF P
  <2> QED BY <2>5, <2>6
<1>3. ASSUME NEW n \in 0..(Len(e) - 1), n \in S PROVE n + 1 \in S
  <2>1. /\ n + 1 \in 0..Len(e) /\ n + 1 # 0 /\ n + 1 - 1 = n /\ n + 1 \in 1..Len(e) /\ n + 1 \in 1..(n + 1)
        /\ \A i \in 1..(n + 1) : i \in 1..n \/ i = n + 1
        /\ \A i \in 1..n : i # n + 1 /\ i \in 1..Len(e) /\ i \in 1..(n + 1)
    BY <1>1
  <2>2. g[n + 1] = Read(g[n], e[n + 1])
    BY <2>1, ReadingAt
  <2>3. PICK m : m = n + 1
    OBVIOUS
  <2>4. PICK l : l = e[m]
    OBVIOUS
  <2>5. PICK a : a = g[n]
    OBVIOUS
  <2>6. /\ g[m].data = IF l \in Data THEN Append(a.data, l) ELSE a.data
        /\ g[m].name = IF l \in Names THEN TypeOf[l] ELSE a.name
    <3>1. g[m] = Read(a, l)
      BY <2>2, <2>3, <2>4, <2>5
    <3>2. /\ Read(a, l).data = IF l \in Data THEN Append(a.data, l) ELSE a.data
          /\ Read(a, l).name = IF l \in Names THEN TypeOf[l] ELSE a.name
      BY DEF Read
    <3> QED BY <3>1, <3>2
  <2>7. /\ \/ a.data = <<>> /\ \A i \in 1..n : e[i] \notin Data
           \/ \E i \in 1..n : e[i] \in Data /\ a.data = <<e[i]>>
        /\ \/ a.name = "" /\ \A i \in 1..n : e[i] \notin Names
           \/ \E i \in 1..n : e[i] \in Names /\ a.name = TypeOf[e[i]]
    BY <1>3, <2>5
  <2>8. \/ g[m].data = <<>> /\ \A i \in 1..m : e[i] \notin Data
        \/ \E i \in 1..m : e[i] \in Data /\ g[m].data = <<e[i]>>
    <3>1. CASE l \notin Data
      <4>1. g[m].data = a.data
        BY <2>6, <3>1
      <4> QED BY <2>1, <2>3, <2>4, <2>7, <3>1, <4>1
    <3>2. CASE l \in Data
      <4>1. \A i \in 1..n : e[i] \notin Data
        BY <1>1, <2>1, <2>3, <2>4, <3>2
      <4>2. a.data = <<>>
        BY <2>7, <4>1
      <4>3. g[m].data = <<l>>
        <5>1. Append(<<>>, l) = <<l>>
          OBVIOUS
        <5> QED BY <2>6, <3>2, <4>2, <5>1
      <4> QED BY <2>1, <2>3, <2>4, <3>2, <4>3
    <3> QED BY <3>1, <3>2
  <2>9. \/ g[m].name = "" /\ \A i \in 1..m : e[i] \notin Names
        \/ \E i \in 1..m : e[i] \in Names /\ g[m].name = TypeOf[e[i]]
    <3>1. CASE l \notin Names
      <4>1. g[m].name = a.name
        BY <2>6, <3>1
      <4> QED BY <2>1, <2>3, <2>4, <2>7, <3>1, <4>1
    <3>2. CASE l \in Names
      <4>1. g[m].name = TypeOf[l]
        BY <2>6, <3>2
      <4> QED BY <2>1, <2>3, <2>4, <3>2, <4>1
    <3> QED BY <3>1, <3>2
  <2>10. P(m)
    BY <2>8, <2>9
  <2> HIDE DEF P
  <2> QED BY <2>1, <2>3, <2>10
<1> HIDE DEF S
<1>4. \A n \in 0..Len(e) : n \in S
  BY <1>1, <1>2, <1>3, Climb
<1>5. Len(e) \in 0..Len(e)
  BY <1>1
<1>6. P(Len(e))
  BY <1>4, <1>5 DEF S
<1> QED BY <1>6

\* An event says of a stop, and has data to say it with.
Stops(e) == ToSet(e) \cap {"stop", "named stop"} # {} /\ ToSet(e) \cap Data # {}

\* The frame of an event has the type of its data, unless that is torn, and is
\* a stop if and only if a line of it says so.
LEMMA EventFrame ==
    ASSUME NEW e, IsEvent(e)
    PROVE  \/ /\ ParseEvent(e) = <<>>
              /\ ToSet(e) \cap Data \subseteq {"done"} /\ ~ Stops(e)
           \/ \E x \in Data, type \in Types :
                  /\ ParseEvent(e) = <<[type |-> type, data |-> <<x>>]>>
                  /\ ToSet(e) \cap Data = {x} /\ x \notin {"done", "body"}
                  /\ x # Torn => type = TypeOf[x]
                  /\ type = "message_stop" <=> Stops(e)
<1>1. e \in Seq(Lines) /\ Len(e) \in Nat /\ \A i \in 1..Len(e) : e[i] # "body"
  <2>1. e \in Seq(Lines \ {"body"})
    BY DEF IsEvent
  <2> QED BY <2>1
<1>2. /\ \A i, j \in 1..Len(e) : {e[i], e[j]} \subseteq Data => i = j
      /\ \A i, j \in 1..Len(e) :
            e[i] \in Names /\ e[j] \in (Names \cup Data) \ {Torn} => TypeOf[e[i]] = TypeOf[e[j]]
  BY DEF IsEvent
<1>3. PICK g : Reading(e, g) /\ ParseEvent(e) = FrameOf(g[Len(e)])
  BY <1>1, ReadingIs
<1>4. PICK r : r = g[Len(e)] /\ ParseEvent(e) = FrameOf(r)
  BY <1>3
<1>5. /\ \/ r.data = <<>> /\ \A i \in 1..Len(e) : e[i] \notin Data
         \/ \E i \in 1..Len(e) : e[i] \in Data /\ r.data = <<e[i]>>
      /\ \/ r.name = "" /\ \A i \in 1..Len(e) : e[i] \notin Names
         \/ \E i \in 1..Len(e) : e[i] \in Names /\ r.name = TypeOf[e[i]]
  BY <1>3, <1>4, EventRead
<1>6. ToSet(e) = {e[i] : i \in 1..Len(e)}
  BY <1>1 DEF ToSet
<1>7. \A x \in Names : TypeOf[x] \in Types \ {""}
  BY DEF TypeOf, Types, Names, Lines
<1>8. \A x \in Data : x \notin Names
  BY DEF Data, Names, Torn
<1>9. CASE \A i \in 1..Len(e) : e[i] \notin Data
  <2>1. r.data = <<>>
    BY <1>5, <1>9
  <2>2. ParseEvent(e) = <<>>
    BY <1>4, <2>1 DEF FrameOf
  <2>3. ToSet(e) \cap Data = {}
    BY <1>6, <1>9
  <2> QED BY <2>2, <2>3 DEF Stops
<1>10. ASSUME NEW p \in 1..Len(e), e[p] \in Data
       PROVE  \/ /\ ParseEvent(e) = <<>>
                 /\ ToSet(e) \cap Data \subseteq {"done"} /\ ~ Stops(e)
              \/ \E x \in Data, type \in Types :
                     /\ ParseEvent(e) = <<[type |-> type, data |-> <<x>>]>>
                     /\ ToSet(e) \cap Data = {x} /\ x \notin {"done", "body"}
                     /\ x # Torn => type = TypeOf[x]
                     /\ type = "message_stop" <=> Stops(e)
  <2>1. PICK x : x = e[p] /\ x \in Data /\ x # "body" /\ x \notin Names
    BY <1>1, <1>8, <1>10
  <2>2. r.data = <<x>>
    BY <1>2, <1>5, <1>10, <2>1
  <2>3. ToSet(e) \cap Data = {x}
    <3>1. \A i \in 1..Len(e) : e[i] \in Data => e[i] = x
      BY <1>2, <1>10, <2>1
    <3> QED BY <1>6, <1>10, <2>1, <3>1
  <2>4. Stops(e) <=> x = "stop" \/ "named stop" \in ToSet(e)
    <3>1. "stop" \in Data
      BY DEF Data
    <3> QED BY <2>3, <3>1 DEF Stops
  <2>5. ASSUME NEW n \in ToSet(e), n \in Names
        PROVE  /\ x # Torn => TypeOf[n] = TypeOf[x]
               /\ \A i \in 1..Len(e) : e[i] \in Names => TypeOf[e[i]] = TypeOf[n]
    <3>1. PICK i \in 1..Len(e) : n = e[i]
      BY <1>6, <2>5
    <3>2. Torn \notin Names
      BY DEF Torn, Names
    <3>3. x # Torn => TypeOf[n] = TypeOf[x]
      BY <1>2, <1>10, <2>1, <2>5, <3>1
    <3>4. \A j \in 1..Len(e) : e[j] \in Names => TypeOf[e[j]] = TypeOf[n]
      BY <1>2, <2>5, <3>1, <3>2
    <3> QED BY <3>3, <3>4
  <2>6. CASE x = "done"
    <3>1. ParseEvent(e) = <<>>
      BY <1>4, <2>2, <2>6 DEF FrameOf
    <3>2. TypeOf["done"] = "" /\ "done" # Torn /\ "named stop" \in Names
      BY DEF TypeOf, Torn, Lines, Names, Data
    <3>3. "named stop" \notin ToSet(e)
      BY <1>7, <2>5, <2>6, <3>2
    <3> QED BY <2>3, <2>4, <2>6, <3>1, <3>3
  <2>7. CASE x # "done"
    <3>1. <<x>> # <<>> /\ <<x>> # <<"done">> /\ Len(<<x>>) = 1 /\ <<x>>[1] = x
      BY <2>7
    <3> DEFINE type == IF r.name # "" THEN r.name ELSE TypeOf[x]
    <3>2. ParseEvent(e) = <<[type |-> type, data |-> <<x>>]>>
      BY <1>4, <2>2, <3>1 DEF FrameOf
    <3>3. /\ x # Torn => type = TypeOf[x]
          /\ type \in Types
          /\ type = "message_stop" <=> x = "stop" \/ "named stop" \in ToSet(e)
      <4>1. /\ TypeOf[x] \in Types
            /\ TypeOf[x] = "message_stop" <=> x = "stop"
            /\ TypeOf[Torn] = ""
        BY <2>1 DEF TypeOf, Types, Data, Lines, Torn, Names
      <4>2. \A n \in Names : TypeOf[n] = "message_stop" <=> n = "named stop"
        BY DEF TypeOf, Lines, Names
      <4>3. "named stop" \in Names /\ Torn # "stop"
        BY DEF Names, Torn
      <4>4. CASE r.name = "" /\ \A i \in 1..Len(e) : e[i] \notin Names
        <5>1. type = TypeOf[x]
          BY <4>4
        <5>2. "named stop" \notin ToSet(e)
          BY <1>6, <4>3, <4>4
        <5> HIDE DEF type
        <5> QED BY <4>1, <4>3, <5>1, <5>2
      <4>5. CASE \E i \in 1..Len(e) : e[i] \in Names /\ r.name = TypeOf[e[i]]
        <5>1. PICK i \in 1..Len(e) : e[i] \in Names /\ r.name = TypeOf[e[i]]
          BY <4>5
        <5>2. PICK n : n = e[i] /\ n \in Names /\ n \in ToSet(e) /\ r.name = TypeOf[n]
          BY <1>6, <5>1
        <5>3. type = TypeOf[n] /\ type \in Types
          BY <1>7, <5>2
        <5> HIDE DEF type
        <5>4. x # Torn => TypeOf[n] = TypeOf[x]
          BY <2>5, <5>2
        <5>5. type = "message_stop" <=> n = "named stop"
          BY <4>2, <5>2, <5>3
        <5>6. "named stop" \in ToSet(e) => TypeOf["named stop"] = TypeOf[n]
          BY <1>6, <2>5, <4>3, <5>2
        <5>7. "named stop" \in ToSet(e) <=> n = "named stop"
          BY <4>2, <4>3, <5>2, <5>6
        <5>8. x = "stop" => n = "named stop"
          BY <4>1, <4>2, <4>3, <5>2, <5>4
        <5> QED BY <5>3, <5>4, <5>5, <5>7, <5>8
      <4> QED BY <1>5, <4>4, <4>5
    <3> HIDE DEF type
    <3> QED BY <2>1, <2>3, <2>4, <2>7, <3>2, <3>3
  <2> QED BY <2>6, <2>7
<1> QED BY <1>9, <1>10

-----------------------------------------------------------------------------
(* The fold of the frames.                                                 *)

\* g has the usage after each of the frames.
Folding(fs, g) ==
    g = [i \in 0..Len(fs) |-> IF i = 0 THEN NoUsage ELSE FoldFrame(g[i - 1], fs[i])]

\* Each is the one before and a frame.
LEMMA FoldingAt ==
    ASSUME NEW fs, NEW g, Folding(fs, g), NEW i \in 0..Len(fs)
    PROVE  g[i] = IF i = 0 THEN NoUsage ELSE FoldFrame(g[i - 1], fs[i])
BY DEF Folding

\* There are such usages, and that of the frames is the last.
LEMMA FoldingIs ==
    ASSUME NEW fs, Len(fs) \in Nat
    PROVE  \E g : Folding(fs, g) /\ UsageFromFrames(fs) = g[Len(fs)]
<1> DEFINE Till(n, g) == g = [i \in 0..n |-> IF i = 0 THEN NoUsage ELSE FoldFrame(g[i - 1], fs[i])]
           S == {n \in 0..Len(fs) : \E g : Till(n, g)}
<1>1. 0 \in S
  <2> DEFINE g == [i \in 0..0 |-> NoUsage]
  <2>1. g = [i \in 0..0 |-> IF i = 0 THEN NoUsage ELSE FoldFrame(g[i - 1], fs[i])]
    OBVIOUS
  <2>2. Till(0, g)
    BY <2>1
  <2> HIDE DEF Till, g
  <2> QED BY <2>2
<1>2. ASSUME NEW n \in 0..(Len(fs) - 1), n \in S PROVE n + 1 \in S
  <2>1. PICK g : Till(n, g)
    BY <1>2
  <2> DEFINE h == [i \in 0..(n + 1) |-> IF i = 0 THEN NoUsage ELSE FoldFrame(g[i - 1], fs[i])]
  <2>2. ASSUME NEW i \in 0..n PROVE h[i] = g[i]
    <3>1. g[i] = IF i = 0 THEN NoUsage ELSE FoldFrame(g[i - 1], fs[i])
      BY <2>1
    <3>2. i \in 0..(n + 1)
      OBVIOUS
    <3>3. h[i] = IF i = 0 THEN NoUsage ELSE FoldFrame(g[i - 1], fs[i])
      BY <3>2
    <3> QED BY <3>1, <3>3
  <2>3. ASSUME NEW i \in 0..(n + 1)
        PROVE  (IF i = 0 THEN NoUsage ELSE FoldFrame(g[i - 1], fs[i]))
                   = IF i = 0 THEN NoUsage ELSE FoldFrame(h[i - 1], fs[i])
    <3>1. i # 0 => i - 1 \in 0..n
      OBVIOUS
    <3> HIDE DEF h
    <3> QED BY <2>2, <3>1
  <2>4. Till(n + 1, h)
    <3> DEFINE k == [i \in 0..(n + 1) |-> IF i = 0 THEN NoUsage ELSE FoldFrame(h[i - 1], fs[i])]
    <3>1. h = k
      <4> SUFFICES \A i \in 0..(n + 1) : h[i] = k[i]
        OBVIOUS
      <4> QED BY <2>3
    <3> QED BY <3>1
  <2> HIDE DEF Till, h
  <2> QED BY <2>4 DEF S
<1> HIDE DEF S
<1>3. Len(fs) \in Nat /\ Len(fs) \in 0..Len(fs)
  OBVIOUS
<1>4. \A n \in 0..Len(fs) : n \in S
  BY <1>1, <1>2, <1>3, Climb, ZenonT(40)
<1>5. PICK g : Till(Len(fs), g)
  BY <1>3, <1>4 DEF S
<1>6. \E h : Till(Len(fs), h) /\ UsageFromFrames(fs) = h[Len(fs)]
  BY <1>5 DEF UsageFromFrames
<1> QED BY <1>6 DEF Folding

\* A frame more is folded last.
LEMMA FoldsOn ==
    ASSUME NEW A, NEW fs \in Seq(A), NEW f \in A
    PROVE  /\ UsageFromFrames(<<>>) = NoUsage
           /\ UsageFromFrames(fs \o <<f>>) = FoldFrame(UsageFromFrames(fs), f)
<1>1. UsageFromFrames(<<>>) = NoUsage
  <2>1. PICK z : z = <<>> /\ Len(z) = 0
    OBVIOUS
  <2>2. PICK g : Folding(z, g) /\ UsageFromFrames(z) = g[Len(z)]
    BY <2>1, FoldingIs
  <2>3. g[0] = NoUsage
    BY <2>1, <2>2, FoldingAt
  <2> QED BY <2>1, <2>2, <2>3
<1>2. PICK gs : gs = fs \o <<f>> /\ Len(fs) \in Nat /\ Len(gs) = Len(fs) + 1
          /\ gs[Len(fs) + 1] = f /\ \A i \in 1..Len(fs) : gs[i] = fs[i]
  <2>1. <<f>> \in Seq(A) /\ Len(<<f>>) = 1 /\ <<f>>[1] = f
    OBVIOUS
  <2>2. PICK t : t = <<f>> /\ t \in Seq(A) /\ Len(t) = 1 /\ t[1] = f
    BY <2>1
  <2>3. /\ Len(fs \o t) = Len(fs) + Len(t) /\ Len(fs) \in Nat
        /\ \A i \in 1..Len(fs) : (fs \o t)[i] = fs[i]
        /\ \A i \in 1..Len(t) : (fs \o t)[Len(fs) + i] = t[i]
    BY <2>2, ConcatIs
  <2>4. (fs \o t)[Len(fs) + 1] = f
    BY <2>2, <2>3
  <2> QED BY <2>2, <2>3, <2>4
<1>3. PICK g : Folding(fs, g) /\ UsageFromFrames(fs) = g[Len(fs)]
  BY <1>2, FoldingIs
<1>4. PICK h : Folding(gs, h) /\ UsageFromFrames(gs) = h[Len(gs)]
  <2>1. Len(gs) \in Nat
    BY <1>2
  <2> QED BY <2>1, FoldingIs
<1> DEFINE S == {n \in 0..Len(fs) : h[n] = g[n]}
<1>5. 0 \in S
  <2>1. g[0] = NoUsage /\ h[0] = NoUsage
    BY <1>2, <1>3, <1>4, FoldingAt
  <2> QED BY <1>2, <2>1
<1>6. ASSUME NEW n \in 0..(Len(fs) - 1), n \in S PROVE n + 1 \in S
  <2>1. /\ n + 1 \in 0..Len(fs) /\ n + 1 \in 0..Len(gs) /\ n + 1 # 0 /\ n + 1 - 1 = n
        /\ n + 1 \in 1..Len(fs)
    BY <1>2
  <2>2. g[n + 1] = FoldFrame(g[n], fs[n + 1])
    BY <1>3, <2>1, FoldingAt
  <2>3. h[n + 1] = FoldFrame(h[n], gs[n + 1])
    BY <1>4, <2>1, FoldingAt
  <2> QED BY <1>2, <1>6, <2>1, <2>2, <2>3
<1> HIDE DEF S
<1>7. \A n \in 0..Len(fs) : n \in S
  BY <1>2, <1>5, <1>6, Climb
<1>8. h[Len(fs)] = g[Len(fs)]
  <2>1. Len(fs) \in 0..Len(fs)
    BY <1>2
  <2> QED BY <1>7, <2>1 DEF S
<1>9. h[Len(gs)] = FoldFrame(h[Len(fs)], f)
  <2>1. Len(gs) \in 0..Len(gs) /\ Len(gs) # 0 /\ Len(gs) - 1 = Len(fs)
    BY <1>2
  <2>2. gs[Len(gs)] = f
    BY <1>2
  <2> QED BY <1>4, <2>1, <2>2, FoldingAt
<1> QED BY <1>1, <1>2, <1>3, <1>4, <1>8, <1>9

Fields == {"input", "output", "w5", "w1", "read", "thinking", "stop", "unsplit"}

\* u is what a message costs as far as the lines in A say.
CostsSoFar(m, A, u) ==
    /\ DOMAIN u = Fields
    /\ u.input = IF "start" \in A THEN m.input ELSE 0
    /\ u.read = IF "start" \in A THEN m.read ELSE 0
    /\ u.w5 = IF "start" \in A THEN (IF m.split = 1 THEN m.w5 ELSE m.flat) ELSE 0
    /\ u.w1 = IF "start" \in A /\ m.split = 1 THEN m.w1 ELSE 0
    /\ u.output = IF "delta2" \in A THEN m.outputs[2]
                  ELSE IF "delta1" \in A THEN m.outputs[1]
                  ELSE IF "start" \in A THEN m.first ELSE 0

\* What a frame of one line does to the usage.
LEMMA FoldFrameIs ==
    ASSUME NEW u, NEW x, NEW type \in Types, x # Torn => type = TypeOf[x],
           x \in Data \ {"done", "body"}
    PROVE  LET f == [type |-> type, data |-> <<x>>]
           IN  /\ x = "start" => FoldFrame(u, f) = ApplyUsage(u, message, message.first)
               /\ x \in {"delta1", "delta2"} =>
                    FoldFrame(u, f) =
                        [u EXCEPT !.output = message.outputs[IF x = "delta1" THEN 1 ELSE 2],
                                  !.thinking = message.thinking,
                                  !.stop = IF x = "delta2" THEN message.stop ELSE u.stop]
               /\ x \notin {"start", "delta1", "delta2"} => FoldFrame(u, f) = u
<1>1. PICK f : f = [type |-> type, data |-> <<x>>]
  OBVIOUS
<1>2. f.type = type /\ Len(f.data) = 1 /\ f.data[1] = x
  BY <1>1
<1>3. CASE x = "start"
  <2>1. type = "message_start" /\ x # Torn
    BY <1>3 DEF TypeOf, Lines, Data, Torn
  <2>2. FoldFrame(u, f) = ApplyUsage(u, message, message.first)
    BY <1>2, <1>3, <2>1 DEF FoldFrame
  <2> QED BY <1>1, <1>3, <2>2
<1>4. CASE x \in {"delta1", "delta2"}
  <2>1. type = "message_delta" /\ x # Torn /\ type # "message_start"
    BY <1>4 DEF TypeOf, Lines, Data, Torn
  <2>2. FoldFrame(u, f) =
            [u EXCEPT !.output = message.outputs[IF x = "delta1" THEN 1 ELSE 2],
                      !.thinking = message.thinking,
                      !.stop = IF x = "delta2" THEN message.stop ELSE u.stop]
    BY <1>2, <2>1 DEF FoldFrame
  <2> QED BY <1>1, <1>4, <2>2
<1>5. CASE x \notin {"start", "delta1", "delta2"}
  <2>1. x = Torn \/ type \notin {"message_start", "message_delta", "message"}
    <3>1. x = Torn \/ x = "stop"
      BY <1>5 DEF Data
    <3>2. TypeOf["stop"] = "message_stop"
      BY DEF TypeOf, Lines, Data
    <3> QED BY <3>1, <3>2
  <2>2. FoldFrame(u, f) = u
    BY <1>2, <2>1 DEF FoldFrame
  <2> QED BY <1>1, <1>5, <2>2
<1> QED BY <1>3, <1>4, <1>5

\* A frame brings the usage up to its line, if nothing restarts the message
\* and its totals come in their order.
LEMMA FrameCosts ==
    ASSUME message \in Messages, NEW A, NEW B, NEW u, CostsSoFar(message, A, u),
           NEW x, NEW type \in Types, x # Torn => type = TypeOf[x],
           x \in Data \ {"done", "body"},
           \A y \in {"start", "delta1", "delta2"} : y \in B <=> y \in A \/ y = x,
           x = "start" => "delta1" \notin A /\ "delta2" \notin A,
           x = "delta1" => "delta2" \notin A
    PROVE  CostsSoFar(message, B, FoldFrame(u, [type |-> type, data |-> <<x>>]))
<1>1. PICK m : m = message /\ m \in Messages
  OBVIOUS
<1>2. /\ {m.input, m.read, m.split, m.flat, m.w5, m.w1, m.first} \subseteq Nat
      /\ m.outputs[1] \in Nat /\ m.outputs[2] \in Nat
  BY <1>1, StreamAssumption
<1>3. PICK f : f = [type |-> type, data |-> <<x>>]
  OBVIOUS
<1>4. PICK v : v = FoldFrame(u, f)
  OBVIOUS
<1>5. CASE x = "start"
  <2>1. v = ApplyUsage(u, m, m.first)
    BY <1>1, <1>3, <1>4, <1>5, FoldFrameIs
  <2>2. DOMAIN u = Fields
    BY DEF CostsSoFar
  <2>3. /\ DOMAIN v = Fields /\ v.input = m.input /\ v.read = m.read
        /\ v.output = IF m.first > 0 THEN m.first ELSE u.output
        /\ v.w5 = IF m.split = 1 THEN m.w5 ELSE IF m.flat > 0 THEN m.flat ELSE u.w5
        /\ v.w1 = IF m.split = 1 THEN m.w1 ELSE u.w1
    BY <2>1, <2>2 DEF ApplyUsage, Fields
  <2>4. "start" \in B /\ "delta1" \notin B /\ "delta2" \notin B
    BY <1>5
  <2>5. /\ u.output = IF "start" \in A THEN m.first ELSE 0
        /\ u.w5 = IF "start" \in A THEN (IF m.split = 1 THEN m.w5 ELSE m.flat) ELSE 0
        /\ u.w1 = IF "start" \in A /\ m.split = 1 THEN m.w1 ELSE 0
    BY <1>1, <1>5 DEF CostsSoFar
  <2>6. v.output = m.first
    BY <1>2, <2>3, <2>5
  <2>7. v.w5 = IF m.split = 1 THEN m.w5 ELSE m.flat
    BY <1>2, <2>3, <2>5
  <2>8. v.w1 = IF m.split = 1 THEN m.w1 ELSE 0
    BY <1>2, <2>3, <2>5
  <2>9. CostsSoFar(m, B, v)
    BY <2>3, <2>4, <2>6, <2>7, <2>8 DEF CostsSoFar
  <2> QED BY <1>1, <1>3, <1>4, <2>9
<1>6. CASE x \in {"delta1", "delta2"}
  <2>1. v = [u EXCEPT !.output = m.outputs[IF x = "delta1" THEN 1 ELSE 2],
                      !.thinking = m.thinking,
                      !.stop = IF x = "delta2" THEN m.stop ELSE u.stop]
    <3>1. FoldFrame(u, [type |-> type, data |-> <<x>>]) =
             [u EXCEPT !.output = message.outputs[IF x = "delta1" THEN 1 ELSE 2],
                       !.thinking = message.thinking,
                       !.stop = IF x = "delta2" THEN message.stop ELSE u.stop]
      BY <1>6, FoldFrameIs
    <3> QED BY <1>1, <1>3, <1>4, <3>1
  <2>2. DOMAIN u = Fields
    BY DEF CostsSoFar
  <2>3. /\ DOMAIN v = Fields /\ v.input = u.input /\ v.read = u.read
        /\ v.output = m.outputs[IF x = "delta1" THEN 1 ELSE 2]
        /\ v.w5 = u.w5 /\ v.w1 = u.w1
    BY <2>1, <2>2 DEF Fields
  <2>4. "start" \in B <=> "start" \in A
    BY <1>6
  <2>5. v.output = IF "delta2" \in B THEN m.outputs[2]
                   ELSE IF "delta1" \in B THEN m.outputs[1]
                   ELSE IF "start" \in B THEN m.first ELSE 0
    BY <1>6, <2>3
  <2>6. /\ u.input = IF "start" \in A THEN m.input ELSE 0
        /\ u.read = IF "start" \in A THEN m.read ELSE 0
        /\ u.w5 = IF "start" \in A THEN (IF m.split = 1 THEN m.w5 ELSE m.flat) ELSE 0
        /\ u.w1 = IF "start" \in A /\ m.split = 1 THEN m.w1 ELSE 0
    BY <1>1 DEF CostsSoFar
  <2>7. CostsSoFar(m, B, v)
    BY <2>3, <2>4, <2>5, <2>6 DEF CostsSoFar
  <2> QED BY <1>1, <1>3, <1>4, <2>7
<1>7. CASE x \notin {"start", "delta1", "delta2"}
  <2>1. v = u
    BY <1>3, <1>4, <1>7, FoldFrameIs
  <2>2. \A y \in {"start", "delta1", "delta2"} : y \in B <=> y \in A
    BY <1>7
  <2>3. CostsSoFar(m, B, u)
    BY <1>1, <2>2 DEF CostsSoFar
  <2> QED BY <1>1, <1>3, <1>4, <2>1, <2>3
<1> QED BY <1>5, <1>6, <1>7

\* An event brings the usage up to its lines.
LEMMA EventCosts ==
    ASSUME message \in Messages, NEW A, NEW fs \in Seq(FrameRecords),
           CostsSoFar(message, A, UsageFromFrames(fs)), NEW e, IsEvent(e),
           "start" \in ToSet(e) => "delta1" \notin A /\ "delta2" \notin A,
           "delta1" \in ToSet(e) => "delta2" \notin A
    PROVE  CostsSoFar(message, A \cup ToSet(e), UsageFromFrames(fs \o ParseEvent(e)))
<1>1. PICK B : B = A \cup ToSet(e)
  OBVIOUS
<1>2. PICK u : u = UsageFromFrames(fs)
  OBVIOUS
<1>3. {"start", "delta1", "delta2"} \subseteq Data
  BY DEF Data
<1>4. CASE ParseEvent(e) = <<>> /\ ToSet(e) \cap Data \subseteq {"done"}
  <2>1. \A y \in {"start", "delta1", "delta2"} : y \in B <=> y \in A
    BY <1>3, <1>1, <1>4
  <2>2. CostsSoFar(message, B, u)
    BY <1>2, <2>1 DEF CostsSoFar
  <2>3. fs \o ParseEvent(e) = fs
    BY <1>4
  <2> QED BY <1>1, <1>2, <2>2, <2>3
<1>5. ASSUME NEW x \in Data, NEW type \in Types,
             ParseEvent(e) = <<[type |-> type, data |-> <<x>>]>>,
             ToSet(e) \cap Data = {x}, x \notin {"done", "body"}, x # Torn => type = TypeOf[x]
      PROVE  CostsSoFar(message, B, UsageFromFrames(fs \o ParseEvent(e)))
  <2>1. PICK f : f = [type |-> type, data |-> <<x>>]
    OBVIOUS
  <2>2. f \in FrameRecords
    <3>1. <<x>> \in Seq(Data) /\ <<x>> # <<>>
      BY <1>5
    <3> QED BY <2>1, <3>1 DEF FrameRecords
  <2>3. UsageFromFrames(fs \o <<f>>) = FoldFrame(u, f)
    BY <1>2, <2>2, FoldsOn
  <2>4. \A y \in {"start", "delta1", "delta2"} : y \in B <=> y \in A \/ y = x
    BY <1>3, <1>1, <1>5
  <2>5. x \in ToSet(e)
    BY <1>5
  <2>6. /\ x = "start" => "delta1" \notin A /\ "delta2" \notin A
        /\ x = "delta1" => "delta2" \notin A
    BY <2>5
  <2>7. CostsSoFar(message, B, FoldFrame(u, [type |-> type, data |-> <<x>>]))
    BY <1>2, <1>5, <2>4, <2>6, FrameCosts
  <2> QED BY <1>5, <2>1, <2>3, <2>7
<1>6. \/ ParseEvent(e) = <<>> /\ ToSet(e) \cap Data \subseteq {"done"}
      \/ \E x \in Data, type \in Types :
            /\ ParseEvent(e) = <<[type |-> type, data |-> <<x>>]>>
            /\ ToSet(e) \cap Data = {x} /\ x \notin {"done", "body"}
            /\ x # Torn => type = TypeOf[x]
  BY EventFrame
<1> QED BY <1>1, <1>4, <1>5, <1>6

-----------------------------------------------------------------------------
(* A whole stream.                                                         *)

\* A stream an upstream may send.
IsStream(s) == /\ s \in Seq(Seq(Lines)) /\ InOrder(s)
               /\ \A i \in 1..Len(s) : IsEvent(s[i])

\* Its events have lines.
LEMMA StreamsLineUp ==
    ASSUME NEW s, IsStream(s)
    PROVE  /\ LinedUp(s) /\ Len(s) \in Nat
           /\ \A i \in 1..Len(s) : s[i] \in Seq(Lines) /\ IsEvent(s[i])
<1>1. s \in Seq(Seq(Lines)) /\ Len(s) \in Nat
  BY DEF IsStream
<1>2. \A i \in 1..Len(s) : s[i] \in Seq(Lines)
  BY <1>1
<1>3. \A i \in 1..Len(s) : IsEvent(s[i]) /\ s[i] # <<>>
  BY DEF IsStream, IsEvent
<1> QED BY <1>1, <1>2, <1>3 DEF LinedUp

\* The lines of the first k events.
ArrivedBy(s, k) == UNION {ToSet(s[i]) : i \in 1..k}

\* Nothing restarts the message, and its totals come in their order.
LEMMA OrderIs ==
    ASSUME NEW s, IsStream(s), NEW k \in 0..(Len(s) - 1)
    PROVE  /\ "start" \in ToSet(s[k + 1]) =>
                "delta1" \notin ArrivedBy(s, k) /\ "delta2" \notin ArrivedBy(s, k)
           /\ "delta1" \in ToSet(s[k + 1]) => "delta2" \notin ArrivedBy(s, k)
<1>1. Len(s) \in Nat
  BY StreamsLineUp
<1>2. PICK m : m = k + 1 /\ m \in 1..Len(s) /\ \A i \in 1..k : i \in 1..Len(s) /\ i < m
  BY <1>1
<1> DEFINE rank == [line \in Lines |->
                       CASE line = "start" -> 1 [] line = "delta1" -> 2
                         [] line = "delta2" -> 3 [] OTHER -> 0]
<1>3. \A i, j \in 1..Len(s) : i < j =>
          \A x \in ToSet(s[i]), y \in ToSet(s[j]) : rank[y] # 0 => rank[x] <= rank[y]
  BY DEF IsStream, InOrder
<1>4. rank["start"] = 1 /\ rank["delta1"] = 2 /\ rank["delta2"] = 3
  BY DEF Lines, Data
<1> HIDE DEF rank
<1>5. ASSUME NEW x \in ArrivedBy(s, k), NEW y \in ToSet(s[m]), rank[y] # 0
      PROVE  rank[x] <= rank[y]
  <2>1. PICK i \in 1..k : x \in ToSet(s[i])
    BY DEF ArrivedBy
  <2> QED BY <1>2, <1>3, <1>5, <2>1
<1>6. \A x \in ArrivedBy(s, k), y \in ToSet(s[m]) : rank[y] # 0 => rank[x] <= rank[y]
  BY <1>5
<1> QED BY <1>2, <1>4, <1>6

\* Each event adds its lines.
LEMMA ArrivedByIs ==
    ASSUME NEW s, NEW k \in Nat
    PROVE  ArrivedBy(s, 0) = {} /\ ArrivedBy(s, k + 1) = ArrivedBy(s, k) \cup ToSet(s[k + 1])
<1>1. \A n, x : x \in ArrivedBy(s, n) <=> \E i \in 1..n : x \in ToSet(s[i])
  BY DEF ArrivedBy
<1>2. /\ \A i : i \in 1..(k + 1) <=> i \in 1..k \/ i = k + 1
      /\ \A i : i \notin 1..0
  OBVIOUS
<1>3. ArrivedBy(s, 0) = {}
  BY <1>1, <1>2
<1>4. \A x : x \in ArrivedBy(s, k + 1) <=> x \in ArrivedBy(s, k) \/ x \in ToSet(s[k + 1])
  BY <1>1, <1>2
<1> QED BY <1>3, <1>4

\* The usage of a stream's frames is what its lines say.
LEMMA StreamCosts ==
    ASSUME message \in Messages, NEW s, IsStream(s)
    PROVE  CostsSoFar(message, ArrivedBy(s, Len(s)), UsageFromFrames(FramesUpto(s, Len(s))))
<1> DEFINE S == {k \in 0..Len(s) :
                    CostsSoFar(message, ArrivedBy(s, k), UsageFromFrames(FramesUpto(s, k)))}
<1>1. Len(s) \in Nat /\ LinedUp(s)
  BY StreamsLineUp
<1>2. 0 \in S
  <2>1. FramesUpto(s, 0) = <<>> /\ ArrivedBy(s, 0) = {}
    <3>1. 0 \in Nat
      OBVIOUS
    <3> QED BY <1>1, <3>1, FramesUptoIs, ArrivedByIs
  <2>2. UsageFromFrames(<<>>) = NoUsage
    <3>1. <<>> \in Seq({0}) /\ 0 \in {0}
      OBVIOUS
    <3> QED BY <3>1, FoldsOn
  <2>3. CostsSoFar(message, {}, NoUsage)
    BY DEF CostsSoFar, NoUsage, Fields
  <2> QED BY <1>1, <2>1, <2>2, <2>3
<1>3. ASSUME NEW k \in 0..(Len(s) - 1), k \in S PROVE k + 1 \in S
  <2>1. k + 1 \in 0..Len(s) /\ k \in 0..Len(s) /\ k + 1 \in 1..Len(s) /\ k \in Nat
    BY <1>1
  <2>2. PICK fs : fs = FramesUpto(s, k) /\ fs \in Seq(FrameRecords)
    BY <1>1, <2>1, FramesUptoIs
  <2>3. PICK e : e = s[k + 1] /\ IsEvent(e)
    BY <2>1, StreamsLineUp
  <2>4. PICK A : A = ArrivedBy(s, k)
    OBVIOUS
  <2>5. CostsSoFar(message, A, UsageFromFrames(fs))
    BY <1>3, <2>2, <2>4
  <2>6. /\ "start" \in ToSet(e) => "delta1" \notin A /\ "delta2" \notin A
        /\ "delta1" \in ToSet(e) => "delta2" \notin A
    BY <2>3, <2>4, OrderIs
  <2>7. CostsSoFar(message, A \cup ToSet(e), UsageFromFrames(fs \o ParseEvent(e)))
    BY <2>2, <2>3, <2>5, <2>6, EventCosts
  <2>8. FramesUpto(s, k + 1) = fs \o ParseEvent(e)
    BY <1>1, <2>2, <2>3, FramesUptoIs
  <2>9. ArrivedBy(s, k + 1) = A \cup ToSet(e)
    BY <2>1, <2>3, <2>4, ArrivedByIs
  <2> QED BY <2>1, <2>7, <2>8, <2>9
<1> HIDE DEF S
<1>4. \A k \in 0..Len(s) : k \in S
  BY <1>1, <1>2, <1>3, Climb
<1>5. Len(s) \in S
  BY <1>1, <1>4
<1> QED BY <1>5 DEF S

\* A frame that ends a message is among them.
HasStop(fs) == \E f \in ToSet(fs) : f.type = "message_stop"

\* Frames joined have one if either has.
LEMMA StopJoined ==
    ASSUME NEW fs \in Seq(FrameRecords), NEW gs \in Seq(FrameRecords)
    PROVE  HasStop(fs \o gs) <=> HasStop(fs) \/ HasStop(gs)
<1>1. PICK hs : hs = fs \o gs
  OBVIOUS
<1>2. /\ Len(hs) = Len(fs) + Len(gs) /\ Len(fs) \in Nat /\ Len(gs) \in Nat
      /\ \A i \in 1..Len(fs) : hs[i] = fs[i]
      /\ \A i \in 1..Len(gs) : hs[Len(fs) + i] = gs[i]
  BY <1>1, ConcatIs
<1>3. hs \in Seq(FrameRecords)
  BY <1>1
<1>4. /\ ToSet(fs) = {fs[i] : i \in 1..Len(fs)} /\ ToSet(gs) = {gs[i] : i \in 1..Len(gs)}
      /\ ToSet(hs) = {hs[i] : i \in 1..Len(hs)}
  BY <1>3 DEF ToSet
<1>5. ToSet(hs) = ToSet(fs) \cup ToSet(gs)
  <2>1. ASSUME NEW i \in 1..Len(hs) PROVE hs[i] \in ToSet(fs) \cup ToSet(gs)
    <3>1. CASE i <= Len(fs)
      <4>1. i \in 1..Len(fs)
        BY <1>2, <3>1
      <4> QED BY <1>2, <1>4, <4>1
    <3>2. CASE i > Len(fs)
      <4>1. PICK j : j = i - Len(fs) /\ j \in 1..Len(gs) /\ i = Len(fs) + j
        BY <1>2, <3>2
      <4> QED BY <1>2, <1>4, <4>1
    <3> QED BY <1>2, <3>1, <3>2
  <2>2. ASSUME NEW i \in 1..Len(fs) PROVE fs[i] \in ToSet(hs)
    <3>1. i \in 1..Len(hs)
      BY <1>2
    <3> QED BY <1>2, <1>4, <3>1
  <2>3. ASSUME NEW i \in 1..Len(gs) PROVE gs[i] \in ToSet(hs)
    <3>1. Len(fs) + i \in 1..Len(hs)
      BY <1>2
    <3> QED BY <1>2, <1>4, <3>1
  <2> QED BY <1>4, <2>1, <2>2, <2>3
<1> QED BY <1>1, <1>5 DEF HasStop

\* The frames of a stream have one if and only if an event of it stops.
LEMMA StreamStops ==
    ASSUME NEW s, IsStream(s)
    PROVE  HasStop(FramesUpto(s, Len(s))) <=> \E i \in 1..Len(s) : Stops(s[i])
<1> DEFINE S == {k \in 0..Len(s) : HasStop(FramesUpto(s, k)) <=> \E i \in 1..k : Stops(s[i])}
<1>1. Len(s) \in Nat /\ LinedUp(s)
  BY StreamsLineUp
<1>2. 0 \in S
  <2>1. FramesUpto(s, 0) = <<>>
    BY <1>1, FramesUptoIs
  <2>2. ~ HasStop(<<>>)
    BY DEF HasStop, ToSet
  <2>3. \A i \in 1..0 : FALSE
    OBVIOUS
  <2> QED BY <1>1, <2>1, <2>2, <2>3
<1>3. ASSUME NEW k \in 0..(Len(s) - 1), k \in S PROVE k + 1 \in S
  <2>1. /\ k + 1 \in 0..Len(s) /\ k \in 0..Len(s) /\ k + 1 \in 1..Len(s)
        /\ \A i \in 1..(k + 1) : i \in 1..k \/ i = k + 1
        /\ k + 1 \in 1..(k + 1) /\ \A i \in 1..k : i \in 1..(k + 1)
    BY <1>1
  <2>2. PICK fs : fs = FramesUpto(s, k) /\ fs \in Seq(FrameRecords)
    BY <1>1, <2>1, FramesUptoIs
  <2>3. PICK m : m = k + 1
    OBVIOUS
  <2>4. PICK e : e = s[m] /\ IsEvent(e) /\ ParseEvent(e) \in Seq(FrameRecords)
    BY <1>1, <2>1, <2>3, StreamsLineUp, FramesUptoIs
  <2>5. FramesUpto(s, m) = fs \o ParseEvent(e)
    BY <1>1, <2>2, <2>3, <2>4, FramesUptoIs
  <2>6. HasStop(ParseEvent(e)) <=> Stops(e)
    <3>1. CASE ParseEvent(e) = <<>> /\ ~ Stops(e)
      <4>1. ~ HasStop(<<>>)
        BY DEF HasStop, ToSet
      <4> QED BY <3>1, <4>1
    <3>2. ASSUME NEW x, NEW type, ParseEvent(e) = <<[type |-> type, data |-> <<x>>]>>,
                 type = "message_stop" <=> Stops(e)
          PROVE  HasStop(ParseEvent(e)) <=> Stops(e)
      <4>1. PICK f : f = [type |-> type, data |-> <<x>>]
        OBVIOUS
      <4>2. f.type = type
        BY <4>1
      <4>3. ToSet(<<f>>) = {f}
        BY DEF ToSet
      <4> QED BY <3>2, <4>1, <4>2, <4>3 DEF HasStop
    <3>3. \/ ParseEvent(e) = <<>> /\ ~ Stops(e)
          \/ \E x \in Data, type \in Types :
                /\ ParseEvent(e) = <<[type |-> type, data |-> <<x>>]>>
                /\ type = "message_stop" <=> Stops(e)
      BY <2>4, EventFrame
    <3> QED BY <3>1, <3>2, <3>3
  <2>7. HasStop(FramesUpto(s, m)) <=> HasStop(fs) \/ Stops(e)
    BY <2>2, <2>4, <2>5, <2>6, StopJoined
  <2>8. HasStop(fs) <=> \E i \in 1..k : Stops(s[i])
    BY <1>3, <2>2
  <2>9. (\E i \in 1..m : Stops(s[i])) <=> (\E i \in 1..k : Stops(s[i])) \/ Stops(e)
    BY <2>1, <2>3, <2>4
  <2> QED BY <2>1, <2>3, <2>7, <2>8, <2>9
<1> HIDE DEF S
<1>4. \A k \in 0..Len(s) : k \in S
  BY <1>1, <1>2, <1>3, Climb
<1>5. Len(s) \in S
  BY <1>1, <1>4
<1> QED BY <1>5 DEF S

\* The largest is the largest.
LEMMA MaxIs ==
    ASSUME NEW S, NEW x \in S, S \subseteq Nat, \A y \in S : y <= x
    PROVE  Max(S) = x
<1>1. \A y \in S : x >= y
  OBVIOUS
<1>2. PICK z : z = Max(S) /\ z \in S /\ \A y \in S : z >= y
  BY <1>1 DEF Max
<1> QED BY <1>2

\* What a message costs so far is its last running total, and its prompt, once
\* it has started.
LEMMA CostsAre ==
    ASSUME NEW m \in Messages, NEW A, NEW u, CostsSoFar(m, A, u)
    PROVE  /\ u.output = Max({0} \cup ({m.first : x \in A \cap {"start"}}
                                       \cup {m.outputs[i] : i \in {j \in 1..2 : Deltas[j] \in A}}))
           /\ u.input + u.read + u.w5 + u.w1 =
                 IF "start" \in A THEN m.input + m.read + m.flat ELSE 0
<1>1. /\ {m.input, m.read, m.split, m.flat, m.w5, m.w1, m.first} \subseteq Nat
      /\ m.outputs[1] \in Nat /\ m.outputs[2] \in Nat
      /\ m.first <= m.outputs[1] /\ m.outputs[1] <= m.outputs[2]
      /\ m.split = 1 => m.flat = m.w5 + m.w1
  BY StreamAssumption
<1>2. u.input + u.read + u.w5 + u.w1 = IF "start" \in A THEN m.input + m.read + m.flat ELSE 0
  BY <1>1 DEF CostsSoFar
<1> DEFINE C == {0} \cup ({m.first : x \in A \cap {"start"}}
                           \cup {m.outputs[i] : i \in {j \in 1..2 : Deltas[j] \in A}})
<1>3. ASSUME NEW c
      PROVE  c \in C <=> (\/ c = 0
                          \/ "start" \in A /\ c = m.first
                          \/ "delta1" \in A /\ c = m.outputs[1]
                          \/ "delta2" \in A /\ c = m.outputs[2])
  <2>1. Deltas[1] = "delta1" /\ Deltas[2] = "delta2"
    BY DEF Deltas
  <2>2. \A i : i \in 1..2 <=> i = 1 \/ i = 2
    OBVIOUS
  <2>3. PICK J : J = {j \in 1..2 : Deltas[j] \in A}
    OBVIOUS
  <2>4. \A i : i \in J <=> i \in 1..2 /\ Deltas[i] \in A
    BY <2>3
  <2>5. c \in {m.outputs[i] : i \in J} <=>
            ("delta1" \in A /\ c = m.outputs[1]) \/ ("delta2" \in A /\ c = m.outputs[2])
    <3>1. c \in {m.outputs[i] : i \in J} <=> \E i \in J : c = m.outputs[i]
      OBVIOUS
    <3>2. (\E i \in J : c = m.outputs[i]) <=>
              (Deltas[1] \in A /\ c = m.outputs[1]) \/ (Deltas[2] \in A /\ c = m.outputs[2])
      BY <2>2, <2>4
    <3> QED BY <2>1, <3>1, <3>2
  <2>6. c \in {m.first : x \in A \cap {"start"}} <=> "start" \in A /\ c = m.first
    OBVIOUS
  <2>7. c \in C <=> (\/ c = 0
                     \/ c \in {m.first : x \in A \cap {"start"}}
                     \/ c \in {m.outputs[i] : i \in J})
    BY <2>3
  <2> HIDE DEF C
  <2> QED BY <2>5, <2>6, <2>7
<1> HIDE DEF C
<1>4. C \subseteq Nat
  BY <1>1, <1>3
<1>5. PICK o : o = u.output
  OBVIOUS
<1>6. o = IF "delta2" \in A THEN m.outputs[2]
          ELSE IF "delta1" \in A THEN m.outputs[1]
          ELSE IF "start" \in A THEN m.first ELSE 0
  BY <1>5 DEF CostsSoFar
<1>7. o \in C /\ \A c \in C : c <= o
  <2>1. CASE "delta2" \in A
    <3>1. o = m.outputs[2]
      BY <1>6, <2>1
    <3> QED BY <1>1, <1>3, <2>1, <3>1
  <2>2. CASE "delta2" \notin A /\ "delta1" \in A
    <3>1. o = m.outputs[1]
      BY <1>6, <2>2
    <3> QED BY <1>1, <1>3, <2>2, <3>1
  <2>3. CASE "delta2" \notin A /\ "delta1" \notin A
    <3>1. o = IF "start" \in A THEN m.first ELSE 0
      BY <1>6, <2>3
    <3>2. CASE "start" \in A
      BY <1>1, <1>3, <2>3, <3>1, <3>2
    <3>3. CASE "start" \notin A
      <4>1. o = 0 /\ \A c \in C : c = 0
        BY <1>3, <2>3, <3>1, <3>3
      <4>2. 0 \in C
        BY <1>3
      <4> QED BY <4>1, <4>2
    <3> QED BY <3>2, <3>3
  <2> QED BY <2>1, <2>2, <2>3
<1>8. Max(C) = o
  BY <1>4, <1>7, MaxIs
<1> QED BY <1>2, <1>5, <1>8 DEF C

-----------------------------------------------------------------------------
(* The same message as one object.                                         *)

\* What one object costs.
ObjectUsage(m) ==
    [ApplyUsage(NoUsage, m, m.outputs[2]) EXCEPT !.thinking = m.thinking, !.stop = m.stop]

Body == [type |-> "message", data |-> <<"body">>]

\* It is the usage of its frame.
LEMMA ObjectIs == UsageFromFrames(<<Body>>) = ObjectUsage(message)
<1>1. UsageFromFrames(<<>>) = NoUsage /\ UsageFromFrames(<<>> \o <<Body>>) = FoldFrame(NoUsage, Body)
  <2>1. <<>> \in Seq({Body}) /\ Body \in {Body}
    OBVIOUS
  <2> QED BY <2>1, FoldsOn
<1>2. <<>> \o <<Body>> = <<Body>>
  OBVIOUS
<1>3. Body.type = "message" /\ Len(Body.data) = 1 /\ Body.data[1] = "body"
  BY DEF Body
<1>4. FoldFrame(NoUsage, Body) = ObjectUsage(message)
  BY <1>3 DEF FoldFrame, ObjectUsage, Torn
<1> QED BY <1>1, <1>2, <1>4

\* The frames of a stream that has all of the message.
Whole == [i \in 1..3 |-> LET line == <<"start", "delta1", "delta2">>[i]
                         IN  [type |-> TypeOf[line], data |-> <<line>>]]

\* A stream costs what the object does.
LEMMA WholeIs ==
    ASSUME message \in Messages
    PROVE  UsageFromFrames(Whole) = ObjectUsage(message)
<1> DEFINE frame(line) == [type |-> TypeOf[line], data |-> <<line>>]
<1>1. PICK f1 : f1 = frame("start")
  OBVIOUS
<1>2. PICK f2 : f2 = frame("delta1")
  OBVIOUS
<1>3. PICK f3 : f3 = frame("delta2")
  OBVIOUS
<1>4. Whole = (<<f1>> \o <<f2>>) \o <<f3>>
  <2>1. Whole = <<f1, f2, f3>>
    BY <1>1, <1>2, <1>3 DEF Whole
  <2> QED BY <2>1
<1>5. PICK A : A = {f1, f2, f3}
  OBVIOUS
<1>6. /\ <<>> \in Seq(A) /\ <<f1>> \in Seq(A) /\ <<f1>> \o <<f2>> \in Seq(A)
      /\ f1 \in A /\ f2 \in A /\ f3 \in A /\ <<>> \o <<f1>> = <<f1>>
  BY <1>5
<1>7. PICK u1 : u1 = UsageFromFrames(<<f1>>) /\ u1 = FoldFrame(NoUsage, f1)
  BY <1>6, FoldsOn
<1>8. PICK u2 : u2 = UsageFromFrames(<<f1>> \o <<f2>>) /\ u2 = FoldFrame(u1, f2)
  BY <1>6, <1>7, FoldsOn
<1>9. UsageFromFrames(Whole) = FoldFrame(u2, f3)
  BY <1>4, <1>6, <1>8, FoldsOn
<1>10. /\ {"start", "delta1", "delta2"} \subseteq Data \ {"done", "body"}
       /\ TypeOf["start"] \in Types /\ TypeOf["delta1"] \in Types /\ TypeOf["delta2"] \in Types
  BY TypesOf DEF Data, Lines
<1>11. PICK m : m = message /\ m \in Messages
  OBVIOUS
<1>12. u1 = ApplyUsage(NoUsage, m, m.first)
  <2>1. FoldFrame(NoUsage, [type |-> TypeOf["start"], data |-> <<"start">>])
           = ApplyUsage(NoUsage, message, message.first)
    BY <1>10, FoldFrameIs, ZenonT(40)
  <2> QED BY <1>1, <1>7, <1>11, <2>1
<1>13. u2 = [u1 EXCEPT !.output = m.outputs[1], !.thinking = m.thinking, !.stop = u1.stop]
  <2>1. FoldFrame(u1, [type |-> TypeOf["delta1"], data |-> <<"delta1">>]) =
           [u1 EXCEPT !.output = message.outputs[IF "delta1" = "delta1" THEN 1 ELSE 2],
                      !.thinking = message.thinking,
                      !.stop = IF "delta1" = "delta2" THEN message.stop ELSE u1.stop]
    BY <1>10, FoldFrameIs
  <2> QED BY <1>2, <1>8, <1>11, <2>1
<1>14. FoldFrame(u2, f3) = [u2 EXCEPT !.output = m.outputs[2], !.thinking = m.thinking, !.stop = m.stop]
  <2>1. FoldFrame(u2, [type |-> TypeOf["delta2"], data |-> <<"delta2">>]) =
           [u2 EXCEPT !.output = message.outputs[IF "delta2" = "delta1" THEN 1 ELSE 2],
                      !.thinking = message.thinking,
                      !.stop = IF "delta2" = "delta2" THEN message.stop ELSE u2.stop]
    BY <1>10, FoldFrameIs
  <2> QED BY <1>3, <1>11, <2>1
<1>15. /\ m.first \in Nat /\ m.outputs[2] \in Nat
  BY <1>11, StreamAssumption
<1>16. PICK v : v = [u2 EXCEPT !.output = m.outputs[2], !.thinking = m.thinking, !.stop = m.stop]
  OBVIOUS
<1>17. PICK o : o = ObjectUsage(m)
  OBVIOUS
<1>18. /\ DOMAIN u1 = Fields /\ u1.input = m.input /\ u1.read = m.read
       /\ u1.w5 = IF m.split = 1 THEN m.w5 ELSE IF m.flat > 0 THEN m.flat ELSE 0
       /\ u1.w1 = IF m.split = 1 THEN m.w1 ELSE 0
       /\ u1.unsplit = (FALSE \/ (m.split = 0 /\ m.flat > 0))
  BY <1>12 DEF ApplyUsage, NoUsage, Fields
<1>19. /\ DOMAIN v = Fields /\ v.input = u1.input /\ v.read = u1.read /\ v.w5 = u1.w5
       /\ v.w1 = u1.w1 /\ v.unsplit = u1.unsplit
       /\ v.output = m.outputs[2] /\ v.thinking = m.thinking /\ v.stop = m.stop
       /\ v = [y \in Fields |-> v[y]]
  BY <1>13, <1>16, <1>18 DEF Fields
<1>20. /\ DOMAIN o = Fields /\ o.input = m.input /\ o.read = m.read
       /\ o.w5 = IF m.split = 1 THEN m.w5 ELSE IF m.flat > 0 THEN m.flat ELSE 0
       /\ o.w1 = IF m.split = 1 THEN m.w1 ELSE 0
       /\ o.unsplit = (FALSE \/ (m.split = 0 /\ m.flat > 0))
       /\ o.output = (IF m.outputs[2] > 0 THEN m.outputs[2] ELSE 0)
       /\ o.thinking = m.thinking /\ o.stop = m.stop
       /\ o = [y \in Fields |-> o[y]]
  BY <1>17 DEF ObjectUsage, ApplyUsage, NoUsage, Fields
<1>21. o.output = m.outputs[2]
  BY <1>15, <1>20
<1>22. \A y \in Fields : v[y] = o[y]
  BY <1>18, <1>19, <1>20, <1>21 DEF Fields
<1>23. v = o
  BY <1>19, <1>20, <1>22
<1> QED BY <1>9, <1>11, <1>14, <1>16, <1>17, <1>23

\* What one object costs is all the message says.
LEMMA ObjectCosts ==
    ASSUME NEW m \in Messages, NEW o, o = ObjectUsage(m)
    PROVE  /\ o.input + o.read + o.w5 + o.w1 = m.input + m.read + m.flat
           /\ o.output = Max({m.first, m.outputs[1], m.outputs[2]})
<1>1. /\ {m.input, m.read, m.split, m.flat, m.w5, m.w1, m.first} \subseteq Nat
      /\ m.outputs[1] \in Nat /\ m.outputs[2] \in Nat
      /\ m.first <= m.outputs[1] /\ m.outputs[1] <= m.outputs[2]
      /\ m.split = 1 => m.flat = m.w5 + m.w1
  BY StreamAssumption
<1>2. /\ o.input = m.input /\ o.read = m.read
      /\ o.w5 = IF m.split = 1 THEN m.w5 ELSE IF m.flat > 0 THEN m.flat ELSE 0
      /\ o.w1 = IF m.split = 1 THEN m.w1 ELSE 0
      /\ o.output = IF m.outputs[2] > 0 THEN m.outputs[2] ELSE 0
  BY DEF ObjectUsage, ApplyUsage, NoUsage
<1>3. o.input + o.read + o.w5 + o.w1 = m.input + m.read + m.flat
  BY <1>1, <1>2
<1>4. o.output = m.outputs[2]
  BY <1>1, <1>2
<1>5. Max({m.first, m.outputs[1], m.outputs[2]}) = m.outputs[2]
  <2>1. PICK S : S = {m.first, m.outputs[1], m.outputs[2]}
    OBVIOUS
  <2>2. m.outputs[2] \in S /\ S \subseteq Nat
    BY <1>1, <2>1
  <2>3. \A y \in S : y <= m.outputs[2]
    BY <1>1, <2>1
  <2> QED BY <2>1, <2>2, <2>3, MaxIs
<1> QED BY <1>3, <1>4, <1>5

-----------------------------------------------------------------------------
(* Every chunk.                                                            *)

\* With b in the carry and w to come, fs are the frames of the events read, and
\* there is no whole event in the carry.
ReadsOn(s, b, w, fs) ==
    \E e, cut : /\ Cut(s, e, cut)
                /\ \E k \in 0..Len(s) : /\ Coming(s, e, cut, k, b, w)
                                        /\ FindEvent(b) = <<>> /\ fs = FramesUpto(s, k)

\* A sequence is its beginning and what follows.
LEMMA SplitAt ==
    ASSUME NEW A, NEW w \in Seq(A), NEW n \in 1..Len(w)
    PROVE  /\ SubSeq(w, 1, n) \in Seq(A) /\ SubSeq(w, n + 1, Len(w)) \in Seq(A)
           /\ w = SubSeq(w, 1, n) \o SubSeq(w, n + 1, Len(w))
OBVIOUS

\* A chunk comes from what is to come.
LEMMA ComingMoves ==
    ASSUME NEW s, NEW e, NEW cut, NEW k, NEW b, NEW w, Coming(s, e, cut, k, b, w),
           NEW n \in 1..Len(w)
    PROVE  Coming(s, e, cut, k, b \o SubSeq(w, 1, n), SubSeq(w, n + 1, Len(w)))
<1>1. PICK v : v = SubSeq(w, 1, n)
  OBVIOUS
<1>2. PICK r : r = SubSeq(w, n + 1, Len(w))
  OBVIOUS
<1>3. b \in Seq(Symbols) /\ w \in Seq(Symbols) /\ b \o w = Rest(s, e, cut, k)
  BY DEF Coming
<1>4. b \in Seq(Symbols) /\ w \in Seq(Symbols)
  BY <1>3
<1>5. v \in Seq(Symbols) /\ r \in Seq(Symbols)
  BY <1>1, <1>2, <1>4
<1>6. w = v \o r
  BY <1>1, <1>2, <1>4, SplitAt
<1>7. b \in Seq(Symbols) /\ v \in Seq(Symbols) /\ r \in Seq(Symbols)
  BY <1>4, <1>5
<1>8. (b \o v) \o r = b \o (v \o r)
  BY <1>7
<1>9. b \o v \in Seq(Symbols)
  BY <1>7
<1>10. (b \o v) \o r = Rest(s, e, cut, k)
  BY <1>3, <1>6, <1>8
<1>11. Coming(s, e, cut, k, b \o v, r)
  BY <1>5, <1>9, <1>10 DEF Coming
<1> QED BY <1>1, <1>2, <1>11

\* Wherever a chunk ends, what is read goes on.
LEMMA FeedReads ==
    ASSUME NEW s, NEW b, NEW w, NEW fs, ReadsOn(s, b, w, fs), NEW n \in 1..Len(w),
           NEW d, d = Drained(b \o SubSeq(w, 1, n))
    PROVE  /\ ReadsOn(s, d.rest, SubSeq(w, n + 1, Len(w)), fs \o d.frames)
           /\ fs \in Seq(FrameRecords) /\ d.frames \in Seq(FrameRecords)
<1>1. PICK e, cut : /\ Cut(s, e, cut)
                    /\ \E k \in 0..Len(s) : /\ Coming(s, e, cut, k, b, w)
                                            /\ FindEvent(b) = <<>> /\ fs = FramesUpto(s, k)
  BY DEF ReadsOn
<1>2. PICK k \in 0..Len(s) : Coming(s, e, cut, k, b, w) /\ fs = FramesUpto(s, k)
  BY <1>1
<1>3. PICK r : r = SubSeq(w, n + 1, Len(w))
  OBVIOUS
<1>4. PICK c : c = b \o SubSeq(w, 1, n)
  OBVIOUS
<1>5. Coming(s, e, cut, k, c, r)
  BY <1>2, <1>3, <1>4, ComingMoves
<1>6. DrainedTo(s, e, cut, k, r, d) /\ FindEvent(d.rest) = <<>>
  <2>1. d = Drained(c)
    BY <1>4
  <2> QED BY <1>1, <1>5, <2>1, DrainedIs
<1>7. PICK m \in 0..Len(s) :
         /\ Coming(s, e, cut, m, d.rest, r) /\ d.frames \in Seq(FrameRecords)
         /\ FramesUpto(s, k) \o d.frames = FramesUpto(s, m)
  BY <1>6 DEF DrainedTo
<1>8. ReadsOn(s, d.rest, r, fs \o d.frames)
  BY <1>1, <1>2, <1>6, <1>7 DEF ReadsOn
<1>9. fs \in Seq(FrameRecords)
  <2>1. LinedUp(s)
    BY <1>1 DEF Cut
  <2> QED BY <1>2, <2>1, FramesUptoIs
<1> QED BY <1>3, <1>7, <1>8, <1>9

\* When all has come, what is left is read as the last event or as none.
LEMMA FinishReads ==
    ASSUME NEW s, NEW b, NEW fs, ReadsOn(s, b, <<>>, fs)
    PROVE  /\ fs \o ParseEvent(b) = FramesUpto(s, Len(s))
           /\ fs \in Seq(FrameRecords) /\ ParseEvent(b) \in Seq(FrameRecords)
<1>1. PICK e, cut : /\ Cut(s, e, cut)
                    /\ \E k \in 0..Len(s) : /\ Coming(s, e, cut, k, b, <<>>)
                                            /\ FindEvent(b) = <<>> /\ fs = FramesUpto(s, k)
  BY DEF ReadsOn
<1>2. PICK k \in 0..Len(s) :
         Coming(s, e, cut, k, b, <<>>) /\ FindEvent(b) = <<>> /\ fs = FramesUpto(s, k)
  BY <1>1
<1>3. b \in Seq(Symbols) /\ b \o <<>> = Rest(s, e, cut, k)
  BY <1>2 DEF Coming
<1>4. b = Rest(s, e, cut, k)
  BY <1>3
<1>5. LinedUp(s) /\ Len(s) \in Nat
  BY <1>1 DEF Cut, LinedUp
<1>6. fs \in Seq(FrameRecords)
  BY <1>2, <1>5, FramesUptoIs
<1>7. ParseEvent(b) \in Seq(FrameRecords)
  BY <1>3, FrameTyped
<1>8. \/ k = Len(s) /\ ParseEvent(b) = <<>>
      \/ k + 1 = Len(s) /\ ParseEvent(b) = ParseEvent(s[k + 1])
  BY <1>1, <1>2, <1>3, <1>4, NoneLeft
<1>9. CASE k = Len(s) /\ ParseEvent(b) = <<>>
  <2>1. fs \o <<>> = fs
    BY <1>6
  <2> QED BY <1>2, <1>6, <1>7, <1>9, <2>1
<1>10. CASE k + 1 = Len(s) /\ ParseEvent(b) = ParseEvent(s[k + 1])
  <2>1. k \in 0..(Len(s) - 1)
    BY <1>5, <1>10
  <2>2. FramesUpto(s, k + 1) = FramesUpto(s, k) \o ParseEvent(s[k + 1])
    BY <1>5, <2>1, FramesUptoIs
  <2> QED BY <1>2, <1>6, <1>7, <1>10, <2>2
<1> QED BY <1>8, <1>9, <1>10

\* A stream at its end: all its frames, a stop among them if one was seen, and
\* what its lines cost.
ReadWhole(m, s, w, fs, stopped, u) ==
    /\ w = <<>> /\ fs = FramesUpto(s, Len(s)) /\ (stopped <=> HasStop(fs))
    /\ CostsSoFar(m, ArrivedBy(s, Len(s)), u)

StreamInv ==
    /\ message \in Messages /\ content \in {"stream", "json", "other"}
    /\ content = "stream" =>
          /\ script \in Scripts
          /\ \/ ReadsOn(script, buf, wire, frames) /\ (sawStop <=> HasStop(frames))
             \/ buf = <<"end">> /\ ReadWhole(message, script, wire, frames, sawStop, usage)
    /\ content # "stream" =>
          \/ wire = <<"body">> /\ buf = <<>> /\ frames = <<>>
          \/ /\ wire = <<>> /\ buf = <<"end">> /\ frames \in {<<>>, <<Body>>}
             /\ content = "json" => usage = ObjectUsage(message)
             /\ content = "other" => usage = NoUsage

\* What is in the carry while a stream is read is no end.
LEMMA ReadingOn ==
    ASSUME NEW s, NEW b, NEW w, NEW fs, ReadsOn(s, b, w, fs)
    PROVE  b \in Seq(Symbols) /\ w \in Seq(Symbols) /\ fs \in Seq(FrameRecords) /\ b # <<"end">>
<1>1. PICK e, cut : /\ Cut(s, e, cut)
                    /\ \E k \in 0..Len(s) : /\ Coming(s, e, cut, k, b, w)
                                            /\ FindEvent(b) = <<>> /\ fs = FramesUpto(s, k)
  BY DEF ReadsOn
<1>2. PICK k \in 0..Len(s) : Coming(s, e, cut, k, b, w) /\ fs = FramesUpto(s, k)
  BY <1>1
<1>3. LinedUp(s)
  BY <1>1 DEF Cut
<1>4. fs \in Seq(FrameRecords)
  BY <1>2, <1>3, FramesUptoIs
<1>5. b \in Seq(Symbols) /\ w \in Seq(Symbols)
  BY <1>2 DEF Coming
<1>6. b # <<"end">>
  <2>1. ASSUME b = <<"end">> PROVE FALSE
    <3>1. Len(b) = 1 /\ b[1] = "end"
      BY <2>1
    <3>2. "end" \in Symbols
      <4>1. 1 \in 1..Len(b)
        BY <3>1
      <4>2. b[1] \in Symbols
        BY <1>5, <4>1
      <4> QED BY <3>1, <4>2
    <3>3. "end" # CR /\ "end" # LF /\ "end" \notin Lines
      BY LinesAreNoEnds DEF CR, LF
    <3> QED BY <3>2, <3>3 DEF Symbols
  <2> QED BY <2>1
<1> QED BY <1>4, <1>5, <1>6

\* The scripts are streams an upstream may send.
LEMMA ScriptsAreStreams == ASSUME NEW s \in Scripts PROVE IsStream(s)
BY StreamAssumption DEF IsStream

\* All of a stream is to come before the first chunk.
LEMMA InitReads ==
    ASSUME NEW s, IsStream(s), NEW e \in Endings, NEW cut \in 0..4,
           NEW t, t = Text(s, e), cut <= Len(t), cut <= 2 * Len(e),
           NEW w, w = SubSeq(t, 1, Len(t) - cut)
    PROVE  ReadsOn(s, <<>>, w, <<>>)
<1>1. LinedUp(s) /\ Len(s) \in Nat
  BY StreamsLineUp
<1>2. Len(e) \in Nat
  BY DEF Endings
<1>3. cut \in 0..(2 * Len(e))
  BY <1>2
<1>4. Cut(s, e, cut)
  BY <1>1, <1>3 DEF Cut
<1>5. Upto(s, e, 0) = <<>> /\ FramesUpto(s, 0) = <<>>
  BY <1>1, UptoIs, FramesUptoIs
<1>6. w = Rest(s, e, cut, 0)
  <2>1. Len(<<>>) = 0
    OBVIOUS
  <2>2. Rest(s, e, cut, 0) = SubSeq(t, 0 + 1, Len(t) - cut)
    BY <1>5, <2>1 DEF Rest
  <2> QED BY <2>2
<1>7. 0 \in 0..Len(s)
  BY <1>1
<1>8. w \in Seq(Symbols)
  <2>1. Rest(s, e, cut, 0) \in Seq(Symbols)
    BY <1>1, <1>3, <1>7, RestIs
  <2> QED BY <1>6, <2>1
<1>9. PICK z : z = <<>> /\ z \in Seq(Symbols) /\ z \o w = w
  <2>1. <<>> \in Seq(Symbols) /\ <<>> \o w = w
    BY <1>8
  <2> QED BY <2>1
<1>10. Coming(s, e, cut, 0, z, w)
  BY <1>6, <1>8, <1>9 DEF Coming
<1> QED BY <1>4, <1>5, <1>7, <1>9, <1>10, NothingInNothing DEF ReadsOn

\* A body that has just been captured.
LEMMA StreamInvInit == StreamInit => StreamInv
<1> SUFFICES ASSUME StreamInit PROVE StreamInv
  OBVIOUS
<1>1. message \in Messages /\ content \in {"stream", "json", "other"}
      /\ buf = <<>> /\ frames = <<>> /\ sawStop = FALSE
  BY DEF StreamInit
<1>2. ASSUME content = "stream"
      PROVE  script \in Scripts /\ ReadsOn(script, buf, wire, frames) /\ (sawStop <=> HasStop(frames))
  <2>1. script \in Scripts /\ IsStream(script)
    BY ScriptsAreStreams DEF StreamInit
  <2>2. PICK e \in Endings, cut \in 0..4 :
           /\ cut <= Len(Text(script, e)) /\ cut <= 2 * Len(e)
           /\ wire = SubSeq(Text(script, e), 1, Len(Text(script, e)) - cut)
    BY <1>2 DEF StreamInit
  <2>3. PICK t : t = Text(script, e)
    OBVIOUS
  <2>4. ReadsOn(script, <<>>, wire, <<>>)
    BY <2>1, <2>2, <2>3, InitReads
  <2>5. ~ HasStop(<<>>)
    BY DEF HasStop, ToSet
  <2> QED BY <1>1, <2>1, <2>4, <2>5
<1>3. content # "stream" => wire = <<"body">>
  BY DEF StreamInit
<1> QED BY <1>1, <1>2, <1>3 DEF StreamInv

\* A chunk.
LEMMA StreamInvFeed == StreamInv /\ Feed => StreamInv'
<1> SUFFICES ASSUME StreamInv, Feed PROVE StreamInv'
  OBVIOUS
<1>1. /\ message' = message /\ script' = script /\ content' = content /\ usage' = usage
      /\ content = "stream" /\ message \in Messages /\ script \in Scripts
  BY DEF StreamInv, Feed
<1>2. PICK n \in 1..Len(wire) :
         LET d == Drained(buf \o SubSeq(wire, 1, n))
         IN  /\ wire' = SubSeq(wire, n + 1, Len(wire))
             /\ buf' = d.rest /\ frames' = frames \o d.frames
             /\ sawStop' = (sawStop \/ \E f \in ToSet(d.frames) : f.type = "message_stop")
  BY DEF Feed
<1>3. PICK d : d = Drained(buf \o SubSeq(wire, 1, n))
  OBVIOUS
<1>4. /\ wire' = SubSeq(wire, n + 1, Len(wire))
      /\ buf' = d.rest /\ frames' = frames \o d.frames
      /\ sawStop' = (sawStop \/ HasStop(d.frames))
  BY <1>2, <1>3 DEF HasStop
<1>5. ReadsOn(script, buf, wire, frames) /\ (sawStop <=> HasStop(frames))
  <2>1. wire # <<>>
    <3>1. wire = <<>> => Len(wire) = 0
      OBVIOUS
    <3>2. Len(wire) # 0
      BY <1>2
    <3> QED BY <3>1, <3>2
  <2> QED BY <1>1, <2>1 DEF StreamInv, ReadWhole
<1>6. PICK w : w = SubSeq(wire, n + 1, Len(wire))
  OBVIOUS
<1>7. /\ ReadsOn(script, d.rest, w, frames \o d.frames)
      /\ frames \in Seq(FrameRecords) /\ d.frames \in Seq(FrameRecords)
  BY <1>3, <1>5, <1>6, FeedReads
<1>8. HasStop(frames \o d.frames) <=> HasStop(frames) \/ HasStop(d.frames)
  BY <1>7, StopJoined
<1>9. ReadsOn(script', buf', wire', frames') /\ (sawStop' <=> HasStop(frames'))
  BY <1>1, <1>4, <1>5, <1>6, <1>7, <1>8
<1> QED BY <1>1, <1>9 DEF StreamInv

\* The end of a stream.
LEMMA StreamInvFinish == StreamInv /\ Finish => StreamInv'
<1> SUFFICES ASSUME StreamInv, Finish PROVE StreamInv'
  OBVIOUS
<1>1. /\ message' = message /\ script' = script /\ content' = content /\ wire' = wire
      /\ content = "stream" /\ message \in Messages /\ script \in Scripts
      /\ wire = <<>> /\ buf # <<"end">> /\ buf' = <<"end">>
  BY DEF StreamInv, Finish
<1>2. PICK last : last = ParseEvent(buf)
  OBVIOUS
<1>3. /\ frames' = frames \o last /\ sawStop' = (sawStop \/ HasStop(last))
      /\ usage' = UsageFromFrames(frames \o last)
  BY <1>2 DEF Finish, HasStop
<1>4. ReadsOn(script, buf, wire, frames) /\ (sawStop <=> HasStop(frames))
  BY <1>1 DEF StreamInv
<1>5. /\ frames \o last = FramesUpto(script, Len(script))
      /\ frames \in Seq(FrameRecords) /\ last \in Seq(FrameRecords)
  BY <1>1, <1>2, <1>4, FinishReads
<1>6. HasStop(frames \o last) <=> HasStop(frames) \/ HasStop(last)
  BY <1>5, StopJoined
<1>7. CostsSoFar(message, ArrivedBy(script, Len(script)), UsageFromFrames(FramesUpto(script, Len(script))))
  BY <1>1, ScriptsAreStreams, StreamCosts
<1>8. ReadWhole(message', script', wire', frames', sawStop', usage')
  BY <1>1, <1>3, <1>4, <1>5, <1>6, <1>7 DEF ReadWhole
<1> QED BY <1>1, <1>8 DEF StreamInv

\* A body that is no stream.
LEMMA StreamInvExtract == StreamInv /\ ExtractUsage => StreamInv'
<1> SUFFICES ASSUME StreamInv, ExtractUsage PROVE StreamInv'
  OBVIOUS
<1>1. /\ message' = message /\ content' = content /\ content # "stream"
      /\ message \in Messages /\ content \in {"json", "other"}
      /\ wire = <<"body">> /\ wire' = <<>> /\ buf' = <<"end">>
      /\ frames' = IF content = "json" THEN <<[type |-> "message", data |-> wire]>> ELSE <<>>
      /\ usage' = UsageFromFrames(frames')
  BY DEF StreamInv, ExtractUsage
<1>2. CASE content = "json"
  <2>1. frames' = <<Body>>
    BY <1>1, <1>2 DEF Body
  <2>2. usage' = ObjectUsage(message)
    BY <1>1, <2>1, ObjectIs
  <2> QED BY <1>1, <1>2, <2>1, <2>2 DEF StreamInv
<1>3. CASE content = "other"
  <2>1. frames' = <<>>
    BY <1>1, <1>3
  <2>2. <<>> \in Seq({0}) /\ 0 \in {0}
    OBVIOUS
  <2>3. usage' = NoUsage
    BY <1>1, <2>1, <2>2, FoldsOn
  <2> QED BY <1>1, <1>3, <2>1, <2>3 DEF StreamInv
<1> QED BY <1>1, <1>2, <1>3

\* Every step.
LEMMA StreamInvNext == StreamInv /\ [StreamNext]_streamVars => StreamInv'
<1> SUFFICES ASSUME StreamInv, [StreamNext]_streamVars PROVE StreamInv'
  OBVIOUS
<1>1. CASE Feed
  BY <1>1, StreamInvFeed
<1>2. CASE Finish
  BY <1>2, StreamInvFinish
<1>3. CASE ExtractUsage
  BY <1>3, StreamInvExtract
<1>4. CASE UNCHANGED streamVars
  BY <1>4 DEF StreamInv, streamVars
<1> QED BY <1>1, <1>2, <1>3, <1>4 DEF StreamNext

\* What the invariant is for.
LEMMA StreamInvRight == StreamInv => StreamTypeOK /\ StreamIsReadRight
<1> SUFFICES ASSUME StreamInv PROVE StreamTypeOK /\ StreamIsReadRight
  OBVIOUS
<1>1. message \in Messages /\ content \in {"stream", "json", "other"}
  BY DEF StreamInv
<1>2. StreamTypeOK
  <2>1. buf \in Seq(Symbols \cup {"end"}) /\ frames \in Seq(FrameRecords)
    <3>1. /\ <<>> \in Seq(Symbols \cup {"end"}) /\ <<"end">> \in Seq(Symbols \cup {"end"})
          /\ \A b \in Seq(Symbols) : b \in Seq(Symbols \cup {"end"})
          /\ <<>> \in Seq(FrameRecords)
      OBVIOUS
    <3>2. CASE content = "stream"
      <4>1. CASE ReadsOn(script, buf, wire, frames)
        BY <3>1, <4>1, ReadingOn
      <4>2. CASE buf = <<"end">> /\ ReadWhole(message, script, wire, frames, sawStop, usage)
        <5>1. script \in Scripts /\ frames = FramesUpto(script, Len(script))
          BY <3>2, <4>2 DEF StreamInv, ReadWhole
        <5>2. LinedUp(script) /\ Len(script) \in Nat
          BY <5>1, ScriptsAreStreams, StreamsLineUp
        <5>3. Len(script) \in 0..Len(script)
          BY <5>2
        <5>4. frames \in Seq(FrameRecords)
          BY <5>1, <5>2, <5>3, FramesUptoIs
        <5> QED BY <3>1, <4>2, <5>4
      <4> QED BY <3>2, <4>1, <4>2 DEF StreamInv
    <3>3. CASE content # "stream"
      <4>1. Body \in FrameRecords
        <5>1. <<"body">> \in Seq(Data) /\ <<"body">> # <<>>
          BY DEF Data
        <5> QED BY <5>1 DEF Body, FrameRecords, Types
      <4>2. <<Body>> \in Seq(FrameRecords)
        BY <4>1
      <4> QED BY <3>1, <3>3, <4>2 DEF StreamInv
    <3> QED BY <3>2, <3>3
  <2>2. \A f \in ToSet(frames) : f.data # <<>>
    <3>1. \A f \in ToSet(frames) : f \in FrameRecords
      BY <2>1 DEF ToSet
    <3> QED BY <3>1 DEF FrameRecords
  <2>3. Lines \cup {CR, LF, "end"} = Symbols \cup {"end"}
    BY DEF Symbols
  <2> QED BY <2>1, <2>2, <2>3 DEF StreamTypeOK
<1>3. ASSUME buf = <<"end">>, content = "stream"
      PROVE  /\ frames = FlattenSeq([i \in 1..Len(script) |-> ParseEvent(script[i])])
             /\ sawStop <=> StopArrived
             /\ usage.output = Max({0} \cup Counts)
             /\ usage.input + usage.read + usage.w5 + usage.w1 =
                   IF "start" \in Arrived THEN Prompt ELSE 0
  <2>1. script \in Scripts /\ ReadWhole(message, script, wire, frames, sawStop, usage)
    <3>1. script \in Scripts /\ (\/ ReadsOn(script, buf, wire, frames)
                                 \/ ReadWhole(message, script, wire, frames, sawStop, usage))
      BY <1>3 DEF StreamInv
    <3>2. ~ ReadsOn(script, buf, wire, frames)
      BY <1>3, ReadingOn
    <3> QED BY <3>1, <3>2
  <2>2. IsStream(script) /\ LinedUp(script)
    BY <2>1, ScriptsAreStreams, StreamsLineUp
  <2>3. /\ frames = FramesUpto(script, Len(script)) /\ (sawStop <=> HasStop(frames))
        /\ CostsSoFar(message, ArrivedBy(script, Len(script)), usage)
    BY <2>1 DEF ReadWhole
  <2>4. frames = FlattenSeq([i \in 1..Len(script) |-> ParseEvent(script[i])])
    BY <2>2, <2>3, FramesUptoIs
  <2>5. sawStop <=> StopArrived
    <3>1. StopArrived <=> \E i \in 1..Len(script) : Stops(script[i])
      BY DEF StopArrived, Stops
    <3> QED BY <2>2, <2>3, <3>1, StreamStops
  <2>6. ArrivedBy(script, Len(script)) = Arrived
    BY DEF ArrivedBy, Arrived
  <2>7. CostsSoFar(message, Arrived, usage)
    BY <2>3, <2>6
  <2>8. /\ usage.output = Max({0} \cup ({message.first : x \in Arrived \cap {"start"}}
                             \cup {message.outputs[i] : i \in {j \in 1..2 : Deltas[j] \in Arrived}}))
        /\ usage.input + usage.read + usage.w5 + usage.w1 =
              IF "start" \in Arrived THEN message.input + message.read + message.flat ELSE 0
    BY <1>1, <2>7, CostsAre
  <2> QED BY <2>4, <2>5, <2>8 DEF Counts, Prompt
<1>4. ASSUME buf = <<"end">>, content = "json"
      PROVE  /\ usage.input + usage.read + usage.w5 + usage.w1 = Prompt
             /\ usage.output = Max({message.first, message.outputs[1], message.outputs[2]})
             /\ usage = UsageFromFrames(Whole)
  <2>1. usage = ObjectUsage(message)
    BY <1>4 DEF StreamInv
  <2>2. usage = UsageFromFrames(Whole)
    BY <1>1, <2>1, WholeIs
  <2> QED BY <1>1, <2>1, <2>2, ObjectCosts DEF Prompt
<1>5. ASSUME buf = <<"end">>, content = "other" PROVE usage = NoUsage
  BY <1>5 DEF StreamInv
<1>6. StreamIsReadRight
  <2>1. buf = <<"end">> /\ content = "json" =>
           /\ usage.input + usage.read + usage.w5 + usage.w1 = Prompt
           /\ usage.output = Max({message.first, message.outputs[1], message.outputs[2]})
           /\ usage = UsageFromFrames([i \in 1..3 |->
                  LET line == <<"start", "delta1", "delta2">>[i]
                  IN  [type |-> TypeOf[line], data |-> <<line>>]])
    BY <1>4 DEF Whole
  <2> QED BY <1>1, <1>3, <1>5, <2>1 DEF StreamIsReadRight
<1> QED BY <1>2, <1>6

\* Wherever the chunks fall, whatever the ending of the lines and wherever in
\* its last blank line a body stops: a stream is read event for event, is whole
\* if and only if its stop arrived, and costs its last running totals; one
\* object costs the same (sse.go, usage.go).
THEOREM StreamsAreReadRight == StreamSpec => [](StreamTypeOK /\ StreamIsReadRight)
<1>1. StreamInv /\ [StreamNext]_streamVars => StreamInv'
  BY StreamInvNext
<1>2. StreamInit => StreamInv
  BY StreamInvInit
<1>3. StreamInv => StreamTypeOK /\ StreamIsReadRight
  BY StreamInvRight
<1> QED BY <1>1, <1>2, <1>3, PTL DEF StreamSpec

=============================================================================
