------------------------------ MODULE TextProofs ------------------------------
(***************************************************************************)
(* Proofs about what the server makes of the text of a request: the fields  *)
(* of a form and the parameter of a query (Forms), and the route that       *)
(* serves a path (RouteTable).                                              *)
(***************************************************************************)
EXTENDS RouteTable, Forms, NaturalsInduction, WellFoundedInduction, TLAPS

(* A nonempty set of naturals has a least element.                           *)
LEMMA NatMin ==
  ASSUME NEW T \in SUBSET Nat, T # {}
  PROVE  \E x \in T : \A y \in T : x <= y
<1> DEFINE R == OpToRel(<, Nat)
<1>1. IsWellFoundedOn(R, Nat)
  BY NatLessThanWellFounded, Zenon
<1> HIDE DEF R
<1>2. PICK x \in T : \A y \in T : ~(<<y, x>> \in R)
  BY <1>1, WFMin, Zenon
<1>3. \A y \in T : ~(y < x)
  BY <1>2, Zenon DEF R, OpToRel
<1> QED
  BY <1>3

(* A property that holds of n whenever it holds of all greater positions up  *)
(* to N + 1 holds of every position.                                         *)
LEMMA Downward ==
  ASSUME NEW N \in Nat, NEW S,
         \A n \in 1..(N + 1) : (\A k \in (n + 1)..(N + 1) : k \in S) => n \in S
  PROVE  \A n \in 1..(N + 1) : n \in S
<1> SUFFICES ASSUME NEW m \in 1..(N + 1), m \notin S
             PROVE  FALSE
  BY Zenon
<1> DEFINE T == {d \in 0..N : (N + 1) - d \notin S}
<1>1. T \in SUBSET Nat /\ (N + 1) - m \in T
  OBVIOUS
<1>2. PICK d \in T : \A e \in T : d <= e
  <2> HIDE DEF T
  <2> QED BY <1>1, NatMin
<1>3. d \in 0..N /\ (N + 1) - d \notin S
  BY Zenon
<1>4. \A k \in ((N + 1) - d + 1)..(N + 1) : k \in S
  <2> SUFFICES ASSUME NEW k \in ((N + 1) - d + 1)..(N + 1), k \notin S
               PROVE  FALSE
    BY Zenon
  <2>1. (N + 1) - k \in 0..N /\ (N + 1) - ((N + 1) - k) = k
    BY <1>3
  <2>2. (N + 1) - k \in T
    BY <2>1, Zenon
  <2> QED
    BY <1>2, <1>3, <2>2
<1> QED
  BY <1>3, <1>4

(* A property of 0 that each number hands on to the next one holds of all.   *)
LEMMA Upward ==
  ASSUME NEW S, 0 \in S, \A n \in Nat : n \in S => n + 1 \in S
  PROVE  \A n \in Nat : n \in S
<1> SUFFICES ASSUME NEW m \in Nat, m \notin S
             PROVE  FALSE
  BY Zenon
<1> DEFINE T == {n \in Nat : n \notin S}
<1>1. T \in SUBSET Nat /\ m \in T
  BY Zenon
<1>2. PICK n \in T : \A k \in T : n <= k
  <2> HIDE DEF T
  <2> QED BY <1>1, NatMin
<1>3. n \in Nat /\ n \notin S /\ n # 0
  BY Zenon
<1>4. n - 1 \in Nat /\ n - 1 \notin S
  BY <1>3
<1> QED
  BY <1>2, <1>3, <1>4

-------------------------------------------------------------------------------
(* Loops.                                                                    *)

(* A loop that moves forward, and what it means to unfold it.                *)
Forward(V, parts, next) ==
  /\ parts \in Seq(Seq(V))
  /\ \A n \in 1..Len(parts) : next[n] \in (n + 1)..(Len(parts) + 1)

Unfolds(V, parts, next) ==
  /\ \A n \in 1..(Len(parts) + 1) : From(parts, next)[n] \in Seq(V)
  /\ \A n \in 1..Len(parts) : From(parts, next)[n] = parts[n] \o From(parts, next)[next[n]]
  /\ From(parts, next)[Len(parts) + 1] = <<>>

(* A loop that moves forward ends, and what it appends from a position on is *)
(* the part of that position and what it appends from the next one on. The   *)
(* function From is defined by recursion; that it exists is shown from the   *)
(* last position backwards.                                                  *)
LEMMA FromUnfolds ==
  \A V, parts, next : Forward(V, parts, next) => Unfolds(V, parts, next)
<1>FromExists.
      ASSUME NEW V, NEW parts, NEW next, Forward(V, parts, next)
      PROVE  \E f \in [1..(Len(parts) + 1) -> Seq(V)] : \A n \in 1..(Len(parts) + 1) :
               f[n] = IF n > Len(parts) THEN <<>> ELSE parts[n] \o f[next[n]]
  <2> USE <1>FromExists
  <2> DEFINE N == Len(parts)
             D == 1..(N + 1)
             Good(f, a) == \A n \in a..(N + 1) :
                             f[n] = IF n > N THEN <<>> ELSE parts[n] \o f[next[n]]
             S == {m \in Nat : m <= N => \E f \in [D -> Seq(V)] : Good(f, (N + 1) - m)}
  <2>1. N \in Nat /\ \A n \in 1..N : parts[n] \in Seq(V) /\ next[n] \in (n + 1)..(N + 1)
    BY DEF Forward
  <2> HIDE DEF N
  <2>2. 0 \in S
    <3> DEFINE f == [n \in D |-> <<>>]
    <3>1. f \in [D -> Seq(V)] /\ Good(f, (N + 1) - 0)
      BY <2>1
    <3> QED
      BY <3>1, Zenon
  <2>3. ASSUME NEW m \in Nat, m \in S
        PROVE  m + 1 \in S
    <3> SUFFICES ASSUME m + 1 <= N
                 PROVE  \E f \in [D -> Seq(V)] : Good(f, (N + 1) - (m + 1))
      OBVIOUS
    <3>0. m <= N
      BY <2>1
    <3>1. PICK f \in [D -> Seq(V)] : Good(f, (N + 1) - m)
      BY <2>3, <3>0, Zenon
    <3> DEFINE p == N - m
               v == parts[p] \o f[next[p]]
               g == [f EXCEPT ![p] = v]
    <3>2. p \in 1..N /\ p + 1 = (N + 1) - m /\ p = (N + 1) - (m + 1)
      BY <2>1
    <3>3. next[p] \in D /\ next[p] # p /\ v \in Seq(V)
      <4>1. next[p] \in (p + 1)..(N + 1) /\ parts[p] \in Seq(V)
        BY <2>1, <3>2, Zenon
      <4>2. next[p] \in D /\ next[p] # p
        BY <2>1, <3>2, <4>1
      <4>3. f[next[p]] \in Seq(V)
        BY <4>2, Zenon
      <4> QED
        BY <4>1, <4>2, <4>3
    <3> HIDE DEF p, v
    <3>4. g \in [D -> Seq(V)] /\ g[p] = v /\ \A n \in D : n # p => g[n] = f[n]
      BY <3>2, <3>3, <2>1
    <3> HIDE DEF g
    <3>5. ASSUME NEW n \in p..(N + 1)
          PROVE  g[n] = IF n > N THEN <<>> ELSE parts[n] \o g[next[n]]
      <4>1. CASE n = p
        <5>1. g[next[n]] = f[next[n]]
          BY <3>3, <3>4, <4>1, Zenon
        <5>2. ~(n > N)
          BY <2>1, <3>2, <4>1
        <5>3. g[n] = parts[n] \o g[next[n]]
          BY <3>4, <4>1, <5>1, Zenon DEF v
        <5> QED
          BY <5>2, <5>3, Zenon
      <4>2. CASE n # p
        <5>1. n \in D /\ n \in ((N + 1) - m)..(N + 1)
          BY <2>1, <3>2, <4>2
        <5>2. g[n] = f[n] /\ f[n] = IF n > N THEN <<>> ELSE parts[n] \o f[next[n]]
          BY <3>1, <3>4, <4>2, <5>1, Zenon
        <5>3. n <= N => next[n] \in D /\ next[n] # p
          <6> SUFFICES ASSUME n <= N PROVE next[n] \in D /\ next[n] # p
            BY Zenon
          <6>1. next[n] \in (n + 1)..(N + 1)
            BY <2>1, <5>1
          <6> QED
            BY <2>1, <3>2, <5>1, <6>1, <4>2
        <5>4. CASE n > N
          BY <5>2, <5>4, Zenon
        <5>5. CASE ~(n > N)
          <6>1. g[next[n]] = f[next[n]]
            BY <2>1, <3>4, <5>1, <5>3, <5>5
          <6> QED
            BY <5>2, <5>5, <6>1, Zenon
        <5> QED
          BY <5>4, <5>5, Zenon
      <4> QED
        BY <4>1, <4>2, Zenon
    <3>6. Good(g, (N + 1) - (m + 1))
      BY <3>2, <3>5, Zenon
    <3> QED
      BY <3>4, <3>6, Zenon
  <2>4. N \in S
    <3> HIDE DEF S
    <3> QED BY <2>1, <2>2, <2>3, Upward, Zenon
  <2>5. PICK f \in [D -> Seq(V)] : Good(f, (N + 1) - N)
    BY <2>1, <2>4
  <2>6. (N + 1) - N = 1
    BY <2>1
  <2> QED
    BY <2>5, <2>6, Zenon DEF N
<1>FromUnfolds.
      ASSUME NEW V, NEW parts, NEW next, Forward(V, parts, next)
      PROVE  Unfolds(V, parts, next)
  <2> USE <1>FromUnfolds
  <2> DEFINE N == Len(parts)
             D == 1..(N + 1)
             Is(f) == f = [n \in D |-> IF n > N THEN <<>> ELSE parts[n] \o f[next[n]]]
             F == From(parts, next)
  <2>1. PICK f \in [D -> Seq(V)] : \A n \in D : f[n] = IF n > N THEN <<>> ELSE parts[n] \o f[next[n]]
    BY <1>FromExists
  <2>2. Is(f)
    BY <2>1, Zenon
  <2>3. F = CHOOSE g : Is(g)
    BY Zenon DEF From
  <2>4. Is(F)
    <3> HIDE DEF Is, F
    <3> QED BY <2>2, <2>3, Zenon
  <2>5. \A n \in D : F[n] = IF n > N THEN <<>> ELSE parts[n] \o F[next[n]]
    BY <2>4, Zenon
  <2>6. N \in Nat /\ \A n \in 1..N : parts[n] \in Seq(V) /\ next[n] \in (n + 1)..(N + 1)
    BY DEF Forward
  <2> DEFINE S == {n \in D : F[n] \in Seq(V)}
  <2>7. ASSUME NEW n \in 1..(N + 1), \A k \in (n + 1)..(N + 1) : k \in S
        PROVE  n \in S
    <3> HIDE DEF F, N
    <3>1. CASE n > N
      <4>1. F[n] = <<>>
        BY <2>5, <3>1, Zenon
      <4>2. F[n] \in Seq(V)
        BY <4>1
      <4> QED
        BY <4>2, Zenon
    <3>2. CASE ~(n > N)
      <4>1. n \in 1..N /\ next[n] \in S
        BY <2>6, <2>7, <3>2
      <4>2. F[next[n]] \in Seq(V) /\ parts[n] \in Seq(V)
        BY <4>1, <2>6, Zenon
      <4>3. F[n] = parts[n] \o F[next[n]]
        BY <2>5, <3>2, Zenon
      <4>4. F[n] \in Seq(V)
        BY <4>2, <4>3
      <4> QED
        BY <4>4, Zenon
    <3> QED
      BY <3>1, <3>2, Zenon
  <2>8. \A n \in 1..(N + 1) : n \in S
    <3> HIDE DEF F, N, S
    <3> QED BY <2>6, <2>7, Downward, Zenon
  <2>9. \A n \in 1..N : n \in 1..(N + 1) /\ ~(n > N)
    BY <2>6
  <2>10. N + 1 \in 1..(N + 1) /\ N + 1 > N
    BY <2>6
  <2>11. \A n \in 1..N : F[n] = parts[n] \o F[next[n]]
    BY <2>5, <2>9, Zenon
  <2>12. F[N + 1] = <<>>
    BY <2>5, <2>10, Zenon
  <2>13. \A n \in 1..(N + 1) : F[n] \in Seq(V)
    BY <2>8, Zenon
  <2> QED
    BY <2>11, <2>12, <2>13, Zenon DEF Unfolds
<1> QED
  BY <1>FromUnfolds, Zenon

(* Positions after the first d behave as a loop of their own.                *)
Follows(d, parts, next, qarts, qext) ==
  \A n \in 1..(Len(parts) + 1) : From(qarts, qext)[d + n] = From(parts, next)[n]

SameFrom(d, parts, next, qarts, qext) ==
  /\ Len(qarts) = d + Len(parts)
  /\ \A n \in 1..Len(parts) : qarts[d + n] = parts[n] /\ qext[d + n] = d + next[n]

(* A loop whose positions after the first d are those of another one appends *)
(* there what the other one appends.                                         *)
LEMMA Shifted ==
  ASSUME NEW V, NEW d \in Nat,
         NEW parts, NEW next, Forward(V, parts, next),
         NEW qarts, NEW qext, Forward(V, qarts, qext),
         SameFrom(d, parts, next, qarts, qext)
  PROVE  Follows(d, parts, next, qarts, qext)
<1> DEFINE N == Len(parts)
           M == Len(qarts)
           F == From(parts, next)
           G == From(qarts, qext)
           S == {n \in 1..(N + 1) : G[d + n] = F[n]}
<1>1. /\ \A n \in 1..N : F[n] = parts[n] \o F[next[n]]
      /\ \A n \in 1..M : G[n] = qarts[n] \o G[qext[n]]
      /\ F[N + 1] = <<>> /\ G[M + 1] = <<>>
  <2>1. Unfolds(V, parts, next) /\ Unfolds(V, qarts, qext)
    BY FromUnfolds, Zenon
  <2> QED
    BY <2>1, Zenon DEF Unfolds
<1>2. N \in Nat /\ M = d + N /\ \A n \in 1..N : next[n] \in (n + 1)..(N + 1)
  BY DEF Forward, SameFrom
<1>3. \A n \in 1..N : qarts[d + n] = parts[n] /\ qext[d + n] = d + next[n]
  BY Zenon DEF SameFrom
<1> HIDE DEF N, M, F, G
<1>4. ASSUME NEW n \in 1..(N + 1), \A k \in (n + 1)..(N + 1) : k \in S
      PROVE  n \in S
  <2>2. CASE n = N + 1
    <3>1. d + n = M + 1
      BY <1>2, <2>2
    <3>2. G[d + n] = F[n]
      BY <1>1, <2>2, <3>1, Zenon
    <3> QED
      BY <3>2, Zenon
  <2>3. CASE n # N + 1
    <3>1. n \in 1..N /\ d + n \in 1..M /\ next[n] \in S
      BY <1>2, <1>4, <2>3
    <3>2. G[d + next[n]] = F[next[n]]
      BY <3>1, Zenon
    <3>3. F[n] = parts[n] \o F[next[n]] /\ G[d + n] = qarts[d + n] \o G[qext[d + n]]
      BY <1>1, <3>1, Zenon
    <3>4. G[d + n] = F[n]
      BY <3>1, <3>2, <3>3, <1>3, Zenon
    <3> QED
      BY <3>4, Zenon
  <2> QED
    BY <2>2, <2>3, Zenon
<1>5. \A n \in 1..(N + 1) : n \in S
  <2> HIDE DEF S
  <2> QED BY <1>2, <1>4, Downward, Zenon
<1> QED
  BY <1>5, Zenon DEF N, F, G, Follows

(* No parts give no text.                                                    *)
LEMMA JoinedEmpty == Joined(<<>>) = <<>>
<1> DEFINE next == [n \in DOMAIN <<>> |-> n + 1]
<1>1. Forward({}, <<>>, next)
  BY DEF Forward
<1> HIDE DEF next
<1>2. From(<<>>, next)[Len(<<>>) + 1] = <<>>
  BY <1>1, FromUnfolds, ZenonT(40) DEF Unfolds
<1>3. Len(<<>>) + 1 = 1
  OBVIOUS
<1> QED
  BY <1>2, <1>3, Zenon DEF Joined, Walk, next

(* The first part comes first.                                               *)
LEMMA JoinedFirst ==
  ASSUME NEW V, NEW x \in Seq(V), NEW parts \in Seq(Seq(V))
  PROVE  /\ Joined(parts) \in Seq(V)
         /\ Joined(<<x>> \o parts) = x \o Joined(parts)
<1> DEFINE N == Len(parts)
           next == [n \in DOMAIN parts |-> n + 1]
           qarts == <<x>> \o parts
           qext == [n \in DOMAIN qarts |-> n + 1]
<1>1. N \in Nat /\ DOMAIN parts = 1..N
  OBVIOUS
<1>2. qarts \in Seq(Seq(V)) /\ Len(qarts) = 1 + N /\ DOMAIN qarts = 1..(1 + N)
  OBVIOUS
<1>3. qarts[1] = x /\ \A n \in 1..N : qarts[1 + n] = parts[n]
  OBVIOUS
<1> HIDE DEF qarts, N
<1>4. /\ \A n \in 1..N : next[n] = n + 1
      /\ \A n \in 1..(1 + N) : qext[n] = n + 1
  BY <1>1, <1>2, Zenon
<1> HIDE DEF next, qext
<1>5. Forward(V, parts, next) /\ Forward(V, qarts, qext)
  <2>1. \A n \in 1..N : next[n] \in (n + 1)..(N + 1)
    BY <1>1, <1>4
  <2>2. \A n \in 1..(1 + N) : qext[n] \in (n + 1)..((1 + N) + 1)
    BY <1>1, <1>4
  <2> QED
    BY <1>2, <2>1, <2>2, Zenon DEF Forward, N
<1>6. SameFrom(1, parts, next, qarts, qext)
  <2>1. \A n \in 1..N : qext[1 + n] = 1 + next[n]
    BY <1>1, <1>4
  <2> QED
    BY <1>2, <1>3, <2>1, Zenon DEF SameFrom, N
<1>7. Follows(1, parts, next, qarts, qext) /\ Unfolds(V, qarts, qext) /\ Unfolds(V, parts, next)
  BY <1>5, <1>6, Shifted, FromUnfolds, Zenon
<1>8. From(qarts, qext)[2] = From(parts, next)[1]
  <2>1. 1 \in 1..(Len(parts) + 1) /\ 1 + 1 = 2
    BY <1>1 DEF N
  <2> QED
    BY <1>7, <2>1, Zenon DEF Follows
<1>9. From(qarts, qext)[1] = qarts[1] \o From(qarts, qext)[qext[1]]
  <2>1. 1 \in 1..Len(qarts)
    BY <1>1, <1>2
  <2> QED
    BY <1>7, <2>1, Zenon DEF Unfolds
<1>10. From(parts, next)[1] \in Seq(V)
  <2>1. 1 \in 1..(Len(parts) + 1)
    BY <1>1 DEF N
  <2> QED
    BY <1>7, <2>1, Zenon DEF Unfolds
<1>11. Joined(parts) = From(parts, next)[1] /\ Joined(qarts) = From(qarts, qext)[1]
  BY Zenon DEF Joined, Walk, next, qext
<1>12. qext[1] = 2
  BY <1>1, <1>4
<1>13. Joined(qarts) = x \o Joined(parts)
  BY <1>3, <1>8, <1>9, <1>11, <1>12, Zenon
<1> QED
  BY <1>10, <1>11, <1>13, Zenon DEF qarts

(* What holds of the empty text, and of a text when it holds of the text     *)
(* without its first character, holds of every text.                         *)
LEMMA TextInduction ==
  ASSUME NEW C, NEW S, <<>> \in S,
         \A c \in C, t \in Seq(C) : t \in S => <<c>> \o t \in S
  PROVE  \A t \in Seq(C) : t \in S
<1> DEFINE T == {n \in Nat : \A t \in Seq(C) : Len(t) = n => t \in S}
<1>1. 0 \in T
  <2> SUFFICES ASSUME NEW t \in Seq(C), Len(t) = 0 PROVE t \in S
    BY Zenon
  <2>1. t = <<>>
    OBVIOUS
  <2> QED
    BY <2>1, Zenon
<1>2. ASSUME NEW n \in Nat, n \in T PROVE n + 1 \in T
  <2> SUFFICES ASSUME NEW t \in Seq(C), Len(t) = n + 1 PROVE t \in S
    OBVIOUS
  <2> DEFINE u == [k \in 1..n |-> t[k + 1]]
  <2>1. t[1] \in C /\ u \in Seq(C) /\ Len(u) = n
    OBVIOUS
  <2>2. t = <<t[1]>> \o u
    OBVIOUS
  <2> HIDE DEF u
  <2>3. u \in S
    BY <1>2, <2>1, Zenon
  <2>4. <<t[1]>> \o u \in S
    BY <2>1, <2>3, Zenon
  <2> QED
    BY <2>2, <2>4, Zenon
<1>3. \A n \in Nat : n \in T
  <2> HIDE DEF T
  <2> QED BY <1>1, <1>2, Upward
<1> QED
  BY <1>3

(* What the concatenation of two texts is, position by position.             *)
Concatenates(V, a, b, s) ==
  /\ s \in Seq(V) /\ Len(s) = Len(a) + Len(b)
  /\ Len(a) \in Nat /\ Len(b) \in Nat
  /\ \A n \in 1..Len(a) : s[n] = a[n]
  /\ \A n \in 1..Len(b) : s[Len(a) + n] = b[n]

LEMMA Concat ==
  ASSUME NEW V, NEW a \in Seq(V), NEW b \in Seq(V)
  PROVE  Concatenates(V, a, b, a \o b)
BY DEF Concatenates

(* Concatenation is associative.                                             *)
Regroups(a, b, c) == (a \o b) \o c = a \o (b \o c)

LEMMA Associative ==
  ASSUME NEW V, NEW a \in Seq(V), NEW b \in Seq(V), NEW c \in Seq(V)
  PROVE  Regroups(a, b, c)
BY DEF Regroups

(* Texts with the same characters are equal.                                 *)
LEMMA SameText ==
  ASSUME NEW V, NEW a \in Seq(V), NEW b \in Seq(V), Len(a) = Len(b),
         \A k \in 1..Len(a) : a[k] = b[k]
  PROVE  a = b
OBVIOUS

-------------------------------------------------------------------------------
(* percent_decode.                                                           *)

DecodeParts(s) ==
  [pos \in DOMAIN s |-> <<IF Escaped(s, pos) THEN HexValue(s[pos + 1]) * 16 + HexValue(s[pos + 2]) ELSE s[pos]>>]

DecodeNext(s) == [pos \in DOMAIN s |-> IF Escaped(s, pos) THEN pos + 3 ELSE pos + 1]

(* The loop of percent_decode moves forward, by one byte or by three.        *)
LEMMA DecodeForward ==
  \A s \in Seq(Int) : Forward(Int, DecodeParts(s), DecodeNext(s)) /\ Len(DecodeParts(s)) = Len(s)
<1>HexRange.
      \A b \in Int : HexValue(b) \in -1..15
  BY DEF HexValue
<1>DecodeForward.
      ASSUME NEW s \in Seq(Int)
      PROVE  Forward(Int, DecodeParts(s), DecodeNext(s)) /\ Len(DecodeParts(s)) = Len(s)
  <2> DEFINE N == Len(s)
  <2>1. N \in Nat /\ DOMAIN s = 1..N /\ \A pos \in 1..N : s[pos] \in Int
    OBVIOUS
  <2>2. \A pos \in 1..N : Escaped(s, pos) => HexValue(s[pos + 1]) \in Int /\ HexValue(s[pos + 2]) \in Int /\ pos + 2 <= N
    BY <2>1, <1>HexRange, SMTT(40) DEF Escaped
  <2>3. \A pos \in 1..N : DecodeParts(s)[pos] \in Seq(Int)
    BY <2>1, <2>2 DEF DecodeParts
  <2>4. DecodeParts(s) \in Seq(Seq(Int)) /\ Len(DecodeParts(s)) = N
    <3>1. DecodeParts(s) = [pos \in 1..N |-> DecodeParts(s)[pos]]
      BY <2>1, Zenon DEF DecodeParts
    <3> QED
      BY <2>1, <2>3, <3>1
  <2>5. \A pos \in 1..N : DecodeNext(s)[pos] \in (pos + 1)..(N + 1)
    BY <2>1, <2>2 DEF DecodeNext
  <2> QED
    BY <2>4, <2>5, Zenon DEF Forward
<1> QED
  BY <1>DecodeForward, Zenon

(* from_utf8_lossy.                                                          *)
Utf8Parts(s) ==
  [pos \in DOMAIN s |->
     <<IF s[pos] < 128 THEN s[pos]
       ELSE IF TwoBytes(s, pos) THEN (s[pos] - 192) * 64 + s[pos + 1] - 128
       ELSE Replacement>>]

Utf8Next(s) == [pos \in DOMAIN s |-> IF TwoBytes(s, pos) THEN pos + 2 ELSE pos + 1]

(* So does from_utf8_lossy, by one byte or by two.                           *)
LEMMA Utf8Forward ==
  ASSUME NEW s \in Seq(Int)
  PROVE  Forward(Int, Utf8Parts(s), Utf8Next(s)) /\ Len(Utf8Parts(s)) = Len(s)
<1> DEFINE N == Len(s)
<1>1. N \in Nat /\ DOMAIN s = 1..N /\ \A pos \in 1..N : s[pos] \in Int
  OBVIOUS
<1>2. \A pos \in 1..N : TwoBytes(s, pos) => s[pos + 1] \in Int /\ pos < N
  BY <1>1 DEF TwoBytes
<1>3. \A pos \in 1..N : Utf8Parts(s)[pos] \in Seq(Int)
  BY <1>1, <1>2 DEF Utf8Parts, Replacement
<1>4. Utf8Parts(s) \in Seq(Seq(Int)) /\ Len(Utf8Parts(s)) = N
  <2>1. Utf8Parts(s) = [pos \in 1..N |-> Utf8Parts(s)[pos]]
    BY <1>1, Zenon DEF Utf8Parts
  <2> QED
    BY <1>1, <1>3, <2>1
<1>5. \A pos \in 1..N : Utf8Next(s)[pos] \in (pos + 1)..(N + 1)
  BY <1>1, <1>2 DEF Utf8Next
<1> QED
  BY <1>4, <1>5, Zenon DEF Forward

(* The bytes of a character.                                                 *)
Bytes(c) == IF c < 128 THEN <<c>> ELSE <<192 + (c \div 64), 128 + (c % 64)>>

(* from_utf8_lossy reads the bytes of a character as that character,         *)
(* whatever follows them.                                                    *)
LEMMA Utf8First ==
  \A c \in CodePoint, s \in Seq(Int) :
    Bytes(c) \in Seq(Int) /\ Utf8(Bytes(c) \o s) = <<c>> \o Utf8(s)
<1>Utf8Suffix.
      ASSUME NEW a \in Seq(Int), NEW b \in Seq(Int)
      PROVE  From(Utf8Parts(a \o b), Utf8Next(a \o b))[Len(a) + 1] = Utf8(b)
  <2> DEFINE s == a \o b
             d == Len(a)
             N == Len(b)
  <2>1. s \in Seq(Int) /\ d \in Nat /\ N \in Nat /\ Len(s) = d + N
    OBVIOUS
  <2>2. \A n \in 1..N : s[d + n] = b[n]
    OBVIOUS
  <2>3. DOMAIN s = 1..(d + N) /\ DOMAIN b = 1..N
    BY <2>1
  <2> HIDE DEF s, d, N
  <2>4. ASSUME NEW n \in 1..N
        PROVE  /\ Utf8Parts(s)[d + n] = Utf8Parts(b)[n]
               /\ Utf8Next(s)[d + n] = d + Utf8Next(b)[n]
    <3>1. s[d + n] = b[n] /\ d + n \in DOMAIN s /\ n \in DOMAIN b
      BY <2>1, <2>2, <2>3, SMTT(40)
    <3>2. n < N <=> d + n < Len(s)
      BY <2>1
    <3>3. n < N => s[(d + n) + 1] = b[n + 1]
      <4> SUFFICES ASSUME n < N PROVE s[(d + n) + 1] = b[n + 1]
        BY Zenon
      <4>1. n + 1 \in 1..N /\ d + (n + 1) = (d + n) + 1
        BY <2>1
      <4> QED
        BY <4>1, <2>2
    <3>4. TwoBytes(s, d + n) <=> TwoBytes(b, n)
      <4>1. CASE n < N
        <5>1. /\ d + n < Len(s) /\ n < Len(b)
              /\ s[d + n] = b[n] /\ s[(d + n) + 1] = b[n + 1]
          BY <3>1, <3>2, <3>3, <4>1, Zenon DEF N
        <5> QED
          BY <5>1 DEF TwoBytes
      <4>2. CASE ~(n < N)
        BY <3>2, <4>2, Zenon DEF TwoBytes, N
      <4> QED
        BY <4>1, <4>2, Zenon
    <3>5. TwoBytes(b, n) => s[(d + n) + 1] = b[n + 1]
      BY <3>3, Zenon DEF TwoBytes, N
    <3>6. Utf8Parts(s)[d + n] = Utf8Parts(b)[n]
      BY <3>1, <3>4, <3>5, ZenonT(40) DEF Utf8Parts
    <3>7. Utf8Next(s)[d + n] = IF TwoBytes(b, n) THEN (d + n) + 2 ELSE (d + n) + 1
      BY <3>1, <3>4, Zenon DEF Utf8Next
    <3>8. Utf8Next(b)[n] = IF TwoBytes(b, n) THEN n + 2 ELSE n + 1
      BY <3>1, Zenon DEF Utf8Next
    <3>9. Utf8Next(s)[d + n] = d + Utf8Next(b)[n]
      BY <3>7, <3>8, <2>1
    <3> QED
      BY <3>6, <3>9, Zenon
  <2>5. /\ Forward(Int, Utf8Parts(s), Utf8Next(s)) /\ Len(Utf8Parts(s)) = d + N
        /\ Forward(Int, Utf8Parts(b), Utf8Next(b)) /\ Len(Utf8Parts(b)) = N
    BY <2>1, Utf8Forward, Zenon DEF N
  <2>6. SameFrom(d, Utf8Parts(b), Utf8Next(b), Utf8Parts(s), Utf8Next(s))
    BY <2>4, <2>5, Zenon DEF SameFrom
  <2>7. Follows(d, Utf8Parts(b), Utf8Next(b), Utf8Parts(s), Utf8Next(s))
    BY <2>1, <2>5, <2>6, Shifted, Zenon
  <2>8. 1 \in 1..(Len(Utf8Parts(b)) + 1)
    BY <2>1, <2>5
  <2>9. Utf8(b) = From(Utf8Parts(b), Utf8Next(b))[1]
    BY Zenon DEF Utf8, Walk, Utf8Parts, Utf8Next
  <2> QED
    BY <2>7, <2>8, <2>9, Zenon DEF Follows, s, d
<1>Utf8Step.
      ASSUME NEW s \in Seq(Int), s # <<>>
      PROVE  Utf8(s) = Utf8Parts(s)[1] \o From(Utf8Parts(s), Utf8Next(s))[Utf8Next(s)[1]]
  <2> USE <1>Utf8Step
  <2>1. Unfolds(Int, Utf8Parts(s), Utf8Next(s)) /\ Len(Utf8Parts(s)) = Len(s)
    BY Utf8Forward, FromUnfolds, Zenon
  <2>2. 1 \in 1..Len(s)
    OBVIOUS
  <2>3. Utf8(s) = From(Utf8Parts(s), Utf8Next(s))[1]
    BY Zenon DEF Utf8, Walk, Utf8Parts, Utf8Next
  <2> QED
    BY <2>1, <2>2, <2>3, Zenon DEF Unfolds
<1>Utf8First.
      ASSUME NEW c \in CodePoint, NEW s \in Seq(Int)
      PROVE  Bytes(c) \in Seq(Int) /\ Utf8(Bytes(c) \o s) = <<c>> \o Utf8(s)
  <2> DEFINE e == Bytes(c)
             t == e \o s
  <2>1. c \in 0..2047
    BY DEF CodePoint
  <2>2. CASE c < 128
    <3>1. e = <<c>>
      BY <2>2, Zenon DEF Bytes
    <3> HIDE DEF e
    <3>2. /\ e \in Seq(Int) /\ t \in Seq(Int) /\ t # <<>> /\ t[1] = c /\ 1 \in DOMAIN t
          /\ Len(e) + 1 = 1 + 1
      BY <2>1, <3>1
    <3>3. From(Utf8Parts(t), Utf8Next(t))[Len(e) + 1] = Utf8(s)
      BY <3>2, <1>Utf8Suffix, Zenon
    <3> HIDE DEF t
    <3>4. ~ TwoBytes(t, 1) /\ t[1] < 128
      BY <2>1, <2>2, <3>2, SMTT(40) DEF TwoBytes
    <3>5. Utf8Parts(t)[1] = <<c>> /\ Utf8Next(t)[1] = 1 + 1
      BY <3>2, <3>4, Zenon DEF Utf8Parts, Utf8Next
    <3>6. Utf8(t) = Utf8Parts(t)[1] \o From(Utf8Parts(t), Utf8Next(t))[Utf8Next(t)[1]]
      BY <3>2, <1>Utf8Step, Zenon
    <3> QED
      BY <3>2, <3>3, <3>5, <3>6, Zenon DEF t, e
  <2>3. CASE ~(c < 128)
    <3> DEFINE h == 192 + (c \div 64)
               l == 128 + (c % 64)
    <3>1. e = <<h, l>>
      BY <2>3, Zenon DEF Bytes
    <3>2. h \in 194..223 /\ l \in 128..191 /\ (h - 192) * 64 + l - 128 = c
      BY <2>1, <2>3
    <3> HIDE DEF e, h, l
    <3>3. /\ e \in Seq(Int) /\ Len(e) + 1 = 1 + 2
          /\ t \in Seq(Int) /\ t # <<>> /\ t[1] = h /\ t[1 + 1] = l /\ 1 \in DOMAIN t /\ 1 < Len(t)
      BY <3>1, <3>2
    <3>4. From(Utf8Parts(t), Utf8Next(t))[Len(e) + 1] = Utf8(s)
      BY <3>3, <1>Utf8Suffix, Zenon
    <3> HIDE DEF t
    <3>5. TwoBytes(t, 1) /\ ~(t[1] < 128)
      BY <3>2, <3>3 DEF TwoBytes
    <3>6. Utf8Parts(t)[1] = <<(h - 192) * 64 + l - 128>> /\ Utf8Next(t)[1] = 1 + 2
      BY <3>3, <3>5, Zenon DEF Utf8Parts, Utf8Next
    <3>7. Utf8(t) = Utf8Parts(t)[1] \o From(Utf8Parts(t), Utf8Next(t))[Utf8Next(t)[1]]
      BY <3>3, <1>Utf8Step, Zenon
    <3>8. Utf8Parts(t)[1] = <<c>>
      BY <3>2, <3>6, Zenon
    <3> QED
      BY <3>3, <3>4, <3>6, <3>7, <3>8, ZenonT(40) DEF t, e
  <2> QED
    BY <2>2, <2>3, Zenon
<1> QED
  BY <1>Utf8First, Zenon

-------------------------------------------------------------------------------
(* Text typed into a form, as a browser encodes it.                          *)

LEMMA SpacedShape ==
  ASSUME NEW a \in Seq(Int)
  PROVE  /\ Spaced(a) \in Seq(Int) /\ Len(Spaced(a)) = Len(a)
         /\ \A k \in 1..Len(a) : Spaced(a)[k] = IF a[k] = Plus THEN Space ELSE a[k]
<1>1. Len(a) \in Nat /\ DOMAIN a = 1..Len(a) /\ \A k \in 1..Len(a) : a[k] \in Int
  OBVIOUS
<1>2. \A k \in 1..Len(a) : Spaced(a)[k] = IF a[k] = Plus THEN Space ELSE a[k]
  BY <1>1, Zenon DEF Spaced
<1>3. \A k \in 1..Len(a) : Spaced(a)[k] \in Int
  BY <1>1, <1>2 DEF Space
<1>4. Spaced(a) = [k \in 1..Len(a) |-> Spaced(a)[k]]
  BY <1>1, Zenon DEF Spaced
<1>5. Spaced(a) \in Seq(Int) /\ Len(Spaced(a)) = Len(a)
  BY <1>1, <1>3, <1>4
<1> QED
  BY <1>2, <1>5, Zenon

(* The plus signs of two texts are replaced one by one.                      *)
LEMMA SpacedConcat ==
  ASSUME NEW a \in Seq(Int), NEW b \in Seq(Int)
  PROVE  Spaced(a \o b) = Spaced(a) \o Spaced(b)
<1> DEFINE s == a \o b
           l == Spaced(s)
           x == Spaced(a)
           y == Spaced(b)
           r == x \o y
<1>1. /\ s \in Seq(Int) /\ Len(s) = Len(a) + Len(b) /\ Len(a) \in Nat /\ Len(b) \in Nat
      /\ \A n \in 1..Len(a) : s[n] = a[n]
      /\ \A n \in 1..Len(b) : s[Len(a) + n] = b[n]
  OBVIOUS
<1> HIDE DEF s
<1>2. /\ l \in Seq(Int) /\ Len(l) = Len(s)
      /\ \A k \in 1..Len(s) : l[k] = IF s[k] = Plus THEN Space ELSE s[k]
  BY <1>1, SpacedShape, Zenon
<1>3. /\ x \in Seq(Int) /\ Len(x) = Len(a)
      /\ \A k \in 1..Len(a) : x[k] = IF a[k] = Plus THEN Space ELSE a[k]
  BY SpacedShape, Zenon
<1>4. /\ y \in Seq(Int) /\ Len(y) = Len(b)
      /\ \A k \in 1..Len(b) : y[k] = IF b[k] = Plus THEN Space ELSE b[k]
  BY SpacedShape, Zenon
<1> HIDE DEF l, x, y
<1>5. /\ r \in Seq(Int) /\ Len(r) = Len(a) + Len(b)
      /\ \A n \in 1..Len(a) : r[n] = x[n]
      /\ \A n \in 1..Len(b) : r[Len(a) + n] = y[n]
  <2>1. Concatenates(Int, x, y, r)
    BY <1>3, <1>4, Concat, Zenon
  <2> QED
    BY <1>3, <1>4, <2>1, Zenon DEF Concatenates
<1> HIDE DEF r
<1>6. ASSUME NEW k \in 1..Len(l) PROVE l[k] = r[k]
  <2>1. CASE k <= Len(a)
    <3>1. k \in 1..Len(a) /\ k \in 1..Len(s)
      BY <1>1, <1>2, <2>1
    <3> QED
      BY <1>1, <1>2, <1>3, <1>5, <3>1, Zenon
  <2>2. CASE ~(k <= Len(a))
    <3> DEFINE n == k - Len(a)
    <3>1. n \in 1..Len(b) /\ k = Len(a) + n /\ k \in 1..Len(s)
      BY <1>1, <1>2, <2>2
    <3> HIDE DEF n
    <3> QED
      BY <1>1, <1>2, <1>4, <1>5, <3>1, ZenonT(40)
  <2> QED
    BY <2>1, <2>2, Zenon
<1>7. l = r
  BY <1>1, <1>2, <1>5, <1>6, SameText
<1> QED
  BY <1>7, Zenon DEF l, r, s, x, y

(* What a browser sends as it is, and the characters of encoded text.        *)
Alnum == 48..57 \cup 65..90 \cup 97..122

Unreserved == Alnum \cup {Plus, Percent}

(* percent_decode turns an encoded character into its bytes, whatever        *)
(* follows it: an escape of it never runs into the next one, and the         *)
(* encoding has neither an ampersand nor an equals sign in it.               *)
LEMMA CharDecodes ==
  /\ \A c \in CodePoint, s \in Seq(Int) :
       DecodeBytes(Spaced(EncodeChar(c)) \o s) = Bytes(c) \o DecodeBytes(s)
  /\ \A c \in CodePoint : EncodeChar(c) \in Seq(Unreserved)
  /\ \A c \in Alnum : EncodeChar(c) = <<c>>
<1>Pairing.
      ASSUME NEW x \in Int, NEW y \in Int, NEW s \in Seq(Int)
      PROVE  <<x>> \o (<<y>> \o s) = <<x, y>> \o s
  <2> DEFINE p == <<x>> \o <<y>>
             q == <<x, y>>
  <2>1. p \in Seq(Int) /\ q \in Seq(Int) /\ Len(p) = 2 /\ Len(q) = 2
    OBVIOUS
  <2>2. p[1] = x /\ p[2] = y
    OBVIOUS
  <2>3. q[1] = x /\ q[2] = y
    BY Zenon
  <2>4. \A k \in 1..Len(p) : p[k] = q[k]
    BY <2>1, <2>2, <2>3
  <2>5. p = q
    BY <2>1, <2>4, SameText, Zenon
  <2>6. <<x>> \in Seq(Int) /\ <<y>> \in Seq(Int)
    OBVIOUS
  <2>7. Regroups(<<x>>, <<y>>, s)
    BY <2>6, Associative, Zenon
  <2> QED
    BY <2>5, <2>7, Zenon DEF Regroups
<1>DecodeSuffix.
      ASSUME NEW a \in Seq(Int), NEW b \in Seq(Int)
      PROVE  From(DecodeParts(a \o b), DecodeNext(a \o b))[Len(a) + 1] = DecodeBytes(b)
  <2> DEFINE s == a \o b
             d == Len(a)
             N == Len(b)
  <2>1. s \in Seq(Int) /\ d \in Nat /\ N \in Nat /\ Len(s) = d + N
    OBVIOUS
  <2>2. \A n \in 1..N : s[d + n] = b[n]
    OBVIOUS
  <2>3. DOMAIN s = 1..(d + N) /\ DOMAIN b = 1..N
    BY <2>1
  <2> HIDE DEF s, d, N
  <2>4. ASSUME NEW n \in 1..N
        PROVE  /\ Escaped(s, d + n) <=> Escaped(b, n)
               /\ DecodeParts(s)[d + n] = DecodeParts(b)[n]
               /\ DecodeNext(s)[d + n] = d + DecodeNext(b)[n]
    <3>1. s[d + n] = b[n] /\ d + n \in DOMAIN s /\ n \in DOMAIN b
      BY <2>1, <2>2, <2>3
    <3>2. n + 2 <= N <=> (d + n) + 2 <= Len(s)
      BY <2>1
    <3>3. n + 2 <= N => s[(d + n) + 1] = b[n + 1] /\ s[(d + n) + 2] = b[n + 2]
      <4> SUFFICES ASSUME n + 2 <= N PROVE s[(d + n) + 1] = b[n + 1] /\ s[(d + n) + 2] = b[n + 2]
        BY Zenon
      <4>1. n + 1 \in 1..N /\ n + 2 \in 1..N /\ d + (n + 1) = (d + n) + 1 /\ d + (n + 2) = (d + n) + 2
        BY <2>1
      <4> QED
        BY <4>1, <2>2
    <3>4. Escaped(s, d + n) <=> Escaped(b, n)
      BY <3>1, <3>2, <3>3, SMTT(40) DEF Escaped, N
    <3>5. Escaped(b, n) => s[(d + n) + 1] = b[n + 1] /\ s[(d + n) + 2] = b[n + 2]
      BY <3>3, Zenon DEF Escaped, N
    <3>6. DecodeParts(s)[d + n] = DecodeParts(b)[n]
      BY <3>1, <3>4, <3>5, Zenon DEF DecodeParts
    <3>7. DecodeNext(s)[d + n] = IF Escaped(b, n) THEN (d + n) + 3 ELSE (d + n) + 1
      BY <3>1, <3>4, Zenon DEF DecodeNext
    <3>8. DecodeNext(b)[n] = IF Escaped(b, n) THEN n + 3 ELSE n + 1
      BY <3>1, Zenon DEF DecodeNext
    <3>9. DecodeNext(s)[d + n] = d + DecodeNext(b)[n]
      BY <3>7, <3>8, <2>1
    <3> QED
      BY <3>4, <3>6, <3>9, Zenon
  <2>5. /\ Forward(Int, DecodeParts(s), DecodeNext(s)) /\ Len(DecodeParts(s)) = d + N
        /\ Forward(Int, DecodeParts(b), DecodeNext(b)) /\ Len(DecodeParts(b)) = N
    BY <2>1, DecodeForward, Zenon DEF N
  <2>6. SameFrom(d, DecodeParts(b), DecodeNext(b), DecodeParts(s), DecodeNext(s))
    BY <2>4, <2>5, Zenon DEF SameFrom
  <2>7. Follows(d, DecodeParts(b), DecodeNext(b), DecodeParts(s), DecodeNext(s))
    BY <2>1, <2>5, <2>6, Shifted, Zenon
  <2>8. 1 \in 1..(Len(DecodeParts(b)) + 1)
    BY <2>1, <2>5
  <2>9. DecodeBytes(b) = From(DecodeParts(b), DecodeNext(b))[1]
    BY Zenon DEF DecodeBytes, Walk, DecodeParts, DecodeNext
  <2> QED
    BY <2>7, <2>8, <2>9, Zenon DEF Follows, s, d
<1>DecodeStep.
      ASSUME NEW s \in Seq(Int), s # <<>>
      PROVE  DecodeBytes(s) = DecodeParts(s)[1] \o From(DecodeParts(s), DecodeNext(s))[DecodeNext(s)[1]]
  <2> USE <1>DecodeStep
  <2>1. Unfolds(Int, DecodeParts(s), DecodeNext(s)) /\ Len(DecodeParts(s)) = Len(s)
    BY DecodeForward, FromUnfolds, Zenon
  <2>2. 1 \in 1..Len(s)
    OBVIOUS
  <2>3. DecodeBytes(s) = From(DecodeParts(s), DecodeNext(s))[1]
    BY Zenon DEF DecodeBytes, Walk, DecodeParts, DecodeNext
  <2> QED
    BY <2>1, <2>2, <2>3, Zenon DEF Unfolds
<1>DecodeType.
      ASSUME NEW s \in Seq(Int)
      PROVE  DecodeBytes(s) \in Seq(Int)
  <2>1. Unfolds(Int, DecodeParts(s), DecodeNext(s)) /\ Len(DecodeParts(s)) = Len(s)
    BY DecodeForward, FromUnfolds, Zenon
  <2>2. 1 \in 1..(Len(s) + 1)
    OBVIOUS
  <2>3. DecodeBytes(s) = From(DecodeParts(s), DecodeNext(s))[1]
    BY Zenon DEF DecodeBytes, Walk, DecodeParts, DecodeNext
  <2> QED
    BY <2>1, <2>2, <2>3, Zenon DEF Unfolds
<1>DecodePlain.
      ASSUME NEW c \in Int, c # Percent, NEW s \in Seq(Int)
      PROVE  DecodeBytes(<<c>> \o s) = <<c>> \o DecodeBytes(s)
  <2> USE <1>DecodePlain
  <2> DEFINE t == <<c>> \o s
  <2>1. t \in Seq(Int) /\ t # <<>> /\ t[1] = c /\ 1 \in DOMAIN t /\ Len(<<c>>) + 1 = 2 /\ <<c>> \in Seq(Int)
    OBVIOUS
  <2>2. From(DecodeParts(t), DecodeNext(t))[Len(<<c>>) + 1] = DecodeBytes(s)
    BY <2>1, <1>DecodeSuffix, Zenon
  <2> HIDE DEF t
  <2>3. ~ Escaped(t, 1)
    BY <2>1, Zenon DEF Escaped
  <2>4. DecodeParts(t)[1] = <<c>> /\ DecodeNext(t)[1] = 1 + 1
    BY <2>1, <2>3, Zenon DEF DecodeParts, DecodeNext
  <2>5. DecodeBytes(t) = DecodeParts(t)[1] \o From(DecodeParts(t), DecodeNext(t))[DecodeNext(t)[1]]
    BY <2>1, <1>DecodeStep, Zenon
  <2>6. Len(<<c>>) + 1 = 1 + 1
    BY Zenon
  <2> QED
    BY <2>2, <2>4, <2>5, <2>6, Zenon DEF t
<1>HexDigits.
      \A n \in 0..15 : HexDigit(n) \in 48..57 \cup 65..70 /\ HexValue(HexDigit(n)) = n
  BY DEF HexDigit, HexValue
<1>EscapeShape.
      ASSUME NEW b \in 0..255
      PROVE  /\ b \div 16 \in 0..15 /\ b % 16 \in 0..15 /\ (b \div 16) * 16 + (b % 16) = b
             /\ Escape(b) \in Seq(Int) /\ Len(Escape(b)) = 3
             /\ Escape(b)[1] = Percent /\ Escape(b)[2] = HexDigit(b \div 16)
             /\ Escape(b)[3] = HexDigit(b % 16)
  <2>1. b \div 16 \in 0..15 /\ b % 16 \in 0..15 /\ (b \div 16) * 16 + (b % 16) = b
    OBVIOUS
  <2>2. HexDigit(b \div 16) \in Int /\ HexDigit(b % 16) \in Int
    BY <2>1, <1>HexDigits
  <2>3. Escape(b) = <<Percent, HexDigit(b \div 16), HexDigit(b % 16)>> /\ Percent \in Int
    BY DEF Escape, Percent
  <2> QED
    BY <2>1, <2>2, <2>3
<1>DecodeEscape.
      ASSUME NEW b \in 0..255, NEW s \in Seq(Int)
      PROVE  DecodeBytes(Escape(b) \o s) = <<b>> \o DecodeBytes(s)
  <2> DEFINE e == Escape(b)
             t == e \o s
  <2>1. /\ b \div 16 \in 0..15 /\ b % 16 \in 0..15 /\ (b \div 16) * 16 + (b % 16) = b
        /\ e \in Seq(Int) /\ Len(e) = 3
        /\ e[1] = Percent /\ e[2] = HexDigit(b \div 16) /\ e[3] = HexDigit(b % 16)
    BY <1>EscapeShape, Zenon
  <2> HIDE DEF e
  <2>2. t \in Seq(Int) /\ t # <<>> /\ t[1] = e[1] /\ t[2] = e[2] /\ t[3] = e[3] /\ 1 \in DOMAIN t /\ Len(t) >= 3
    <3> DEFINE x == HexDigit(b \div 16)
               y == HexDigit(b % 16)
    <3>1. e = <<Percent, x, y>>
      BY Zenon DEF e, Escape
    <3>2. Percent \in Int /\ x \in Int /\ y \in Int
      <4>1. x \in 48..57 \cup 65..70 /\ y \in 48..57 \cup 65..70
        BY <2>1, <1>HexDigits, Zenon
      <4> HIDE DEF x, y
      <4> QED
        BY <4>1 DEF Percent
    <3> HIDE DEF x, y
    <3> QED
      BY <3>1, <3>2
  <2>3. From(DecodeParts(t), DecodeNext(t))[Len(e) + 1] = DecodeBytes(s)
    BY <2>1, <1>DecodeSuffix, Zenon
  <2> HIDE DEF t
  <2>4. HexValue(t[2]) = b \div 16 /\ HexValue(t[3]) = b % 16
    BY <2>1, <2>2, <1>HexDigits, Zenon
  <2>5. Escaped(t, 1)
    <3>1. 1 + 1 = 2 /\ 1 + 2 = 3 /\ t[1] = Percent /\ 3 <= Len(t)
      BY <2>1, <2>2
    <3>2. HexValue(t[2]) >= 0 /\ HexValue(t[3]) >= 0
      BY <2>1, <2>4
    <3> QED
      BY <3>1, <3>2, Zenon DEF Escaped
  <2>6. DecodeParts(t)[1] = <<b>> /\ DecodeNext(t)[1] = 4
    <3>1. 1 + 1 = 2 /\ 1 + 2 = 3 /\ 1 + 3 = 4
      OBVIOUS
    <3>2. DecodeParts(t)[1] = <<HexValue(t[2]) * 16 + HexValue(t[3])>> /\ DecodeNext(t)[1] = 4
      BY <2>2, <2>5, <3>1, Zenon DEF DecodeParts, DecodeNext
    <3> QED
      BY <2>1, <2>4, <3>2, Zenon
  <2>7. DecodeBytes(t) = DecodeParts(t)[1] \o From(DecodeParts(t), DecodeNext(t))[DecodeNext(t)[1]]
    BY <2>2, <1>DecodeStep, Zenon
  <2>8. Len(e) + 1 = 4
    BY <2>1
  <2> QED
    BY <2>3, <2>6, <2>7, <2>8, ZenonT(40) DEF t, e
<1>ByteRange.
      \A c \in CodePoint : 192 + (c \div 64) \in 0..255 /\ 128 + (c % 64) \in 0..255
  BY SMTT(40) DEF CodePoint
<1>AlnumCode.
      \A c \in Alnum : EncodeChar(c) = <<c>>
  <2> SUFFICES ASSUME NEW c \in Alnum PROVE EncodeChar(c) = <<c>>
    BY Zenon
  <2>1. c \in Int /\ c # Space /\ ~(c > 127) /\ c \in 48..57 \cup 65..90 \cup 97..122
    BY DEF Alnum, Space
  <2> QED
    BY <2>1, Zenon DEF EncodeChar
<1>EncodeCharType.
      \A c \in CodePoint : EncodeChar(c) \in Seq(Unreserved)
  <2> SUFFICES ASSUME NEW c \in CodePoint PROVE EncodeChar(c) \in Seq(Unreserved)
    BY Zenon
  <2>1. \A b \in 0..255 : Escape(b) \in Seq(Unreserved)
    <3> SUFFICES ASSUME NEW b \in 0..255 PROVE Escape(b) \in Seq(Unreserved)
      BY Zenon
    <3>1. b \div 16 \in 0..15 /\ b % 16 \in 0..15
      OBVIOUS
    <3>2. HexDigit(b \div 16) \in Unreserved /\ HexDigit(b % 16) \in Unreserved /\ Percent \in Unreserved
      BY <3>1, <1>HexDigits, SMTT(40) DEF Unreserved, Alnum
    <3> QED
      BY <3>2 DEF Escape
  <2>2. c \in 0..2047
    BY DEF CodePoint
  <2>3. CASE c \in Alnum
    <3>1. EncodeChar(c) = <<c>>
      BY <2>3, <1>AlnumCode, Zenon
    <3> QED
      BY <2>3, <3>1 DEF Unreserved
  <2>4. CASE c = Space
    BY <2>4 DEF EncodeChar, Unreserved, Space
  <2>5. CASE c > 127
    <3>1. 192 + (c \div 64) \in 0..255 /\ 128 + (c % 64) \in 0..255
      BY <2>2, SMTT(40)
    <3>2. EncodeChar(c) = Escape(192 + (c \div 64)) \o Escape(128 + (c % 64))
      BY <2>2, <2>5 DEF EncodeChar, Space
    <3>3. Escape(192 + (c \div 64)) \in Seq(Unreserved) /\ Escape(128 + (c % 64)) \in Seq(Unreserved)
      BY <2>1, <3>1, Zenon
    <3> QED
      BY <3>2, <3>3
  <2>6. CASE c \notin Alnum /\ c # Space /\ ~(c > 127)
    <3>1. EncodeChar(c) = Escape(c)
      BY <2>6, Zenon DEF EncodeChar, Alnum
    <3>2. c \in 0..255
      BY <2>2, <2>6, SMTT(40)
    <3> QED
      BY <2>1, <3>1, <3>2, Zenon
  <2> QED
    BY <2>3, <2>4, <2>5, <2>6, Zenon
<1>EscapeSpaced.
      \A b \in 0..255 : Spaced(Escape(b)) = Escape(b) /\ Escape(b) \in Seq(Int)
  <2> SUFFICES ASSUME NEW b \in 0..255 PROVE Spaced(Escape(b)) = Escape(b) /\ Escape(b) \in Seq(Int)
    BY Zenon
  <2> DEFINE x == HexDigit(b \div 16)
             y == HexDigit(b % 16)
  <2>1. b \div 16 \in 0..15 /\ b % 16 \in 0..15
    OBVIOUS
  <2>2. x \in 48..57 \cup 65..70 /\ y \in 48..57 \cup 65..70
    BY <2>1, <1>HexDigits, Zenon
  <2>3. Escape(b) = <<Percent, x, y>>
    BY Zenon DEF Escape
  <2> HIDE DEF x, y
  <2>4. x # Plus /\ y # Plus /\ Percent # Plus /\ x \in Int /\ y \in Int /\ Percent \in Int
    BY <2>2 DEF Plus, Percent
  <2>5. Spaced(<<Percent, x, y>>) = <<Percent, x, y>>
    BY <2>4 DEF Spaced
  <2> QED
    BY <2>3, <2>4, <2>5
(* The server reads the bytes of each character.                             *)
<1>DecodeChar.
      ASSUME NEW c \in CodePoint, NEW s \in Seq(Int)
      PROVE  DecodeBytes(Spaced(EncodeChar(c)) \o s) = Bytes(c) \o DecodeBytes(s)
  <2>1. c \in 0..2047
    BY DEF CodePoint
  <2>3. CASE c \in Alnum
    <3>1. c # Plus /\ c # Percent /\ c < 128 /\ c \in Int
      BY <2>3 DEF Alnum, Plus, Percent
    <3>0. EncodeChar(c) = <<c>>
      BY <2>3, <1>AlnumCode, Zenon
    <3>2. Spaced(<<c>>) = <<c>>
      BY <3>1 DEF Spaced
    <3>3. Bytes(c) = <<c>>
      BY <3>1, Zenon DEF Bytes
    <3> QED
      BY <3>0, <3>1, <3>2, <3>3, <1>DecodePlain, ZenonT(40)
  <2>4. CASE c = Space
    <3>1. EncodeChar(c) = <<Plus>> /\ Space \in Int /\ Space # Percent /\ Space < 128
      BY <2>4 DEF EncodeChar, Space, Percent
    <3>2. Spaced(<<Plus>>) = <<Space>>
      BY DEF Spaced
    <3>3. Bytes(c) = <<Space>>
      BY <2>4, <3>1, Zenon DEF Bytes
    <3>4. DecodeBytes(<<Space>> \o s) = <<Space>> \o DecodeBytes(s)
      BY <3>1, <1>DecodePlain, Zenon
    <3> QED
      BY <3>1, <3>2, <3>3, <3>4, Zenon
  <2>5. CASE c > 127
    <3> DEFINE h == 192 + (c \div 64)
               l == 128 + (c % 64)
    <3>1. h \in 0..255 /\ l \in 0..255
      BY <1>ByteRange, ZenonT(40)
    <3>2. EncodeChar(c) = Escape(h) \o Escape(l)
      BY <2>1, <2>5 DEF EncodeChar, Space
    <3>3. Bytes(c) = <<h, l>>
      BY <2>1, <2>5 DEF Bytes
    <3> HIDE DEF h, l
    <3>4. /\ Escape(h) \in Seq(Int) /\ Escape(l) \in Seq(Int)
          /\ Spaced(Escape(h)) = Escape(h) /\ Spaced(Escape(l)) = Escape(l)
      BY <3>1, <1>EscapeSpaced, Zenon
    <3>5. Spaced(EncodeChar(c)) = Escape(h) \o Escape(l)
      <4>1. Spaced(Escape(h) \o Escape(l)) = Spaced(Escape(h)) \o Spaced(Escape(l))
        BY <3>4, SpacedConcat, Zenon
      <4> QED
        BY <3>2, <3>4, <4>1, Zenon
    <3>6. Spaced(EncodeChar(c)) \o s = Escape(h) \o (Escape(l) \o s) /\ Escape(l) \o s \in Seq(Int)
      <4>1. Regroups(Escape(h), Escape(l), s)
        BY <3>4, Associative, Zenon
      <4>2. Escape(l) \o s \in Seq(Int)
        BY <3>4, Concat, Zenon DEF Concatenates
      <4> QED
        BY <3>5, <4>1, <4>2, Zenon DEF Regroups
    <3>7. DecodeBytes(Escape(h) \o (Escape(l) \o s)) = <<h>> \o DecodeBytes(Escape(l) \o s)
      BY <3>1, <3>6, <1>DecodeEscape, Zenon
    <3>8. DecodeBytes(Escape(l) \o s) = <<l>> \o DecodeBytes(s)
      BY <3>1, <1>DecodeEscape, Zenon
    <3>9. DecodeBytes(s) \in Seq(Int)
      BY <1>DecodeType, Zenon
    <3>10. <<h>> \o (<<l>> \o DecodeBytes(s)) = <<h, l>> \o DecodeBytes(s)
      <4>1. h \in Int /\ l \in Int
        BY <3>1
      <4> QED
        BY <3>9, <4>1, <1>Pairing, Zenon
    <3> QED
      BY <3>3, <3>6, <3>7, <3>8, <3>10, Zenon
  <2>6. CASE c \notin Alnum /\ c # Space /\ ~(c > 127)
    <3>1. EncodeChar(c) = Escape(c)
      BY <2>6, Zenon DEF EncodeChar, Alnum
    <3>2. c \in 0..255 /\ c < 128
      BY <2>1, <2>6
    <3>3. Bytes(c) = <<c>>
      BY <3>2, Zenon DEF Bytes
    <3>4. Spaced(Escape(c)) = Escape(c)
      BY <3>2, <1>EscapeSpaced, Zenon
    <3> QED
      BY <3>1, <3>2, <3>3, <3>4, <1>DecodeEscape, ZenonT(40)
  <2> QED
    BY <2>3, <2>4, <2>5, <2>6, Zenon
<1> QED
  BY <1>DecodeChar, <1>EncodeCharType, <1>AlnumCode, Zenon

(* Texts encoded piece by piece.                                             *)
Mapped(e, t) == [k \in DOMAIN t |-> e[t[k]]]

Pieces(e, t) == Joined(Mapped(e, t))

Maps(V, e, t, m) ==
  m \in Seq(Seq(V)) /\ Len(m) = Len(t) /\ \A k \in 1..Len(t) : m[k] = e[t[k]]

LEMMA MappedShape ==
  ASSUME NEW C, NEW V, NEW e \in [C -> Seq(V)], NEW t \in Seq(C)
  PROVE  Maps(V, e, t, Mapped(e, t))
<1>1. Len(t) \in Nat /\ DOMAIN t = 1..Len(t) /\ \A k \in 1..Len(t) : t[k] \in C
  OBVIOUS
<1>2. \A k \in 1..Len(t) : Mapped(e, t)[k] = e[t[k]]
  BY <1>1, Zenon DEF Mapped
<1>3. \A k \in 1..Len(t) : Mapped(e, t)[k] \in Seq(V)
  BY <1>1, <1>2, Zenon
<1>4. Mapped(e, t) = [k \in 1..Len(t) |-> Mapped(e, t)[k]]
  BY <1>1, Zenon DEF Mapped
<1>5. Mapped(e, t) \in Seq(Seq(V)) /\ Len(Mapped(e, t)) = Len(t)
  BY <1>1, <1>3, <1>4
<1> QED
  BY <1>2, <1>5, Zenon DEF Maps

PieceFirst(V, e, c, t) ==
  /\ Pieces(e, t) \in Seq(V)
  /\ Pieces(e, <<c>> \o t) = e[c] \o Pieces(e, t)

MapFirst(e, c, t) == Mapped(e, <<c>> \o t) = <<e[c]>> \o Mapped(e, t)

LEMMA MappedFirst ==
  ASSUME NEW C, NEW V, NEW e \in [C -> Seq(V)], NEW c \in C, NEW t \in Seq(C)
  PROVE  MapFirst(e, c, t)
<1> DEFINE u == <<c>> \o t
           l == Mapped(e, u)
           m == Mapped(e, t)
           r == <<e[c]>> \o m
<1>1. /\ u \in Seq(C) /\ Len(u) = 1 + Len(t) /\ Len(t) \in Nat /\ u[1] = c
      /\ \A n \in 1..Len(t) : u[1 + n] = t[n]
  OBVIOUS
<1> HIDE DEF u
<1>2. l \in Seq(Seq(V)) /\ Len(l) = Len(u) /\ \A k \in 1..Len(u) : l[k] = e[u[k]]
  <2>1. Maps(V, e, u, l)
    BY <1>1, MappedShape, Zenon
  <2> QED
    BY <2>1, Zenon DEF Maps
<1>3. m \in Seq(Seq(V)) /\ Len(m) = Len(t) /\ \A k \in 1..Len(t) : m[k] = e[t[k]]
  <2>1. Maps(V, e, t, m)
    BY MappedShape, SMTT(40)
  <2> QED
    BY <2>1, Zenon DEF Maps
<1> HIDE DEF l, m
<1>4. e[c] \in Seq(V)
  BY Zenon
<1>5. PICK x \in Seq(V) : x = e[c]
  BY <1>4, Zenon
<1>6. <<x>> \in Seq(Seq(V)) /\ Len(<<x>>) = 1 /\ <<x>>[1] = x
  OBVIOUS
<1>7. Concatenates(Seq(V), <<x>>, m, <<x>> \o m)
  BY <1>3, <1>6, Concat, Zenon
<1>8. /\ r \in Seq(Seq(V)) /\ Len(r) = 1 + Len(t)
      /\ \A n \in 1..1 : r[n] = <<x>>[n]
      /\ \A n \in 1..Len(t) : r[1 + n] = m[n]
  BY <1>3, <1>5, <1>6, <1>7, Zenon DEF Concatenates
<1> HIDE DEF r
<1>9. r[1] = x
  BY <1>6, <1>8
<1>10. ASSUME NEW k \in 1..Len(l) PROVE l[k] = r[k]
  <2>1. CASE k = 1
    <3>1. 1 \in 1..Len(u)
      BY <1>1
    <3> QED
      BY <1>1, <1>2, <1>5, <1>9, <2>1, <3>1, Zenon
  <2>2. CASE k # 1
    <3> DEFINE n == k - 1
    <3>1. n \in 1..Len(t) /\ k = 1 + n /\ k \in 1..Len(u)
      BY <1>1, <1>2, <2>2
    <3> HIDE DEF n
    <3> QED
      <4>1. u[1 + n] = t[n] /\ l[1 + n] = e[u[1 + n]] /\ m[n] = e[t[n]] /\ r[1 + n] = m[n]
        BY <1>1, <1>2, <1>3, <1>8, <3>1, Zenon
      <4> QED
        BY <3>1, <4>1, Zenon
  <2> QED
    BY <2>1, <2>2, Zenon
<1>11. l = r
  <2>1. Len(l) = Len(r)
    BY <1>1, <1>2, <1>8, Zenon
  <2> QED
    BY <1>2, <1>8, <1>10, <2>1, SameText
<1> QED
  BY <1>11, Zenon DEF MapFirst, l, m, r, u

(* What encodes a text character by character encodes its first character    *)
(* first.                                                                    *)
LEMMA PiecesFirst ==
  ASSUME NEW C, NEW V, NEW e \in [C -> Seq(V)], NEW c \in C, NEW t \in Seq(C)
  PROVE  PieceFirst(V, e, c, t)
<1>1. Mapped(e, t) \in Seq(Seq(V)) /\ e[c] \in Seq(V)
  <2>1. Maps(V, e, t, Mapped(e, t))
    BY MappedShape, SMTT(40)
  <2> QED
    BY <2>1, Zenon DEF Maps
<1>2. Joined(Mapped(e, t)) \in Seq(V) /\ Joined(<<e[c]>> \o Mapped(e, t)) = e[c] \o Joined(Mapped(e, t))
  BY <1>1, JoinedFirst, Zenon
<1>3. MapFirst(e, c, t)
  BY MappedFirst, SMTT(40)
<1> QED
  BY <1>2, <1>3, Zenon DEF Pieces, PieceFirst, MapFirst

(* An empty text has an empty encoding.                                      *)
LEMMA PiecesEmpty == \A e : Pieces(e, <<>>) = <<>>
<1> TAKE e
<1>1. Mapped(e, <<>>) = <<>>
  BY DEF Mapped
<1> QED
  BY <1>1, JoinedEmpty, Zenon DEF Pieces

(* The encodings of characters, as functions.                                *)
Encoding == [c \in CodePoint |-> EncodeChar(c)]

ByteEncoding == [c \in CodePoint |-> Bytes(c)]

(* What is decoded is what was encoded.                                      *)
Utf8Bytes(t) == Pieces(ByteEncoding, t)

RoundTrips(t) ==
  /\ EncodeText(t) \in Seq(Int) /\ Utf8Bytes(t) \in Seq(Int)
  /\ DecodeBytes(Spaced(EncodeText(t))) = Utf8Bytes(t)
  /\ Utf8(Utf8Bytes(t)) = t

(* Codes are integers.                                                       *)
LEMMA IntCodes == \A V \in SUBSET Int : \A s \in Seq(V) : s \in Seq(Int)
<1> SUFFICES ASSUME NEW V \in SUBSET Int, NEW s \in Seq(V) PROVE s \in Seq(Int)
  BY Zenon
<1>0. Len(s) \in Nat /\ \A k \in 1..Len(s) : s[k] \in V
  OBVIOUS
<1>1. Len(s) \in Nat /\ \A k \in 1..Len(s) : s[k] \in Int
  BY <1>0, Zenon
<1>2. s = [k \in 1..Len(s) |-> s[k]]
  OBVIOUS
<1> QED
  BY <1>1, <1>2

LEMMA UnreservedInt == Unreserved \in SUBSET Int
BY DEF Unreserved, Alnum, Plus, Percent

(* percent_decode returns the text a browser has encoded, whatever the text  *)
(* is, by induction on the text. What is encoded contains none of the        *)
(* characters that separate fields, and a letter or a digit is encoded and   *)
(* decoded as itself.                                                        *)
THEOREM TextsRoundTrip ==
  /\ \A t \in Seq(CodePoint) : PercentDecode(EncodeText(t)) = t
  /\ \A t \in Seq(CodePoint) : EncodeText(t) \in Seq(Unreserved)
  /\ \A c \in Alnum :
       <<c>> \in Seq(CodePoint) /\ EncodeText(<<c>>) = <<c>> /\ PercentDecode(<<c>>) = <<c>>
  /\ PercentDecode(<<>>) = <<>>
<1>EncodingType.
      Encoding \in [CodePoint -> Seq(Unreserved)] /\ ByteEncoding \in [CodePoint -> Seq(Int)]
  <2>1. \A c \in CodePoint : Bytes(c) \in Seq(Int)
    <3> SUFFICES ASSUME NEW c \in CodePoint PROVE Bytes(c) \in Seq(Int)
      BY Zenon
    <3>1. <<>> \in Seq(Int)
      OBVIOUS
    <3> QED
      BY <3>1, Utf8First, Zenon
  <2> QED
    BY <2>1, CharDecodes, Zenon DEF Encoding, ByteEncoding
<1>EncodeTextPieces.
      \A t \in Seq(CodePoint) : EncodeText(t) = Pieces(Encoding, t)
  <2> SUFFICES ASSUME NEW t \in Seq(CodePoint) PROVE EncodeText(t) = Pieces(Encoding, t)
    BY Zenon
  <2>1. \A k \in DOMAIN t : t[k] \in CodePoint
    OBVIOUS
  <2>2. \A k \in DOMAIN t : Encoding[t[k]] = EncodeChar(t[k])
    BY <2>1, Zenon DEF Encoding
  <2>3. Mapped(Encoding, t) = [k \in DOMAIN t |-> EncodeChar(t[k])]
    BY <2>2, Zenon DEF Mapped
  <2> QED
    BY <2>3, Zenon DEF Pieces, EncodeText
<1>EncodeTextType.
      \A t \in Seq(CodePoint) : EncodeText(t) \in Seq(Unreserved)
  <2> SUFFICES ASSUME NEW t \in Seq(CodePoint) PROVE EncodeText(t) \in Seq(Unreserved)
    BY Zenon
  <2>1. 0 \in CodePoint
    BY DEF CodePoint
  <2> QED
    <3>1. Encoding \in [CodePoint -> Seq(Unreserved)]
      BY <1>EncodingType, Zenon
    <3>2. PieceFirst(Unreserved, Encoding, 0, t)
      BY <2>1, <3>1, PiecesFirst, Zenon
    <3> QED
      BY <3>2, <1>EncodeTextPieces, Zenon DEF PieceFirst
<1>EncodeTextEmpty.
      EncodeText(<<>>) = <<>>
  <2>1. <<>> \in Seq(CodePoint)
    OBVIOUS
  <2> QED
    BY <2>1, <1>EncodeTextPieces, PiecesEmpty, Zenon
<1>EncodeTextFirst.
      ASSUME NEW c \in CodePoint, NEW t \in Seq(CodePoint)
      PROVE  EncodeText(<<c>> \o t) = EncodeChar(c) \o EncodeText(t)
  <2>1. <<c>> \o t \in Seq(CodePoint)
    OBVIOUS
  <2>2. Pieces(Encoding, <<c>> \o t) = Encoding[c] \o Pieces(Encoding, t)
    <3>1. Encoding \in [CodePoint -> Seq(Unreserved)]
      BY <1>EncodingType, Zenon
    <3>2. PieceFirst(Unreserved, Encoding, c, t)
      BY <3>1, PiecesFirst, Zenon
    <3> QED
      BY <3>2, Zenon DEF PieceFirst
  <2>3. Encoding[c] = EncodeChar(c)
    BY Zenon DEF Encoding
  <2> QED
    BY <2>1, <2>2, <2>3, <1>EncodeTextPieces, Zenon
<1>DecodeEmpty.
      DecodeBytes(<<>>) = <<>> /\ Utf8(<<>>) = <<>> /\ Spaced(<<>>) = <<>>
  <2>1. <<>> \in Seq(Int) /\ Len(<<>>) = 0
    OBVIOUS
  <2>2. Unfolds(Int, DecodeParts(<<>>), DecodeNext(<<>>)) /\ Len(DecodeParts(<<>>)) = 0
    BY <2>1, DecodeForward, FromUnfolds, Zenon
  <2>3. Unfolds(Int, Utf8Parts(<<>>), Utf8Next(<<>>)) /\ Len(Utf8Parts(<<>>)) = 0
    BY <2>1, Utf8Forward, FromUnfolds, Zenon
  <2>4. 0 + 1 = 1
    OBVIOUS
  <2>5. From(DecodeParts(<<>>), DecodeNext(<<>>))[1] = <<>>
    BY <2>2, <2>4, Zenon DEF Unfolds
  <2>6. From(Utf8Parts(<<>>), Utf8Next(<<>>))[1] = <<>>
    BY <2>3, <2>4, Zenon DEF Unfolds
  <2>7. DecodeBytes(<<>>) = <<>>
    BY <2>5, Zenon DEF DecodeBytes, Walk, DecodeParts, DecodeNext
  <2>8. Utf8(<<>>) = <<>>
    BY <2>6, Zenon DEF Utf8, Walk, Utf8Parts, Utf8Next
  <2>9. Spaced(<<>>) = <<>>
    BY DEF Spaced
  <2> QED
    BY <2>7, <2>8, <2>9, Zenon
<1>TextRoundTrip.
      \A t \in Seq(CodePoint) : RoundTrips(t)
  <2> DEFINE S == {t \in Seq(CodePoint) : RoundTrips(t)}
  <2>1. <<>> \in S
    <3>1. <<>> \in Seq(CodePoint) /\ <<>> \in Seq(Int)
      OBVIOUS
    <3>2. EncodeText(<<>>) = <<>> /\ Utf8Bytes(<<>>) = <<>>
      BY <1>EncodeTextEmpty, PiecesEmpty, Zenon DEF Utf8Bytes
    <3>3. RoundTrips(<<>>)
      BY <3>1, <3>2, <1>DecodeEmpty, Zenon DEF RoundTrips
    <3> QED
      BY <3>1, <3>3, Zenon
  <2>2. ASSUME NEW c \in CodePoint, NEW t \in Seq(CodePoint), t \in S
        PROVE  <<c>> \o t \in S
    <3> DEFINE u == <<c>> \o t
               b == Utf8Bytes(t)
               n == EncodeText(t)
               x == EncodeChar(c)
    <3>1. u \in Seq(CodePoint)
      OBVIOUS
    <3>2. n \in Seq(Int) /\ b \in Seq(Int) /\ DecodeBytes(Spaced(n)) = b /\ Utf8(b) = t
      BY <2>2, Zenon DEF RoundTrips
    <3>3. x \in Seq(Int)
      BY CharDecodes, IntCodes, UnreservedInt, Zenon
    <3>4. EncodeText(u) = x \o n
      BY <1>EncodeTextFirst, Zenon
    <3>5. Utf8Bytes(u) = Bytes(c) \o b
      <4>1. ByteEncoding \in [CodePoint -> Seq(Int)]
        BY <1>EncodingType, Zenon
      <4>2. PieceFirst(Int, ByteEncoding, c, t)
        BY <4>1, PiecesFirst, Zenon
      <4>3. ByteEncoding[c] = Bytes(c)
        BY Zenon DEF ByteEncoding
      <4> QED
        BY <4>2, <4>3, Zenon DEF PieceFirst, Utf8Bytes
    <3> HIDE DEF u, b, n, x
    <3>6. Bytes(c) \in Seq(Int) /\ Utf8(Bytes(c) \o b) = <<c>> \o Utf8(b)
      BY <3>2, Utf8First, Zenon
    <3>7. Utf8Bytes(u) \in Seq(Int) /\ EncodeText(u) \in Seq(Int)
      BY <3>2, <3>3, <3>4, <3>5, <3>6, Concat, ZenonT(40) DEF Concatenates
    <3>8. Spaced(n) \in Seq(Int)
      BY <3>2, SpacedShape, Zenon
    <3>9. Spaced(x \o n) = Spaced(x) \o Spaced(n)
      BY <3>2, <3>3, SpacedConcat, Zenon
    <3>10. DecodeBytes(Spaced(x) \o Spaced(n)) = Bytes(c) \o DecodeBytes(Spaced(n))
      BY <3>8, CharDecodes, Zenon DEF x
    <3>11. DecodeBytes(Spaced(EncodeText(u))) = Utf8Bytes(u)
      BY <3>2, <3>4, <3>5, <3>9, <3>10, Zenon
    <3>12. Utf8(Utf8Bytes(u)) = u
      BY <3>2, <3>5, <3>6, Zenon DEF u
    <3>13. RoundTrips(u)
      BY <3>7, <3>11, <3>12, Zenon DEF RoundTrips
    <3> QED
      BY <3>1, <3>13, Zenon DEF u
  <2>3. \A t \in Seq(CodePoint) : t \in S
    <3> HIDE DEF S
    <3> QED BY <2>1, <2>2, TextInduction
  <2> QED
    BY <2>3, Zenon
(* percent_decode undoes what a browser does to a text.                      *)
<1>PercentDecodeUndoes.
      \A t \in Seq(CodePoint) : PercentDecode(EncodeText(t)) = t
  BY <1>TextRoundTrip, Zenon DEF RoundTrips, PercentDecode
<1>LetterCode.
      ASSUME NEW c \in Alnum
      PROVE  <<c>> \in Seq(CodePoint) /\ EncodeText(<<c>>) = <<c>> /\ PercentDecode(<<c>>) = <<c>>
  <2>1. c \in CodePoint
    BY DEF Alnum, CodePoint
  <2>2. <<c>> \in Seq(CodePoint) /\ <<>> \in Seq(CodePoint) /\ <<c>> \o <<>> = <<c>>
    BY <2>1
  <2>3. EncodeText(<<c>> \o <<>>) = EncodeChar(c) \o EncodeText(<<>>)
    BY <2>1, <2>2, <1>EncodeTextFirst, Zenon
  <2>4. EncodeText(<<c>>) = <<c>>
    BY <2>2, <2>3, CharDecodes, <1>EncodeTextEmpty, Zenon
  <2>5. PercentDecode(EncodeText(<<c>>)) = <<c>>
    BY <2>2, <1>PercentDecodeUndoes, Zenon
  <2> QED
    BY <2>2, <2>4, <2>5, Zenon
<1>NothingDecoded.
      PercentDecode(<<>>) = <<>>
  BY <1>DecodeEmpty, Zenon DEF PercentDecode
<1> QED
  BY <1>PercentDecodeUndoes, <1>EncodeTextType, <1>LetterCode, <1>NothingDecoded, Zenon

-------------------------------------------------------------------------------
(* str::split.                                                               *)

(* A position where the piece that starts at pos ends.                       *)
Ends(s, separator, pos, k) ==
  /\ k \in pos..(Len(s) + 1)
  /\ k > Len(s) \/ s[k] = separator
  /\ \A l \in pos..(k - 1) : s[l] # separator

(* Until finds such a position ...                                           *)
LEMMA UntilEnds ==
  ASSUME NEW separator, NEW s \in Seq(Int), NEW pos \in 1..(Len(s) + 1)
  PROVE  Ends(s, separator, pos, Until(s, separator, pos))
<1> DEFINE N == Len(s)
           T == {k \in pos..(N + 1) : k > N \/ s[k] = separator}
<1>1. N \in Nat
  OBVIOUS
<1> HIDE DEF N
<1>2. T \in SUBSET Nat /\ N + 1 \in T
  BY <1>1 DEF N
<1>3. PICK k \in T : \A l \in T : k <= l
  <2> HIDE DEF T
  <2> QED BY <1>2, NatMin
<1>4. k \in pos..(N + 1) /\ (k > N \/ s[k] = separator) /\ pos \in Int /\ k \in Int
  BY <1>1 DEF N
<1>5. \A l \in pos..(k - 1) : s[l] # separator
  <2> SUFFICES ASSUME NEW l \in pos..(k - 1), s[l] = separator PROVE FALSE
    BY Zenon
  <2>1. l \in T /\ l < k
    BY <1>1, <1>4
  <2> QED
    BY <1>3, <1>4, <2>1
<1>6. \E n \in pos..(Len(s) + 1) : /\ n > Len(s) \/ s[n] = separator
                                 /\ \A l \in pos..(n - 1) : s[l] # separator
  BY <1>4, <1>5, Zenon DEF N
<1> QED
  BY <1>6, Zenon DEF Until, Ends

(* ... and there is no other.                                                *)
LEMMA EndsOnce ==
  ASSUME NEW separator, NEW s \in Seq(Int), NEW pos \in 1..(Len(s) + 1), NEW k,
         Ends(s, separator, pos, k)
  PROVE  Until(s, separator, pos) = k
<1> DEFINE n == Until(s, separator, pos)
<1>1. Ends(s, separator, pos, n)
  BY UntilEnds, Zenon
<1> HIDE DEF n
<1>2. k \in Int /\ n \in Int /\ pos \in Int /\ Len(s) \in Nat
  BY <1>1 DEF Ends
<1>3. ~(n < k)
  <2> SUFFICES ASSUME n < k PROVE FALSE
    BY Zenon
  <2>1. n \in pos..(k - 1) /\ ~(n > Len(s))
    BY <1>1, <1>2 DEF Ends
  <2> QED
    BY <1>1, <2>1, Zenon DEF Ends
<1>4. ~(k < n)
  <2> SUFFICES ASSUME k < n PROVE FALSE
    BY Zenon
  <2>1. k \in pos..(n - 1) /\ ~(k > Len(s))
    BY <1>1, <1>2 DEF Ends
  <2> QED
    BY <1>1, <2>1, Zenon DEF Ends
<1> QED
  BY <1>2, <1>3, <1>4 DEF n

(* The elements of a part of a text, and of the same part of a longer text.  *)
LEMMA SubSeqElements ==
  ASSUME NEW s \in Seq(Int), NEW m \in 1..(Len(s) + 1), NEW k \in (m - 1)..Len(s)
  PROVE  /\ SubSeq(s, m, k) \in Seq(Int) /\ Len(SubSeq(s, m, k)) = k - m + 1
         /\ \A l \in 1..(k - m + 1) : SubSeq(s, m, k)[l] = s[m + l - 1]
BY SMTT(40)

LEMMA SubSeqShift ==
  ASSUME NEW s \in Seq(Int), NEW b \in Seq(Int), NEW d \in Nat, Len(s) = d + Len(b),
         \A n \in 1..Len(b) : s[d + n] = b[n],
         NEW n \in 1..(Len(b) + 1), NEW u \in n..(Len(b) + 1)
  PROVE  SubSeq(s, d + n, (d + u) - 1) = SubSeq(b, n, u - 1)
<1> DEFINE x == SubSeq(s, d + n, (d + u) - 1)
           y == SubSeq(b, n, u - 1)
<1>0. /\ d + n \in 1..(Len(s) + 1) /\ (d + u) - 1 \in ((d + n) - 1)..Len(s)
      /\ ((d + u) - 1) - (d + n) + 1 = u - n /\ (u - 1) - n + 1 = u - n
      /\ u - 1 \in (n - 1)..Len(b)
  OBVIOUS
<1>1. x \in Seq(Int) /\ Len(x) = u - n /\ \A k \in 1..(u - n) : x[k] = s[(d + n) + k - 1]
  BY <1>0, SubSeqElements, Zenon
<1>2. y \in Seq(Int) /\ Len(y) = u - n /\ \A k \in 1..(u - n) : y[k] = b[n + k - 1]
  BY <1>0, SubSeqElements, Zenon
<1> HIDE DEF x, y
<1>3. \A k \in 1..(u - n) : x[k] = y[k]
  <2> SUFFICES ASSUME NEW k \in 1..(u - n) PROVE x[k] = y[k]
    BY Zenon
  <2>1. n + k - 1 \in 1..Len(b) /\ d + (n + k - 1) = (d + n) + k - 1
    OBVIOUS
  <2> QED
    BY <1>1, <1>2, <2>1, Zenon
<1> QED
  BY <1>1, <1>2, <1>3, SameText, ZenonT(40) DEF x, y

SplitParts(s, separator) ==
  [pos \in 1..(Len(s) + 1) |-> <<SubSeq(s, pos, Until(s, separator, pos) - 1)>>]

SplitNext(s, separator) == [pos \in 1..(Len(s) + 1) |-> Until(s, separator, pos) + 1]

LEMMA SeqOf ==
  ASSUME NEW V, NEW N \in Nat, NEW p, p = [pos \in 1..N |-> p[pos]], \A pos \in 1..N : p[pos] \in V
  PROVE  p \in Seq(V) /\ Len(p) = N
OBVIOUS

(* A text without the separator is one piece.                                *)
Lacks(s, separator) == \A k \in 1..Len(s) : s[k] # separator

(* The first piece ends at the first separator.                              *)
LEMMA UntilFirst ==
  ASSUME NEW separator \in Int, NEW a \in Seq(Int), Lacks(a, separator), NEW b \in Seq(Int)
  PROVE  /\ Until(a \o (<<separator>> \o b), separator, 1) = Len(a) + 1
         /\ a \o (<<separator>> \o b) \in Seq(Int)
         /\ SubSeq(a \o (<<separator>> \o b), 1, Len(a)) = a
         /\ SubSeq(a \o (<<separator>> \o b), Len(a) + 2, Len(a \o (<<separator>> \o b))) = b
<1> DEFINE N == Len(a)
           r == <<separator>> \o b
           s == a \o r
           M == Len(s)
<1>1. r \in Seq(Int) /\ Len(r) = 1 + Len(b) /\ r[1] = separator /\ Len(b) \in Nat
      /\ \A k \in 1..Len(b) : r[1 + k] = b[k]
  OBVIOUS
<1>2. N \in Nat
  OBVIOUS
<1> HIDE DEF r
<1>3. Concatenates(Int, a, r, s)
  BY <1>1, Concat, Zenon
<1> HIDE DEF s
<1>4. s \in Seq(Int) /\ M = (N + 1) + Len(b)
  BY <1>1, <1>2, <1>3 DEF Concatenates
<1>5. s[N + 1] = separator
  BY <1>1, <1>2, <1>3 DEF Concatenates
<1>6. \A k \in 1..N : s[k] = a[k]
  BY <1>3, Zenon DEF Concatenates
<1>7. \A k \in 1..Len(b) : s[(N + 1) + k] = b[k]
  <2> SUFFICES ASSUME NEW k \in 1..Len(b) PROVE s[(N + 1) + k] = b[k]
    BY Zenon
  <2>1. 1 + k \in 1..Len(r) /\ N + (1 + k) = (N + 1) + k
    BY <1>1, <1>2
  <2>2. s[N + (1 + k)] = r[1 + k]
    BY <1>3, <2>1, Zenon DEF Concatenates
  <2> QED
    BY <1>1, <2>1, <2>2, Zenon
<1>8. Ends(s, separator, 1, N + 1)
  <2>1. N + 1 \in 1..(Len(s) + 1)
    BY <1>1, <1>2, <1>4
  <2>2. \A l \in 1..((N + 1) - 1) : s[l] # separator
    BY <1>2, <1>6 DEF Lacks
  <2> QED
    BY <1>5, <2>1, <2>2, Zenon DEF Ends
<1>9. Until(s, separator, 1) = N + 1
  <2>1. 1 \in 1..(Len(s) + 1)
    BY <1>1, <1>2, <1>4
  <2> QED
    BY <1>4, <1>8, <2>1, EndsOnce, Zenon
<1>10. SubSeq(s, 1, N) = a
  <2> DEFINE x == SubSeq(s, 1, N)
  <2>1. x \in Seq(Int) /\ Len(x) = N /\ \A k \in 1..N : x[k] = s[k]
    BY <1>1, <1>2, <1>4
  <2> HIDE DEF x
  <2> QED
    BY <1>6, <2>1, SameText, Zenon DEF x
<1>11. SubSeq(s, N + 2, M) = b
  <2> DEFINE d == N + 1
             u == Len(b) + 1
  <2>1. d \in Nat /\ Len(s) = d + Len(b) /\ 1 \in 1..(Len(b) + 1) /\ u \in 1..(Len(b) + 1)
    BY <1>1, <1>2, <1>4
  <2>2. N + 2 = d + 1 /\ M = (d + u) - 1 /\ u - 1 = Len(b)
    BY <1>1, <1>2, <1>4
  <2> HIDE DEF d, u
  <2>3. SubSeq(s, d + 1, (d + u) - 1) = SubSeq(b, 1, u - 1)
    BY <1>4, <1>7, <2>1, SubSeqShift, Zenon DEF d
  <2>4. SubSeq(b, 1, Len(b)) = b
    OBVIOUS
  <2> QED
    BY <2>2, <2>3, <2>4, Zenon
<1> QED
  BY <1>4, <1>9, <1>10, <1>11, Zenon DEF s, r

(* str::split of a text without the separator is the text; of another one,   *)
(* what precedes the first separator and the split of the rest.              *)
LEMMA SplitsAtSeparators ==
  /\ \A separator : \A a \in Seq(Int) :
       Lacks(a, separator) => Split(a, separator) = <<a>>
  /\ \A separator \in Int : \A a, b \in Seq(Int) :
       Lacks(a, separator) => Split(a \o (<<separator>> \o b), separator) = <<a>> \o Split(b, separator)
<1>SplitForward.
      ASSUME NEW separator, NEW s \in Seq(Int)
      PROVE  /\ Forward(Seq(Int), SplitParts(s, separator), SplitNext(s, separator))
             /\ Len(SplitParts(s, separator)) = Len(s) + 1
  <2> DEFINE N == Len(s) + 1
             p == SplitParts(s, separator)
             q == SplitNext(s, separator)
  <2>1. N \in Nat
    OBVIOUS
  <2>2. \A pos \in 1..N : Until(s, separator, pos) \in pos..N
    BY UntilEnds, Zenon DEF Ends
  <2>3. \A pos \in 1..N : p[pos] \in Seq(Seq(Int)) /\ q[pos] \in (pos + 1)..(N + 1)
    <3> SUFFICES ASSUME NEW pos \in 1..N PROVE p[pos] \in Seq(Seq(Int)) /\ q[pos] \in (pos + 1)..(N + 1)
      BY Zenon
    <3> DEFINE u == Until(s, separator, pos)
    <3>1. u \in pos..N
      BY <2>2, Zenon
    <3>2. p[pos] = <<SubSeq(s, pos, u - 1)>> /\ q[pos] = u + 1
      BY Zenon DEF SplitParts, SplitNext
    <3> HIDE DEF u
    <3>3. SubSeq(s, pos, u - 1) \in Seq(Int)
      BY <3>1
    <3>4. p[pos] \in Seq(Seq(Int))
      BY <3>2, <3>3
    <3>5. q[pos] \in (pos + 1)..(N + 1)
      BY <2>1, <3>1, <3>2
    <3> QED
      BY <3>4, <3>5, Zenon
  <2>4. p = [pos \in 1..N |-> p[pos]]
    BY Zenon DEF SplitParts
  <2> HIDE DEF p, q, N
  <2>5. p \in Seq(Seq(Seq(Int))) /\ Len(p) = N
    BY <2>1, <2>3, <2>4, SeqOf, Zenon
  <2> QED
    BY <2>3, <2>5, Zenon DEF Forward, p, q, N
<1>SplitSuffix.
      ASSUME NEW separator, NEW a \in Seq(Int), NEW b \in Seq(Int)
      PROVE  From(SplitParts(a \o b, separator), SplitNext(a \o b, separator))[Len(a) + 1]
               = Split(b, separator)
  <2> DEFINE s == a \o b
             d == Len(a)
             N == Len(b)
             p == SplitParts(s, separator)
             q == SplitNext(s, separator)
             v == SplitParts(b, separator)
             w == SplitNext(b, separator)
  <2>1. s \in Seq(Int) /\ d \in Nat /\ N \in Nat /\ Len(s) = d + N
    OBVIOUS
  <2>2. \A n \in 1..N : s[d + n] = b[n]
    OBVIOUS
  <2> HIDE DEF s
  <2>3. ASSUME NEW n \in 1..(N + 1)
        PROVE  p[d + n] = v[n] /\ q[d + n] = d + w[n]
    <3> DEFINE u == Until(b, separator, n)
    <3>1. Ends(b, separator, n, u)
      BY UntilEnds, Zenon
    <3> HIDE DEF u, d, N
    <3>2. u \in n..(N + 1) /\ u \in Int /\ n \in Int
      BY <3>1, <2>1 DEF Ends, N
    <3>3. Ends(s, separator, d + n, d + u)
      <4>1. d + u \in (d + n)..(Len(s) + 1)
        BY <2>1, <3>2
      <4>2. d + u > Len(s) \/ s[d + u] = separator
        <5>1. CASE u > N
          BY <2>1, <3>2, <5>1
        <5>2. CASE ~(u > N)
          <6>1. u \in 1..N /\ s[d + u] = b[u]
            BY <2>1, <2>2, <3>2, <5>2
          <6> QED
            BY <3>1, <5>2, <6>1, Zenon DEF Ends, N
        <5> QED
          BY <5>1, <5>2, Zenon
      <4>3. ASSUME NEW l \in (d + n)..((d + u) - 1) PROVE s[l] # separator
        <5> DEFINE m == l - d
        <5>1. m \in 1..N /\ m \in n..(u - 1) /\ l = d + m
          BY <2>1, <3>2
        <5> HIDE DEF m
        <5>2. b[m] # separator
          BY <3>1, <5>1, Zenon DEF Ends
        <5> QED
          BY <2>2, <5>1, <5>2, Zenon
      <4> QED
        BY <4>1, <4>2, <4>3, Zenon DEF Ends
    <3>4. d + n \in 1..(Len(s) + 1)
      BY <2>1
    <3>5. Until(s, separator, d + n) = d + u
      BY <2>1, <3>3, <3>4, EndsOnce, Zenon
    <3>6. q[d + n] = (d + u) + 1 /\ w[n] = u + 1
      BY <3>4, <3>5, Zenon DEF SplitNext, u, N
    <3>7. p[d + n] = <<SubSeq(s, d + n, (d + u) - 1)>> /\ v[n] = <<SubSeq(b, n, u - 1)>>
      BY <3>4, <3>5, Zenon DEF SplitParts, u, N
    <3>8. SubSeq(s, d + n, (d + u) - 1) = SubSeq(b, n, u - 1)
      BY <2>1, <2>2, <3>2, SubSeqShift, Zenon DEF N
    <3>9. (d + u) + 1 = d + (u + 1)
      BY <2>1, <3>2
    <3> QED
      BY <3>6, <3>7, <3>8, <3>9, Zenon
  <2>4. /\ Forward(Seq(Int), p, q) /\ Len(p) = Len(s) + 1
        /\ Forward(Seq(Int), v, w) /\ Len(v) = N + 1
    BY <2>1, <1>SplitForward, Zenon
  <2> HIDE DEF d, N, p, q, v, w
  <2>5. Len(p) = d + Len(v)
    BY <2>1, <2>4
  <2>6. SameFrom(d, v, w, p, q)
    BY <2>3, <2>4, <2>5, Zenon DEF SameFrom
  <2>7. Follows(d, v, w, p, q)
    BY <2>1, <2>4, <2>6, Shifted, Zenon
  <2>8. 1 \in 1..(Len(v) + 1)
    BY <2>1, <2>4
  <2>9. Split(b, separator) = From(v, w)[1]
    BY Zenon DEF Split, Walk, SplitParts, SplitNext, v, w
  <2> QED
    BY <2>7, <2>8, <2>9, Zenon DEF Follows, s, d, p, q
<1>SplitStep.
      ASSUME NEW separator, NEW s \in Seq(Int)
      PROVE  Split(s, separator) =
               <<SubSeq(s, 1, Until(s, separator, 1) - 1)>>
                 \o From(SplitParts(s, separator), SplitNext(s, separator))[Until(s, separator, 1) + 1]
  <2> DEFINE p == SplitParts(s, separator)
             q == SplitNext(s, separator)
  <2>1. Unfolds(Seq(Int), p, q) /\ Len(p) = Len(s) + 1
    BY <1>SplitForward, FromUnfolds, Zenon
  <2>2. 1 \in 1..(Len(s) + 1)
    OBVIOUS
  <2>3. p[1] = <<SubSeq(s, 1, Until(s, separator, 1) - 1)>> /\ q[1] = Until(s, separator, 1) + 1
    BY <2>2, Zenon DEF SplitParts, SplitNext
  <2>4. Split(s, separator) = From(p, q)[1]
    BY Zenon DEF Split, Walk, SplitParts, SplitNext
  <2> HIDE DEF p, q
  <2> QED
    BY <2>1, <2>2, <2>3, <2>4, Zenon DEF Unfolds, p, q
<1>SplitWhole.
      ASSUME NEW separator, NEW a \in Seq(Int), Lacks(a, separator)
      PROVE  Split(a, separator) = <<a>>
  <2> USE <1>SplitWhole
  <2> DEFINE p == SplitParts(a, separator)
             q == SplitNext(a, separator)
             N == Len(a)
  <2>1. N \in Nat /\ 1 \in 1..(N + 1)
    OBVIOUS
  <2>2. Ends(a, separator, 1, N + 1)
    BY <2>1 DEF Ends, Lacks
  <2>3. Until(a, separator, 1) = N + 1
    BY <2>1, <2>2, EndsOnce, Zenon
  <2>4. SubSeq(a, 1, (N + 1) - 1) = a
    OBVIOUS
  <2>5. From(p, q)[(N + 1) + 1] = <<>>
    <3>1. Unfolds(Seq(Int), p, q) /\ Len(p) = N + 1
      BY <1>SplitForward, FromUnfolds, Zenon
    <3> HIDE DEF p, q, N
    <3> QED
      BY <3>1, Zenon DEF Unfolds
  <2>6. Split(a, separator) = <<SubSeq(a, 1, (N + 1) - 1)>> \o From(p, q)[(N + 1) + 1]
    BY <2>3, <1>SplitStep, Zenon
  <2>7. <<a>> \o <<>> = <<a>>
    OBVIOUS
  <2> QED
    BY <2>4, <2>5, <2>6, <2>7, Zenon
<1>SplitFirst.
      ASSUME NEW separator \in Int, NEW a \in Seq(Int), Lacks(a, separator), NEW b \in Seq(Int)
      PROVE  Split(a \o (<<separator>> \o b), separator) = <<a>> \o Split(b, separator)
  <2> USE <1>SplitFirst
  <2> DEFINE s == a \o (<<separator>> \o b)
             c == a \o <<separator>>
             p == SplitParts(s, separator)
             q == SplitNext(s, separator)
  <2>1. Until(s, separator, 1) = Len(a) + 1 /\ s \in Seq(Int) /\ SubSeq(s, 1, Len(a)) = a
    BY UntilFirst
  <2>2. s = c \o b /\ c \in Seq(Int) /\ Len(c) = Len(a) + 1
    <3>1. <<separator>> \in Seq(Int)
      OBVIOUS
    <3>2. s = c \o b
      <4>1. Regroups(a, <<separator>>, b)
        BY <3>1, Associative, Zenon
      <4> QED
        BY <4>1, Zenon DEF Regroups
    <3>3. c \in Seq(Int) /\ Len(c) = Len(a) + 1
      OBVIOUS
    <3> QED
      BY <3>2, <3>3, SMTT(40)
  <2>3. From(p, q)[Len(c) + 1] = Split(b, separator)
    <3>1. From(SplitParts(c \o b, separator), SplitNext(c \o b, separator))[Len(c) + 1] = Split(b, separator)
      BY <2>2, <1>SplitSuffix, Zenon
    <3> QED
      BY <2>2, <3>1, Zenon
  <2> HIDE DEF s, p, q
  <2>4. Split(s, separator) =
          <<SubSeq(s, 1, Until(s, separator, 1) - 1)>> \o From(p, q)[Until(s, separator, 1) + 1]
    BY <2>1, <1>SplitStep, Zenon DEF p, q
  <2>5. (Len(a) + 1) - 1 = Len(a)
    OBVIOUS
  <2> QED
    BY <2>1, <2>2, <2>3, <2>4, <2>5, Zenon DEF s
<1> QED
  BY <1>SplitWhole, <1>SplitFirst, Zenon

-------------------------------------------------------------------------------
(* Forms.                                                                    *)

(* Encoded text has no separator in it.                                      *)
LEMMA LacksOther ==
  ASSUME NEW V, NEW s \in Seq(V), NEW x, x \notin V
  PROVE  Lacks(s, x)
BY DEF Lacks

LEMMA Signs == /\ Ampersand \notin Unreserved \cup {Equals} /\ Equals \notin Unreserved
               /\ Ampersand \in Int /\ Equals \in Int
BY DEF Ampersand, Equals, Unreserved, Alnum, Plus, Percent

(* An encoded field is one pair, which splitn(2, '=') separates into its key *)
(* and its value.                                                            *)
FieldIs(f, p) ==
  /\ p \in Seq(Int) /\ Lacks(p, Ampersand) /\ HasEquals(p)
  /\ Key(p) = EncodeText(f.key) /\ ValueOf(p) = EncodeText(f.value)

LEMMA FieldShape ==
  \A f \in Input : FieldIs(f, EncodeField(f))
<1>EncodedText.
      ASSUME NEW t \in Seq(CodePoint)
      PROVE  EncodeText(t) \in Seq(Int) /\ EncodeText(t) \in Seq(Unreserved) /\ Lacks(EncodeText(t), Equals)
  BY TextsRoundTrip, IntCodes, UnreservedInt, LacksOther, Signs, Zenon
<1>FieldShape.
      ASSUME NEW f \in Input
      PROVE  FieldIs(f, EncodeField(f))
  <2> DEFINE a == EncodeText(f.key)
             b == EncodeText(f.value)
             p == EncodeField(f)
             r == a \o (<<Equals>> \o b)
  <2>0. f.key \in Seq(CodePoint) /\ f.value \in Seq(CodePoint)
    BY Zenon DEF Input
  <2>1. /\ a \in Seq(Int) /\ a \in Seq(Unreserved) /\ Lacks(a, Equals)
        /\ b \in Seq(Int) /\ b \in Seq(Unreserved)
    BY <2>0, <1>EncodedText, Zenon
  <2>2. p = (a \o <<Equals>>) \o b
    BY Zenon DEF EncodeField
  <2> HIDE DEF a, b, p
  <2>3. <<Equals>> \in Seq(Int) /\ Len(<<Equals>>) = 1
    BY Signs
  <2>4. p = r
    <3>1. Regroups(a, <<Equals>>, b)
      BY <2>1, <2>3, Associative, Zenon
    <3> QED
      BY <2>2, <3>1, Zenon DEF Regroups
  <2>5. /\ Until(r, Equals, 1) = Len(a) + 1
        /\ r \in Seq(Int)
        /\ SubSeq(r, 1, Len(a)) = a
        /\ SubSeq(r, Len(a) + 2, Len(r)) = b
    BY <2>1, Signs, UntilFirst
  <2>6. Lacks(p, Ampersand)
    <3> DEFINE V == Unreserved \cup {Equals}
    <3>1. a \in Seq(V) /\ b \in Seq(V) /\ <<Equals>> \in Seq(V)
      <4>1. \A s : s \in Seq(Unreserved) => s \in Seq(V)
        <5> SUFFICES ASSUME NEW s \in Seq(Unreserved) PROVE s \in Seq(V)
          BY Zenon
        <5>1. Len(s) \in Nat /\ s = [k \in 1..Len(s) |-> s[k]] /\ \A k \in 1..Len(s) : s[k] \in Unreserved
          OBVIOUS
        <5>2. \A k \in 1..Len(s) : s[k] \in V
          BY <5>1, Zenon
        <5> QED
          BY <5>1, <5>2, SeqOf, Zenon
      <4>2. <<Equals>> \in Seq(V)
        OBVIOUS
      <4> QED
        BY <2>1, <4>1, <4>2, Zenon
    <3> HIDE DEF V
    <3>2. a \o <<Equals>> \in Seq(V)
      BY <3>1, Concat, Zenon DEF Concatenates
    <3>3. p \in Seq(V)
      BY <2>2, <3>1, <3>2, Concat, Zenon DEF Concatenates
    <3>4. Ampersand \notin V
      BY Signs, Zenon DEF V
    <3> QED
      BY <3>3, <3>4, LacksOther, Zenon
  <2> HIDE DEF r
  <2>7. Len(a) \in Nat /\ (Len(a) + 1) - 1 = Len(a) /\ (Len(a) + 1) + 1 = Len(a) + 2
    BY <2>1
  <2>8. Key(p) = a /\ ValueOf(p) = b
    BY <2>4, <2>5, <2>7, Zenon DEF Key, ValueOf
  <2>9. HasEquals(p)
    <3>1. Ends(r, Equals, 1, Len(a) + 1)
      <4>1. 1 \in 1..(Len(r) + 1)
        BY <2>5
      <4> QED
        BY <2>5, <4>1, UntilEnds, Zenon
    <3>2. Len(r) = Len(a) + 1 + Len(b) /\ Len(b) \in Nat
      <4> DEFINE c == <<Equals>> \o b
      <4>1. Concatenates(Int, <<Equals>>, b, c)
        BY <2>1, <2>3, Concat, Zenon
      <4>2. Concatenates(Int, a, c, r)
        <5>1. c \in Seq(Int)
          BY <4>1, Zenon DEF Concatenates
        <5>2. r = a \o c
          BY Zenon DEF r
        <5> HIDE DEF c
        <5>3. Concatenates(Int, a, c, a \o c)
          BY <2>1, <5>1, Concat, Zenon
        <5> QED
          BY <5>2, <5>3, Zenon
      <4> HIDE DEF c
      <4> QED
        BY <2>3, <4>1, <4>2 DEF Concatenates
    <3>3. ~(Len(a) + 1 > Len(r)) /\ Len(a) + 1 \in DOMAIN r
      BY <2>5, <2>7, <3>2
    <3> QED
      BY <2>4, <3>1, <3>3, Zenon DEF HasEquals, Ends
  <2> QED
    BY <2>4, <2>5, <2>6, <2>8, <2>9, Zenon DEF FieldIs, a, b, p
<1> QED
  BY <1>FieldShape, Zenon

FieldEncoding == [f \in Input |-> EncodeField(f)]

AmpEncoding == [f \in Input |-> <<Ampersand>> \o EncodeField(f)]

SplitsInto(fs) ==
  \A a \in Seq(Int) : Lacks(a, Ampersand) =>
    Split(a \o Pieces(AmpEncoding, fs), Ampersand) = <<a>> \o Mapped(FieldEncoding, fs)

FormParts(fs) ==
  [k \in DOMAIN fs |-> (IF k = 1 THEN <<>> ELSE <<Ampersand>>) \o EncodeField(fs[k])]

(* What a field was given, if there is such a field.                         *)
Entered(fs, key) ==
  LET found == {n \in DOMAIN fs : fs[n].key = key}
  IN  IF found = {} THEN <<>> ELSE fs[Min(found)].value

Distinct(fs) == \A k, l \in DOMAIN fs : fs[k].key = fs[l].key => k = l

LEMMA MinMaxOfOne == \A n \in Int : Min({n}) = n /\ Max({n}) = n
BY DEF Min, Max

(* The handlers of a form read what was typed: the loops over the body of    *)
(* POST /ui/login and POST /ui/items (FormField, the last pair whose raw key *)
(* is the one asked for) and form_param (the first pair whose decoded key    *)
(* is) both return the value of the field with that key, whatever the values *)
(* and the other fields are, and nothing when there is no such field.        *)
THEOREM FieldsRead ==
  \A fs \in Seq(Input), c \in Alnum :
    Distinct(fs) =>
      /\ FormField(EncodeForm(fs), <<c>>) = Entered(fs, <<c>>)
      /\ UnwrapOrDefault(FormParam(EncodeForm(fs), <<c>>)) = Entered(fs, <<c>>)
<1>FieldEncodingType.
      FieldEncoding \in [Input -> Seq(Int)] /\ AmpEncoding \in [Input -> Seq(Int)]
  <2>1. \A f \in Input : EncodeField(f) \in Seq(Int)
    BY FieldShape, Zenon DEF FieldIs
  <2>2. <<Ampersand>> \in Seq(Int)
    BY Signs
  <2>3. \A f \in Input : <<Ampersand>> \o EncodeField(f) \in Seq(Int)
    BY <2>1, <2>2, Concat, Zenon DEF Concatenates
  <2> QED
    BY <2>1, <2>3, Zenon DEF FieldEncoding, AmpEncoding
<1>SplitFields.
      \A fs \in Seq(Input) : SplitsInto(fs)
  <2> DEFINE S == {fs \in Seq(Input) : SplitsInto(fs)}
  <2>1. <<>> \in S
    <3>1. Mapped(FieldEncoding, <<>>) = <<>> /\ <<>> \in Seq(Input)
      BY DEF Mapped
    <3>2. Pieces(AmpEncoding, <<>>) = <<>>
      BY PiecesEmpty, Zenon
    <3>3. ASSUME NEW a \in Seq(Int), Lacks(a, Ampersand)
          PROVE  Split(a \o <<>>, Ampersand) = <<a>> \o <<>>
      <4>1. a \o <<>> = a /\ <<a>> \o <<>> = <<a>>
        OBVIOUS
      <4>2. Split(a, Ampersand) = <<a>>
        BY <3>3, SplitsAtSeparators, Zenon
      <4> QED
        BY <4>1, <4>2, Zenon
    <3>4. SplitsInto(<<>>)
      BY <3>1, <3>2, <3>3, Zenon DEF SplitsInto
    <3> QED
      BY <3>1, <3>4, Zenon
  <2>2. ASSUME NEW f \in Input, NEW fs \in Seq(Input), fs \in S
        PROVE  <<f>> \o fs \in S
    <3> DEFINE e == EncodeField(f)
               g == Pieces(AmpEncoding, fs)
               m == Mapped(FieldEncoding, fs)
               u == <<f>> \o fs
    <3>1. SplitsInto(fs) /\ u \in Seq(Input)
      BY <2>2
    <3>2. FieldIs(f, e)
      BY FieldShape, Zenon
    <3>3. FieldEncoding \in [Input -> Seq(Int)] /\ AmpEncoding \in [Input -> Seq(Int)]
      BY <1>FieldEncodingType, Zenon
    <3>4. MapFirst(FieldEncoding, f, fs) /\ PieceFirst(Int, AmpEncoding, f, fs)
      BY <3>3, MappedFirst, PiecesFirst, Zenon
    <3>5. FieldEncoding[f] = e /\ AmpEncoding[f] = <<Ampersand>> \o e
      BY Zenon DEF FieldEncoding, AmpEncoding
    <3>6. Mapped(FieldEncoding, u) = <<e>> \o m /\ g \in Seq(Int)
      BY <3>4, <3>5, Zenon DEF MapFirst, PieceFirst
    <3>7. Pieces(AmpEncoding, u) = (<<Ampersand>> \o e) \o g
      BY <3>4, <3>5, Zenon DEF PieceFirst
    <3>8. e \in Seq(Int) /\ Lacks(e, Ampersand)
      BY <3>2, Zenon DEF FieldIs
    <3> HIDE DEF e, g, u, m
    <3>9. (<<Ampersand>> \o e) \o g = <<Ampersand>> \o (e \o g) /\ e \o g \in Seq(Int)
      <4>1. <<Ampersand>> \in Seq(Int)
        BY Signs
      <4>2. Regroups(<<Ampersand>>, e, g)
        BY <3>6, <3>8, <4>1, Associative, Zenon
      <4>4. e \o g \in Seq(Int)
        BY <3>6, <3>8, Concat, Zenon DEF Concatenates
      <4> QED
        BY <4>2, <4>4, Zenon DEF Regroups
    <3>10. Split(e \o g, Ampersand) = <<e>> \o m
      BY <3>1, <3>8, Zenon DEF SplitsInto, g, m
    <3>11. ASSUME NEW a \in Seq(Int), Lacks(a, Ampersand)
           PROVE  Split(a \o (<<Ampersand>> \o (e \o g)), Ampersand) = <<a>> \o (<<e>> \o m)
      <4>1. Split(a \o (<<Ampersand>> \o (e \o g)), Ampersand) = <<a>> \o Split(e \o g, Ampersand)
        BY <3>9, <3>11, Signs, SplitsAtSeparators, Zenon
      <4> QED
        BY <3>10, <4>1, Zenon
    <3>12. SplitsInto(u)
      BY <3>6, <3>7, <3>9, <3>11, Zenon DEF SplitsInto
    <3> QED
      BY <3>1, <3>12, Zenon DEF u
  <2>3. \A fs \in Seq(Input) : fs \in S
    <3> HIDE DEF S
    <3> QED BY <2>1, <2>2, TextInduction
  <2> QED
    BY <2>3, Zenon
<1>FormFirst.
      ASSUME NEW f \in Input, NEW fs \in Seq(Input)
      PROVE  EncodeForm(<<f>> \o fs) = EncodeField(f) \o Pieces(AmpEncoding, fs)
  <2> DEFINE u == <<f>> \o fs
             m == Mapped(AmpEncoding, fs)
             l == FormParts(u)
             e == EncodeField(f)
             r == <<e>> \o m
             N == Len(fs)
  <2>1. /\ u \in Seq(Input) /\ Len(u) = 1 + N /\ DOMAIN u = 1..(1 + N) /\ u[1] = f /\ N \in Nat
        /\ \A n \in 1..N : u[1 + n] = fs[n]
    OBVIOUS
  <2>2. e \in Seq(Int) /\ AmpEncoding \in [Input -> Seq(Int)] /\ FieldEncoding \in [Input -> Seq(Int)]
    <3>1. FieldIs(f, e)
      BY FieldShape, Zenon
    <3> QED
      BY <3>1, <1>FieldEncodingType, Zenon DEF FieldIs
  <2>3. Maps(Int, AmpEncoding, fs, m)
    BY <2>2, MappedShape, Zenon
  <2>4. \A n \in 1..N : fs[n] \in Input
    OBVIOUS
  <2> HIDE DEF u, l, e, m, N
  <2>5. m \in Seq(Seq(Int)) /\ Len(m) = N /\ \A n \in 1..N : m[n] = <<Ampersand>> \o EncodeField(fs[n])
    BY <2>3, <2>4, Zenon DEF Maps, AmpEncoding, N
  <2>6. l[1] = e /\ \A n \in 1..N : l[1 + n] = m[n]
    <3>1. l[1] = <<>> \o EncodeField(u[1])
      <4>1. 1 \in DOMAIN u
        BY <2>1
      <4> QED
        BY <4>1, Zenon DEF l, FormParts
    <3>2. <<>> \o e = e
      BY <2>2
    <3>3. ASSUME NEW n \in 1..N PROVE l[1 + n] = m[n]
      <4>1. 1 + n \in DOMAIN u /\ 1 + n # 1
        BY <2>1
      <4>2. l[1 + n] = <<Ampersand>> \o EncodeField(u[1 + n])
        BY <4>1, Zenon DEF l, FormParts
      <4> QED
        BY <2>1, <2>5, <4>2, Zenon
    <3> QED
      BY <2>1, <3>1, <3>2, <3>3, Zenon DEF e
  <2>7. PICK x \in Seq(Int) : x = e
    BY <2>2, Zenon
  <2>8. <<x>> \in Seq(Seq(Int)) /\ Len(<<x>>) = 1 /\ <<x>>[1] = x
    OBVIOUS
  <2>9. Concatenates(Seq(Int), <<x>>, m, <<x>> \o m)
    BY <2>5, <2>8, Concat, Zenon
  <2>10. /\ r \in Seq(Seq(Int)) /\ Len(r) = 1 + N
         /\ \A n \in 1..1 : r[n] = <<x>>[n]
         /\ \A n \in 1..N : r[1 + n] = m[n]
    BY <2>5, <2>7, <2>8, <2>9, Zenon DEF Concatenates
  <2> HIDE DEF r
  <2>11. r[1] = e
    BY <2>7, <2>8, <2>10
  <2>12. ASSUME NEW k \in 1..(1 + N) PROVE l[k] = r[k]
    <3>1. CASE k = 1
      BY <2>6, <2>11, <3>1, Zenon
    <3>2. CASE k # 1
      <4> DEFINE n == k - 1
      <4>1. n \in 1..N /\ k = 1 + n
        BY <2>1, <3>2
      <4> HIDE DEF n
      <4>2. l[1 + n] = r[1 + n]
        BY <2>6, <2>10, <4>1, Zenon
      <4> QED
        BY <4>1, <4>2, Zenon
    <3> QED
      BY <3>1, <3>2, Zenon
  <2>13. l = [k \in 1..(1 + N) |-> l[k]]
    BY <2>1, Zenon DEF l, FormParts
  <2>14. r = [k \in 1..(1 + N) |-> r[k]]
    BY <2>1, <2>10
  <2>15. l = r
    BY <2>12, <2>13, <2>14, Zenon
  <2>16. Joined(m) \in Seq(Int) /\ Joined(<<x>> \o m) = x \o Joined(m)
    BY <2>5, JoinedFirst, Zenon
  <2>17. EncodeForm(u) = Joined(l)
    BY Zenon DEF EncodeForm, FormParts, l
  <2> QED
    BY <2>7, <2>15, <2>16, <2>17, Zenon DEF Pieces, m, r, u, e
<1>SplitForm.
      ASSUME NEW fs \in Seq(Input), fs # <<>>
      PROVE  Split(EncodeForm(fs), Ampersand) = Mapped(FieldEncoding, fs)
  <2> USE <1>SplitForm
  <2> DEFINE N == Len(fs)
             f == fs[1]
             gs == [k \in 1..(N - 1) |-> fs[k + 1]]
             e == EncodeField(f)
  <2>1. f \in Input /\ gs \in Seq(Input) /\ fs = <<f>> \o gs
    OBVIOUS
  <2> HIDE DEF f, gs, N
  <2>2. EncodeForm(fs) = e \o Pieces(AmpEncoding, gs)
    BY <2>1, <1>FormFirst, Zenon
  <2>3. FieldIs(f, e)
    BY <2>1, FieldShape, Zenon
  <2>4. e \in Seq(Int) /\ Lacks(e, Ampersand)
    BY <2>3, Zenon DEF FieldIs
  <2>5. SplitsInto(gs)
    BY <2>1, <1>SplitFields, Zenon
  <2>6. Split(EncodeForm(fs), Ampersand) = <<e>> \o Mapped(FieldEncoding, gs)
    BY <2>2, <2>4, <2>5, Zenon DEF SplitsInto
  <2>7. FieldEncoding \in [Input -> Seq(Int)]
    BY <1>FieldEncodingType, Zenon
  <2>8. MapFirst(FieldEncoding, f, gs)
    BY <2>1, <2>7, MappedFirst, Zenon
  <2>9. FieldEncoding[f] = e
    BY <2>1, Zenon DEF FieldEncoding
  <2> QED
    BY <2>1, <2>6, <2>8, <2>9, Zenon DEF MapFirst
<1>SplitNoForm.
      Split(EncodeForm(<<>>), Ampersand) = << <<>> >>
  <2>1. EncodeForm(<<>>) = <<>>
    <3>1. FormParts(<<>>) = <<>>
      BY DEF FormParts
    <3> QED
      BY <3>1, JoinedEmpty, Zenon DEF EncodeForm, FormParts
  <2>2. <<>> \in Seq(Int) /\ Lacks(<<>>, Ampersand)
    BY DEF Lacks
  <2> QED
    BY <2>1, <2>2, SplitsAtSeparators, Zenon
<1>OnlyElement.
      ASSUME NEW V, NEW s \in Seq(V), Len(s) = 1
      PROVE  s[1] \in V
  BY <1>OnlyElement
(* The fields a handler asks for, in both ways of asking.                    *)
<1>FieldsRead.
      ASSUME NEW fs \in Seq(Input), Distinct(fs), NEW c \in Alnum
      PROVE  /\ FormField(EncodeForm(fs), <<c>>) = Entered(fs, <<c>>)
             /\ UnwrapOrDefault(FormParam(EncodeForm(fs), <<c>>)) = Entered(fs, <<c>>)
  <2> USE <1>FieldsRead
  <2> DEFINE key == <<c>>
             pairs == Split(EncodeForm(fs), Ampersand)
             raw == {n \in DOMAIN pairs : HasEquals(pairs[n]) /\ Key(pairs[n]) = key}
             dec == {n \in DOMAIN pairs : PercentDecode(Key(pairs[n])) = key}
             own == {n \in DOMAIN fs : fs[n].key = key}
  <2>1. key \in Seq(CodePoint) /\ EncodeText(key) = key /\ PercentDecode(key) = key
    BY TextsRoundTrip, Zenon
  <2>2. CASE fs = <<>>
    <3>1. pairs = << <<>> >>
      BY <2>2, <1>SplitNoForm, Zenon
    <3> HIDE DEF pairs
    <3>2. DOMAIN pairs = {1} /\ pairs[1] = <<>>
      BY <3>1
    <3>3. ~ HasEquals(<<>>)
      BY DEF HasEquals
    <3>4. Key(<<>>) = <<>>
      <4>1. <<>> \in Seq(Int) /\ Ends(<<>>, Equals, 1, 1) /\ 1 \in 1..(Len(<<>>) + 1)
        BY DEF Ends
      <4>2. Until(<<>>, Equals, 1) = 1
        BY <4>1, EndsOnce, Zenon
      <4>3. SubSeq(<<>>, 1, 1 - 1) = <<>>
        OBVIOUS
      <4> QED
        BY <4>2, <4>3, Zenon DEF Key
    <3>5. PercentDecode(<<>>) = <<>> /\ key # <<>>
      <4>1. PercentDecode(<<>>) = <<>>
        BY TextsRoundTrip, Zenon DEF PercentDecode
      <4> QED
        BY <4>1, Zenon
    <3>6. raw = {} /\ dec = {}
      BY <3>2, <3>3, <3>4, <3>5, Zenon
    <3>7. own = {}
      BY <2>2
    <3>8. FormField(EncodeForm(fs), key) = <<>> /\ FormParam(EncodeForm(fs), key) = None
      BY <3>6, Zenon DEF FormField, FormParam, pairs
    <3> QED
      BY <3>7, <3>8, Zenon DEF Entered, UnwrapOrDefault
  <2>3. CASE fs # <<>>
    <3>1. Maps(Int, FieldEncoding, fs, pairs)
      <4>1. FieldEncoding \in [Input -> Seq(Int)]
        BY <1>FieldEncodingType, Zenon
      <4>2. pairs = Mapped(FieldEncoding, fs)
        BY <2>3, <1>SplitForm, Zenon
      <4>3. Maps(Int, FieldEncoding, fs, Mapped(FieldEncoding, fs))
        BY <4>1, MappedShape, Zenon
      <4> HIDE DEF pairs
      <4> QED
        BY <4>2, <4>3, Zenon
    <3> HIDE DEF pairs, key
    <3>2. DOMAIN pairs = DOMAIN fs /\ DOMAIN fs = 1..Len(fs) /\ \A n \in DOMAIN fs : fs[n] \in Input /\ n \in Int
      BY <3>1 DEF Maps
    <3>3. ASSUME NEW n \in DOMAIN fs
          PROVE  /\ HasEquals(pairs[n])
                 /\ Key(pairs[n]) = EncodeText(fs[n].key)
                 /\ PercentDecode(Key(pairs[n])) = fs[n].key
                 /\ PercentDecode(ValueOf(pairs[n])) = fs[n].value
                 /\ Key(pairs[n]) = key <=> fs[n].key = key
                 /\ fs[n].value # None
      <4>1. pairs[n] = EncodeField(fs[n])
        <5>1. pairs[n] = FieldEncoding[fs[n]]
          BY <3>1, <3>2, Zenon DEF Maps
        <5> QED
          BY <3>2, <5>1, Zenon DEF FieldEncoding
      <4>2. FieldIs(fs[n], pairs[n])
        BY <3>2, <4>1, FieldShape, Zenon
      <4>3. fs[n].key \in Seq(CodePoint) /\ fs[n].value \in Seq(CodePoint)
        BY <3>2, Zenon DEF Input
      <4>4. PercentDecode(EncodeText(fs[n].key)) = fs[n].key /\ PercentDecode(EncodeText(fs[n].value)) = fs[n].value
        BY <4>3, TextsRoundTrip, Zenon
      <4>5. EncodeText(fs[n].key) = key <=> fs[n].key = key
        BY <2>1, <4>4, Zenon
      <4>6. fs[n].value # None
        <5>1. None \notin Seq(CodePoint)
          <6>1. -1 \notin CodePoint
            BY DEF CodePoint
          <6>2. \A s \in Seq(CodePoint) : Len(s) = 1 => s[1] \in CodePoint
            BY <1>OnlyElement, Zenon
          <6>3. None[1] = -1 /\ Len(None) = 1
            BY Zenon DEF None
          <6> QED
            BY <6>1, <6>2, <6>3, Zenon
        <5> QED
          BY <4>3, <5>1, Zenon
      <4> QED
        BY <4>2, <4>4, <4>5, <4>6, Zenon DEF FieldIs
    <3>4. raw = own /\ dec = own
      BY <3>2, <3>3, Zenon
    <3>5. CASE own = {}
      <4>1. FormField(EncodeForm(fs), key) = <<>> /\ FormParam(EncodeForm(fs), key) = None
        BY <3>4, <3>5, Zenon DEF FormField, FormParam, pairs
      <4> QED
        BY <3>5, <4>1, Zenon DEF Entered, UnwrapOrDefault, key
    <3>6. CASE own # {}
      <4>1. PICK m \in DOMAIN fs : fs[m].key = key
        BY <3>6, Zenon
      <4>2. own = {m}
        BY <4>1, Zenon DEF Distinct
      <4>3. Min(own) = m /\ Max(own) = m
        BY <3>2, <4>2, MinMaxOfOne, Zenon
      <4>4. FormField(EncodeForm(fs), key) = PercentDecode(ValueOf(pairs[m]))
        BY <3>4, <3>6, <4>3, Zenon DEF FormField, pairs
      <4>5. FormParam(EncodeForm(fs), key) = PercentDecode(ValueOf(pairs[m]))
        BY <3>4, <3>6, <4>3, Zenon DEF FormParam, pairs
      <4>6. Entered(fs, key) = fs[m].value
        BY <3>6, <4>3, Zenon DEF Entered
      <4>7. PercentDecode(ValueOf(pairs[m])) = fs[m].value /\ fs[m].value # None
        BY <3>3, Zenon
      <4> QED
        BY <4>4, <4>5, <4>6, <4>7, Zenon DEF UnwrapOrDefault, key
    <3> QED
      BY <3>5, <3>6, Zenon
  <2> QED
    BY <2>2, <2>3, Zenon
<1> QED
  BY <1>FieldsRead, Zenon

-------------------------------------------------------------------------------
(* percent_decode against the reference: escapes cannot overlap.             *)

Starts(s) == {k \in DOMAIN s : /\ s[k] = Percent /\ k + 2 <= Len(s)
                               /\ HexValue(s[k + 1]) >= 0 /\ HexValue(s[k + 2]) >= 0}

Inside(s) == {k + 1 : k \in Starts(s)} \cup {k + 2 : k \in Starts(s)}

ByteAt(s, k) == IF k \in Starts(s) THEN HexValue(s[k + 1]) * 16 + HexValue(s[k + 2])
                ELSE IF s[k] = Plus THEN Space ELSE s[k]

DecodedParts(s) == [k \in DOMAIN s |-> IF k \in Inside(s) THEN <<>> ELSE <<ByteAt(s, k)>>]

(* What both do at a position.                                               *)
SamePart(s, t, k) ==
  /\ k \notin Inside(s) => DecodedParts(s)[k] = DecodeParts(t)[k]
  /\ k \in Inside(s) => DecodedParts(s)[k] = <<>>
  /\ DecodeNext(t)[k] = IF k \in Starts(s) THEN k + 3 ELSE k + 1

(* The loop of percent_decode decodes exactly what its comment says, "valid  *)
(* `%HH` hex sequences into their byte values", for every text, well-formed  *)
(* or not: escapes cannot overlap, so that the loop from left to right finds *)
(* all of them.                                                              *)
THEOREM DecodesEscapes ==
  \A s \in Seq(Int) : DecodeBytes(Spaced(s)) = DecodedBytes(s)
<1>HexSpaced.
      \A b, c \in Int : c = (IF b = Plus THEN Space ELSE b) =>
        /\ HexValue(c) = HexValue(b) /\ (c = Percent <=> b = Percent)
  BY DEF HexValue, Plus, Space, Percent
<1>HexNotPercent.
      \A b \in Int : HexValue(b) \in Int /\ (HexValue(b) >= 0 => b # Percent)
  BY DEF HexValue, Percent
<1>StartsShape.
      ASSUME NEW s \in Seq(Int)
      PROVE  /\ \A k \in Starts(s) : k \in 1..Len(s) /\ k + 2 \in 1..Len(s)
             /\ \A k \in Int : k \in Inside(s) <=> (k - 1 \in Starts(s) \/ k - 2 \in Starts(s))
             /\ \A k \in Starts(s) : k + 1 \in Inside(s) /\ k + 2 \in Inside(s) /\ k + 3 \notin Inside(s)
             /\ \A k \in Int : k \notin Inside(s) /\ k \notin Starts(s) => k + 1 \notin Inside(s)
  <2>1. Len(s) \in Nat /\ DOMAIN s = 1..Len(s) /\ \A k \in 1..Len(s) : s[k] \in Int
    OBVIOUS
  <2>2. \A k \in Starts(s) : k \in 1..Len(s) /\ k + 2 <= Len(s)
    BY <2>1, Zenon DEF Starts
  <2>3. \A k \in Starts(s) : k \in Int /\ k + 1 \in 1..Len(s) /\ k + 2 \in 1..Len(s)
    BY <2>1, <2>2
  <2>4. \A k \in Int : k \in Inside(s) <=> (k - 1 \in Starts(s) \/ k - 2 \in Starts(s))
    <3> SUFFICES ASSUME NEW k \in Int PROVE k \in Inside(s) <=> (k - 1 \in Starts(s) \/ k - 2 \in Starts(s))
      BY Zenon
    <3>1. \A pre \in Int : (k = pre + 1 <=> pre = k - 1) /\ (k = pre + 2 <=> pre = k - 2)
      OBVIOUS
    <3>2. (k - 1) + 1 = k /\ (k - 2) + 2 = k
      OBVIOUS
    <3> QED
      BY <2>3, <3>1, <3>2, Zenon DEF Inside
  <2>5. \A k \in Starts(s) : s[k] = Percent /\ s[k + 1] # Percent /\ s[k + 2] # Percent
    <3>1. \A b \in Int : HexValue(b) >= 0 => b # Percent
      BY <1>HexNotPercent, Zenon
    <3> QED
      BY <2>1, <2>3, <3>1, Zenon DEF Starts
  <2>6. ASSUME NEW k \in Starts(s)
        PROVE  k + 1 \in Inside(s) /\ k + 2 \in Inside(s) /\ k + 3 \notin Inside(s)
    <3>1. /\ k + 1 \in Int /\ k + 2 \in Int /\ k + 3 \in Int /\ (k + 1) - 1 = k /\ (k + 2) - 2 = k
          /\ (k + 3) - 1 = k + 2 /\ (k + 3) - 2 = k + 1
      <4>1. k \in Int
        BY <2>3, Zenon
      <4> QED
        BY <4>1
    <3> QED
      BY <2>4, <2>5, <3>1, Zenon
  <2>7. ASSUME NEW k \in Int, k \notin Inside(s), k \notin Starts(s)
        PROVE  k + 1 \notin Inside(s)
    <3>1. k + 1 \in Int /\ (k + 1) - 1 = k /\ (k + 1) - 2 = k - 1
      OBVIOUS
    <3> QED
      BY <2>4, <2>7, <3>1, Zenon
  <2> QED
    BY <2>2, <2>3, <2>4, <2>6, <2>7, Zenon
<1>SameParts.
      ASSUME NEW s \in Seq(Int), NEW k \in 1..Len(s)
      PROVE  SamePart(s, Spaced(s), k)
  <2> DEFINE t == Spaced(s)
             N == Len(s)
  <2>1. N \in Nat /\ DOMAIN s = 1..N /\ \A pos \in 1..N : s[pos] \in Int
    OBVIOUS
  <2>2. t \in Seq(Int) /\ Len(t) = N /\ \A pos \in 1..N : t[pos] = IF s[pos] = Plus THEN Space ELSE s[pos]
    BY SpacedShape, Zenon
  <2>3. DOMAIN t = 1..N /\ \A pos \in 1..N : t[pos] \in Int
    BY <2>2
  <2> HIDE DEF t, N
  <2>4. \A pos \in 1..N : HexValue(t[pos]) = HexValue(s[pos]) /\ (t[pos] = Percent <=> s[pos] = Percent)
    BY <2>1, <2>2, <2>3, <1>HexSpaced, Zenon
  <2>5. k \in 1..N /\ (k + 2 <= N => k + 1 \in 1..N /\ k + 2 \in 1..N)
    BY <2>1 DEF N
  <2>6. k \in Starts(s) <=> Escaped(t, k)
    BY <2>1, <2>2, <2>4, <2>5, Zenon DEF Starts, Escaped, N
  <2>7. k \in Starts(s) => HexValue(t[k + 1]) = HexValue(s[k + 1]) /\ HexValue(t[k + 2]) = HexValue(s[k + 2])
    BY <2>4, <2>5, Zenon DEF Starts, N
  <2>8. DecodeParts(t)[k] = <<IF Escaped(t, k) THEN HexValue(t[k + 1]) * 16 + HexValue(t[k + 2]) ELSE t[k]>>
    BY <2>3, <2>5, Zenon DEF DecodeParts
  <2>9. DecodeNext(t)[k] = IF Escaped(t, k) THEN k + 3 ELSE k + 1
    BY <2>3, <2>5, Zenon DEF DecodeNext
  <2>10. DecodedParts(s)[k] = IF k \in Inside(s) THEN <<>> ELSE <<ByteAt(s, k)>>
    BY <2>1, <2>5, Zenon DEF DecodedParts
  <2>11. ByteAt(s, k) = IF Escaped(t, k) THEN HexValue(t[k + 1]) * 16 + HexValue(t[k + 2]) ELSE t[k]
    BY <2>2, <2>5, <2>6, <2>7, Zenon DEF ByteAt
  <2>12. SamePart(s, t, k)
    BY <2>6, <2>8, <2>9, <2>10, <2>11, Zenon DEF SamePart
  <2> QED
    BY <2>12, Zenon DEF t
<1>DecodedForward.
      ASSUME NEW s \in Seq(Int), NEW next, next = [k \in DOMAIN s |-> k + 1]
      PROVE  /\ Forward(Int, DecodedParts(s), next) /\ Len(DecodedParts(s)) = Len(s)
             /\ DOMAIN DecodedParts(s) = DOMAIN s
  <2> USE <1>DecodedForward
  <2> DEFINE N == Len(s)
             p == DecodedParts(s)
  <2>1. N \in Nat /\ DOMAIN s = 1..N /\ \A pos \in 1..N : s[pos] \in Int
    OBVIOUS
  <2> HIDE DEF N
  <2>2. \A k \in 1..N : ByteAt(s, k) \in Int
    <3> SUFFICES ASSUME NEW k \in 1..N PROVE ByteAt(s, k) \in Int
      BY Zenon
    <3>1. CASE k \in Starts(s)
      <4>1. k + 1 \in 1..N /\ k + 2 \in 1..N
        <5>1. k + 2 <= N
          BY <3>1, Zenon DEF Starts, N
        <5> QED
          BY <2>1, <5>1
      <4>2. HexValue(s[k + 1]) \in Int /\ HexValue(s[k + 2]) \in Int
        <5>1. \A b \in Int : HexValue(b) \in Int
          BY <1>HexNotPercent, Zenon
        <5> QED
          BY <2>1, <4>1, <5>1, Zenon
      <4>3. HexValue(s[k + 1]) * 16 + HexValue(s[k + 2]) \in Int
        BY <4>2
      <4> QED
        BY <3>1, <4>3, Zenon DEF ByteAt
    <3>2. CASE k \notin Starts(s)
      <4>1. s[k] \in Int /\ Space \in Int
        BY <2>1 DEF Space
      <4> QED
        BY <3>2, <4>1, Zenon DEF ByteAt
    <3> QED
      BY <3>1, <3>2, Zenon
  <2>3. \A k \in 1..N : <<ByteAt(s, k)>> \in Seq(Int) /\ <<>> \in Seq(Int)
    BY <2>2
  <2>4. \A k \in 1..N : p[k] \in Seq(Int)
    BY <2>1, <2>3, Zenon DEF DecodedParts
  <2>5. p = [k \in 1..N |-> p[k]] /\ DOMAIN p = DOMAIN s
    BY <2>1, Zenon DEF DecodedParts
  <2> HIDE DEF p
  <2>6. p \in Seq(Seq(Int)) /\ Len(p) = N
    BY <2>1, <2>4, <2>5, SeqOf, Zenon
  <2>7. \A k \in 1..N : next[k] \in (k + 1)..(N + 1)
    BY <2>1
  <2> QED
    BY <2>5, <2>6, <2>7, Zenon DEF Forward, p, N
<1>DecodesEscapes.
      ASSUME NEW s \in Seq(Int)
      PROVE  DecodeBytes(Spaced(s)) = DecodedBytes(s)
  <2> DEFINE t == Spaced(s)
             N == Len(s)
             P == DecodeParts(t)
             X == DecodeNext(t)
             R == DecodedParts(s)
             Y == [k \in DOMAIN s |-> k + 1]
             F == From(P, X)
             J == From(R, Y)
             S == {n \in 1..(N + 1) : n \notin Inside(s) => F[n] = J[n]}
  <2>1. N \in Nat /\ DOMAIN s = 1..N
    OBVIOUS
  <2>2. t \in Seq(Int) /\ Len(t) = N
    BY SpacedShape, Zenon
  <2> HIDE DEF t
  <2>3. Unfolds(Int, P, X) /\ Len(P) = N
    BY <2>2, DecodeForward, FromUnfolds, Zenon
  <2>4. Unfolds(Int, R, Y) /\ Len(R) = N /\ DOMAIN R = DOMAIN s
    <3> HIDE DEF Y
    <3>1. Y = [k \in DOMAIN s |-> k + 1]
      BY Zenon DEF Y
    <3>2. Forward(Int, R, Y) /\ Len(R) = N /\ DOMAIN R = DOMAIN s
      BY <3>1, <1>DecodedForward, Zenon
    <3> QED
      BY <3>2, FromUnfolds, Zenon
  <2>5. \A k \in 1..N : Y[k] = k + 1
    BY <2>1, Zenon
  <2> HIDE DEF P, X, R, Y, F, J, N
  <2>6. /\ \A n \in 1..N : F[n] = P[n] \o F[X[n]]
        /\ \A n \in 1..N : J[n] = R[n] \o J[Y[n]]
        /\ \A n \in 1..(N + 1) : F[n] \in Seq(Int) /\ J[n] \in Seq(Int)
        /\ F[N + 1] = <<>> /\ J[N + 1] = <<>>
    BY <2>3, <2>4, Zenon DEF Unfolds, F, J
  <2>7. \A n \in 1..N : SamePart(s, t, n)
    BY <1>SameParts, Zenon DEF t, N
  <2>8. \A n \in 1..N : /\ n \notin Inside(s) => R[n] = P[n]
                        /\ n \in Inside(s) => R[n] = <<>>
                        /\ X[n] = IF n \in Starts(s) THEN n + 3 ELSE n + 1
    BY <2>7, Zenon DEF SamePart, R, P, X
  <2>9. /\ \A k \in Starts(s) : k \in 1..N /\ k + 2 \in 1..N
        /\ \A k \in Starts(s) : k + 1 \in Inside(s) /\ k + 2 \in Inside(s) /\ k + 3 \notin Inside(s)
        /\ \A k \in Int : k \notin Inside(s) /\ k \notin Starts(s) => k + 1 \notin Inside(s)
        /\ 1 \notin Inside(s)
    <3>1. 1 \notin Inside(s)
      <4>1. 1 - 1 \notin 1..Len(s) /\ 1 - 2 \notin 1..Len(s)
        OBVIOUS
      <4> QED
        BY <4>1, <1>StartsShape
    <3> QED
      BY <3>1, <1>StartsShape, Zenon DEF N
  <2>10. ASSUME NEW n \in 1..(N + 1), \A k \in (n + 1)..(N + 1) : k \in S
         PROVE  n \in S
    <3> SUFFICES ASSUME n \notin Inside(s) PROVE F[n] = J[n]
      BY Zenon
    <3>1. CASE n = N + 1
      BY <2>6, <3>1, Zenon
    <3>2. CASE n # N + 1 /\ n \in Starts(s)
      <4>1. n \in 1..N /\ n + 1 \in 1..N /\ n + 2 \in 1..N /\ n + 3 \in (n + 1)..(N + 1) /\ n + 3 \in 1..(N + 1)
        BY <2>1, <2>9, <3>2
      <4>2. (n + 1) + 1 = n + 2 /\ (n + 2) + 1 = n + 3
        BY <4>1
      <4>3. F[n + 3] = J[n + 3]
        BY <2>9, <2>10, <3>2, <4>1, Zenon
      <4>4. F[n] = P[n] \o F[n + 3]
        BY <2>6, <2>8, <3>2, <4>1, Zenon
      <4>5. J[n] = P[n] \o J[n + 1]
        BY <2>5, <2>6, <2>8, <4>1, Zenon
      <4>6. J[n + 1] = <<>> \o J[n + 2] /\ J[n + 2] = <<>> \o J[n + 3]
        <5>1. R[n + 1] = <<>> /\ R[n + 2] = <<>>
          BY <2>8, <2>9, <3>2, <4>1, Zenon
        <5>2. Y[n + 1] = n + 2 /\ Y[n + 2] = n + 3
          BY <2>5, <4>1, <4>2, Zenon
        <5> QED
          BY <2>6, <4>1, <5>1, <5>2, Zenon
      <4>7. \A u \in Seq(Int) : <<>> \o u = u
        OBVIOUS
      <4>8. J[n + 1] = J[n + 3]
        BY <2>6, <4>1, <4>6, <4>7, Zenon
      <4> QED
        BY <4>3, <4>4, <4>5, <4>8, Zenon
    <3>3. CASE n # N + 1 /\ n \notin Starts(s)
      <4>1. n \in 1..N /\ n \in Int /\ n + 1 \in (n + 1)..(N + 1)
        BY <2>1, <3>3
      <4>2. F[n + 1] = J[n + 1]
        BY <2>9, <2>10, <3>3, <4>1, Zenon
      <4>3. F[n] = P[n] \o F[n + 1]
        BY <2>6, <2>8, <3>3, <4>1, Zenon
      <4>4. J[n] = P[n] \o J[n + 1]
        BY <2>5, <2>6, <2>8, <4>1, Zenon
      <4> QED
        BY <4>2, <4>3, <4>4, Zenon
    <3> QED
      BY <3>1, <3>2, <3>3, Zenon
  <2>11. \A n \in 1..(N + 1) : n \in S
    <3> HIDE DEF S
    <3> QED BY <2>1, <2>10, Downward, Zenon
  <2>12. 1 \in 1..(N + 1)
    BY <2>1
  <2>13. F[1] = J[1]
    BY <2>9, <2>11, <2>12, Zenon
  <2>14. DecodeBytes(t) = F[1]
    BY Zenon DEF DecodeBytes, Walk, F, P, X, DecodeParts, DecodeNext
  <2>15. Joined(R) = J[1]
    BY <2>4, Zenon DEF Joined, Walk, J, Y
  <2>16. DecodedBytes(s) = Joined(R)
    BY Zenon DEF DecodedBytes, R, DecodedParts, Inside, Starts, ByteAt
  <2> QED
    BY <2>13, <2>14, <2>15, <2>16, Zenon DEF t
<1> QED
  BY <1>DecodesEscapes, Zenon

(* A query with one parameter.                                               *)
LEMMA QueryRead ==
  ASSUME NEW c \in Alnum, NEW q \in Seq(Int \ {Ampersand})
  PROVE  FormParam(<<c>> \o <<Equals>> \o q, <<c>>) = Utf8(DecodedBytes(q))
<1> DEFINE V == Int \ {Ampersand}
           a == <<c>>
           text == (a \o <<Equals>>) \o q
           pairs == Split(text, Ampersand)
           r == a \o (<<Equals>> \o q)
           found == {n \in DOMAIN pairs : PercentDecode(Key(pairs[n])) = a}
<1>1. c \in V /\ c \in Int /\ c # Equals /\ Equals \in V
  BY DEF Alnum, Equals, Ampersand
<1>2. a \in Seq(V) /\ <<Equals>> \in Seq(V) /\ a \in Seq(Int) /\ <<Equals>> \in Seq(Int) /\ Lacks(a, Equals) /\ Len(a) = 1
  <2>1. c \in Int /\ Equals \in Int
    BY <1>1, Zenon
  <2>2. Lacks(a, Equals)
    BY <1>1 DEF Lacks
  <2> HIDE DEF V
  <2> QED
    BY <1>1, <2>1, <2>2
<1>3. q \in Seq(Int)
  <2>1. V \in SUBSET Int
    BY Zenon
  <2> QED
    BY <2>1, IntCodes, Zenon
<1>4. PercentDecode(a) = a
  BY TextsRoundTrip, Zenon
<1>5. text = r
  <2>1. Regroups(a, <<Equals>>, q)
    BY <1>2, <1>3, Associative, Zenon
  <2> QED
    BY <2>1, Zenon DEF Regroups
<1>6. q \in Seq(V) /\ Ampersand \notin V
  BY Zenon
<1> HIDE DEF a, V
<1>7. Lacks(text, Ampersand)
  <2>1. a \o <<Equals>> \in Seq(V)
    BY <1>2, Concat, Zenon DEF Concatenates
  <2>2. text \in Seq(V)
    BY <2>1, <1>6, Concat, Zenon DEF Concatenates
  <2> QED
    BY <2>2, <1>6, LacksOther, Zenon
<1>8. /\ Until(r, Equals, 1) = Len(a) + 1
      /\ r \in Seq(Int)
      /\ SubSeq(r, 1, Len(a)) = a
      /\ SubSeq(r, Len(a) + 2, Len(r)) = q
  <2>1. Equals \in Int /\ a \in Seq(Int) /\ Lacks(a, Equals)
    BY <1>2, Signs, Zenon
  <2> QED
    BY <2>1, <1>3, UntilFirst
<1> HIDE DEF text, r
<1>9. Key(text) = a /\ ValueOf(text) = q
  <2>1. (Len(a) + 1) - 1 = Len(a) /\ (Len(a) + 1) + 1 = Len(a) + 2
    BY <1>2
  <2> QED
    BY <1>5, <1>8, <2>1, Zenon DEF Key, ValueOf
<1>10. pairs = <<text>>
  BY <1>5, <1>7, <1>8, SplitsAtSeparators, Zenon
<1> HIDE DEF pairs
<1>11. DOMAIN pairs = {1} /\ pairs[1] = text
  BY <1>10
<1>12. found = {1}
  BY <1>4, <1>9, <1>11, Zenon
<1>13. Min(found) = 1
  BY <1>12, MinMaxOfOne
<1>14. FormParam(text, a) = PercentDecode(ValueOf(pairs[1]))
  <2>1. found # {}
    BY <1>12, Zenon
  <2> QED
    BY <1>13, <2>1, Zenon DEF FormParam, pairs
<1>15. PercentDecode(q) = Utf8(DecodedBytes(q))
  BY <1>3, DecodesEscapes, Zenon DEF PercentDecode
<1> QED
  BY <1>9, <1>11, <1>14, <1>15, Zenon DEF text, a

(* split('/').filter(nonempty) of what has no empty segments.                *)
LEMMA WithoutNothing ==
  ASSUME NEW V, NEW s \in Seq(V), NEW x, x \notin V
  PROVE  Without(s, x) = s
<1> DEFINE e == [c \in V |-> <<c>>]
           S == {t \in Seq(V) : Pieces(e, t) = t}
<1>1. \A c \in V : <<c>> \in Seq(V)
  OBVIOUS
<1>2. e \in [V -> Seq(V)] /\ \A c \in V : e[c] = <<c>>
  BY <1>1, Zenon
<1> HIDE DEF e
<1>3. <<>> \in S
  <2>1. <<>> \in Seq(V)
    OBVIOUS
  <2> QED
    BY <2>1, PiecesEmpty, Zenon
<1>4. ASSUME NEW c \in V, NEW t \in Seq(V), t \in S
      PROVE  <<c>> \o t \in S
  <2>1. PieceFirst(V, e, c, t)
    BY <1>2, PiecesFirst, Zenon
  <2>2. Pieces(e, <<c>> \o t) = <<c>> \o t
    BY <1>2, <1>4, <2>1, Zenon DEF PieceFirst
  <2>3. <<c>> \o t \in Seq(V)
    OBVIOUS
  <2> QED
    BY <2>2, <2>3, Zenon
<1>5. s \in S
  <2> HIDE DEF S
  <2> QED BY <1>3, <1>4, TextInduction, Zenon
<1>6. Without(s, x) = Pieces(e, s)
  <2>1. \A n \in DOMAIN s : s[n] \in V
    OBVIOUS
  <2>2. \A n \in DOMAIN s : s[n] # x /\ e[s[n]] = <<s[n]>>
    BY <1>2, <2>1, Zenon
  <2>3. [n \in DOMAIN s |-> IF s[n] = x THEN <<>> ELSE <<s[n]>>] = [n \in DOMAIN s |-> e[s[n]]]
    BY <2>2, Zenon
  <2> QED
    BY <2>3, Zenon DEF Without, Pieces, Mapped
<1> QED
  BY <1>5, <1>6, Zenon

-------------------------------------------------------------------------------
(* The routes of build_router.                                               *)

Words == {"health", "echo", "fib", "static", "auth", "token", "api", "items", "admin", "ui",
          "index", "login", "logout", "delete", "metrics"}

Names == {"message", "n", "filepath", "id", "path"}

Solid == {Literal(w) : w \in Words} \cup {Param(w) : w \in Names} \cup {Wildcard(w) : w \in Names}

(* None of these segments is empty, so that parse_pattern keeps all.         *)
LEMMA SolidSegments ==
  /\ \A w \in Words : L(w) \in Solid
  /\ \A w \in Names : Param(w) \in Solid /\ Wildcard(w) \in Solid
  /\ Literal("") \notin Solid
<1>1. \A w \in Words : Literal(w) # Literal("")
  BY Zenon DEF Words, Literal
<1>2. \A w : Param(w) # Literal("") /\ Wildcard(w) # Literal("")
  BY Zenon DEF Param, Wildcard, Literal
<1> QED
  BY <1>1, <1>2, Zenon DEF Solid, L

LEMMA RouteOf ==
  ASSUME NEW method, NEW p \in Seq(Solid)
  PROVE  Route(method, p) = [method |-> method, segments |-> p]
<1> QED
  BY SolidSegments, WithoutNothing, Zenon DEF Route, ParsePattern

Is(route, m, p) == route.method = m /\ route.segments = p

(* The routes of the browser interface and the proxy, as registered.         *)
LEMMA UiRoutes ==
  /\ Is(Ui, "GET", <<L("ui")>>)
  /\ Is(UiIndex, "GET", <<L("ui"), L("index")>>)
  /\ Is(UiLoginForm, "GET", <<L("ui"), L("login")>>)
  /\ Is(UiLogin, "POST", <<L("ui"), L("login")>>)
  /\ Is(UiLogout, "POST", <<L("ui"), L("logout")>>)
  /\ Is(UiItems, "GET", <<L("ui"), L("items")>>)
  /\ Is(UiCreate, "POST", <<L("ui"), L("items")>>)
  /\ Is(UiDelete, "POST", <<L("ui"), L("items"), Param("id"), L("delete")>>)
  /\ Is(UiMetrics, "GET", <<L("ui"), L("metrics")>>)
  /\ Is(MetricsText, "GET", <<L("metrics")>>)
  /\ Is(Proxy, "*", <<Wildcard("path")>>)
<1>1. \A m : \A p \in Seq(Solid) : Is(Route(m, p), m, p)
  BY RouteOf DEF Is
<1>2. /\ L("ui") \in Solid /\ L("index") \in Solid /\ L("login") \in Solid /\ L("logout") \in Solid
      /\ L("items") \in Solid /\ L("delete") \in Solid /\ L("metrics") \in Solid
      /\ Param("id") \in Solid /\ Wildcard("path") \in Solid
  BY SolidSegments, Zenon DEF Words, Names
<1>3. /\ <<L("ui")>> \in Seq(Solid)
      /\ <<L("ui"), L("index")>> \in Seq(Solid)
      /\ <<L("ui"), L("login")>> \in Seq(Solid)
      /\ <<L("ui"), L("logout")>> \in Seq(Solid)
      /\ <<L("ui"), L("items")>> \in Seq(Solid)
      /\ <<L("ui"), L("items"), Param("id"), L("delete")>> \in Seq(Solid)
      /\ <<L("ui"), L("metrics")>> \in Seq(Solid)
      /\ <<L("metrics")>> \in Seq(Solid)
      /\ <<Wildcard("path")>> \in Seq(Solid)
  BY <1>2
<1> QED
  BY <1>1, <1>3, Zenon DEF Ui, UiIndex, UiLoginForm, UiLogin, UiLogout, UiItems, UiCreate, UiDelete,
                         UiMetrics, MetricsText, Proxy

(* The number, in the order of registration, of the only local route that    *)
(* can serve a method and a path.                                            *)
Which(m, s) ==
  IF Len(s) = 0 THEN 1
  ELSE IF s[1] = "health" THEN 2
  ELSE IF s[1] = "echo" THEN 3
  ELSE IF s[1] = "fib" THEN 4
  ELSE IF s[1] = "static" THEN 5
  ELSE IF s[1] = "auth" THEN 6
  ELSE IF s[1] = "metrics" THEN 20
  ELSE IF s[1] = "api" THEN
    IF m = "POST" THEN 9 ELSE IF m = "DELETE" THEN 10 ELSE IF Len(s) = 2 THEN 7 ELSE 8
  ELSE IF m = "GET" THEN
    IF Len(s) = 1 THEN 11 ELSE IF s[2] = "index" THEN 12 ELSE IF s[2] = "login" THEN 13
    ELSE IF s[2] = "items" THEN 16 ELSE 19
  ELSE IF Len(s) = 4 THEN 18 ELSE IF s[2] = "login" THEN 14 ELSE IF s[2] = "logout" THEN 15 ELSE 17

(* A route serves a method and a path.                                       *)
Serves(route, m, s) == route.method = m /\ Means(route.segments, s)

(* The table, part by part.                                                  *)
Common == <<Root, Health, Echo, Fib, StaticFile, AuthToken, ListItems, GetItem, CreateItem, DeleteItem>>

UiPart == <<Ui, UiIndex, UiLoginForm, UiLogin, UiLogout, UiItems, UiCreate, UiDelete, UiMetrics>>

AllRoutes == {Root, Health, Echo, Fib, StaticFile, AuthToken, ListItems, GetItem, CreateItem, DeleteItem,
              Ui, UiIndex, UiLoginForm, UiLogin, UiLogout, UiItems, UiCreate, UiDelete, UiMetrics,
              MetricsText, Proxy}

(* A table is made of the common routes, those of the browser interface if   *)
(* it is configured, GET /metrics, and the proxy if it is configured.        *)
InParts(t, a, u, m, p) ==
  /\ Len(t) = Len(a) + Len(u) + 1 + Len(p)
  /\ \A n \in 1..Len(a) : t[n] = a[n]
  /\ \A n \in 1..Len(u) : t[Len(a) + n] = u[n]
  /\ t[Len(a) + Len(u) + 1] = m
  /\ \A n \in 1..Len(p) : t[Len(a) + Len(u) + 1 + n] = p[n]

(* In every table build_router registers, only the last route may be the     *)
(* proxy's catch-all, and no two other routes serve the same method and      *)
(* path, whatever the path is.                                               *)
THEOREM RoutesApart ==
  \A table \in Registered :
    /\ \A k \in 1..Len(table) : table[k].method = "*" => k = Len(table) /\ table[k] = Proxy
    /\ \A m : \A s \in Seq(STRING) : \A n, k \in 1..Len(table) :
         /\ table[n] # Proxy /\ Serves(table[n], m, s)
         /\ table[k] # Proxy /\ Serves(table[k], m, s)
         => n = k
<1>ShortRoutes.
      /\ Is(Root, "GET", <<>>)
      /\ Is(Health, "GET", <<L("health")>>)
      /\ Is(Echo, "GET", <<L("echo"), Param("message")>>)
      /\ Is(Fib, "GET", <<L("fib"), Param("n")>>)
      /\ Is(StaticFile, "GET", <<L("static"), Wildcard("filepath")>>)
      /\ Is(AuthToken, "POST", <<L("auth"), L("token")>>)
      /\ Is(ListItems, "GET", <<L("api"), L("items")>>)
      /\ Is(GetItem, "GET", <<L("api"), L("items"), Param("id")>>)
      /\ Is(CreateItem, "POST", <<L("api"), L("admin"), L("items")>>)
      /\ Is(DeleteItem, "DELETE", <<L("api"), L("admin"), L("items"), Param("id")>>)
  <2>1. \A m : \A p \in Seq(Solid) : Is(Route(m, p), m, p)
    BY RouteOf DEF Is
  <2>2. /\ L("health") \in Solid /\ L("echo") \in Solid /\ L("fib") \in Solid /\ L("static") \in Solid
        /\ L("auth") \in Solid /\ L("token") \in Solid /\ L("api") \in Solid /\ L("items") \in Solid
        /\ L("admin") \in Solid
        /\ Param("message") \in Solid /\ Param("n") \in Solid /\ Wildcard("filepath") \in Solid /\ Param("id") \in Solid
    BY SolidSegments, Zenon DEF Words, Names
  <2>3. /\ <<>> \in Seq(Solid)
        /\ <<L("health")>> \in Seq(Solid)
        /\ <<L("echo"), Param("message")>> \in Seq(Solid)
        /\ <<L("fib"), Param("n")>> \in Seq(Solid)
        /\ <<L("static"), Wildcard("filepath")>> \in Seq(Solid)
        /\ <<L("auth"), L("token")>> \in Seq(Solid)
        /\ <<L("api"), L("items")>> \in Seq(Solid)
        /\ <<L("api"), L("items"), Param("id")>> \in Seq(Solid)
        /\ <<L("api"), L("admin"), L("items")>> \in Seq(Solid)
        /\ <<L("api"), L("admin"), L("items"), Param("id")>> \in Seq(Solid)
    BY <2>2
  <2> QED
    BY <2>1, <2>3, Zenon DEF Root, Health, Echo, Fib, StaticFile, AuthToken, ListItems, GetItem,
                           CreateItem, DeleteItem
(* What the patterns mean, by their length.                                  *)
<1>LiteralFits.
      /\ \A w, s : Fits(L(w), s) => s = w
      /\ \A w : L(w).kind = "literal" /\ Param(w).kind = "param" /\ Wildcard(w).kind = "wildcard"
  BY Zenon DEF Fits, L, Literal, Param, Wildcard
<1>MeansRoot.
      ASSUME NEW s \in Seq(STRING)
      PROVE  Means(<<>>, s) => Len(s) = 0
  BY <1>LiteralFits, Zenon DEF Means, HasWildcard
<1>MeansL.
      ASSUME NEW s \in Seq(STRING)
      PROVE  \A a : Means(<<L(a)>>, s) => Len(s) = 1 /\ s[1] = a
  BY <1>LiteralFits DEF Means, HasWildcard
<1>MeansLL.
      ASSUME NEW s \in Seq(STRING)
      PROVE  \A a, b : Means(<<L(a), L(b)>>, s) => Len(s) = 2 /\ s[1] = a /\ s[2] = b
  BY <1>LiteralFits DEF Means, HasWildcard
<1>MeansLP.
      ASSUME NEW s \in Seq(STRING)
      PROVE  \A a, b : Means(<<L(a), Param(b)>>, s) => Len(s) = 2 /\ s[1] = a
  BY <1>LiteralFits DEF Means, HasWildcard
<1>MeansLW.
      ASSUME NEW s \in Seq(STRING)
      PROVE  \A a, b : Means(<<L(a), Wildcard(b)>>, s) => Len(s) >= 1 /\ s[1] = a
  BY <1>LiteralFits DEF Means, HasWildcard
<1>MeansLLP.
      ASSUME NEW s \in Seq(STRING)
      PROVE  \A a, b, c : Means(<<L(a), L(b), Param(c)>>, s) => Len(s) = 3 /\ s[1] = a /\ s[2] = b
  BY <1>LiteralFits DEF Means, HasWildcard
<1>MeansLLL.
      ASSUME NEW s \in Seq(STRING)
      PROVE  \A a, b, c : Means(<<L(a), L(b), L(c)>>, s) => Len(s) = 3 /\ s[1] = a /\ s[2] = b
  BY <1>LiteralFits DEF Means, HasWildcard
<1>MeansLLLP.
      ASSUME NEW s \in Seq(STRING)
      PROVE  \A a, b, c, d : Means(<<L(a), L(b), L(c), Param(d)>>, s) => Len(s) = 4 /\ s[1] = a /\ s[2] = b
  BY <1>LiteralFits DEF Means, HasWildcard
<1>MeansLLPL.
      ASSUME NEW s \in Seq(STRING)
      PROVE  \A a, b, c, d : Means(<<L(a), L(b), Param(c), L(d)>>, s) => Len(s) = 4 /\ s[1] = a /\ s[2] = b
  BY <1>LiteralFits DEF Means, HasWildcard
<1>OneShortRoute.
      ASSUME NEW m, NEW s \in Seq(STRING)
      PROVE  /\ Serves(Root, m, s) => Which(m, s) = 1
             /\ Serves(Health, m, s) => Which(m, s) = 2
             /\ Serves(Echo, m, s) => Which(m, s) = 3
             /\ Serves(Fib, m, s) => Which(m, s) = 4
             /\ Serves(StaticFile, m, s) => Which(m, s) = 5
             /\ Serves(AuthToken, m, s) => Which(m, s) = 6
             /\ Serves(ListItems, m, s) => Which(m, s) = 7
             /\ Serves(GetItem, m, s) => Which(m, s) = 8
             /\ Serves(CreateItem, m, s) => Which(m, s) = 9
             /\ Serves(DeleteItem, m, s) => Which(m, s) = 10
  <2>0. Len(s) \in Nat
    OBVIOUS
  <2>1. ASSUME Serves(Root, m, s) PROVE Which(m, s) = 1
    <3>1. m = "GET" /\ Means(<<>>, s)
      BY <2>1, <1>ShortRoutes, Zenon DEF Serves, Is
    <3>2. Len(s) = 0
      BY <3>1, <1>MeansRoot, Zenon
    <3> QED
      BY <3>2, Zenon DEF Which
  <2>2. ASSUME Serves(Health, m, s) PROVE Which(m, s) = 2
    <3>1. m = "GET" /\ Means(<<L("health")>>, s)
      BY <2>2, <1>ShortRoutes, Zenon DEF Serves, Is
    <3>2. Len(s) = 1 /\ s[1] = "health"
      BY <3>1, <1>MeansL, Zenon
    <3>3. Len(s) # 0 /\ Len(s) # 2 /\ Len(s) # 4
      BY <2>0, <3>2
    <3> QED
      BY <3>1, <3>2, <3>3, Zenon DEF Which
  <2>3. ASSUME Serves(Echo, m, s) PROVE Which(m, s) = 3
    <3>1. m = "GET" /\ Means(<<L("echo"), Param("message")>>, s)
      BY <2>3, <1>ShortRoutes, Zenon DEF Serves, Is
    <3>2. Len(s) = 2 /\ s[1] = "echo"
      BY <3>1, <1>MeansLP, Zenon
    <3>3. Len(s) # 0 /\ Len(s) # 1 /\ Len(s) # 4
      BY <2>0, <3>2
    <3> QED
      BY <3>1, <3>2, <3>3, Zenon DEF Which
  <2>4. ASSUME Serves(Fib, m, s) PROVE Which(m, s) = 4
    <3>1. m = "GET" /\ Means(<<L("fib"), Param("n")>>, s)
      BY <2>4, <1>ShortRoutes, Zenon DEF Serves, Is
    <3>2. Len(s) = 2 /\ s[1] = "fib"
      BY <3>1, <1>MeansLP, Zenon
    <3>3. Len(s) # 0 /\ Len(s) # 1 /\ Len(s) # 4
      BY <2>0, <3>2
    <3> QED
      BY <3>1, <3>2, <3>3, Zenon DEF Which
  <2>5. ASSUME Serves(StaticFile, m, s) PROVE Which(m, s) = 5
    <3>1. m = "GET" /\ Means(<<L("static"), Wildcard("filepath")>>, s)
      BY <2>5, <1>ShortRoutes, Zenon DEF Serves, Is
    <3>2. Len(s) >= 1 /\ s[1] = "static"
      BY <3>1, <1>MeansLW, Zenon
    <3>3. Len(s) # 0
      BY <2>0, <3>2
    <3> QED
      BY <3>1, <3>2, <3>3, Zenon DEF Which
  <2>6. ASSUME Serves(AuthToken, m, s) PROVE Which(m, s) = 6
    <3>1. m = "POST" /\ Means(<<L("auth"), L("token")>>, s)
      BY <2>6, <1>ShortRoutes, Zenon DEF Serves, Is
    <3>2. Len(s) = 2 /\ s[1] = "auth" /\ s[2] = "token"
      BY <3>1, <1>MeansLL, Zenon
    <3>3. Len(s) # 0 /\ Len(s) # 1 /\ Len(s) # 4
      BY <2>0, <3>2
    <3> QED
      BY <3>1, <3>2, <3>3, Zenon DEF Which
  <2>7. ASSUME Serves(ListItems, m, s) PROVE Which(m, s) = 7
    <3>1. m = "GET" /\ Means(<<L("api"), L("items")>>, s)
      BY <2>7, <1>ShortRoutes, Zenon DEF Serves, Is
    <3>2. Len(s) = 2 /\ s[1] = "api" /\ s[2] = "items"
      BY <3>1, <1>MeansLL, Zenon
    <3>3. Len(s) # 0 /\ Len(s) # 1 /\ Len(s) # 4
      BY <2>0, <3>2
    <3> QED
      BY <3>1, <3>2, <3>3, Zenon DEF Which
  <2>8. ASSUME Serves(GetItem, m, s) PROVE Which(m, s) = 8
    <3>1. m = "GET" /\ Means(<<L("api"), L("items"), Param("id")>>, s)
      BY <2>8, <1>ShortRoutes, Zenon DEF Serves, Is
    <3>2. Len(s) = 3 /\ s[1] = "api" /\ s[2] = "items"
      BY <3>1, <1>MeansLLP, Zenon
    <3>3. Len(s) # 0 /\ Len(s) # 1 /\ Len(s) # 2 /\ Len(s) # 4
      BY <2>0, <3>2
    <3> QED
      BY <3>1, <3>2, <3>3, Zenon DEF Which
  <2>9. ASSUME Serves(CreateItem, m, s) PROVE Which(m, s) = 9
    <3>1. m = "POST" /\ Means(<<L("api"), L("admin"), L("items")>>, s)
      BY <2>9, <1>ShortRoutes, Zenon DEF Serves, Is
    <3>2. Len(s) = 3 /\ s[1] = "api" /\ s[2] = "admin"
      BY <3>1, <1>MeansLLL, Zenon
    <3>3. Len(s) # 0 /\ Len(s) # 1 /\ Len(s) # 2 /\ Len(s) # 4
      BY <2>0, <3>2
    <3> QED
      BY <3>1, <3>2, <3>3, Zenon DEF Which
  <2>10. ASSUME Serves(DeleteItem, m, s) PROVE Which(m, s) = 10
    <3>1. m = "DELETE" /\ Means(<<L("api"), L("admin"), L("items"), Param("id")>>, s)
      BY <2>10, <1>ShortRoutes, Zenon DEF Serves, Is
    <3>2. Len(s) = 4 /\ s[1] = "api" /\ s[2] = "admin"
      BY <3>1, <1>MeansLLLP, Zenon
    <3>3. Len(s) # 0 /\ Len(s) # 1 /\ Len(s) # 2
      BY <2>0, <3>2
    <3> QED
      BY <3>1, <3>2, <3>3, Zenon DEF Which
  <2> QED
    BY <2>1, <2>2, <2>3, <2>4, <2>5, <2>6, <2>7, <2>8, <2>9, <2>10, ZenonT(40)
<1>OneUiRoute.
      ASSUME NEW m, NEW s \in Seq(STRING)
      PROVE  /\ Serves(Ui, m, s) => Which(m, s) = 11
             /\ Serves(UiIndex, m, s) => Which(m, s) = 12
             /\ Serves(UiLoginForm, m, s) => Which(m, s) = 13
             /\ Serves(UiLogin, m, s) => Which(m, s) = 14
             /\ Serves(UiLogout, m, s) => Which(m, s) = 15
             /\ Serves(UiItems, m, s) => Which(m, s) = 16
             /\ Serves(UiCreate, m, s) => Which(m, s) = 17
             /\ Serves(UiDelete, m, s) => Which(m, s) = 18
             /\ Serves(UiMetrics, m, s) => Which(m, s) = 19
             /\ Serves(MetricsText, m, s) => Which(m, s) = 20
  <2>0. Len(s) \in Nat
    OBVIOUS
  <2>1. ASSUME Serves(Ui, m, s) PROVE Which(m, s) = 11
    <3>1. m = "GET" /\ Means(<<L("ui")>>, s)
      BY <2>1, UiRoutes, Zenon DEF Serves, Is
    <3>2. Len(s) = 1 /\ s[1] = "ui"
      BY <3>1, <1>MeansL, Zenon
    <3>3. Len(s) # 0 /\ Len(s) # 2 /\ Len(s) # 4
      BY <2>0, <3>2
    <3> QED
      BY <3>1, <3>2, <3>3, Zenon DEF Which
  <2>2. ASSUME Serves(UiIndex, m, s) PROVE Which(m, s) = 12
    <3>1. m = "GET" /\ Means(<<L("ui"), L("index")>>, s)
      BY <2>2, UiRoutes, Zenon DEF Serves, Is
    <3>2. Len(s) = 2 /\ s[1] = "ui" /\ s[2] = "index"
      BY <3>1, <1>MeansLL, Zenon
    <3>3. Len(s) # 0 /\ Len(s) # 1 /\ Len(s) # 4
      BY <2>0, <3>2
    <3> QED
      BY <3>1, <3>2, <3>3, Zenon DEF Which
  <2>3. ASSUME Serves(UiLoginForm, m, s) PROVE Which(m, s) = 13
    <3>1. m = "GET" /\ Means(<<L("ui"), L("login")>>, s)
      BY <2>3, UiRoutes, Zenon DEF Serves, Is
    <3>2. Len(s) = 2 /\ s[1] = "ui" /\ s[2] = "login"
      BY <3>1, <1>MeansLL, Zenon
    <3>3. Len(s) # 0 /\ Len(s) # 1 /\ Len(s) # 4
      BY <2>0, <3>2
    <3> QED
      BY <3>1, <3>2, <3>3, Zenon DEF Which
  <2>4. ASSUME Serves(UiLogin, m, s) PROVE Which(m, s) = 14
    <3>1. m = "POST" /\ Means(<<L("ui"), L("login")>>, s)
      BY <2>4, UiRoutes, Zenon DEF Serves, Is
    <3>2. Len(s) = 2 /\ s[1] = "ui" /\ s[2] = "login"
      BY <3>1, <1>MeansLL, Zenon
    <3>3. Len(s) # 0 /\ Len(s) # 1 /\ Len(s) # 4
      BY <2>0, <3>2
    <3> QED
      BY <3>1, <3>2, <3>3, Zenon DEF Which
  <2>5. ASSUME Serves(UiLogout, m, s) PROVE Which(m, s) = 15
    <3>1. m = "POST" /\ Means(<<L("ui"), L("logout")>>, s)
      BY <2>5, UiRoutes, Zenon DEF Serves, Is
    <3>2. Len(s) = 2 /\ s[1] = "ui" /\ s[2] = "logout"
      BY <3>1, <1>MeansLL, Zenon
    <3>3. Len(s) # 0 /\ Len(s) # 1 /\ Len(s) # 4
      BY <2>0, <3>2
    <3> QED
      BY <3>1, <3>2, <3>3, Zenon DEF Which
  <2>6. ASSUME Serves(UiItems, m, s) PROVE Which(m, s) = 16
    <3>1. m = "GET" /\ Means(<<L("ui"), L("items")>>, s)
      BY <2>6, UiRoutes, Zenon DEF Serves, Is
    <3>2. Len(s) = 2 /\ s[1] = "ui" /\ s[2] = "items"
      BY <3>1, <1>MeansLL, Zenon
    <3>3. Len(s) # 0 /\ Len(s) # 1 /\ Len(s) # 4
      BY <2>0, <3>2
    <3> QED
      BY <3>1, <3>2, <3>3, Zenon DEF Which
  <2>7. ASSUME Serves(UiCreate, m, s) PROVE Which(m, s) = 17
    <3>1. m = "POST" /\ Means(<<L("ui"), L("items")>>, s)
      BY <2>7, UiRoutes, Zenon DEF Serves, Is
    <3>2. Len(s) = 2 /\ s[1] = "ui" /\ s[2] = "items"
      BY <3>1, <1>MeansLL, Zenon
    <3>3. Len(s) # 0 /\ Len(s) # 1 /\ Len(s) # 4
      BY <2>0, <3>2
    <3> QED
      BY <3>1, <3>2, <3>3, Zenon DEF Which
  <2>8. ASSUME Serves(UiDelete, m, s) PROVE Which(m, s) = 18
    <3>1. m = "POST" /\ Means(<<L("ui"), L("items"), Param("id"), L("delete")>>, s)
      BY <2>8, UiRoutes, Zenon DEF Serves, Is
    <3>2. Len(s) = 4 /\ s[1] = "ui" /\ s[2] = "items"
      BY <3>1, <1>MeansLLPL, Zenon
    <3>3. Len(s) # 0 /\ Len(s) # 1 /\ Len(s) # 2
      BY <2>0, <3>2
    <3> QED
      BY <3>1, <3>2, <3>3, Zenon DEF Which
  <2>9. ASSUME Serves(UiMetrics, m, s) PROVE Which(m, s) = 19
    <3>1. m = "GET" /\ Means(<<L("ui"), L("metrics")>>, s)
      BY <2>9, UiRoutes, Zenon DEF Serves, Is
    <3>2. Len(s) = 2 /\ s[1] = "ui" /\ s[2] = "metrics"
      BY <3>1, <1>MeansLL, Zenon
    <3>3. Len(s) # 0 /\ Len(s) # 1 /\ Len(s) # 4
      BY <2>0, <3>2
    <3> QED
      BY <3>1, <3>2, <3>3, Zenon DEF Which
  <2>10. ASSUME Serves(MetricsText, m, s) PROVE Which(m, s) = 20
    <3>1. m = "GET" /\ Means(<<L("metrics")>>, s)
      BY <2>10, UiRoutes, Zenon DEF Serves, Is
    <3>2. Len(s) = 1 /\ s[1] = "metrics"
      BY <3>1, <1>MeansL, Zenon
    <3>3. Len(s) # 0 /\ Len(s) # 2 /\ Len(s) # 4
      BY <2>0, <3>2
    <3> QED
      BY <3>1, <3>2, <3>3, Zenon DEF Which
  <2> QED
    BY <2>1, <2>2, <2>3, <2>4, <2>5, <2>6, <2>7, <2>8, <2>9, <2>10, ZenonT(40)
<1>Parts.
      ASSUME NEW V, NEW a \in Seq(V), NEW u \in Seq(V), NEW m \in V, NEW p \in Seq(V)
      PROVE  InParts(a \o u \o <<m>> \o p, a, u, m, p)
  BY DEF InParts
<1>TableParts.
      ASSUME NEW table \in Registered
      PROVE  \E u \in {UiPart, <<>>}, p \in {<<Proxy>>, <<>>} : InParts(table, Common, u, MetricsText, p)
  <2>1. PICK tmpl \in BOOLEAN, proxy \in BOOLEAN : table = BuildRouter(tmpl, proxy)
    BY DEF Registered
  <2> DEFINE u == IF tmpl THEN UiPart ELSE <<>>
             p == IF proxy THEN <<Proxy>> ELSE <<>>
  <2>2. table = Common \o u \o <<MetricsText>> \o p
    BY <2>1, Zenon DEF BuildRouter, Common, UiPart
  <2>3. Common \in Seq(AllRoutes)
    BY DEF Common, AllRoutes
  <2>4. UiPart \in Seq(AllRoutes)
    BY DEF UiPart, AllRoutes
  <2>5. <<Proxy>> \in Seq(AllRoutes) /\ MetricsText \in AllRoutes /\ <<>> \in Seq(AllRoutes)
    BY DEF AllRoutes
  <2>6. u \in Seq(AllRoutes) /\ p \in Seq(AllRoutes) /\ u \in {UiPart, <<>>} /\ p \in {<<Proxy>>, <<>>}
    BY <2>4, <2>5, Zenon
  <2> HIDE DEF u, p
  <2>7. InParts(Common \o u \o <<MetricsText>> \o p, Common, u, MetricsText, p)
    BY <2>3, <2>5, <2>6, <1>Parts, Zenon
  <2> QED
    BY <2>2, <2>6, <2>7, Zenon
<1>CommonUnique.
      ASSUME NEW m, NEW s \in Seq(STRING)
      PROVE  /\ Len(Common) = 10 /\ \A n \in 1..10 : Serves(Common[n], m, s) => Which(m, s) = n
             /\ Len(UiPart) = 9 /\ \A n \in 1..9 : Serves(UiPart[n], m, s) => Which(m, s) = 10 + n
  <2>1. /\ Len(Common) = 10
        /\ Common[1] = Root /\ Common[2] = Health /\ Common[3] = Echo /\ Common[4] = Fib
        /\ Common[5] = StaticFile /\ Common[6] = AuthToken /\ Common[7] = ListItems
        /\ Common[8] = GetItem /\ Common[9] = CreateItem /\ Common[10] = DeleteItem
    BY Zenon DEF Common
  <2>2. /\ Len(UiPart) = 9
        /\ UiPart[1] = Ui /\ UiPart[2] = UiIndex /\ UiPart[3] = UiLoginForm /\ UiPart[4] = UiLogin
        /\ UiPart[5] = UiLogout /\ UiPart[6] = UiItems /\ UiPart[7] = UiCreate
        /\ UiPart[8] = UiDelete /\ UiPart[9] = UiMetrics
    BY Zenon DEF UiPart
  <2> DEFINE S == {n \in 1..10 : Serves(Common[n], m, s) => Which(m, s) = n}
             T == {n \in 1..9 : Serves(UiPart[n], m, s) => Which(m, s) = 10 + n}
  <2>3. /\ 1 \in S /\ 2 \in S /\ 3 \in S /\ 4 \in S /\ 5 \in S
        /\ 6 \in S /\ 7 \in S /\ 8 \in S /\ 9 \in S /\ 10 \in S
    <3>1. \A n \in 1..10 : (Serves(Common[n], m, s) => Which(m, s) = n) => n \in S
      BY Zenon
    <3>2. /\ 1 \in 1..10 /\ 2 \in 1..10 /\ 3 \in 1..10 /\ 4 \in 1..10 /\ 5 \in 1..10
          /\ 6 \in 1..10 /\ 7 \in 1..10 /\ 8 \in 1..10 /\ 9 \in 1..10 /\ 10 \in 1..10
      OBVIOUS
    <3> HIDE DEF S
    <3> QED
      BY <2>1, <3>1, <3>2, <1>OneShortRoute, ZenonT(40)
  <2>4. 1 \in T /\ 2 \in T /\ 3 \in T /\ 4 \in T /\ 5 \in T /\ 6 \in T /\ 7 \in T /\ 8 \in T /\ 9 \in T
    <3>1. \A n \in 1..9 : (Serves(UiPart[n], m, s) => Which(m, s) = 10 + n) => n \in T
      BY Zenon
    <3>2. /\ 1 \in 1..9 /\ 2 \in 1..9 /\ 3 \in 1..9 /\ 4 \in 1..9 /\ 5 \in 1..9
          /\ 6 \in 1..9 /\ 7 \in 1..9 /\ 8 \in 1..9 /\ 9 \in 1..9
          /\ 10 + 1 = 11 /\ 10 + 2 = 12 /\ 10 + 3 = 13 /\ 10 + 4 = 14 /\ 10 + 5 = 15
          /\ 10 + 6 = 16 /\ 10 + 7 = 17 /\ 10 + 8 = 18 /\ 10 + 9 = 19
      OBVIOUS
    <3>3. /\ Serves(UiPart[1], m, s) => Which(m, s) = 11
          /\ Serves(UiPart[2], m, s) => Which(m, s) = 12
          /\ Serves(UiPart[3], m, s) => Which(m, s) = 13
          /\ Serves(UiPart[4], m, s) => Which(m, s) = 14
          /\ Serves(UiPart[5], m, s) => Which(m, s) = 15
          /\ Serves(UiPart[6], m, s) => Which(m, s) = 16
          /\ Serves(UiPart[7], m, s) => Which(m, s) = 17
          /\ Serves(UiPart[8], m, s) => Which(m, s) = 18
          /\ Serves(UiPart[9], m, s) => Which(m, s) = 19
      BY <2>2, <1>OneUiRoute, ZenonT(40)
    <3> HIDE DEF T
    <3> QED
      BY <3>1, <3>2, <3>3
  <2>5. (\A n \in 1..10 : n \in S) /\ (\A n \in 1..9 : n \in T)
    <3> HIDE DEF S, T
    <3>1. /\ \A n \in 1..10 : n = 1 \/ n = 2 \/ n = 3 \/ n = 4 \/ n = 5 \/ n = 6 \/ n = 7 \/ n = 8 \/ n = 9 \/ n = 10
          /\ \A n \in 1..9 : n = 1 \/ n = 2 \/ n = 3 \/ n = 4 \/ n = 5 \/ n = 6 \/ n = 7 \/ n = 8 \/ n = 9
      OBVIOUS
    <3> QED
      BY <2>3, <2>4, <3>1, Zenon
  <2> QED
    BY <2>1, <2>2, <2>5, Zenon
<1>NotProxies.
      /\ \A k \in 1..10 : Common[k].method # "*"
      /\ \A k \in 1..9 : UiPart[k].method # "*"
      /\ MetricsText.method # "*" /\ Proxy.method = "*"
  <2>1. /\ Common[1] = Root /\ Common[2] = Health /\ Common[3] = Echo /\ Common[4] = Fib
        /\ Common[5] = StaticFile /\ Common[6] = AuthToken /\ Common[7] = ListItems
        /\ Common[8] = GetItem /\ Common[9] = CreateItem /\ Common[10] = DeleteItem
    BY Zenon DEF Common
  <2>2. /\ UiPart[1] = Ui /\ UiPart[2] = UiIndex /\ UiPart[3] = UiLoginForm /\ UiPart[4] = UiLogin
        /\ UiPart[5] = UiLogout /\ UiPart[6] = UiItems /\ UiPart[7] = UiCreate
        /\ UiPart[8] = UiDelete /\ UiPart[9] = UiMetrics
    BY Zenon DEF UiPart
  <2>3. /\ \A n \in 1..10 : n = 1 \/ n = 2 \/ n = 3 \/ n = 4 \/ n = 5 \/ n = 6 \/ n = 7 \/ n = 8 \/ n = 9 \/ n = 10
        /\ \A n \in 1..9 : n = 1 \/ n = 2 \/ n = 3 \/ n = 4 \/ n = 5 \/ n = 6 \/ n = 7 \/ n = 8 \/ n = 9
    OBVIOUS
  <2>4. "GET" # "*" /\ "POST" # "*" /\ "DELETE" # "*"
    BY Zenon
  <2>5. \A k \in 1..10 : Common[k].method # "*"
    BY <2>1, <2>3, <2>4, <1>ShortRoutes, Zenon DEF Is
  <2>6. \A k \in 1..9 : UiPart[k].method # "*"
    BY <2>2, <2>3, <2>4, UiRoutes, Zenon DEF Is
  <2>7. MetricsText.method # "*" /\ Proxy.method = "*"
    BY <2>4, UiRoutes, Zenon DEF Is
  <2> QED
    BY <2>5, <2>6, <2>7, Zenon
<1>ProxyLast.
      ASSUME NEW table \in Registered, NEW k \in 1..Len(table), table[k].method = "*"
      PROVE  k = Len(table) /\ table[k] = Proxy
  <2> USE <1>ProxyLast
  <2>1. PICK u \in {UiPart, <<>>}, p \in {<<Proxy>>, <<>>} : InParts(table, Common, u, MetricsText, p)
    BY <1>TableParts, Zenon
  <2> DEFINE U == Len(u)
  <2>2. U \in Nat /\ \A l \in 1..U : u[l].method # "*"
    <3>1. CASE u = UiPart
      <4>1. Len(UiPart) = 9
        BY Zenon DEF UiPart
      <4> QED
        BY <3>1, <4>1, <1>NotProxies, SMTT(40)
    <3>2. CASE u = <<>>
      BY <3>2
    <3> QED
      BY <3>1, <3>2, Zenon
  <2>3. Len(p) \in 0..1 /\ \A l \in 1..Len(p) : p[l] = Proxy
    OBVIOUS
  <2>4. Len(Common) = 10 /\ (\A l \in 1..10 : Common[l].method # "*") /\ MetricsText.method # "*"
    <3>1. Len(Common) = 10
      BY Zenon DEF Common
    <3> QED
      BY <3>1, <1>NotProxies, Zenon
  <2>5. /\ Len(table) = 10 + U + 1 + Len(p)
        /\ \A l \in 1..10 : table[l] = Common[l]
        /\ \A l \in 1..U : table[10 + l] = u[l]
        /\ table[10 + U + 1] = MetricsText
        /\ \A l \in 1..Len(p) : table[10 + U + 1 + l] = p[l]
    BY <2>1, <2>4, SMTT(40) DEF InParts
  <2> HIDE DEF U
  <2>6. k \notin 1..10 /\ k # 10 + U + 1
    BY <2>4, <2>5, Zenon
  <2>7. k \notin 11..(10 + U)
    <3> SUFFICES ASSUME k \in 11..(10 + U) PROVE FALSE
      BY Zenon
    <3>1. k - 10 \in 1..U /\ 10 + (k - 10) = k
      BY <2>2
    <3>2. table[10 + (k - 10)] = u[k - 10]
      BY <2>5, <3>1, Zenon
    <3>3. table[k] = u[k - 10]
      BY <3>1, <3>2, Zenon
    <3>4. u[k - 10].method # "*"
      BY <2>2, <3>1, Zenon
    <3> QED
      BY <3>3, <3>4, Zenon
  <2>8. k = Len(table) /\ Len(p) = 1 /\ k = 10 + U + 1 + 1
    BY <2>2, <2>3, <2>5, <2>6, <2>7, SMTT(40)
  <2>9. 1 \in 1..Len(p)
    BY <2>8
  <2> QED
    BY <2>3, <2>5, <2>8, <2>9, ZenonT(40)
(* A method and a path are served by one local route at most.                *)
<1>OneRoute.
      ASSUME NEW table \in Registered, NEW m, NEW s \in Seq(STRING),
             NEW n \in 1..Len(table), NEW k \in 1..Len(table), table[n] # Proxy, table[k] # Proxy,
             Serves(table[n], m, s), Serves(table[k], m, s)
      PROVE  n = k
  <2> USE <1>OneRoute
  <2>1. PICK u \in {UiPart, <<>>}, p \in {<<Proxy>>, <<>>} : InParts(table, Common, u, MetricsText, p)
    BY <1>TableParts, Zenon
  <2> DEFINE U == Len(u)
  <2>2. U \in {0, 9} /\ \A l \in 1..U : Serves(u[l], m, s) => Which(m, s) = 10 + l
    <3>1. CASE u = UiPart
      BY <3>1, <1>CommonUnique, Zenon
    <3>2. CASE u = <<>>
      BY <3>2
    <3> QED
      BY <3>1, <3>2, Zenon
  <2>3. Len(p) \in 0..1 /\ \A l \in 1..Len(p) : p[l] = Proxy
    OBVIOUS
  <2>4. Len(Common) = 10 /\ \A l \in 1..10 : Serves(Common[l], m, s) => Which(m, s) = l
    BY <1>CommonUnique, Zenon
  <2>5. /\ Len(table) = 10 + U + 1 + Len(p)
        /\ \A l \in 1..10 : table[l] = Common[l]
        /\ \A l \in 1..U : table[10 + l] = u[l]
        /\ table[10 + U + 1] = MetricsText
        /\ \A l \in 1..Len(p) : table[10 + U + 1 + l] = p[l]
    BY <2>1, <2>4, SMTT(40) DEF InParts
  <2>6. Serves(MetricsText, m, s) => Which(m, s) = 20
    BY <1>OneUiRoute, Zenon
  <2> HIDE DEF U
  <2>UiLength. U \in {0, 9}
    BY <2>2, Zenon
  <2>7. ASSUME NEW l \in 1..Len(table), table[l] # Proxy, Serves(table[l], m, s)
        PROVE  Which(m, s) = IF l = 10 + U + 1 THEN 20 ELSE l
    <3>1. CASE l \in 1..10
      <4>1. l # 10 + U + 1
        BY <2>2, <3>1
      <4> QED
        BY <2>4, <2>5, <2>7, <3>1, <4>1, Zenon
    <3>2. CASE l \in 11..(10 + U)
      <4>1. l - 10 \in 1..U /\ 10 + (l - 10) = l /\ l # 10 + U + 1
        BY <2>2, <3>2
      <4> QED
        BY <2>2, <2>5, <2>7, <4>1, ZenonT(40)
    <3>3. CASE l = 10 + U + 1
      BY <2>5, <2>6, <2>7, <3>3, Zenon
    <3>4. CASE l > 10 + U + 1
      <4>1. l - (10 + U + 1) \in 1..Len(p) /\ 10 + U + 1 + (l - (10 + U + 1)) = l
        BY <2>2, <2>3, <2>5, <3>4
      <4>2. table[l] = Proxy
        BY <2>3, <2>5, <4>1, Zenon
      <4> QED
        BY <2>7, <4>2, Zenon
    <3>5. l \in 1..10 \/ l \in 11..(10 + U) \/ l = 10 + U + 1 \/ l > 10 + U + 1
      BY <2>UiLength
    <3> QED
      BY <3>1, <3>2, <3>3, <3>4, <3>5, Zenon
  <2>8. Which(m, s) = (IF n = 10 + U + 1 THEN 20 ELSE n) /\ Which(m, s) = (IF k = 10 + U + 1 THEN 20 ELSE k)
    BY <2>7, Zenon
  <2>9. (n = 20 => n = 10 + U + 1 \/ table[n] = Proxy) /\ (k = 20 => k = 10 + U + 1 \/ table[k] = Proxy)
    BY <2>2, <2>3, <2>5, SMTT(40)
  <2> QED
    BY <2>8, <2>9
<1> QED
  BY <1>ProxyLast, <1>OneRoute, ZenonT(40)
===============================================================================
