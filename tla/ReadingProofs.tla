---------------------------- MODULE ReadingProofs ----------------------------
(***************************************************************************)
(* Proofs about what the server reads in a request: the route that serves   *)
(* its path (Router, RouteTable) and the fields of its form or its query    *)
(* (Forms), for every table of routes, every path and every text.           *)
(***************************************************************************)
EXTENDS Exchange, TextProofs, TLAPS

(* Sequences.                                                                *)
LEMMA ElementOf ==
  ASSUME NEW V, NEW s \in Seq(V), NEW n \in 1..Len(s)
  PROVE  s[n] \in V
OBVIOUS

LEMMA NonemptyText ==
  ASSUME NEW V, NEW s \in Seq(V)
  PROVE  Len(s) \in Nat /\ (Len(s) = 0 <=> s = <<>>)
OBVIOUS

----------------------------------------------------------------------------
(* The captures of the first m segments, as Captured has them of all.        *)

Rest(segments, segs, k) ==
  IF segments[k].kind = "wildcard" THEN SubSeq(segs, k, Len(segs)) ELSE <<segs[k]>>

Captures(segments, segs, m) ==
  {k \in 1..m : segments[k].kind # "literal" /\ k <= Len(segs)}

Winners(segments, segs, m) ==
  {k \in Captures(segments, segs, m) : \A l \in Captures(segments, segs, m) :
     l > k => segments[l].name # segments[k].name}

CapturedTo(segments, segs, m) ==
  {<<segments[k].name, Rest(segments, segs, k)>> : k \in Winners(segments, segs, m)}

LEMMA CapturedIsAll ==
  ASSUME NEW segments, NEW segs
  PROVE  Captured(segments, segs) = CapturedTo(segments, segs, Len(segments))
BY Zenon DEF Captured, CapturedTo, Winners, Captures, Rest

(* A segment that captures replaces what its name stood for: HashMap::insert *)
(* computes the reference definition.                                        *)
LEMMA InsertCaptures ==
  ASSUME NEW segments, NEW segs, NEW m \in Nat,
         segments[m + 1].kind # "literal", m + 1 <= Len(segs)
  PROVE  CapturedTo(segments, segs, m + 1)
           = Insert(CapturedTo(segments, segs, m), segments[m + 1].name,
                    Rest(segments, segs, m + 1))
<1> DEFINE name == segments[m + 1].name
<1>1. Captures(segments, segs, m + 1) = Captures(segments, segs, m) \cup {m + 1}
  BY DEF Captures
<1>2. \A k \in Captures(segments, segs, m) : k \in Nat /\ m + 1 > k /\ ~(k > m + 1)
  BY DEF Captures
<1>3. Winners(segments, segs, m + 1)
        = {k \in Winners(segments, segs, m) : segments[k].name # name} \cup {m + 1}
  BY <1>1, <1>2 DEF Winners
<1> QED
  BY <1>3 DEF CapturedTo, Insert

LEMMA LiteralCaptures ==
  ASSUME NEW segments, NEW segs, NEW m \in Nat,
         segments[m + 1].kind = "literal" \/ ~(m + 1 <= Len(segs))
  PROVE  CapturedTo(segments, segs, m + 1) = CapturedTo(segments, segs, m)
<1>1. Captures(segments, segs, m + 1) = Captures(segments, segs, m)
  BY DEF Captures
<1> QED
  BY <1>1, Zenon DEF CapturedTo, Winners

----------------------------------------------------------------------------
(* Dispatch.  Every route before the one it looks at was tried and does not  *)
(* suit, and every segment before the one match_path looks at fits.          *)

MatchesPath(n) == Means(routes[n].segments, Segs)
Suits(n) == MatchesPath(n) /\ routes[n].method \in {"*", request.method}

Given == routes \in RouteTables /\ request \in Requests(routes)

MatchInv ==
  response = Pending /\ j <= Len(routes) =>
    /\ i = 0 => params = {}
    /\ i > 0 =>
         /\ LengthFits
         /\ \A k \in 1..(i - 1) : Fits(Pattern[k], Segs[k]) /\ Pattern[k].kind # "wildcard"
         /\ params = CapturedTo(Pattern, Segs, i - 1)

DispatchInv ==
  response = Pending =>
    /\ \A n \in 1..(j - 1) : ~Suits(n)
    /\ any_path_matched <=> \E n \in 1..(j - 1) : MatchesPath(n)

RouterInv == Given /\ TypeOK /\ MatchInv /\ DispatchInv /\ DispatchCorrect

LEMMA GivenShapes ==
  ASSUME Given
  PROVE  /\ Len(routes) \in Nat /\ Len(Segs) \in Nat
         /\ \A n \in 1..Len(routes) :
              /\ routes[n].segments \in Seq(Segment)
              /\ Len(routes[n].segments) \in Nat
              /\ \A k \in 1..Len(routes[n].segments) :
                   /\ routes[n].segments[k] \in Segment
                   /\ routes[n].segments[k].kind = "wildcard" => k = Len(routes[n].segments)
<1>1. routes \in Seq([method : STRING, segments : Seq(Segment)])
  BY RoutesWellFormed, Zenon DEF Given
<1>2. Segs \in Seq(STRING)
  BY PathsOfStrings, Zenon DEF Given, Segs
<1>3. ASSUME NEW n \in 1..Len(routes) PROVE routes[n].segments \in Seq(Segment)
  <2> DEFINE Entry == [method : STRING, segments : Seq(Segment)]
  <2>1. routes[n] \in Entry
    <3> HIDE DEF Entry
    <3>1. routes \in Seq(Entry)
      BY <1>1, Zenon DEF Entry
    <3> QED
      BY <3>1, ElementOf, Zenon
  <2> QED
    BY <2>1, Zenon
<1>4. \A n \in 1..Len(routes) : WellFormed(routes[n].segments)
  BY RoutesWellFormed, Zenon DEF Given
<1> QED
  BY <1>1, <1>2, <1>3, <1>4 DEF WellFormed

(* The first route that suits is the expected one.                           *)
LEMMA FirstIsExpected ==
  ASSUME Given, NEW f \in 1..Len(routes), Suits(f), \A n \in 1..(f - 1) : ~Suits(n)
  PROVE  Expected = Handled(f, Captured(routes[f].segments, Segs))
<1> DEFINE both == {n \in {n \in 1..Len(routes) : Means(routes[n].segments, Segs)} :
                      routes[n].method \in {"*", request.method}}
<1>1. Len(routes) \in Nat
  BY GivenShapes, Zenon
<1>2. f \in both /\ \A k \in both : f <= k /\ k \in Nat
  BY <1>1 DEF Suits, MatchesPath
<1>3. (CHOOSE n \in both : \A k \in both : n <= k) = f
  BY <1>2
<1> QED
  BY <1>2, <1>3, Zenon DEF Expected

(* With no route that suits, the status says whether a path matched.         *)
LEMMA NoneIsExpected ==
  ASSUME Given, \A n \in 1..Len(routes) : ~Suits(n)
  PROVE  Expected = IF \E n \in 1..Len(routes) : MatchesPath(n) THEN MethodNotAllowed ELSE NotFound
BY SMTT(40) DEF Expected, Suits, MatchesPath

LEMMA SameExpected ==
  ASSUME routes' = routes, request' = request
  PROVE  Segs' = Segs /\ Expected' = Expected
<1>1. Segs' = Segs
  BY Zenon DEF Segs
<1> QED
  BY <1>1 DEF Expected

(* The next route, after one that does not suit.                             *)
LEMMA NextRoute ==
  ASSUME RouterInv, response = Pending, j <= Len(routes), ~Suits(j),
         UNCHANGED <<routes, request, response>>,
         j' = j + 1, i' = 0, params' = {},
         any_path_matched' = (any_path_matched \/ MatchesPath(j))
  PROVE  RouterInv'
<1>1. Len(routes) \in Nat /\ j \in 1..Len(routes)
  BY GivenShapes DEF RouterInv, TypeOK
<1>2. Given' /\ Segs' = Segs
  BY Zenon DEF RouterInv, Given, Segs
<1>3. \A n : (Suits(n)' <=> Suits(n)) /\ (MatchesPath(n)' <=> MatchesPath(n))
  BY <1>2, Zenon DEF Suits, MatchesPath
<1>4. TypeOK'
  <2>1. j' \in 1..(Len(routes') + 1) /\ response'.status \in {"pending", "404", "405", "handled"}
    BY <1>1 DEF RouterInv, TypeOK
  <2>2. any_path_matched' \in BOOLEAN
    BY Zenon DEF RouterInv, TypeOK
  <2>3. j' <= Len(routes') => Len(Pattern') \in Nat
    BY <1>2, <2>1, GivenShapes DEF Pattern
  <2> QED
    BY <2>1, <2>2, <2>3 DEF TypeOK
<1>5. MatchInv'
  BY DEF MatchInv
<1>6. DispatchInv'
  <2>1. 1..(j' - 1) = 1..(j - 1) \cup {j}
    BY <1>1
  <2> QED
    BY <1>3, <2>1, Zenon DEF RouterInv, DispatchInv
<1>7. DispatchCorrect'
  BY Zenon DEF DispatchCorrect
<1> QED
  BY <1>2, <1>4, <1>5, <1>6, <1>7, Zenon DEF RouterInv

(* A segment that does not fit, or has nothing to fit, spoils the pattern.   *)
LEMMA MisfitFails ==
  ASSUME Given, j \in 1..Len(routes), NEW k \in 1..Len(Pattern), Pattern[k].kind # "wildcard",
         ~(k <= Len(Segs)) \/ ~Fits(Pattern[k], Segs[k])
  PROVE  ~MatchesPath(j)
<1>1. Len(Pattern) \in Nat /\ Len(Segs) \in Nat
  BY GivenShapes, Zenon DEF Pattern
<1>2. HasWildcard(Pattern) => k <= Len(Pattern) - 1
  BY <1>1 DEF HasWildcard
<1> QED
  BY <1>1, <1>2 DEF MatchesPath, Means, Pattern

(* match_path returns None when the pattern does not match.                  *)
LEMMA NoMatchStep ==
  ASSUME RouterInv, response = Pending, j <= Len(routes), ~MatchesPath(j), NoMatch
  PROVE  RouterInv'
<1>1. ~Suits(j)
  BY Zenon DEF Suits
<1>2. any_path_matched' = (any_path_matched \/ MatchesPath(j))
  BY Zenon DEF NoMatch, RouterInv, TypeOK
<1> QED
  BY <1>1, <1>2, NextRoute, Zenon DEF NoMatch

(* match_path returns the captures of a pattern that matches.                *)
LEMMA MatchedStep ==
  ASSUME RouterInv, response = Pending, j <= Len(routes), MatchesPath(j),
         NEW captures, captures = Captured(Pattern, Segs), Matched(captures)
  PROVE  RouterInv'
<1>1. j \in 1..Len(routes) /\ Given
  BY GivenShapes DEF RouterInv, TypeOK
<1>2. CASE routes[j].method \in {"*", request.method}
  <2>1. /\ any_path_matched' = TRUE /\ response' = Handled(j, captures)
        /\ UNCHANGED <<routes, request, j, i, params>>
    BY <1>2, Zenon DEF Matched
  <2>2. Suits(j) /\ \A n \in 1..(j - 1) : ~Suits(n)
    BY <1>2, Zenon DEF Suits, RouterInv, DispatchInv
  <2>3. Expected' = Expected
    BY <2>1, SameExpected, Zenon
  <2>4. DispatchCorrect'
    BY <1>1, <2>1, <2>2, <2>3, FirstIsExpected, Zenon DEF DispatchCorrect, Pattern
  <2>5. response' # Pending /\ response'.status = "handled"
    BY <2>1, Zenon DEF Handled, Pending
  <2>6. TypeOK'
    BY <2>1, <2>5, Zenon DEF RouterInv, TypeOK, Pattern
  <2> QED
    BY <2>1, <2>4, <2>5, <2>6, Zenon DEF RouterInv, Given, MatchInv, DispatchInv
<1>3. CASE routes[j].method \notin {"*", request.method}
  <2>1. ~Suits(j)
    BY <1>3, Zenon DEF Suits
  <2>2. any_path_matched' = (any_path_matched \/ MatchesPath(j))
    BY Zenon DEF Matched
  <2> QED
    BY <1>3, <2>1, <2>2, NextRoute DEF Matched
<1> QED
  BY <1>2, <1>3, Zenon

(* The next segment, after one that fits.                                    *)
LEMMA NextSegment ==
  ASSUME RouterInv, response = Pending, j <= Len(routes), i \in 1..Len(Pattern),
         Fits(Pattern[i], Segs[i]), Pattern[i].kind # "wildcard",
         i' = i + 1, params' = CapturedTo(Pattern, Segs, i),
         UNCHANGED <<routes, request, j, any_path_matched, response>>
  PROVE  RouterInv'
<1>1. Segs' = Segs /\ Pattern' = Pattern /\ Len(Pattern) \in Nat
  <2>1. Segs' = Segs /\ Pattern' = Pattern
    BY Zenon DEF Segs, Pattern
  <2>2. Given /\ j \in 1..(Len(routes) + 1)
    BY Zenon DEF RouterInv, TypeOK
  <2>3. j \in 1..Len(routes)
    BY <2>2, GivenShapes
  <2> QED
    BY <2>1, <2>2, <2>3, GivenShapes, SMTT(40) DEF Pattern
<1>2. TypeOK'
  BY <1>1 DEF RouterInv, TypeOK
<1>3. LengthFits' /\ i' - 1 = i
  BY <1>1 DEF RouterInv, MatchInv, LengthFits
<1>4. \A k \in 1..i : Fits(Pattern[k], Segs[k]) /\ Pattern[k].kind # "wildcard"
  <2>1. \A k \in 1..(i - 1) : Fits(Pattern[k], Segs[k]) /\ Pattern[k].kind # "wildcard"
    BY DEF RouterInv, MatchInv
  <2>2. 1..i = 1..(i - 1) \cup {i}
    OBVIOUS
  <2> QED
    BY <2>1, <2>2, Zenon
<1>5. MatchInv'
  BY <1>1, <1>3, <1>4, SMTT(40) DEF MatchInv
<1>6. DispatchInv' /\ DispatchCorrect' /\ Given'
  BY <1>1, Zenon DEF RouterInv, DispatchInv, DispatchCorrect, Given, Suits, MatchesPath
<1> QED
  BY <1>2, <1>5, <1>6 DEF RouterInv

LEMMA CheckLengthKeeps == RouterInv /\ CheckLength => RouterInv'
<1> SUFFICES ASSUME RouterInv, CheckLength PROVE RouterInv'
  BY Zenon
<1>1. response = Pending /\ j \in 1..Len(routes) /\ i = 0 /\ params = {} /\ Len(Pattern) \in Nat
  BY GivenShapes DEF CheckLength, RouterInv, TypeOK, MatchInv, Pattern
<1>2. CASE LengthFits
  <2>1. i' = 1 /\ UNCHANGED <<routes, request, j, params, any_path_matched, response>>
    BY <1>2, Zenon DEF CheckLength
  <2>2. Segs' = Segs /\ Pattern' = Pattern
    BY <2>1, Zenon DEF Segs, Pattern
  <2>3. TypeOK' /\ LengthFits'
    BY <1>1, <1>2, <2>1, <2>2 DEF RouterInv, TypeOK, LengthFits
  <2>4. CapturedTo(Pattern, Segs, 0) = {}
    BY DEF CapturedTo, Winners, Captures
  <2>5. MatchInv'
    BY <1>1, <2>1, <2>2, <2>3, <2>4, SMTT(40) DEF MatchInv
  <2>6. DispatchInv' /\ DispatchCorrect' /\ Given'
    BY <1>1, <2>1, <2>2, Zenon DEF RouterInv, DispatchInv, DispatchCorrect, Given, Suits, MatchesPath
  <2> QED
    BY <2>3, <2>5, <2>6, Zenon DEF RouterInv
<1>3. CASE ~LengthFits
  <2>1. ~MatchesPath(j)
    BY <1>1, <1>3, SMTT(40) DEF MatchesPath, Means, LengthFits, Pattern
  <2> QED
    BY <1>1, <1>3, <2>1, NoMatchStep, SMTT(40) DEF CheckLength
<1> QED
  BY <1>2, <1>3, Zenon

(* What match_path knows at a segment.                                       *)
LEMMA AtSegmentFacts ==
  ASSUME RouterInv, NEW kind, AtSegment(kind)
  PROVE  /\ Given /\ response = Pending /\ j \in 1..Len(routes) /\ j <= Len(routes)
         /\ i \in 1..Len(Pattern) /\ i - 1 \in Nat /\ i - 1 + 1 = i
         /\ Pattern[i].kind = kind /\ Pattern[i] \in Segment
         /\ LengthFits /\ Len(Segs) \in Nat /\ Len(Pattern) \in Nat
         /\ params = CapturedTo(Pattern, Segs, i - 1)
         /\ \A k \in 1..(i - 1) : Fits(Pattern[k], Segs[k]) /\ Pattern[k].kind # "wildcard"
<1>1. Given /\ response = Pending /\ j \in 1..Len(routes) /\ j <= Len(routes)
  BY GivenShapes DEF AtSegment, RouterInv, TypeOK
<1>2. Len(Pattern) \in Nat /\ i \in 1..Len(Pattern) /\ Pattern[i] \in Segment /\ Len(Segs) \in Nat
  BY <1>1, GivenShapes, Zenon DEF AtSegment, Pattern
<1>3. i > 0 /\ i - 1 \in Nat /\ i - 1 + 1 = i
  BY <1>2
<1> QED
  BY <1>1, <1>2, <1>3, Zenon DEF AtSegment, RouterInv, MatchInv

LEMMA MatchLiteralKeeps == RouterInv /\ MatchLiteral => RouterInv'
<1> SUFFICES ASSUME RouterInv, MatchLiteral PROVE RouterInv'
  BY Zenon
<1>1. AtSegment("literal")
  BY Zenon DEF MatchLiteral
<1>2. CASE i <= Len(Segs) /\ Segs[i] = Pattern[i].name
  <2>1. Fits(Pattern[i], Segs[i]) /\ Pattern[i].kind # "wildcard"
    BY <1>1, <1>2, AtSegmentFacts DEF Fits, Literal, Segment
  <2>2. CapturedTo(Pattern, Segs, i - 1 + 1) = CapturedTo(Pattern, Segs, i - 1)
    <3> HIDE DEF CapturedTo
    <3>1. i - 1 \in Nat /\ Pattern[i - 1 + 1].kind = "literal"
      BY <1>1, AtSegmentFacts, Zenon
    <3> QED
      BY <3>1, LiteralCaptures, Zenon
  <2>3. params' = CapturedTo(Pattern, Segs, i) /\ i' = i + 1
        /\ UNCHANGED <<routes, request, j, any_path_matched, response>>
    BY <1>1, <1>2, <2>2, AtSegmentFacts, SMTT(40) DEF MatchLiteral
  <2> QED
    BY <1>1, <2>1, <2>3, AtSegmentFacts, NextSegment, SMTT(40)
<1>3. CASE ~(i <= Len(Segs) /\ Segs[i] = Pattern[i].name)
  <2>1. ~(i <= Len(Segs)) \/ ~Fits(Pattern[i], Segs[i])
    BY <1>1, <1>3, AtSegmentFacts DEF Fits, Literal
  <2>2. ~MatchesPath(j)
    BY <1>1, <2>1, AtSegmentFacts, MisfitFails, Zenon
  <2> QED
    BY <1>1, <1>3, <2>2, AtSegmentFacts, NoMatchStep, SMTT(40) DEF MatchLiteral
<1> QED
  BY <1>2, <1>3, Zenon

LEMMA MatchParamKeeps == RouterInv /\ MatchParam => RouterInv'
<1> SUFFICES ASSUME RouterInv, MatchParam PROVE RouterInv'
  BY Zenon
<1>1. AtSegment("param")
  BY Zenon DEF MatchParam
<1>2. CASE i <= Len(Segs)
  <2>1. Fits(Pattern[i], Segs[i]) /\ Pattern[i].kind # "wildcard"
    BY <1>1, AtSegmentFacts DEF Fits
  <2>2. CapturedTo(Pattern, Segs, i) = Insert(params, Pattern[i].name, <<Segs[i]>>)
    <3>1. /\ i - 1 \in Nat /\ Pattern[i - 1 + 1].kind # "literal" /\ i - 1 + 1 <= Len(Segs)
          /\ i - 1 + 1 = i /\ params = CapturedTo(Pattern, Segs, i - 1)
      BY <1>1, <1>2, AtSegmentFacts, SMTT(40)
    <3>2. CapturedTo(Pattern, Segs, i - 1 + 1)
            = Insert(CapturedTo(Pattern, Segs, i - 1), Pattern[i - 1 + 1].name, Rest(Pattern, Segs, i - 1 + 1))
      BY <3>1, InsertCaptures, Zenon
    <3>3. Rest(Pattern, Segs, i) = <<Segs[i]>>
      BY <2>1, Zenon DEF Rest
    <3> QED
      BY <3>1, <3>2, <3>3, Zenon
  <2>3. params' = CapturedTo(Pattern, Segs, i) /\ i' = i + 1
        /\ UNCHANGED <<routes, request, j, any_path_matched, response>>
    BY <1>2, <2>2, Zenon DEF MatchParam
  <2> QED
    BY <1>1, <2>1, <2>3, AtSegmentFacts, NextSegment, SMTT(40)
<1>3. CASE ~(i <= Len(Segs))
  <2>1. ~MatchesPath(j)
    BY <1>1, <1>3, AtSegmentFacts, MisfitFails, Zenon
  <2> QED
    BY <1>1, <1>3, <2>1, AtSegmentFacts, NoMatchStep DEF MatchParam
<1> QED
  BY <1>2, <1>3, Zenon

(* A wildcard is the last segment, so every segment before it was tried.     *)
LEMMA MatchWildcardKeeps == RouterInv /\ MatchWildcard => RouterInv'
<1> SUFFICES ASSUME RouterInv, MatchWildcard PROVE RouterInv'
  BY Zenon
<1>1. AtSegment("wildcard")
  BY Zenon DEF MatchWildcard
<1> DEFINE captures == IF i <= Len(Segs)
                         THEN Insert(params, Pattern[i].name, SubSeq(Segs, i, Len(Segs)))
                         ELSE params
<1>2. i = Len(Pattern)
  <2>1. Given /\ j \in 1..Len(routes) /\ i \in 1..Len(Pattern) /\ Pattern[i].kind = "wildcard"
    BY <1>1, AtSegmentFacts, Zenon
  <2>2. \A k \in 1..Len(Pattern) : Pattern[k].kind = "wildcard" => k = Len(Pattern)
    BY <2>1, GivenShapes, Zenon DEF Pattern
  <2> QED
    BY <2>1, <2>2, Zenon
<1>3. HasWildcard(Pattern)
  BY <1>1, <1>2, AtSegmentFacts DEF HasWildcard
<1>4. MatchesPath(j)
  <2>1. \A k \in 1..(Len(Pattern) - 1) : Fits(Pattern[k], Segs[k])
    BY <1>1, <1>2, AtSegmentFacts, Zenon
  <2>2. Len(Segs) >= Len(Pattern) - 1
    BY <1>1, <1>3, AtSegmentFacts, Zenon DEF LengthFits
  <2> QED
    BY <1>3, <2>1, <2>2 DEF MatchesPath, Means, Pattern
<1>5. captures = CapturedTo(Pattern, Segs, i)
  <2>1. i - 1 \in Nat /\ i - 1 + 1 = i /\ params = CapturedTo(Pattern, Segs, i - 1)
    BY <1>1, AtSegmentFacts, Zenon
  <2>2. CASE i <= Len(Segs)
    <3>1. Pattern[i - 1 + 1].kind # "literal" /\ i - 1 + 1 <= Len(Segs)
      BY <1>1, <2>1, <2>2, AtSegmentFacts, SMTT(40)
    <3>2. CapturedTo(Pattern, Segs, i - 1 + 1)
            = Insert(CapturedTo(Pattern, Segs, i - 1), Pattern[i - 1 + 1].name, Rest(Pattern, Segs, i - 1 + 1))
      BY <2>1, <3>1, InsertCaptures, Zenon
    <3>3. Rest(Pattern, Segs, i) = SubSeq(Segs, i, Len(Segs))
      BY <1>1, AtSegmentFacts, Zenon DEF Rest
    <3> QED
      BY <2>1, <2>2, <3>2, <3>3, ZenonT(40)
  <2>3. CASE ~(i <= Len(Segs))
    <3>1. CapturedTo(Pattern, Segs, i - 1 + 1) = CapturedTo(Pattern, Segs, i - 1)
      BY <2>1, <2>3, LiteralCaptures, Zenon
    <3> QED
      BY <2>1, <2>3, <3>1, Zenon
  <2> QED
    BY <2>2, <2>3, Zenon
<1>6. captures = Captured(Pattern, Segs)
  BY <1>2, <1>5, CapturedIsAll, SMTT(40)
<1>7. Matched(captures) /\ response = Pending /\ j <= Len(routes)
  BY <1>1, AtSegmentFacts, Zenon DEF MatchWildcard
<1> HIDE DEF captures
<1> QED
  BY <1>4, <1>6, <1>7, MatchedStep, Zenon

LEMMA MatchEndKeeps == RouterInv /\ MatchEnd => RouterInv'
<1> SUFFICES ASSUME RouterInv, MatchEnd PROVE RouterInv'
  BY Zenon
<1>1. /\ response = Pending /\ j \in 1..Len(routes) /\ j <= Len(routes) /\ Matched(params)
      /\ i = Len(Pattern) + 1 /\ Len(Pattern) \in Nat /\ Pattern \in Seq(Segment)
  <2>1. /\ Given /\ response = Pending /\ j <= Len(routes) /\ Matched(params) /\ i = Len(Pattern) + 1
        /\ j \in 1..(Len(routes) + 1)
    BY Zenon DEF MatchEnd, RouterInv, TypeOK
  <2>2. Len(routes) \in Nat
    BY <2>1, GivenShapes, Zenon
  <2>3. j \in 1..Len(routes)
    BY <2>1, <2>2
  <2>4. Len(Pattern) \in Nat /\ Pattern \in Seq(Segment)
    BY <2>1, <2>3, GivenShapes DEF Pattern
  <2> QED
    BY <2>1, <2>3, <2>4, Zenon
<1>2. i > 0 /\ i - 1 = Len(Pattern)
  BY <1>1
<1>3. /\ LengthFits /\ params = CapturedTo(Pattern, Segs, Len(Pattern))
      /\ \A k \in 1..Len(Pattern) : Fits(Pattern[k], Segs[k]) /\ Pattern[k].kind # "wildcard"
  BY <1>1, <1>2, SMTT(40) DEF RouterInv, MatchInv
<1>4. ~HasWildcard(Pattern)
  <2>1. Pattern # <<>> => Len(Pattern) \in 1..Len(Pattern)
    BY <1>1, NonemptyText, SMTT(40)
  <2> QED
    BY <1>3, <2>1, Zenon DEF HasWildcard
<1>5. MatchesPath(j)
  BY <1>3, <1>4, Zenon DEF MatchesPath, Means, Pattern, LengthFits
<1>6. params = Captured(Pattern, Segs)
  BY <1>3, CapturedIsAll, SMTT(40)
<1> QED
  BY <1>1, <1>5, <1>6, MatchedStep

LEMMA NoRouteKeeps == RouterInv /\ NoRoute => RouterInv'
<1> SUFFICES ASSUME RouterInv, NoRoute PROVE RouterInv'
  BY Zenon
<1>1. Given /\ response = Pending /\ Len(routes) \in Nat /\ j - 1 = Len(routes)
  BY GivenShapes DEF RouterInv, NoRoute, TypeOK
<1>2. /\ UNCHANGED <<routes, request, j, i, params, any_path_matched>>
      /\ response' = IF any_path_matched THEN MethodNotAllowed ELSE NotFound
  BY Zenon DEF NoRoute
<1>3. /\ \A n \in 1..Len(routes) : ~Suits(n)
      /\ any_path_matched <=> \E n \in 1..Len(routes) : MatchesPath(n)
  BY <1>1, Zenon DEF RouterInv, DispatchInv
<1>4. Expected' = Expected
  BY <1>2, SameExpected, Zenon
<1>5. DispatchCorrect'
  BY <1>1, <1>2, <1>3, <1>4, NoneIsExpected, SMTT(40) DEF DispatchCorrect
<1>6. response' # Pending /\ response'.status \in {"404", "405"}
  BY <1>2, Zenon DEF Pending, MethodNotAllowed, NotFound
<1>7. TypeOK'
  BY <1>2, <1>6, Zenon DEF RouterInv, TypeOK, Pattern
<1> QED
  BY <1>2, <1>5, <1>6, <1>7, SMTT(40) DEF RouterInv, Given, MatchInv, DispatchInv

LEMMA StepKeeps == RouterInv /\ Step => RouterInv'
BY CheckLengthKeeps, MatchLiteralKeeps, MatchParamKeeps, MatchWildcardKeeps, MatchEndKeeps,
   NoRouteKeeps, SMTT(40) DEF Step

LEMMA RouterInitially == Init => RouterInv
<1> SUFFICES ASSUME Init PROVE RouterInv
  BY Zenon
<1>1. Given
  BY Zenon DEF Init, Given
<1>2. Len(routes) \in Nat /\ \A n \in 1..Len(routes) : Len(routes[n].segments) \in Nat
  BY <1>1, GivenShapes, Zenon
<1>3. TypeOK
  <2>1. j = 1 /\ i = 0 /\ any_path_matched = FALSE /\ response = Pending
    BY Zenon DEF Init
  <2>2. j \in 1..(Len(routes) + 1) /\ (j <= Len(routes) => j \in 1..Len(routes))
    BY <1>2, <2>1
  <2>3. j <= Len(routes) => i \in 0..(Len(Pattern) + 1)
    BY <1>2, <2>1, <2>2 DEF Pattern
  <2>4. response.status = "pending"
    BY <2>1, Zenon DEF Pending
  <2> QED
    BY <2>1, <2>2, <2>3, <2>4, Zenon DEF TypeOK
<1> QED
  BY <1>1, <1>3 DEF Init, RouterInv, MatchInv, DispatchInv, DispatchCorrect

(* A step that leaves the router's variables alone.                          *)
LEMMA RouterStutters == RouterInv /\ UNCHANGED vars => RouterInv'
<1> SUFFICES ASSUME RouterInv, UNCHANGED vars PROVE RouterInv'
  BY Zenon
<1>1. Segs' = Segs /\ Pattern' = Pattern /\ Expected' = Expected
  BY SameExpected, Zenon DEF vars, Pattern
<1>2. Given' /\ TypeOK' /\ DispatchCorrect'
  BY <1>1, Zenon DEF vars, RouterInv, Given, TypeOK, DispatchCorrect
<1>3. MatchInv' /\ DispatchInv'
  BY <1>1, Zenon DEF vars, RouterInv, MatchInv, DispatchInv, LengthFits, Suits, MatchesPath
<1> QED
  BY <1>2, <1>3, Zenon DEF RouterInv

(* The exchange moves the router by Dispatch alone.                          *)
LEMMA RouterInductive == RouterInv /\ [ExchangeNext]_evars => RouterInv'
<1> SUFFICES ASSUME RouterInv, [ExchangeNext]_evars PROVE RouterInv'
  BY Zenon
<1>1. CASE Dispatch
  BY <1>1, StepKeeps, Zenon DEF Dispatch
<1>2. CASE ~Dispatch
  <2>1. UNCHANGED vars
    BY <1>2, Zenon DEF ExchangeNext, LogRequest, NotRouted, CallHandler, HandlerAnswers, Timeout, LogResponse, Static,
       ServeFile, IoError, Metadata, Open, Fstat, FileUnchanged, StreamChunk, StreamEnd,
       StreamError, StreamUnchanged, ProxyNext, Send, Unreachable, UpstreamHead, Relay,
       BodyFails, Deploy, Rename, Rewrite, Deploying, RedirectAnswer, Finished, evars
  <2> QED
    BY <2>1, RouterStutters, Zenon
<1> QED
  BY <1>1, <1>2, Zenon

(* What dispatch knows at every step of its two loops: no earlier route       *)
(* suits the request, and what any_path_matched and the captures so far       *)
(* record is what the reference means (Router::dispatch,                      *)
(* RouteEntry::match_path).                                                   *)
THEOREM Routing == ExchangeSpec => []RouterInv
<1>1. ExchangeInit => RouterInv
  BY RouterInitially, Zenon DEF ExchangeInit
<1> QED
  BY <1>1, RouterInductive, PTL DEF ExchangeSpec

(* Dispatch calls the handler of the first route whose method and path match, *)
(* with the captures of its own pattern, or says 405 or 404, for every table  *)
(* of routes and every path (Router::dispatch, RouteEntry::match_path).       *)
THEOREM DispatchIsCorrect == ExchangeSpec => []DispatchCorrect
<1>1. RouterInv => DispatchCorrect
  BY Zenon DEF RouterInv
<1> QED
  BY <1>1, Routing, PTL

----------------------------------------------------------------------------
(* Routes do not compete.                                                    *)

(* The route a request was handled by suits it, and no route before does.    *)
LEMMA HandledFirst ==
  ASSUME RouterInv, response.status = "handled"
  PROVE  /\ response.route \in 1..Len(routes) /\ Suits(response.route)
         /\ \A n \in 1..(response.route - 1) : ~Suits(n)
<1> DEFINE both == {n \in 1..Len(routes) : Suits(n)}
<1>1. Given /\ response = Expected
  BY DEF RouterInv, DispatchCorrect, Pending
<1>2. Len(routes) \in Nat
  BY <1>1, GivenShapes, Zenon
<1>3. both # {}
  <2> SUFFICES ASSUME \A n \in 1..Len(routes) : ~Suits(n) PROVE FALSE
    BY Zenon
  <2>1. Expected \in {MethodNotAllowed, NotFound}
    BY <1>1, NoneIsExpected, Zenon
  <2> QED
    BY <1>1, <2>1 DEF MethodNotAllowed, NotFound
<1>4. PICK f \in both : \A n \in both : f <= n
  <2>1. both \in SUBSET Nat
    BY <1>2
  <2> HIDE DEF both
  <2> QED
    BY <1>3, <2>1, NatMin
<1>5. f \in 1..Len(routes) /\ Suits(f) /\ \A n \in 1..(f - 1) : ~Suits(n)
  BY <1>2, <1>4
<1>6. response = Handled(f, Captured(routes[f].segments, Segs))
  BY <1>1, <1>5, FirstIsExpected, Zenon
<1>7. response.route = f
  BY <1>6, Zenon DEF Handled
<1> QED
  BY <1>5, <1>7, Zenon

(* It is the only one of its method that matches the path: the proxy's is    *)
(* the last of the table, and no two others serve the same request.          *)
LEMMA OnlyHandler ==
  ASSUME RouterInv, routes \in Registered, response.status = "handled",
         NEW n \in 1..Len(routes),
         Means(routes[n].segments, Segs), routes[n].method = request.method
  PROVE  n = response.route
<1> DEFINE f == response.route
<1>1. f \in 1..Len(routes) /\ Suits(f) /\ \A k \in 1..(f - 1) : ~Suits(k)
  BY HandledFirst, Zenon
<1>2. Suits(n)
  BY Zenon DEF Suits, MatchesPath
<1>3. Segs \in Seq(STRING) /\ Len(routes) \in Nat
  <2>1. Given
    BY Zenon DEF RouterInv
  <2> QED
    BY <2>1, GivenShapes, PathsOfStrings, Zenon DEF Given, Segs
<1>4. f <= n
  BY <1>1, <1>2, <1>3, SMTT(40)
<1>5. CASE routes[f].method = "*"
  <2>1. f = Len(routes)
    BY <1>1, <1>5, RoutesApart, Zenon
  <2> QED
    BY <1>3, <1>4, <2>1
<1>6. CASE routes[f].method # "*"
  <2>1. routes[f].method = request.method /\ Means(routes[f].segments, Segs)
    BY <1>1, <1>6 DEF Suits, MatchesPath
  <2>2. Proxy.method = "*"
    BY UiRoutes, Zenon DEF Is
  <2>3. routes[f] # Proxy /\ routes[n] # Proxy
    BY <1>6, <2>1, <2>2, Zenon
  <2>4. Serves(routes[f], request.method, Segs) /\ Serves(routes[n], request.method, Segs)
    BY <2>1, Zenon DEF Serves
  <2> QED
    BY <1>1, <1>3, <2>3, <2>4, RoutesApart, ZenonT(40)
<1> QED
  BY <1>5, <1>6, Zenon

(* A request a local route of build_router serves matches no other local     *)
(* route, and the proxy's catch-all takes nothing a local route serves, for   *)
(* every configuration and every path.                                       *)
THEOREM LocalRoutesAreDisjoint == ExchangeSpec => []LocalRoutesDisjoint
<1>1. RouterInv => LocalRoutesDisjoint
  BY OnlyHandler, Zenon DEF LocalRoutesDisjoint
<1> QED
  BY <1>1, Routing, PTL

----------------------------------------------------------------------------
(* Forms.  What the handler read is kept, with the route it read it for.     *)
FormInv ==
  form # <<>> => at \notin {"redirect", "in", "dispatch"} /\ form = Reads(Called)

(* What a handler would read depends on the request and the route alone.     *)
LEMMA ReadsSame ==
  ASSUME UNCHANGED vars
  PROVE  Called' = Called /\ Reads(Called)' = Reads(Called)
<1>1. UNCHANGED <<routes, request, response>>
  BY Zenon DEF vars
<1>2. Called' = Called
  BY <1>1, Zenon DEF Called
<1>3. Body' = Body
  BY <1>1 DEF Body
<1> QED
  BY <1>1, <1>2, <1>3, Zenon DEF Reads

(* Only a handler that answers reads a form; nothing routes afterwards.      *)
LEMMA FormInductive == FormInv /\ [ExchangeNext]_evars => FormInv'
<1> SUFFICES ASSUME FormInv, [ExchangeNext]_evars PROVE FormInv'
  BY Zenon
<1>1. CASE HandlerAnswers
  <2>1. form' = Reads(Called) /\ UNCHANGED vars /\ at' = "log"
    BY <1>1, Zenon DEF HandlerAnswers, Responds
  <2> QED
    BY <2>1, ReadsSame, Zenon DEF FormInv
<1>2. CASE ~HandlerAnswers
  <2>1. form' = form
    BY <1>2, Zenon DEF ExchangeNext, LogRequest, Dispatch, NotRouted, CallHandler, Timeout, LogResponse, Static,
       ServeFile, IoError, Metadata, Open, Fstat, FileUnchanged, StreamChunk, StreamEnd,
       StreamError, StreamUnchanged, ProxyNext, Send, Unreachable, UpstreamHead, Relay,
       BodyFails, Deploy, Rename, Rewrite, Deploying, RedirectAnswer, Finished, evars, reply
  <2> SUFFICES ASSUME form # <<>> PROVE FormInv'
    BY <2>1, Zenon DEF FormInv
  <2>2. at \notin {"redirect", "in", "dispatch"} /\ form = Reads(Called)
    BY Zenon DEF FormInv
  <2>3. UNCHANGED vars
    BY <1>2, <2>2, ZenonT(40) DEF ExchangeNext, LogRequest, Dispatch, NotRouted, CallHandler, Timeout, LogResponse, Static,
       ServeFile, IoError, Metadata, Open, Fstat, FileUnchanged, StreamChunk, StreamEnd,
       StreamError, StreamUnchanged, ProxyNext, Send, Unreachable, UpstreamHead, Relay,
       BodyFails, Deploy, Rename, Rewrite, Deploying, RedirectAnswer, Finished, evars
  <2>4. at' = at \/ at' \in {"open", "fstat", "relay", "log", "stream", "done"}
    <3>1. CASE Static
      BY <2>2, <3>1, Zenon DEF Static, ServeFile, IoError, Metadata, Open, Fstat, StreamChunk, StreamEnd,
         StreamError, Responds
    <3>2. CASE ProxyNext \/ Deploy \/ RedirectAnswer \/ Finished \/ UNCHANGED evars
      BY <2>2, <3>2, Zenon DEF ProxyNext, Send, Unreachable, UpstreamHead, Relay, BodyFails, Deploy,
         Rename, Rewrite, Deploying, RedirectAnswer, Finished, evars, Responds
    <3>3. CASE LogRequest \/ Dispatch \/ NotRouted \/ CallHandler \/ Timeout \/ LogResponse
      BY <2>2, <3>3, Zenon DEF LogRequest, Dispatch, NotRouted, CallHandler, Timeout, LogResponse, Responds
    <3> QED
      BY <1>2, <3>1, <3>2, <3>3, ZenonT(40) DEF ExchangeNext
  <2> QED
    BY <2>1, <2>2, <2>3, <2>4, ReadsSame, SMTT(40) DEF FormInv
<1> QED
  BY <1>1, <1>2, Zenon

(* The routes that read a form or a query are different.                     *)
LEMMA ReadersApart ==
  /\ UiLogin # UiCreate /\ UiLogin # UiLogout /\ UiLogin # UiDelete /\ UiLogin # UiItems
  /\ UiCreate # UiLogout /\ UiCreate # UiDelete /\ UiCreate # UiItems
  /\ UiLogout # UiItems /\ UiDelete # UiItems
<1>1. /\ UiLogin.method = "POST" /\ UiLogin.segments = <<L("ui"), L("login")>>
      /\ UiCreate.method = "POST" /\ UiCreate.segments = <<L("ui"), L("items")>>
      /\ UiLogout.method = "POST" /\ UiLogout.segments = <<L("ui"), L("logout")>>
      /\ UiDelete.method = "POST" /\ UiDelete.segments = <<L("ui"), L("items"), Param("id"), L("delete")>>
      /\ UiItems.method = "GET"
  BY UiRoutes, Zenon DEF Is
<1>2. L("login") # L("items") /\ L("login") # L("logout") /\ L("items") # L("logout")
  BY Zenon DEF L, Literal
<1>3. /\ <<L("ui"), L("login")>> # <<L("ui"), L("items")>>
      /\ <<L("ui"), L("login")>> # <<L("ui"), L("logout")>>
      /\ <<L("ui"), L("items")>> # <<L("ui"), L("logout")>>
  BY <1>2, Zenon
<1>4. /\ <<L("ui"), L("login")>> # <<L("ui"), L("items"), Param("id"), L("delete")>>
      /\ <<L("ui"), L("items")>> # <<L("ui"), L("items"), Param("id"), L("delete")>>
  BY Zenon
<1> QED
  BY <1>1, <1>3, <1>4, Zenon

(* What a handler gets for a key is what was typed.                          *)
LEMMA ReadsTyped ==
  ASSUME Given, NEW c \in Alnum
  PROVE  /\ FormField(Body, <<c>>) = Typed(<<c>>)
         /\ UnwrapOrDefault(FormParam(Body, <<c>>)) = Typed(<<c>>)
<1>1. request.fields \in Seq(Input) /\ Distinct(request.fields)
  BY ClientRequests, Zenon DEF Given, Distinct
<1>2. /\ FormField(Body, <<c>>) = Entered(request.fields, <<c>>)
      /\ UnwrapOrDefault(FormParam(Body, <<c>>)) = Entered(request.fields, <<c>>)
  BY <1>1, FieldsRead, Zenon DEF Body
<1>3. Entered(request.fields, <<c>>) = Typed(<<c>>)
  BY Zenon DEF Entered, Typed
<1> QED
  BY <1>2, <1>3, Zenon

(* The flash message is the query with its escapes decoded, as UTF-8.        *)
LEMMA QueryDecoded ==
  ASSUME Given
  PROVE  FormParam(KeyF \o <<Equals>> \o request.query, KeyF) = Utf8(DecodedBytes(request.query))
<1>1. request.query \in Seq(0..127 \ {Ampersand})
  BY ClientRequests, Zenon DEF Given
<1>2. request.query \in Seq(Int \ {Ampersand}) /\ 102 \in Alnum
  <2>1. 0..127 \ {Ampersand} \subseteq Int \ {Ampersand} /\ 102 \in Alnum
    BY DEF Alnum
  <2> QED
    BY <1>1, <2>1, SeqOf
<1> QED
  BY <1>2, QueryRead, Zenon DEF KeyF

(* What was typed into a browser's form is what the handlers of POST          *)
(* /ui/login, /ui/items, /ui/logout and /ui/items/:id/delete read, whatever   *)
(* the texts are, and the flash message of GET /ui/items is what the comment  *)
(* on percent_decode says of a query that decodes to UTF-8 (form_param,       *)
(* query_param, percent_decode).                                             *)
THEOREM FormsRoundTrip == ExchangeSpec => []FormRoundTrip
<1>1. ExchangeInit => FormInv
  BY Zenon DEF ExchangeInit, Init0, FormInv
<1>2. RouterInv /\ FormInv => FormRoundTrip
  <2> SUFFICES ASSUME Given, FormInv, form # <<>> PROVE FormRoundTrip
    BY Zenon DEF RouterInv, FormRoundTrip
  <2>1. form = Reads(Called)
    BY Zenon DEF FormInv
  <2>2. 117 \in Alnum /\ 112 \in Alnum /\ 99 \in Alnum /\ 110 \in Alnum /\ 100 \in Alnum
    BY DEF Alnum
  <2>3. FormField(Body, KeyU) = Typed(KeyU) /\ FormField(Body, KeyP) = Typed(KeyP)
    BY <2>2, ReadsTyped, Zenon DEF KeyU, KeyP
  <2>4. FormField(Body, KeyN) = Typed(KeyN) /\ FormField(Body, KeyD) = Typed(KeyD)
    BY <2>2, ReadsTyped, Zenon DEF KeyN, KeyD
  <2>5. UnwrapOrDefault(FormParam(Body, KeyC)) = Typed(KeyC)
    BY <2>2, ReadsTyped, Zenon DEF KeyC
  <2>6. CASE Called = UiLogin
    BY <2>1, <2>3, <2>6, ReadersApart, Zenon DEF FormRoundTrip, Reads
  <2>7. CASE Called = UiCreate
    BY <2>1, <2>4, <2>5, <2>7, ReadersApart, ZenonT(40) DEF FormRoundTrip, Reads
  <2>8. CASE Called \in {UiLogout, UiDelete}
    BY <2>1, <2>5, <2>8, ReadersApart, Zenon DEF FormRoundTrip, Reads
  <2>9. CASE Called = UiItems
    BY <2>1, <2>9, QueryDecoded, ReadersApart, Zenon DEF FormRoundTrip, Reads
  <2>10. CASE Called \notin {UiLogin, UiCreate, UiLogout, UiDelete, UiItems}
    BY <2>10, Zenon DEF FormRoundTrip
  <2> QED
    BY <2>6, <2>7, <2>8, <2>9, <2>10, ZenonT(40)
<1> QED
  BY <1>1, <1>2, FormInductive, Routing, PTL DEF ExchangeSpec
=============================================================================
