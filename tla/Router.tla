------------------------------- MODULE Router -------------------------------
(***************************************************************************)
(* The router: Router::dispatch and RouteEntry::match_path in              *)
(* src/http/router.rs.  The two nested loops are translated step by step   *)
(* and checked against a declarative definition of what the documentation  *)
(* of Router promises.                                                     *)
(*                                                                         *)
(* A path is the sequence of strings its slashes separate, "" for two      *)
(* slashes in a row; a compiled pattern is a sequence of segments.         *)
(***************************************************************************)
EXTENDS Loops

CONSTANTS
  RouteTables,  \* the sequences of routes to try
  Requests(_)   \* the requests to try with a sequence of routes

Literal(s) == [kind |-> "literal", name |-> s]
Param(s) == [kind |-> "param", name |-> s]
Wildcard(s) == [kind |-> "wildcard", name |-> s]

(* split('/').filter(nonempty), for patterns.                              *)
ParsePattern(pattern) == Without(pattern, Literal(""))

(* A registered route; any() registers the method "*".                     *)
Route(method, pattern) ==
  [method |-> method, segments |-> ParsePattern(pattern)]

VARIABLES
  routes,            \* the registered routes, in order
  request,           \* its method and path
  j,                 \* the route dispatch looks at
  i,                 \* the segment match_path looks at, 0 before the loop
  params,            \* the captures so far, as pairs of name and value
  any_path_matched,
  response           \* 404, 405, or the handler called and its captures

vars == <<routes, request, j, i, params, any_path_matched, response>>

Pending == [status |-> "pending"]
NotFound == [status |-> "404"]
MethodNotAllowed == [status |-> "405"]
Handled(n, captures) == [status |-> "handled", route |-> n, params |-> captures]

(* split('/').filter(nonempty), for paths.                                 *)
PathSegments(path) == Without(path, "")

Segment == [kind : {"literal", "param", "wildcard"}, name : STRING]

(* A wildcard "must appear as the **last** segment" (PathSegment).         *)
WellFormed(segments) ==
  \A k \in 1..Len(segments) : segments[k].kind = "wildcard" => k = Len(segments)

ASSUME RoutesWellFormed ==
  \A table \in RouteTables :
    /\ table \in Seq([method : STRING, segments : Seq(Segment)])
    /\ \A n \in 1..Len(table) : WellFormed(table[n].segments)

ASSUME PathsOfStrings ==
  \A table \in RouteTables : \A r \in Requests(table) : PathSegments(r.path) \in Seq(STRING)

Segs == PathSegments(request.path)
Pattern == routes[j].segments

Init ==
  /\ routes \in RouteTables
  /\ request \in Requests(routes)
  /\ j = 1 /\ i = 0
  /\ params = {}
  /\ any_path_matched = FALSE
  /\ response = Pending

(* HashMap::insert.                                                        *)
Insert(captures, name, value) ==
  {c \in captures : c[1] # name} \cup {<<name, value>>}

HasWildcard(segments) ==
  segments # <<>> /\ segments[Len(segments)].kind = "wildcard"

(* The check of the lengths before the loop of match_path.                 *)
LengthFits ==
  IF HasWildcard(Pattern) THEN Len(Segs) >= Len(Pattern) - 1
                          ELSE Len(Segs) = Len(Pattern)

-----------------------------------------------------------------------------

(* Variant: the next route is matched from where this one stopped.         *)
NoMatchKeepingSegment ==
  /\ j' = j + 1 /\ params' = {}
  /\ UNCHANGED <<routes, request, i, any_path_matched, response>>

(* match_path returned None: the next route.                               *)
NoMatch ==
  /\ j' = j + 1 /\ i' = 0 /\ params' = {}
  /\ UNCHANGED <<routes, request, any_path_matched, response>>

(* Variant: a path match with the wrong method ends the search.            *)
MatchedStopping(captures) ==
  /\ any_path_matched' = TRUE
  /\ response' = IF routes[j].method \in {"*", request.method}
                   THEN Handled(j, captures) ELSE MethodNotAllowed
  /\ UNCHANGED <<routes, request, j, i, params>>

(* match_path returned Some(captures): the handler, or the next route when *)
(* the method is another.                                                  *)
Matched(captures) ==
  /\ any_path_matched' = TRUE
  /\ IF routes[j].method \in {"*", request.method}
       THEN /\ response' = Handled(j, captures)
            /\ UNCHANGED <<routes, request, j, i, params>>
       ELSE /\ j' = j + 1 /\ i' = 0 /\ params' = {}
            /\ UNCHANGED <<routes, request, response>>

(* The start of match_path.                                                *)
CheckLength ==
  /\ response = Pending /\ j <= Len(routes) /\ i = 0
  /\ IF LengthFits
       THEN i' = 1 /\ UNCHANGED <<routes, request, j, params,
                                  any_path_matched, response>>
       ELSE NoMatch

AtSegment(kind) ==
  /\ response = Pending /\ j <= Len(routes)
  /\ i \in 1..Len(Pattern)
  /\ Pattern[i].kind = kind

MatchLiteral ==
  /\ AtSegment("literal")
  /\ IF i <= Len(Segs) /\ Segs[i] = Pattern[i].name
       THEN i' = i + 1 /\ UNCHANGED <<routes, request, j, params,
                                      any_path_matched, response>>
       ELSE NoMatch

MatchParam ==
  /\ AtSegment("param")
  /\ IF i <= Len(Segs)
       THEN /\ params' = Insert(params, Pattern[i].name, <<Segs[i]>>)
            /\ i' = i + 1
            /\ UNCHANGED <<routes, request, j, any_path_matched, response>>
       ELSE NoMatch

(* The rest of the path, joined by slashes, if there is a rest.            *)
MatchWildcard ==
  /\ AtSegment("wildcard")
  /\ Matched(IF i <= Len(Segs)
               THEN Insert(params, Pattern[i].name, SubSeq(Segs, i, Len(Segs)))
               ELSE params)

(* The loop of match_path ran to its end.                                  *)
MatchEnd ==
  /\ response = Pending /\ j <= Len(routes)
  /\ i = Len(Pattern) + 1
  /\ Matched(params)

(* The loop of dispatch ran to its end.                                    *)
NoRoute ==
  /\ response = Pending /\ j > Len(routes)
  /\ response' = IF any_path_matched THEN MethodNotAllowed ELSE NotFound
  /\ UNCHANGED <<routes, request, j, i, params, any_path_matched>>

Step ==
  \/ CheckLength \/ MatchLiteral \/ MatchParam \/ MatchWildcard
  \/ MatchEnd \/ NoRoute

-----------------------------------------------------------------------------
(* The reference: what a pattern means, for patterns whose only wildcard,  *)
(* if any, is the last segment.                                            *)

Fits(segment, s) == segment.kind = "param" \/ segment = Literal(s)

Means(segments, segs) ==
  LET n == Len(segments)
      wild == HasWildcard(segments)
      fixed == IF wild THEN n - 1 ELSE n
  IN  /\ IF wild THEN Len(segs) >= fixed ELSE Len(segs) = fixed
      /\ \A k \in 1..fixed : Fits(segments[k], segs[k])

(* The value of each name: the last segment that captures it wins.         *)
Captured(segments, segs) ==
  LET rest(k) == IF segments[k].kind = "wildcard"
                   THEN SubSeq(segs, k, Len(segs)) ELSE <<segs[k]>>
      captures == {k \in 1..Len(segments) :
                     segments[k].kind # "literal" /\ k <= Len(segs)}
  IN  {<<segments[k].name, rest(k)>> :
         k \in {k \in captures : \A l \in captures :
                  l > k => segments[l].name # segments[k].name}}

Expected ==
  LET paths == {n \in 1..Len(routes) : Means(routes[n].segments, Segs)}
      both == {n \in paths : routes[n].method \in {"*", request.method}}
  IN  IF both # {}
        THEN LET first == CHOOSE n \in both : \A k \in both : n <= k
             IN  Handled(first, Captured(routes[first].segments, Segs))
        ELSE IF paths # {} THEN MethodNotAllowed ELSE NotFound

TypeOK ==
  /\ j \in 1..(Len(routes) + 1)
  /\ j <= Len(routes) => i \in 0..(Len(Pattern) + 1)
  /\ any_path_matched \in BOOLEAN
  /\ response.status \in {"pending", "404", "405", "handled"}

(* "The first route whose method *and* path pattern both match the         *)
(* incoming request is dispatched.  If a path matches but no registered    *)
(* method does, a `405 Method Not Allowed` is returned.  Unmatched paths   *)
(* yield `404 Not Found`." (the comment on Router): dispatch answers so,   *)
(* and the handler gets the captures its own pattern defines and no other. *)
DispatchCorrect == response # Pending => response = Expected
==============================================================================
