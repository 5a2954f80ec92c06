---------------------------- MODULE RouteMatcher ----------------------------
(***************************************************************************)
(* parse_route (src/wallet/src/main.rs) step by step: one call per        *)
(* request, the outer loop over the alternatives of PATH, the inner loop  *)
(* over the tokens of one pattern, then the decision on the number of     *)
(* alternatives that matched.  The diagnostic text arg_doc is kept as the *)
(* sequence of lines it is made of, each line a record of what it reports; *)
(* wording and layout are left out.                                       *)
(***************************************************************************)
EXTENDS RoutePatterns, TLC

VARIABLES
  api,                     \* &req.state().api["route"][first_segment]
  req,                     \* the request's path segments
  pc,                      \* "idle", "route", "segment" or "done"
  route_ix,                \* index of route_pattern in route_patterns
  seg_ix,                  \* index of pat_segment in the split pattern
  req_cursor,              \* position of the next item of req_segments
  found_literal_mismatch,
  argument_parse_failed,
  matching_route_count,
  matching_route,
  bindings,                \* pattern -> (parameter -> parsed value)
  arg_doc,                 \* the lines of the diagnostic text
  result                   \* what the last call returned

vars == <<api, req, pc, route_ix, seg_ix, req_cursor, found_literal_mismatch,
          argument_parse_failed, matching_route_count, matching_route,
          bindings, arg_doc, result>>

NoResult == [kind |-> "None", route |-> <<>>, bindings |-> NoBindings, doc |-> <<>>]

Pattern == api.path[route_ix]
Token   == Pattern[seg_ix]

\* api.get(pat_segment) is Some: the group table has the token as a key.
IsTypedToken == Token \in Placeholders /\ api.types[Token] # Absent

\* req_segments.next().unwrap_or("") and the iterator after that call.
ReqSegment == IF req_cursor <= Len(req) THEN req[req_cursor] ELSE ""
NextCursor == IF req_cursor <= Len(req) THEN req_cursor + 1 ELSE req_cursor

\* HashMap::entry(p).or_default() and HashMap::insert.
EntryOf(m, p) == IF p \in DOMAIN m THEN m[p] ELSE NoBindings
InsertBinding(m, p, x, v) ==
  [q \in DOMAIN m \cup {p} |-> IF q = p THEN (x :> v) @@ EntryOf(m, p) ELSE m[q]]

Init ==
  /\ api \in Groups
  /\ req = <<>>
  /\ pc = "idle"
  /\ route_ix = 1 /\ seg_ix = 1 /\ req_cursor = 1
  /\ found_literal_mismatch = FALSE /\ argument_parse_failed = FALSE
  /\ matching_route_count = 0 /\ matching_route = <<>>
  /\ bindings = [p \in {} |-> NoBindings]
  /\ arg_doc = <<>>
  /\ result = NoResult

\* Variant: matching_route_count kept across calls instead of a fresh local.
ReceiveKeepingCount ==
  /\ pc \in {"idle", "done"}
  /\ \E r \in Requests : req' = r
  /\ arg_doc' = << [tag |-> "doc"] >>
  /\ matching_route' = <<>>
  /\ bindings' = [p \in {} |-> NoBindings]
  /\ route_ix' = 1
  /\ result' = NoResult
  /\ pc' = "route"
  /\ UNCHANGED <<api, seg_ix, req_cursor, found_literal_mismatch,
                 argument_parse_failed, matching_route_count>>

\* A call of parse_route for a request to this group: the locals are set up.
Receive ==
  /\ pc \in {"idle", "done"}
  /\ \E r \in Requests : req' = r
  /\ arg_doc' = << [tag |-> "doc"] >>
  /\ matching_route_count' = 0
  /\ matching_route' = <<>>
  /\ bindings' = [p \in {} |-> NoBindings]
  /\ route_ix' = 1
  /\ result' = NoResult
  /\ pc' = "route"
  /\ UNCHANGED <<api, seg_ix, req_cursor, found_literal_mismatch,
                 argument_parse_failed>>

\* Head of the loop over the alternatives: fresh flags, fresh req_segments.
StartRoute ==
  /\ pc = "route"
  /\ route_ix <= Len(api.path)
  /\ found_literal_mismatch' = FALSE
  /\ argument_parse_failed' = FALSE
  /\ arg_doc' = Append(arg_doc, [tag |-> "route", route |-> Pattern])
  /\ seg_ix' = 1
  /\ req_cursor' = 1
  /\ pc' = "segment"
  /\ UNCHANGED <<api, req, route_ix, matching_route_count, matching_route,
                 bindings, result>>

\* Variant: the "Argument:" line written only when the parse succeeds.
ParseArgumentLoggingSuccess ==
  /\ pc = "segment"
  /\ seg_ix <= Len(Pattern)
  /\ IsTypedToken
  /\ api.types[Token] \in Declared
  /\ LET ty == api.types[Token]
         ok == ReqSegment \in Accepts[ty]
     IN  /\ arg_doc' = IF ok THEN Append(arg_doc, [tag |-> "arg", param |-> Token,
                                  type |-> ty, value |-> ReqSegment, parsed |-> ok])
                            ELSE arg_doc
         /\ bindings' = IF ok THEN InsertBinding(bindings, Pattern, Token, ReqSegment)
                              ELSE bindings
         /\ argument_parse_failed' = (argument_parse_failed \/ ~ok)
  /\ req_cursor' = NextCursor
  /\ seg_ix' = seg_ix + 1
  /\ UNCHANGED <<api, req, pc, route_ix, found_literal_mismatch,
                 matching_route_count, matching_route, result>>

\* A placeholder of a declared type: parse the next request segment.
ParseArgument ==
  /\ pc = "segment"
  /\ seg_ix <= Len(Pattern)
  /\ IsTypedToken
  /\ api.types[Token] \in Declared
  /\ LET ty == api.types[Token]
         ok == ReqSegment \in Accepts[ty]
     IN  /\ arg_doc' = Append(arg_doc, [tag |-> "arg", param |-> Token, type |-> ty,
                                        value |-> ReqSegment, parsed |-> ok])
         /\ bindings' = IF ok THEN InsertBinding(bindings, Pattern, Token, ReqSegment)
                              ELSE bindings
         /\ argument_parse_failed' = (argument_parse_failed \/ ~ok)
  /\ req_cursor' = NextCursor
  /\ seg_ix' = seg_ix + 1
  /\ UNCHANGED <<api, req, pc, route_ix, found_literal_mismatch,
                 matching_route_count, matching_route, result>>

\* UrlSegmentType::from_str fails: the `?` returns the error at once.
UnknownSegmentType ==
  /\ pc = "segment"
  /\ seg_ix <= Len(Pattern)
  /\ IsTypedToken
  /\ api.types[Token] \notin Declared
  /\ result' = [kind |-> "UnknownSegmentType", route |-> <<>>, bindings |-> NoBindings,
                doc |-> << [tag |-> "typeerror", type |-> api.types[Token]] >>]
  /\ pc' = "done"
  /\ UNCHANGED <<api, req, route_ix, seg_ix, req_cursor, found_literal_mismatch,
                 argument_parse_failed, matching_route_count, matching_route,
                 bindings, arg_doc>>

\* Any other token is a literal the next request segment must equal.
MatchLiteral ==
  /\ pc = "segment"
  /\ seg_ix <= Len(Pattern)
  /\ ~IsTypedToken
  /\ IF ReqSegment # Token
     THEN /\ found_literal_mismatch' = TRUE
          /\ arg_doc' = Append(arg_doc, [tag |-> "mismatch", value |-> ReqSegment,
                                         token |-> Token])
     ELSE UNCHANGED <<found_literal_mismatch, arg_doc>>
  /\ req_cursor' = NextCursor
  /\ seg_ix' = seg_ix + 1
  /\ UNCHANGED <<api, req, pc, route_ix, argument_parse_failed,
                 matching_route_count, matching_route, bindings, result>>

\* End of one alternative: the length check and the verdict.
FinishRoute ==
  /\ pc = "segment"
  /\ seg_ix > Len(Pattern)
  /\ LET length_matches == req_cursor > Len(req)
         matches == ~argument_parse_failed /\ length_matches /\ ~found_literal_mismatch
     IN  /\ arg_doc' = Append(arg_doc,
                 [tag |-> "verdict", route |-> Pattern,
                  literals |-> ~found_literal_mismatch, length |-> length_matches,
                  parsed |-> ~argument_parse_failed, matches |-> matches])
         /\ matching_route_count' = IF matches THEN matching_route_count + 1
                                              ELSE matching_route_count
         /\ matching_route' = IF matches THEN Pattern ELSE matching_route
  /\ route_ix' = route_ix + 1
  /\ pc' = "route"
  /\ UNCHANGED <<api, req, seg_ix, req_cursor, found_literal_mismatch,
                 argument_parse_failed, bindings, result>>

\* Variant: any matching alternative is taken, the last one winning.
ConcludeLastMatchWins ==
  /\ pc = "route"
  /\ route_ix > Len(api.path)
  /\ IF matching_route_count = 0
     THEN LET doc == Append(arg_doc, [tag |-> "need"])
          IN  /\ arg_doc' = doc
              /\ result' = [kind |-> "NoMatchingPattern", route |-> <<>>,
                            bindings |-> NoBindings, doc |-> doc]
     ELSE /\ result' = [kind |-> "Success", route |-> matching_route,
                        bindings |-> EntryOf(bindings, matching_route), doc |-> <<>>]
          /\ UNCHANGED arg_doc
  /\ pc' = "done"
  /\ UNCHANGED <<api, req, route_ix, seg_ix, req_cursor, found_literal_mismatch,
                 argument_parse_failed, matching_route_count, matching_route, bindings>>

\* After the loop: the match on matching_route_count.
Conclude ==
  /\ pc = "route"
  /\ route_ix > Len(api.path)
  /\ CASE matching_route_count = 0 ->
            LET doc == Append(arg_doc, [tag |-> "need"])
            IN  /\ arg_doc' = doc
                /\ result' = [kind |-> "NoMatchingPattern", route |-> <<>>,
                              bindings |-> NoBindings, doc |-> doc]
       [] matching_route_count = 1 ->
            /\ result' = [kind |-> "Success", route |-> matching_route,
                          bindings |-> EntryOf(bindings, matching_route), doc |-> <<>>]
            /\ UNCHANGED arg_doc
       [] OTHER ->
            LET doc == Append(arg_doc, [tag |-> "ambiguity"])
            IN  /\ arg_doc' = doc
                /\ result' = [kind |-> "AmbiguousPattern", route |-> <<>>,
                              bindings |-> NoBindings, doc |-> doc]
  /\ pc' = "done"
  /\ UNCHANGED <<api, req, route_ix, seg_ix, req_cursor, found_literal_mismatch,
                 argument_parse_failed, matching_route_count, matching_route, bindings>>

\* The steps of one call; the call is synchronous and runs to completion.
Step == StartRoute \/ ParseArgument \/ UnknownSegmentType \/ MatchLiteral
          \/ FinishRoute \/ Conclude

Next == Receive \/ Step

Spec == Init /\ [][Next]_vars /\ WF_vars(Step)

-----------------------------------------------------------------------------
Lines == [tag : {"doc", "need", "ambiguity"}]
   \cup [tag : {"route"}, route : Patterns]
   \cup [tag : {"arg"}, param : Placeholders, type : Declared, value : Segments,
         parsed : BOOLEAN]
   \cup [tag : {"mismatch"}, value : Segments, token : Tokens \cup {Key}]
   \cup [tag : {"verdict"}, route : Patterns, literals : BOOLEAN, length : BOOLEAN,
         parsed : BOOLEAN, matches : BOOLEAN]
   \cup [tag : {"typeerror"}, type : TypeNames]

TypeOK ==
  /\ api \in Groups
  /\ req \in Requests \cup {<<>>}
  /\ pc \in {"idle", "route", "segment", "done"}
  /\ route_ix \in 1..MaxAlts + 1
  /\ seg_ix \in 1..MaxPatLen + 1
  /\ req_cursor \in 1..MaxReqLen + 1
  /\ found_literal_mismatch \in BOOLEAN /\ argument_parse_failed \in BOOLEAN
  /\ matching_route_count \in 0..MaxAlts
  /\ matching_route \in Patterns \cup {<<>>}
  /\ DOMAIN bindings \subseteq Patterns
  /\ \A p \in DOMAIN bindings :
       DOMAIN bindings[p] \subseteq Placeholders /\ \A x \in DOMAIN bindings[p] : bindings[p][x] \in Segments
  /\ arg_doc \in Seq(Lines)
  /\ result.kind \in {"None", "Success", "NoMatchingPattern", "AmbiguousPattern",
                      "UnknownSegmentType"}
  /\ result.doc \in Seq(Lines)

\* The outcome parse_route reports, as RouteMatch sees it.
MatcherOutcome ==
  CASE pc = "idle" -> Outcome("Idle", <<>>, NoBindings)
    [] pc = "done" -> Outcome(result.kind, result.route, result.bindings)
    [] OTHER       -> Outcome("Pending", <<>>, NoBindings)

Abstract == INSTANCE RouteMatch WITH outcome <- MatcherOutcome

\* Every call of parse_route terminates and returns what spec.md 4.2 asks:
\* Success with the one fully matching alternative and bindings of exactly
\* its parameters to the segments presented to them, NoMatchingPattern when
\* none matches, AmbiguousPattern when two or more do, whatever the order
\* of the alternatives and whatever an earlier request left behind.
Refinement == Abstract!Spec

IsVerdictLine(l) == l.tag = "verdict"
IsArgLine(l) == l.tag = "arg"

\* The text a failed parse_route returns (spec.md 4.3) starts with the
\* group's DOC, has one verdict per alternative in PATH order with the right
\* literal, length and parse outcomes, one line per parameter parsed with the
\* segment it was given, and ends with the line that classifies the failure.
DiagnosticsComplete ==
  (pc = "done" /\ result.kind \in {"NoMatchingPattern", "AmbiguousPattern"}) =>
    /\ Head(result.doc).tag = "doc"
    /\ SelectSeq(result.doc, IsVerdictLine)
         = [a \in 1..Len(api.path) |-> Verdict(api, api.path[a], req)]
    /\ SelectSeq(result.doc, IsArgLine)
         = FlattenSeq([a \in 1..Len(api.path) |-> ArgumentLines(api, api.path[a], req)])
    /\ Last(result.doc).tag = IF result.kind = "NoMatchingPattern" THEN "need"
                                                                  ELSE "ambiguity"

=============================================================================
