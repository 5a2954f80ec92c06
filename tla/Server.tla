------------------------------- MODULE Server -------------------------------
(***************************************************************************)
(* init_server, entry_page and handle_web_socket (src/wallet/src/main.rs): *)
(* the route table of api.toml is read once, a tide route is registered   *)
(* for every PATH string of every group, then requests are served.  Each  *)
(* request tide routes to one of these handlers goes through parse_route, *)
(* whose matching loop is the RouteMatch specification (RouteMatcher is   *)
(* checked to implement it); what parse_route does before and around that *)
(* loop (group lookup, the PATH type, the element types) is modelled here. *)
(*                                                                         *)
(* tide's router is not code of this repository: TideRoutes states what   *)
(* it is assumed to do (a ":name" segment matches one non-empty segment,  *)
(* any other segment itself, and the lengths agree).                      *)
(***************************************************************************)
EXTENDS RoutePatterns, TLC

CONSTANTS
  GroupKeys,     \* the keys of api["route"]
  PathChoices,   \* PathChoices[k]: the pattern strings a PATH of group k may hold
  NonString,     \* model value: a PATH array element that is not a string
  NonBool,       \* model value: a WEB_SOCKET value that is not a boolean
  Missing,       \* model value: no WEB_SOCKET key in the group
  DocValues,     \* whether a group has a DOC string: a subset of BOOLEAN
  FormRoute      \* "/transfer/:id/:recipient/:amount" as its segments

\* Nothing in init_server ties a PATH string to its group: a pattern of
\* group k may start with any segment.
ASSUME /\ DocValues \subseteq BOOLEAN
       /\ FormRoute[1] \notin Placeholders

VARIABLES
  api,       \* api["route"]: group key -> group table
  phase,     \* "loading", "listening", or "crashed" (a panic in init_server)
  loaded,    \* the groups api_map.values().for_each has processed
  routes,    \* the tide routes: [path, ws] (ws: handle_web_socket, else entry_page)
  response   \* what the last request served was answered with

vars == <<api, phase, loaded, routes, response>>

\* A group table: PATH (an array of elements, a string, or another value),
\* whether DOC is a string, WEB_SOCKET, and the segment type keys.
PathValues ==
  [kind : {"array"}, items : BoundedSeq(UNION {PathChoices[k] : k \in GroupKeys}
                                        \cup {NonString}, MaxAlts)]
  \cup [kind : {"string"}, items : { <<p>> : p \in UNION {PathChoices[k] : k \in GroupKeys} }]
  \cup [kind : {"other"}, items : {<<>>}]

GroupTables ==
  { v @@ [doc |-> d, ws |-> w, types |-> ty] :
      v \in PathValues, d \in DocValues, w \in {TRUE, FALSE, Missing, NonBool},
      ty \in [Placeholders -> TypeNames \cup {Absent}] }

Tables == { t \in [GroupKeys -> GroupTables] :
              \A k \in GroupKeys : \A n \in 1..Len(t[k].items) :
                t[k].items[n] \in PathChoices[k] \cup {NonString} }

\* Requests to a group, and requests of the form route's length.
ServerRequests ==
  { <<k>> \o s : k \in GroupKeys, s \in BoundedSeq(Segments, MaxReqLen - 1) }
  \cup { <<FormRoute[1]>> \o s : s \in [1..Len(FormRoute) - 1 -> Segments] }

NoResponse == [kind |-> "none", req |-> <<>>, via |-> <<>>, ws |-> FALSE,
               route |-> <<>>, bindings |-> NoBindings]

WebSocketFlag(e) == IF e.ws = Missing THEN FALSE ELSE e.ws
\* Variant: the elements of a PATH array registered without the filter.
RoutesOfUnfiltered(e) ==
  { [path |-> e.items[n], ws |-> WebSocketFlag(e)] : n \in 1..Len(e.items) }
RoutesOf(e) ==
  { [path |-> e.items[n], ws |-> WebSocketFlag(e)] :
      n \in { m \in 1..Len(e.items) : e.items[m] # NonString } }

\* Environment: the tide router's match of a registered route.
TideRoutes(route, r) ==
  /\ Len(route.path) = Len(r)
  /\ \A n \in 1..Len(r) :
       IF route.path[n] \in Placeholders \cup {FormRoute[m] : m \in 2..Len(FormRoute)}
       THEN r[n] # ""
       ELSE r[n] = route.path[n]

\* What parse_route returns for r, or "Panic" where it panics (92-211).
ParseRouteOutcomes(r) ==
  LET k == r[1] IN
  IF k \notin GroupKeys THEN { Outcome("Panic", <<>>, NoBindings) }
  ELSE LET e == api[k] IN
  IF e.kind # "array" \/ ~e.doc THEN { Outcome("Panic", <<>>, NoBindings) }
  ELSE LET g   == [path |-> e.items, types |-> e.types]
           bad == { a \in 1..Len(e.items) :
                      \/ e.items[a] = NonString
                      \/ \E n \in 1..Len(e.items[a]) :
                           IsParameter(g, e.items[a][n])
                           /\ e.types[e.items[a][n]] \notin Declared }
       IN  IF bad = {} THEN Outcomes(g, r)
           ELSE IF e.items[CHOOSE a \in bad : \A b \in bad : a <= b] = NonString
           THEN { Outcome("Panic", <<>>, NoBindings) }
           ELSE { Outcome("UnknownSegmentType", <<>>, NoBindings) }

Init ==
  /\ api \in Tables
  /\ phase = "loading"
  /\ loaded = {}
  /\ routes = { [path |-> FormRoute, ws |-> TRUE] }
  /\ response = NoResponse

\* One pass of api_map.values().for_each (lines 266-297).
LoadGroup(k) ==
  /\ phase = "loading"
  /\ k \notin loaded
  /\ IF api[k].ws = NonBool \/ api[k].kind = "other"
     THEN /\ phase' = "crashed"
          /\ UNCHANGED <<loaded, routes>>
     ELSE /\ routes' = routes \cup RoutesOf(api[k])
          /\ loaded' = loaded \cup {k}
          /\ UNCHANGED phase
  /\ UNCHANGED <<api, response>>

\* spawn(web_server.listen(addr)) once every group is registered.
Listen ==
  /\ phase = "loading"
  /\ loaded = GroupKeys
  /\ phase' = "listening"
  /\ UNCHANGED <<api, loaded, routes, response>>

\* entry_page and handle_web_socket: parse_route, then dispatch or the error.
Serve(r, route) ==
  /\ phase = "listening"
  /\ route \in routes
  /\ TideRoutes(route, r)
  /\ \E o \in ParseRouteOutcomes(r) :
       response' = [req |-> r, via |-> route.path, ws |-> route.ws,
                    route |-> o.route, bindings |-> o.bindings,
                    kind |-> CASE o.kind = "Panic"   -> "panic"
                               [] o.kind = "Success" -> "dispatch"
                               [] OTHER              -> IF route.ws THEN "bad_request"
                                                                    ELSE "ok_200"]
  /\ UNCHANGED <<api, phase, loaded, routes>>

Next ==
  \/ \E k \in GroupKeys : LoadGroup(k)
  \/ Listen
  \/ \E r \in ServerRequests, route \in routes : Serve(r, route)

Spec == Init /\ [][Next]_vars

-----------------------------------------------------------------------------
Responses == {"none", "panic", "dispatch", "bad_request", "ok_200"}

TypeOK ==
  /\ api \in Tables
  /\ phase \in {"loading", "listening", "crashed"}
  /\ loaded \subseteq GroupKeys
  /\ routes \subseteq [path : UNION {PathChoices[k] : k \in GroupKeys} \cup {FormRoute},
                       ws : BOOLEAN]
  /\ response.kind \in Responses
  /\ response.req \in ServerRequests \cup {<<>>}

\* The transport of a group (spec.md 6): streaming iff WEB_SOCKET is true.
Streams(e) == e.ws = TRUE

\* The handler that runs for a matched request is the one of the group the
\* dispatched pattern belongs to: init_server registered the tide route
\* with that group's WEB_SOCKET flag, tide chose it by the first segment,
\* and parse_route matched in the group that segment names.
DispatchUsesGroupTransport ==
  response.kind = "dispatch" =>
    /\ response.ws = Streams(api[response.req[1]])
    /\ \E n \in 1..Len(api[response.req[1]].items) :
         api[response.req[1]].items[n] = response.route

\* spec.md 3, 6, 7 and Scenario D: every ":name" placeholder of a pattern is
\* mapped in its group to a type name UrlSegmentType knows, and a table that
\* breaks this stops the server from starting.  The code checks neither
\* half: an unknown name is reported per request (line 137), and a
\* placeholder with no type key is silently compared as a literal (127).
StartsOnlyWithDeclaredTypes ==
  phase = "listening" =>
    \A k \in GroupKeys : \A n \in 1..Len(api[k].items) :
      api[k].items[n] # NonString =>
        \A m \in 1..Len(api[k].items[n]) :
          api[k].items[n][m] \in Placeholders => api[k].types[api[k].items[n][m]] \in Declared

\* spec.md 7: a matching failure is a value, never a crash.  A request tide
\* routes to a group whose table init_server accepted is answered by
\* parse_route without a panic.
LoadedGroupsNeverPanic ==
  (response.kind = "panic" /\ response.req[1] \in GroupKeys) => FALSE

\* spec.md 6 and 7: a request whose first segment names no group gets the
\* UnknownRouteGroup failure (not-found class) as a value, not a panic.
UnknownGroupAnswered ==
  (response.kind = "panic" /\ response.req[1] \notin GroupKeys) => FALSE
=============================================================================
