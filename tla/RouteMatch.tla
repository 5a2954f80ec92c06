----------------------------- MODULE RouteMatch -----------------------------
(***************************************************************************)
(* Abstract specification of the route matcher: a request to a group is  *)
(* received, and later answered, in one step, by one of the outcomes the  *)
(* reference definition allows.  The group never changes: api.toml is     *)
(* loaded once and then only read (spec.md 3 and 5).                       *)
(***************************************************************************)
EXTENDS RoutePatterns

VARIABLES
  api,      \* the route group the requests select
  req,      \* the request being matched
  outcome   \* Idle, Pending, or the outcome returned for req

avars == <<api, req, outcome>>

Idle    == Outcome("Idle", <<>>, NoBindings)
Pending == Outcome("Pending", <<>>, NoBindings)

Init ==
  /\ api \in Groups
  /\ req = <<>>
  /\ outcome = Idle

Receive ==
  /\ outcome # Pending
  /\ \E r \in Requests : req' = r
  /\ outcome' = Pending
  /\ UNCHANGED api

Match ==
  /\ outcome = Pending
  /\ outcome' \in Outcomes(api, req)
  /\ UNCHANGED <<api, req>>

Next == Receive \/ Match

\* Matching is synchronous and never blocks: a received request is answered.
Spec == Init /\ [][Next]_avars /\ WF_avars(Match)
=============================================================================
