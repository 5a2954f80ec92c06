---------------------------- MODULE RoutePatterns ----------------------------
(***************************************************************************)
(* The data of the wallet web server's route matcher (src/wallet/src/      *)
(* main.rs, parse_route) and the reference definition of what a match is. *)
(*                                                                         *)
(* A route group is the table api["route"][key] of api.toml: its PATH is   *)
(* an array of pattern strings, its DOC a documentation string, and every *)
(* other key (":name") gives the segment type of a placeholder.  A pattern *)
(* string is split on '/' into tokens; a request path into segments.      *)
(* Strings are kept as the tokens they split into: '/' never occurs in a  *)
(* token, so a pattern is the sequence of its tokens.                      *)
(*                                                                         *)
(* The reference operators below are written from spec.md section 4.2,   *)
(* not from the loop of parse_route; RouteMatcher translates the loop and *)
(* RouteMatch states that the loop computes what these operators say.     *)
(***************************************************************************)
EXTENDS Naturals, Sequences, FiniteSets, SequencesExt

CONSTANTS
  Key,           \* the group key: the first segment of every request here
  Segments,      \* request segment values after the first ("" included)
  Literals,      \* literal pattern tokens after the first
  Placeholders,  \* ":name" tokens that may be keys of the group table
  TypeNames,     \* type names a group table may give a placeholder
  Declared,      \* the names UrlSegmentType::from_str accepts
  Accepts,       \* Accepts[t]: the segments UrlSegmentValue::parse(t, _) accepts
  Absent,        \* model value: the placeholder is not a key of the table
  MaxAlts,       \* bound on the number of alternatives in PATH
  MaxPatLen,     \* bound on the number of tokens of a pattern
  MaxReqLen      \* bound on the number of segments of a request

ASSUME /\ "" \in Segments
       /\ Declared \subseteq TypeNames
       /\ Accepts \in [Declared -> SUBSET Segments]
       /\ Absent \notin TypeNames
       /\ Placeholders \cap (Literals \cup Segments \cup {Key}) = {}
       /\ {MaxAlts, MaxPatLen, MaxReqLen} \subseteq Nat \ {0}

Tokens == Literals \cup Placeholders

\* Every pattern of the group starts with the group key as a literal.
Patterns == { <<Key>> \o t : t \in BoundedSeq(Tokens, MaxPatLen - 1) }

\* The request paths that select this group: their first segment is Key.
Requests == { <<Key>> \o t : t \in BoundedSeq(Segments, MaxReqLen - 1) }

\* The route groups TLC enumerates: PATH, and the type of each placeholder.
Groups == [path : BoundedSeq(Patterns, MaxAlts),
           types : [Placeholders -> TypeNames \cup {Absent}]]

NoBindings == [x \in {} |-> ""]

Outcome(kind, route, b) == [kind |-> kind, route |-> route, bindings |-> b]

(***************************************************************************)
(* Reference definition (spec.md 4.2).  A token is a parameter iff the    *)
(* group declares a type for it; the request is walked in lockstep with   *)
(* the pattern, an exhausted request presenting the empty segment.        *)
(***************************************************************************)
IsParameter(g, tok) == tok \in Placeholders /\ g.types[tok] # Absent

Presented(r, n) == IF n <= Len(r) THEN r[n] ELSE ""

LiteralsMatch(g, p, r) ==
  \A n \in 1..Len(p) : ~IsParameter(g, p[n]) => Presented(r, n) = p[n]

ArgumentsParse(g, p, r) ==
  \A n \in 1..Len(p) :
    IsParameter(g, p[n]) => Presented(r, n) \in Accepts[g.types[p[n]]]

LengthMatches(p, r) == Len(r) <= Len(p)

FullMatch(g, p, r) ==
  LiteralsMatch(g, p, r) /\ ArgumentsParse(g, p, r) /\ LengthMatches(p, r)

\* A group whose table gives some placeholder of a pattern an undeclared type.
UsesUndeclaredType(g) ==
  \E a \in 1..Len(g.path) : \E n \in 1..Len(g.path[a]) :
    IsParameter(g, g.path[a][n]) /\ g.types[g.path[a][n]] \notin Declared

ParametersOf(g, p) == { p[n] : n \in { m \in 1..Len(p) : IsParameter(g, p[m]) } }

\* A binding set for p: each parameter bound to a segment it was presented.
BindingSets(g, p, r) ==
  { b \in [ParametersOf(g, p) -> Segments] :
      \A x \in DOMAIN b : \E n \in 1..Len(p) : p[n] = x /\ b[x] = Presented(r, n) }

\* The results a request r may get from group g (spec.md 4.2 and 7).
Outcomes(g, r) ==
  IF UsesUndeclaredType(g)
  THEN { Outcome("UnknownSegmentType", <<>>, NoBindings) }
  ELSE LET full == { a \in 1..Len(g.path) : FullMatch(g, g.path[a], r) }
       IN  IF full = {} THEN { Outcome("NoMatchingPattern", <<>>, NoBindings) }
           ELSE IF Cardinality(full) = 1
           THEN UNION { { Outcome("Success", g.path[a], b) :
                            b \in BindingSets(g, g.path[a], r) } : a \in full }
           ELSE { Outcome("AmbiguousPattern", <<>>, NoBindings) }

\* The per-alternative verdict the diagnostic trace must report (spec 4.3).
Verdict(g, p, r) ==
  [tag |-> "verdict", route |-> p,
   literals |-> LiteralsMatch(g, p, r), length |-> LengthMatches(p, r),
   parsed |-> ArgumentsParse(g, p, r), matches |-> FullMatch(g, p, r)]

\* The argument lines the trace must hold for pattern p, in pattern order.
ArgumentLines(g, p, r) ==
  FlattenSeq([n \in 1..Len(p) |->
    IF IsParameter(g, p[n])
    THEN << [tag |-> "arg", param |-> p[n], type |-> g.types[p[n]],
             value |-> Presented(r, n),
             parsed |-> Presented(r, n) \in Accepts[g.types[p[n]]]] >>
    ELSE << >>])
=============================================================================
