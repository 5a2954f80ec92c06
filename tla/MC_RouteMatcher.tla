--------------------------- MODULE MC_RouteMatcher ---------------------------
(***************************************************************************)
(* A group "g" of up to two alternatives of up to three tokens, requests  *)
(* of up to three segments.  The segment "true" parses only as Boolean,   *)
(* every segment (the empty one too) parses as Literal, the opaque string *)
(* type; "Hex" is a type name UrlSegmentType::from_str does not know.     *)
(***************************************************************************)
EXTENDS RouteMatcher

MCAccepts == [t \in {"Literal", "Boolean"} |->
                IF t = "Literal" THEN {"a", "true", ""} ELSE {"true"}]
=============================================================================
