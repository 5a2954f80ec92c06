------------------------------ MODULE MC_Server ------------------------------
(***************************************************************************)
(* Two groups "g" and "h"; a PATH element of group k is "k" or "k/:x"    *)
(* (MCCrossPathChoices: "g" or "h", whatever the group).                *)
(* Requests have up to two segments, the form route four.                 *)
(***************************************************************************)
EXTENDS Server

MCFormRoute == <<"transfer", ":id", ":recipient", ":amount">>

MCPathChoices == [k \in {"g", "h"} |-> { <<k>>, <<k, ":x">> }]

\* PATH strings not tied to their group: either group may list "g" or "h".
MCCrossPathChoices == [k \in {"g", "h"} |-> { <<"g">>, <<"h">> }]

MCAccepts == [t \in {"Literal", "Boolean"} |->
                IF t = "Literal" THEN {"true", ""} ELSE {"true"}]
=============================================================================
