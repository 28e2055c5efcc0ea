-------------------------- MODULE MCCommandProcessor --------------------------
(* Three commands, one of each kind that waits for output and one that does *)
(* not, for checking CommandProcessor. *)
EXTENDS CommandProcessor

CONSTANTS list, say, tellraw, none

MCRequest == {list, say, tellraw}
MCKindOf == [r \in MCRequest |-> CASE r = list -> "regex"
                                    [] r = say -> "plain"
                                    [] r = tellraw -> "skip"]
=============================================================================
