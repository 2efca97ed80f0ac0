--------------------------- MODULE MCHealthCheck ---------------------------
(***************************************************************************)
(* A certificate, its renewal for the same key and names, a replacement    *)
(* with a new key, and one that the probe has no name for.                 *)
(***************************************************************************)
EXTENDS HealthCheck

MCCerts == {"old", "renewed", "rekeyed", "nameless"}
MCKeyOf == [c \in MCCerts |-> IF c \in {"old", "renewed"} THEN "k1" ELSE "k2"]
MCSan == [c \in MCCerts |->
            [dns |-> CASE c = "nameless" -> <<"blank", "padded", "plain">>
                       [] c = "rekeyed"  -> <<"blank", "wildcard">>
                       [] OTHER          -> <<"wildcard", "plain">>,
             ip |-> c = "rekeyed"]]
============================================================================
