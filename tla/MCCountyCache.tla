--------------------------- MODULE MCCountyCache ----------------------------
(* A county of two properties and two sources; the deeds hold one event, the *)
(* roll the others, of the same property or of the second one.               *)
EXTENDS CountyCache

CONSTANTS k1, k2, deeds, roll

MCKeyOf == [e \in Events |-> IF e = 2 THEN k2 ELSE k1]
MCSourceOf == [e \in Events |-> IF e = 1 THEN deeds ELSE roll]
MCRunOf == [r \in Runs |-> IF r = 2 THEN roll ELSE deeds]
=============================================================================
