---------------------------- MODULE MCRunWaves ----------------------------
(* Five sources: two feeds, one {streets} source between them in the list and  *)
(* two {parcels} sources, one of them first.                                   *)
EXTENDS RunWaves

MCParcels == {1, 5}
MCTemplated == {1, 3, 5}
=============================================================================
