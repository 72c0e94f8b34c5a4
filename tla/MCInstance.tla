----------------------------- MODULE MCInstance -----------------------------
(* Instances of Instance for TLC.                                           *)
EXTENDS Instance

CONSTANT t1

(* The tenant calls both endpoints; a caller without a key and one with an  *)
(* unknown key are turned away before any handler, and call one each.       *)
AllClients == {<<t1, "evaluate">>, <<t1, "flags">>, <<NoKey, "readyz">>,
               <<NoKey, "flags">>, <<BadKey, "evaluate">>}
=============================================================================
