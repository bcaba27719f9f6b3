---------------------------- MODULE MCConfigWatch ----------------------------
EXTENDS ConfigWatch

MCContent == {"p1", "p2", "c1", "c2", "r1", "r2", "bad", Empty}
MCMalformed == {"bad", Empty}

(* The platform is broken, repaired and rolled back; the components are
   emptied and written again. *)
Repairs ==
  [platform |-> <<"p1", "bad", "p2", "p1">>,
   components |-> <<"c1", Empty, "c2">>,
   releases |-> <<"r1", "r2">>]

(* The platform is edited once. *)
OneEdit ==
  [platform |-> <<"p1", "p2">>, components |-> <<"c1">>, releases |-> <<"r1">>]
===============================================================================
