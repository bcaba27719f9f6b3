------------------------------ MODULE MCOperator ------------------------------
EXTENDS Operator, TLC

Good(n) == [name |-> n, wellFormed |-> TRUE]
Bad(n) == [name |-> n, wellFormed |-> FALSE]

(* A second platform makes the choice ambiguous until the first is gone; a *)
(* release is written, broken, and repaired; a component is added.         *)
MCHistory ==
  << << {Good("acme")}, {Good("acme"), Good("other")}, {Good("other")} >>,
     << {}, {Bad("1.0.0")}, {Good("1.0.0")} >>,
     << {}, {Good("custom")} >>,
     << {Good("edge")} >> >>

MCName == {"acme", "other", "1.0.0", "custom", "edge"}
===============================================================================
