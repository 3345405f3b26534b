------------------------------ MODULE MCThermal ------------------------------
(* The instance of ThermalController that TLC checks.                       *)
EXTENDS ThermalProperties
=============================================================================
