----------------------- MODULE MCPlatformaticConsumption -----------------------
(* The instance of PlatformaticConsumption that is checked. *)
EXTENDS PlatformaticConsumption, TLC

CONSTANTS orders, payments

MCRecords == orders :> 2 @@ payments :> 1
===============================================================================
