------------------------- MODULE MCAutomationCapacity -------------------------
(* A small instance of AutomationCapacity. *)
EXTENDS AutomationCapacity
===============================================================================
