--------------------- MODULE MC_ObserverSanityChecker ---------------------
(* Two routing pairs and two navigation handles.                           *)
EXTENDS ObserverSanityChecker

CONSTANTS r1, r2, h1, h2

MCRoutes == {r1, r2}
MCHandles == {h1, h2}
=============================================================================
