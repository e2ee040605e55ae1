---------------------------- MODULE MCObjectPool ----------------------------
(* Up to twenty objects: the minimum can be any distance below the count,  *)
(* over any number of windows.                                             *)
EXTENDS ObjectPool
=============================================================================
