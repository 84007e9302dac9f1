------------------------------ MODULE MCRunner ------------------------------
(***************************************************************************)
(* Small instances of Runner: callers leave the agents as they are or ask  *)
(* for one and a half, and have some of the attempts be fraudulent.        *)
(***************************************************************************)
EXTENDS Runner

MCPatches == {3}
MCRates   == {"some"}
=============================================================================
