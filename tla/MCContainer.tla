---------------------------- MODULE MCContainer ----------------------------
(* Model values for Container.                                             *)
EXTENDS Container

CONSTANTS m1, m2, p1, p2, p3
=============================================================================
