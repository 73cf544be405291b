---------------------------- MODULE MCWebDashboard ----------------------------
(***************************************************************************)
(* WebDashboard with two series, one of which the program starts with.     *)
(***************************************************************************)
EXTENDS WebDashboard, TLC

CONSTANTS r1, r2, read, send

MCDefaults == <<read>>
===============================================================================
