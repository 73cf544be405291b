---------------------------- MODULE MCMeasurements ----------------------------
(***************************************************************************)
(* Three programs of lesson 5 that share no state: LatencyHistogram,       *)
(* TerminalDashboard and LoadGen.  In a behaviour only one of them leaves  *)
(* its initial state, so that TLC adds up their states instead of          *)
(* multiplying them.                                                       *)
(*                                                                         *)
(* The latencies have four bits, so there are four slots.  The middle      *)
(* target is two thirds, so that three samples tell the three percentiles  *)
(* apart.                                                                  *)
(***************************************************************************)
EXTENDS LatencyHistogram, TerminalDashboard, LoadGen

MCShifts == <<2, 1>>
(* The widths and the slots go together, as those of the probe do.         *)
ASSUME MCSlotsArePowers == SlotsArePowers

MCTargets == <<<<1, 2>>, <<2, 3>>, <<999, 1000>>>>

Init == HistogramInit /\ TerminalInit /\ LoadInit

Next ==
  \/ HistogramNext /\ TerminalInit /\ LoadInit /\ UNCHANGED <<terminalVars, loadVars>>
  \/ TerminalNext /\ HistogramInit /\ LoadInit /\ UNCHANGED <<histogramVars, loadVars>>
  \/ LoadNext /\ HistogramInit /\ TerminalInit /\ UNCHANGED <<histogramVars, terminalVars>>

Spec == Init /\ [][Next]_<<histogramVars, terminalVars, loadVars>>
===============================================================================
