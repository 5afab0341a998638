---------------------------- MODULE MC_Overheatd ----------------------------
(* Instantiation of Overheatd for TLC. *)
EXTENDS Overheatd

(* reimu.conf may say either; detect_tinyspi() caches what it read. *)
MC_ReimuConfTinySPI == {TRUE, FALSE}

(* TinySPI backend only. *)
MC_TinySPIOnly == {TRUE}

(* GPIO backend only. *)
MC_GpioOnly == {FALSE}

(* The configuration file may be switched between reloads. *)
MC_EnabledValues == {TRUE, FALSE}

(* The daemon stays enabled. *)
MC_AlwaysEnabled == {TRUE}

(* Termination and debug signals may both arrive. *)
MC_AllSignals == {"TERM", "USR1"}

(* Only termination signals arrive. *)
MC_TermOnly == {"TERM"}

(* No operator signal arrives. *)
MC_NoSignals == {}
=============================================================================
