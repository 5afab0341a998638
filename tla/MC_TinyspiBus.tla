---------------------------- MODULE MC_TinyspiBus ----------------------------
(* Instances of TinyspiBus for TLC: which APIs server_ctl's uid_init() may *)
(* settle on.                                                              *)
EXTENDS TinyspiBus

MC_OffBusApis == {"DBUS", "GPIO", "NONE"}
MC_TspiOrDbus == {"TSPI", "DBUS"}
MC_TspiOnly == {"TSPI"}
=============================================================================
