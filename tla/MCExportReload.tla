--------------------------- MODULE MCExportReload ---------------------------
(***************************************************************************)
(* The instances of ExportReload that TLC checks: the constants are        *)
(* numbers, which the configurations give.                                 *)
(***************************************************************************)
EXTENDS ExportReload
=============================================================================
