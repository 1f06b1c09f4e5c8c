--------------------------- MODULE MCSzymFSRefines ---------------------------
(* SzymFS on a drive that works implements FileStore.                      *)
EXTENDS MCSzymFS, SzymFSCalls

ASSUME NoFaults == Faults = {}
=============================================================================
