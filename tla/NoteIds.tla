------------------------------ MODULE NoteIds ------------------------------
(* The notes that the background work of the SQLite provider is about.     *)
CONSTANTS
  Notes,   \* note URNs
  None     \* no note, no value
=============================================================================
