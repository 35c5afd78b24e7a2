---------------------------- MODULE MCFileInput -----------------------------
(* Small instances of FileInput.tla for TLC.                               *)
EXTENDS FileInput

=============================================================================
