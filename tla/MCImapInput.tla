---------------------------- MODULE MCImapInput -----------------------------
(* Small instances of ImapInput.tla for TLC.                               *)
EXTENDS ImapInput

=============================================================================
