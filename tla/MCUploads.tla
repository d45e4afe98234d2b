------------------------------ MODULE MCUploads ------------------------------
(* Small instances of Uploads.                                             *)
EXTENDS Uploads, TLC

CONSTANTS f1, f2, f3

\* Each file its own content, or the same one twice.
Own(f) == f
Shared(f) == IF f = f2 THEN f1 ELSE f
=============================================================================
