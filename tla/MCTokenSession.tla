---------------------------- MODULE MCTokenSession ----------------------------
(* Small instances of TokenSession.                                        *)
EXTENDS TokenSession, TLC

CONSTANTS r1, r2, r3
=============================================================================
