--------------------------- MODULE MCSocketClient ---------------------------
(* Small instances of SocketClient.                                        *)
EXTENDS SocketClient, TLC

CONSTANTS s1, s2, s3, d1, d2, k1, k2
=============================================================================
