-------------------------- MODULE MCStreamSessions --------------------------
(* A small instance of StreamSessions for TLC.                             *)
EXTENDS StreamSessions

CONSTANTS k1, k2
=============================================================================
