--------------------------- MODULE MCBlconfDaemon ---------------------------
(* The daemon over the small instances of its backend.                     *)
EXTENDS BlconfDaemon, MCPerchannelXml
=============================================================================
