--------------------------- MODULE MCIngestQueue ---------------------------
(* Small instances of IngestQueue for TLC; the .cfg files give the sets of *)
(* processes as model values.                                              *)
EXTENDS IngestQueue
=============================================================================
