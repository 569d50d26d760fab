------------------------- MODULE MCTelemetryStorage -------------------------
(* TelemetryStorage on a small instance.  Two series of one device give      *)
(* batches with several rows, one message shape repeats a series so that two *)
(* messages of one millisecond collide, and three messages with a batch size *)
(* of two let the main loop and the ticker hold a batch at the same time.    *)
EXTENDS TelemetryStorage

MCSeries == {"temp", "volt"}
MCShapes == {{"temp"}, {"temp", "volt"}}
=============================================================================
