----------------------------- MODULE MCGpsCache -----------------------------
(* Two sockets: the one stop() has seen and the one the reader uses now.    *)
EXTENDS GpsCache
CONSTANTS t1, t2
TwoTransports == {t1, t2}
=============================================================================
