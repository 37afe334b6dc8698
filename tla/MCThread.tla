------------------------------ MODULE MCThread ------------------------------
(* The handshake of one thread under the UCI thread, which owns it, and    *)
(* worker 0, which drives its siblings.                                    *)
EXTENDS Thread

CONSTANTS uci, worker0, self, j1, j2, j3
=============================================================================
