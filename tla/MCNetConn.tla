------------------------------ MODULE MCNetConn ------------------------------
(* Small instances of NetConn for TLC. *)
EXTENDS NetConn

\* Packets of one header, and of more than half a buffer.
MCSizes == {1, 3}

=============================================================================
