-------------------------- MODULE MCClientSession --------------------------
(* Small instances of ClientSession for TLC. *)
EXTENDS ClientSession

\* Two characters: the one that is played last may or may not be the wanted
\* one, and the wanted one may be at index 0 or not.
MCNames  == {"ann", "bob", "eve"}
MCRoster == <<"ann", "bob">>

=============================================================================
