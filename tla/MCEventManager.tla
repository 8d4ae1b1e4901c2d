--------------------------- MODULE MCEventManager ---------------------------
(* Small instances of EventManager for TLC: two callbacks of the main      *)
(* thread and an entry of a plugin thread.                                 *)
EXTENDS EventManager, TLC

CONSTANTS chat, open, a, b, c, plugin

AllTypes == [e \in Entries |-> Types]

\* a and b may change their event, c does not.
SomeTypes == [e \in Entries |-> IF e = c THEN {open} ELSE Types]

OwnedRegisters == (Main :> {a, b}) @@ (plugin :> {c})

\* Callbacks unregister themselves.
SelfRemoves == [n \in Threads \cup Entries |-> IF n = plugin THEN {} ELSE {n}]

\* The plugin thread has an entry of its own, which may change its event.
ThreadRegisters == (Main :> {a, c}) @@ (plugin :> {b})

\* It takes its entry back, and unregisters a, which also unregisters itself.
RacingRemoves ==
    [n \in Threads \cup Entries |-> CASE n = plugin -> {a, b} [] n = a -> {a} [] OTHER -> {}]

=============================================================================
