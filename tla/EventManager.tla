---------------------------- MODULE EventManager ----------------------------
(***************************************************************************)
(* event.c and the two calls of api.c that reach it: one doubly linked     *)
(* list of callbacks for every event, walked by broadcast_event on the     *)
(* main thread while callbacks and the threads of plugins register and     *)
(* unregister entries.                                                     *)
(*                                                                         *)
(* RegisterEvent and UnRegisterEvent look at the entry before they take    *)
(* client->mutex, so each is two steps: what it looked at, then the list   *)
(* operation.  broadcast_event takes no lock.  It reads one link per step, *)
(* so a list operation may be one step of the model.                       *)
(*                                                                         *)
(* The head of a list has the name of its event.                           *)
(***************************************************************************)
EXTENDS Naturals

CONSTANTS
    Types,      \* events
    Entries,    \* callback entries
    Threads,    \* threads of plugins
    Main,       \* the main thread
    NULL,
    TypesOf,    \* for every entry, the events it is ever registered for
    Registers,  \* for every thread, the entries it registers; the main thread
                \* does so in PluginEntry and in callbacks
    Removes     \* for every plugin thread and for the callback of every entry,
                \* the entries it unregisters

Callers == Threads \cup {Main}

ASSUME EventAssumption ==
    /\ NULL \notin Types \cup Entries
    /\ Types \cap Entries = {}
    /\ Main \notin Threads /\ Threads \cap Entries = {}
    /\ TypesOf \in [Entries -> SUBSET Types]
    /\ Registers \in [Callers -> SUBSET Entries]
    /\ Removes \in [Threads \cup Entries -> SUBSET Entries]

VARIABLES
    next, prev,    \* the links of heads and entries
    registered,    \* entry->registered
    call,          \* for every thread, the API call it is in
    broadcasting,  \* the event that broadcast_event walks, or NULL
    it,            \* its iterator
    running,       \* the entry whose callback runs, or NULL
    halted         \* the function that ended the process, or "no"

lists == <<next, prev, registered>>
walk  == <<broadcasting, it, running>>
vars  == <<next, prev, registered, call, broadcasting, it, running, halted>>

Nodes == Types \cup Entries

None == [op |-> "none"]

Calls ==
    {None}
    \cup [op : {"add"}, entry : Entries, type : Types]
    \cup [op : {"remove"}, entry : Entries]

Init ==
    /\ next = [n \in Nodes |-> IF n \in Types THEN n ELSE NULL]
    /\ prev = next
    /\ registered = [e \in Entries |-> FALSE]
    /\ call = [c \in Callers |-> None]
    /\ broadcasting = NULL /\ it = NULL /\ running = NULL
    /\ halted = "no"

-----------------------------------------------------------------------------
(* Registration                                                            *)

\* The main thread calls the API from PluginEntry, outside of a broadcast, and
\* from callbacks.
Free(c) == call[c] = None /\ (c = Main => running # NULL \/ broadcasting = NULL)

\* What a caller unregisters.
Removable(c) == IF c \in Threads THEN Removes[c]
                ELSE IF running = NULL THEN {} ELSE Removes[running]

RegisterEvent(c, e, t) ==
    /\ Free(c)
    /\ e \in Registers[c] /\ t \in TypesOf[e]
    /\ ~registered[e]
    /\ call' = [call EXCEPT ![c] = [op |-> "add", entry |-> e, type |-> t]]
    /\ UNCHANGED <<lists, walk, halted>>

UnRegisterEvent(c, e) ==
    /\ Free(c)
    /\ e \in Removable(c)
    /\ registered[e] /\ next[e] # NULL /\ prev[e] # NULL
    /\ call' = [call EXCEPT ![c] = [op |-> "remove", entry |-> e]]
    /\ UNCHANGED <<lists, walk, halted>>

\* Mutant: at the other end of the list.
InsertTail(t, e) ==
    /\ next' = [next EXCEPT ![e] = t, ![prev[t]] = e]
    /\ prev' = [prev EXCEPT ![e] = prev[t], ![t] = e]

\* list_insert_head.
InsertHead(t, e) ==
    /\ next' = [next EXCEPT ![e] = next[t], ![t] = e]
    /\ prev' = [prev EXCEPT ![e] = t, ![next[t]] = e]

\* Mutant: the way back still leads to the entry.
RemoveForward(e) ==
    /\ next' = [next EXCEPT ![prev[e]] = next[e], ![e] = NULL]
    /\ prev' = [prev EXCEPT ![e] = NULL]

\* list_remove; a build with asserts then clears the links.
Remove(e) ==
    /\ next' = [next EXCEPT ![prev[e]] = next[e], ![e] = NULL]
    /\ prev' = [prev EXCEPT ![next[e]] = prev[e], ![e] = NULL]

events_add_entry(c) ==
    /\ call[c].op = "add"
    /\ InsertHead(call[c].type, call[c].entry)
    /\ registered' = [registered EXCEPT ![call[c].entry] = TRUE]
    /\ call' = [call EXCEPT ![c] = None]
    /\ UNCHANGED <<walk, halted>>

events_rem_entry(c) ==
    /\ call[c].op = "remove"
    /\ LET e == call[c].entry IN
       \/ /\ next[e] # NULL /\ prev[e] # NULL
          /\ Remove(e)
          /\ registered' = [registered EXCEPT ![e] = FALSE]
          /\ call' = [call EXCEPT ![c] = None]
          /\ UNCHANGED <<walk, halted>>
       \/ /\ next[e] = NULL \/ prev[e] = NULL
          /\ halted' = "events_rem_entry"
          /\ UNCHANGED <<lists, call, walk>>

-----------------------------------------------------------------------------
(* broadcast_event                                                         *)

Broadcast(t) ==
    /\ broadcasting = NULL /\ call[Main] = None
    /\ broadcasting' = t /\ it' = next[t]
    /\ UNCHANGED <<lists, call, running, halted>>

\* Mutant: the iterator moves on when the callback has returned.
CallThenAdvance ==
    /\ broadcasting # NULL /\ running = NULL /\ it \in Entries
    /\ running' = it
    /\ UNCHANGED <<lists, call, broadcasting, it, halted>>

\* The iterator moves on first, then the callback runs.
Callback ==
    /\ broadcasting # NULL /\ running = NULL /\ it \in Entries
    /\ it' = next[it]
    /\ running' = it
    /\ UNCHANGED <<lists, call, broadcasting, halted>>

\* The iterator is no entry and not the end of this list either: what is read
\* there is no callback.
Astray ==
    /\ broadcasting # NULL /\ running = NULL
    /\ it \notin Entries \cup {broadcasting}
    /\ halted' = "broadcast_event"
    /\ UNCHANGED <<lists, call, walk>>

CallbackReturns ==
    /\ running # NULL /\ call[Main] = None
    /\ running' = NULL
    /\ UNCHANGED <<lists, call, broadcasting, it, halted>>

BroadcastEnds ==
    /\ broadcasting # NULL /\ running = NULL /\ it = broadcasting
    /\ broadcasting' = NULL /\ it' = NULL
    /\ UNCHANGED <<lists, call, running, halted>>

Api(c) ==
    \/ \E e \in Entries : UnRegisterEvent(c, e) \/ \E t \in Types : RegisterEvent(c, e, t)
    \/ events_add_entry(c)
    \/ events_rem_entry(c)

Walk ==
    \/ Callback
    \/ Astray
    \/ CallbackReturns
    \/ BroadcastEnds

Next ==
    /\ halted = "no"
    /\ \/ \E c \in Callers : Api(c)
       \/ \E t \in Types : Broadcast(t)
       \/ Walk

Spec == Init /\ [][Next]_vars

\* The main thread runs, and a callback returns after some calls.
Fairness ==
    /\ WF_vars(halted = "no" /\ (events_add_entry(Main) \/ events_rem_entry(Main)))
    /\ WF_vars(halted = "no" /\ (Callback \/ BroadcastEnds))
    /\ SF_vars(halted = "no" /\ CallbackReturns)

FairSpec == Spec /\ Fairness

-----------------------------------------------------------------------------
(* How the API is used                                                     *)

\* No entry is registered by two threads.
Owned == \A c, d \in Callers : c # d => Registers[c] \cap Registers[d] = {}

\* Plugin threads do not unregister, and a callback unregisters itself only.
OnlyThemselves ==
    /\ \A c \in Threads : Removes[c] = {}
    /\ \A e \in Entries : Removes[e] \subseteq {e}

-----------------------------------------------------------------------------
(* Properties                                                              *)

\* The domains of the variables; a callback only runs in a broadcast.
TypeOK ==
    /\ next \in [Nodes -> Nodes \cup {NULL}] /\ prev \in [Nodes -> Nodes \cup {NULL}]
    /\ registered \in [Entries -> BOOLEAN]
    /\ call \in [Callers -> Calls]
    /\ broadcasting \in Types \cup {NULL}
    /\ it \in Nodes \cup {NULL}
    /\ running \in Entries \cup {NULL}
    /\ broadcasting = NULL => running = NULL
    /\ halted \in {"no", "events_rem_entry", "broadcast_event"}

Linked == Types \cup {e \in Entries : registered[e]}

\* The lists hold together, whatever calls overlap: from every head and every
\* registered entry both links lead to another such node and back, and no link
\* is left in an entry that is not registered (list_node_unlinked).
LinksAgree ==
    \A n \in Nodes :
        IF n \in Linked
        THEN /\ next[n] \in Linked /\ prev[next[n]] = n
             /\ prev[n] \in Linked /\ next[prev[n]] = n
        ELSE next[n] = NULL /\ prev[n] = NULL

\* broadcast_event never stands on an entry that has been removed, also when
\* callbacks remove themselves and others are added, and finds its end.
WalkIsRegistered ==
    /\ broadcasting # NULL => it \in Linked /\ (it \in Types => it = broadcasting)
    /\ halted # "broadcast_event"

\* A broadcast does not go on for ever, also when its callbacks register
\* themselves again.
BroadcastReturns == broadcasting # NULL ~> broadcasting = NULL

-----------------------------------------------------------------------------
(* The lists as sets: event.c implements EventBus                          *)

\* The entries from n to the end of its list: those of every set that n is in and that the
\* links of entries do not leave.
Rest(n) ==
    {e \in Entries :
        \A S \in SUBSET (Nodes \cup {NULL}) :
            n \in S /\ (\A m \in S \cap Entries : next[m] \in S) => e \in S}

Bus == INSTANCE EventBus WITH
    subscribed <- [t \in Types |-> Rest(next[t])],
    current    <- broadcasting,
    due        <- Rest(it)

\* A broadcast calls the entries that were registered when it began and are
\* so at their turn, each once, and none that was added since.
ImplementsBus == Bus!Spec

-----------------------------------------------------------------------------
(* What the source says of itself and the code does not keep.              *)

\* event.c:26, assert(node->next && node->prev): UnRegisterEvent has checked the
\* links, but before it took the mutex.
RemovedIsLinked == halted # "events_rem_entry"

\* plugins/chat/build_chat.c:22: "We didn't register any other event to this
\* callback, so it shouldn't be possible to ever be called with an other event
\* type."
OnlyItsEvent == running # NULL => broadcasting \in TypesOf[running]

=============================================================================
