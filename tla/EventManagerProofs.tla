------------------------- MODULE EventManagerProofs -------------------------
(***************************************************************************)
(* Proofs about EventManager, for any number of events, entries and        *)
(* threads.                                                                *)
(***************************************************************************)
EXTENDS EventManager, Integers, TLAPS

-----------------------------------------------------------------------------
(* Types                                                                   *)

\* list_insert_head puts nodes into links.
LEMMA LinkTypes ==
    ASSUME TypeOK, NEW e \in Entries, NEW t \in Types, InsertHead(t, e)
    PROVE  next' \in [Nodes -> Nodes \cup {NULL}] /\ prev' \in [Nodes -> Nodes \cup {NULL}]
  BY DEF TypeOK, InsertHead, Nodes

\* Every step keeps the types: the links of list_insert_head and list_remove
\* are nodes or cleared, and the iterator of broadcast_event is one of them.
LEMMA TypeStep == TypeOK /\ [Next]_vars => TypeOK'
<1> SUFFICES ASSUME TypeOK, [Next]_vars PROVE TypeOK'
  OBVIOUS
<1> USE EventAssumption
<1>1. ASSUME NEW c \in Callers, NEW e \in Entries, NEW t \in Types, RegisterEvent(c, e, t)
      PROVE  TypeOK'
  <2>1. [op |-> "add", entry |-> e, type |-> t] \in Calls
    BY DEF Calls
  <2> QED
    BY <1>1, <2>1 DEF TypeOK, RegisterEvent, lists, walk
<1>2. ASSUME NEW c \in Callers, NEW e \in Entries, UnRegisterEvent(c, e)
      PROVE  TypeOK'
  <2>1. [op |-> "remove", entry |-> e] \in Calls
    BY DEF Calls
  <2> QED
    BY <1>2, <2>1 DEF TypeOK, UnRegisterEvent, lists, walk
<1>3. ASSUME NEW c \in Callers, events_add_entry(c)
      PROVE  TypeOK'
  <2>1. None \in Calls /\ call[c] \in Calls
    BY DEF Calls, TypeOK
  <2>2. call[c].entry \in Entries /\ call[c].type \in Types
    BY <1>3, <2>1 DEF Calls, None, events_add_entry
  <2>3. next' \in [Nodes -> Nodes \cup {NULL}] /\ prev' \in [Nodes -> Nodes \cup {NULL}]
    BY <1>3, <2>2, LinkTypes DEF events_add_entry
  <2> QED
    BY <1>3, <2>1, <2>2, <2>3 DEF TypeOK, events_add_entry, walk
<1>4. ASSUME NEW c \in Callers, events_rem_entry(c)
      PROVE  TypeOK'
  <2>1. None \in Calls /\ call[c] \in Calls
    BY DEF Calls, TypeOK
  <2>2. call[c].entry \in Entries
    BY <1>4, <2>1 DEF Calls, None, events_rem_entry
  <2>3. CASE Remove(call[c].entry) /\ registered' = [registered EXCEPT ![call[c].entry] = FALSE]
             /\ call' = [call EXCEPT ![c] = None] /\ UNCHANGED <<walk, halted>>
    <3>1. next' \in [Nodes -> Nodes \cup {NULL}] /\ prev' \in [Nodes -> Nodes \cup {NULL}]
      BY <2>2, <2>3 DEF TypeOK, Remove, Nodes
    <3> QED
      BY <2>1, <2>2, <2>3, <3>1 DEF TypeOK, walk
  <2>4. CASE halted' = "events_rem_entry" /\ UNCHANGED <<lists, call, walk>>
    BY <2>4 DEF TypeOK, lists, walk
  <2> QED
    BY <1>4, <2>3, <2>4 DEF events_rem_entry
<1>5. ASSUME NEW t \in Types, Broadcast(t)
      PROVE  TypeOK'
  BY <1>5 DEF TypeOK, Broadcast, lists, Nodes
<1>6. CASE Walk
  BY <1>6 DEF TypeOK, Walk, Callback, Astray, CallbackReturns, BroadcastEnds, lists, walk, Nodes
<1>7. CASE UNCHANGED vars
  BY <1>7 DEF TypeOK, vars
<1> QED
  BY <1>1, <1>2, <1>3, <1>4, <1>5, <1>6, <1>7 DEF Next, Api

\* The lists are empty when init_event_manager has run.
LEMMA TypeInit == Init => TypeOK
<1> SUFFICES ASSUME Init PROVE TypeOK
  OBVIOUS
<1>1. None \in Calls
  BY DEF Calls
<1> QED
  BY <1>1 DEF Init, TypeOK, Nodes

\* The event manager keeps to its types.
THEOREM TypeCorrect == Spec => []TypeOK
  BY TypeInit, TypeStep, PTL DEF Spec

-----------------------------------------------------------------------------
(* The lists hold together                                                 *)

\* A pending RegisterEvent: its entry is still not registered, since no other
\* thread registers it.
PendingAdds ==
    \A c \in Callers :
        call[c].op = "add" => call[c].entry \in Registers[c] /\ ~registered[call[c].entry]

LinksInv == TypeOK /\ LinksAgree /\ PendingAdds

\* list_insert_head of an entry that is not registered.
LEMMA InsertKeepsLinks ==
    ASSUME TypeOK, LinksAgree, NEW e \in Entries, NEW t \in Types, ~registered[e],
           InsertHead(t, e), registered' = [registered EXCEPT ![e] = TRUE]
    PROVE  LinksAgree'
<1> USE EventAssumption
<1>1. t \in Linked /\ e \notin Linked /\ e # t
  BY DEF Linked
<1>2. next[t] \in Linked /\ next[t] \in Nodes /\ next[t] # e /\ prev[next[t]] = t
  BY <1>1 DEF LinksAgree, Nodes, Linked
<1>3. Linked' = Linked \cup {e} /\ Nodes' = Nodes
  BY DEF Linked, TypeOK, Nodes
<1>4. /\ next'[e] = next[t] /\ next'[t] = e
      /\ \A n \in Nodes : n # e /\ n # t => next'[n] = next[n]
  BY <1>1 DEF InsertHead, TypeOK, Nodes
<1>5. /\ prev'[e] = t /\ prev'[next[t]] = e
      /\ \A n \in Nodes : n # e /\ n # next[t] => prev'[n] = prev[n]
  BY <1>2 DEF InsertHead, TypeOK, Nodes
<1> SUFFICES ASSUME NEW n \in Nodes
             PROVE  IF n \in Linked \cup {e}
                    THEN /\ next'[n] \in Linked \cup {e} /\ prev'[next'[n]] = n
                         /\ prev'[n] \in Linked \cup {e} /\ next'[prev'[n]] = n
                    ELSE next'[n] = NULL /\ prev'[n] = NULL
  BY <1>3 DEF LinksAgree
<1>6. CASE n = e
  BY <1>1, <1>2, <1>4, <1>5, <1>6
<1>7. CASE n \in Linked
  <2>1. n # e /\ next[n] \in Linked /\ prev[next[n]] = n /\ prev[n] \in Linked /\ next[prev[n]] = n
    BY <1>1, <1>7 DEF LinksAgree
  <2>2. next[n] \in Nodes /\ prev[n] \in Nodes /\ next[n] # e /\ prev[n] # e
    BY <1>1, <2>1 DEF Linked, Nodes
  <2>3. next'[n] \in Linked \cup {e} /\ prev'[next'[n]] = n
    BY <1>2, <1>4, <1>5, <2>1, <2>2
  <2>4. prev'[n] \in Linked \cup {e} /\ next'[prev'[n]] = n
    BY <1>1, <1>2, <1>4, <1>5, <2>1, <2>2
  <2> QED
    BY <1>7, <2>3, <2>4
<1>8. CASE n \notin Linked /\ n # e
  BY <1>1, <1>2, <1>4, <1>5, <1>8 DEF LinksAgree
<1> QED
  BY <1>6, <1>7, <1>8

\* list_remove of an entry with links.
LEMMA RemoveKeepsLinks ==
    ASSUME TypeOK, LinksAgree, NEW e \in Entries, next[e] # NULL,
           Remove(e), registered' = [registered EXCEPT ![e] = FALSE]
    PROVE  LinksAgree'
<1> USE EventAssumption
<1>1. e \in Linked /\ e \in Nodes
  BY DEF LinksAgree, Nodes
<1>2. /\ next[e] \in Linked /\ next[e] \in Nodes /\ prev[next[e]] = e
      /\ prev[e] \in Linked /\ prev[e] \in Nodes /\ next[prev[e]] = e
  BY <1>1 DEF LinksAgree, Linked, Nodes
<1>3. Linked' = Linked \ {e}
  BY DEF Linked, TypeOK
<1>4. /\ next'[e] = NULL
      /\ prev[e] # e => next'[prev[e]] = next[e]
      /\ \A n \in Nodes : n # e /\ n # prev[e] => next'[n] = next[n]
  BY <1>1, <1>2 DEF Remove, TypeOK
<1>5. /\ prev'[e] = NULL
      /\ next[e] # e => prev'[next[e]] = prev[e]
      /\ \A n \in Nodes : n # e /\ n # next[e] => prev'[n] = prev[n]
  BY <1>1, <1>2 DEF Remove, TypeOK
<1> SUFFICES ASSUME NEW n \in Nodes
             PROVE  IF n \in Linked \ {e}
                    THEN /\ next'[n] \in Linked \ {e} /\ prev'[next'[n]] = n
                         /\ prev'[n] \in Linked \ {e} /\ next'[prev'[n]] = n
                    ELSE next'[n] = NULL /\ prev'[n] = NULL
  BY <1>3 DEF LinksAgree, Nodes
<1>6. CASE n = e
  BY <1>4, <1>5, <1>6
<1>7. CASE n \in Linked /\ n # e
  <2>1. /\ next[n] \in Linked /\ prev[next[n]] = n /\ prev[n] \in Linked /\ next[prev[n]] = n
        /\ next[n] \in Nodes /\ prev[n] \in Nodes
    BY <1>7 DEF LinksAgree, Linked, Nodes
  <2>2. next'[n] \in Linked \ {e} /\ prev'[next'[n]] = n
    <3>1. CASE n = prev[e]
      BY <1>2, <1>4, <1>5, <1>7, <2>1, <3>1
    <3>2. CASE n # prev[e]
      BY <1>2, <1>4, <1>5, <1>7, <2>1, <3>2
    <3> QED
      BY <3>1, <3>2
  <2>3. prev'[n] \in Linked \ {e} /\ next'[prev'[n]] = n
    <3>1. CASE n = next[e]
      BY <1>2, <1>4, <1>5, <1>7, <2>1, <3>1
    <3>2. CASE n # next[e]
      BY <1>2, <1>4, <1>5, <1>7, <2>1, <3>2
    <3> QED
      BY <3>1, <3>2
  <2> QED
    BY <1>7, <2>2, <2>3
<1>8. CASE n \notin Linked
  BY <1>1, <1>2, <1>4, <1>5, <1>8 DEF LinksAgree
<1> QED
  BY <1>6, <1>7, <1>8

\* The inductive step: a list operation starts from what RegisterEvent and
\* UnRegisterEvent have checked, or from what has changed since.
LEMMA LinksStep == Owned /\ LinksInv /\ [Next]_vars => LinksInv'
<1> SUFFICES ASSUME Owned, LinksInv, [Next]_vars PROVE LinksAgree' /\ PendingAdds'
  BY TypeStep DEF LinksInv
<1> USE EventAssumption DEF LinksInv
<1>1. ASSUME NEW c \in Callers, NEW e \in Entries, NEW t \in Types, RegisterEvent(c, e, t)
      PROVE  LinksAgree' /\ PendingAdds'
  <2>1. LinksAgree'
    BY <1>1 DEF RegisterEvent, lists, LinksAgree, Linked
  <2>2. PendingAdds'
    BY <1>1 DEF RegisterEvent, lists, PendingAdds, TypeOK
  <2> QED
    BY <2>1, <2>2
<1>2. ASSUME NEW c \in Callers, NEW e \in Entries, UnRegisterEvent(c, e)
      PROVE  LinksAgree' /\ PendingAdds'
  <2>1. LinksAgree'
    BY <1>2 DEF UnRegisterEvent, lists, LinksAgree, Linked
  <2>2. PendingAdds'
    BY <1>2 DEF UnRegisterEvent, lists, PendingAdds, TypeOK
  <2> QED
    BY <2>1, <2>2
<1>3. ASSUME NEW c \in Callers, events_add_entry(c)
      PROVE  LinksAgree' /\ PendingAdds'
  <2>1. call[c].entry \in Entries /\ call[c].type \in Types /\ ~registered[call[c].entry]
        /\ call[c].entry \in Registers[c]
    BY <1>3 DEF events_add_entry, TypeOK, Calls, None, PendingAdds
  <2>2. LinksAgree'
    BY <1>3, <2>1, InsertKeepsLinks DEF events_add_entry
  <2>3. PendingAdds'
    <3> SUFFICES ASSUME NEW d \in Callers, call'[d].op = "add"
                 PROVE  call'[d].entry \in Registers[d] /\ ~registered'[call'[d].entry]
      BY DEF PendingAdds
    <3>1. d # c /\ call'[d] = call[d]
      BY <1>3 DEF events_add_entry, TypeOK, None
    <3>2. call[d].entry \in Registers[d] /\ ~registered[call[d].entry] /\ call[d].entry \in Entries
      BY <3>1 DEF PendingAdds
    <3>3. call[d].entry # call[c].entry
      BY <2>1, <3>1, <3>2 DEF Owned
    <3> QED
      BY <1>3, <2>1, <3>1, <3>2, <3>3 DEF events_add_entry, TypeOK
  <2> QED
    BY <2>2, <2>3
<1>4. ASSUME NEW c \in Callers, events_rem_entry(c)
      PROVE  LinksAgree' /\ PendingAdds'
  <2>1. call[c].entry \in Entries
    BY <1>4 DEF events_rem_entry, TypeOK, Calls, None
  <2>2. CASE next[call[c].entry] # NULL /\ prev[call[c].entry] # NULL
    <3>1. /\ Remove(call[c].entry) /\ registered' = [registered EXCEPT ![call[c].entry] = FALSE]
          /\ call' = [call EXCEPT ![c] = None]
      BY <1>4, <2>2 DEF events_rem_entry
    <3>2. LinksAgree'
      BY <2>1, <2>2, <3>1, RemoveKeepsLinks
    <3>3. PendingAdds'
      BY <2>1, <3>1 DEF PendingAdds, TypeOK, None
    <3> QED
      BY <3>2, <3>3
  <2>3. CASE next[call[c].entry] = NULL \/ prev[call[c].entry] = NULL
    BY <1>4, <2>3 DEF events_rem_entry, lists, LinksAgree, Linked, PendingAdds
  <2> QED
    BY <2>2, <2>3
<1>5. ASSUME NEW t \in Types, Broadcast(t)
      PROVE  LinksAgree' /\ PendingAdds'
  BY <1>5 DEF Broadcast, lists, LinksAgree, Linked, PendingAdds
<1>6. CASE Walk
  BY <1>6 DEF Walk, Callback, Astray, CallbackReturns, BroadcastEnds, lists, LinksAgree, Linked,
              PendingAdds
<1>7. CASE UNCHANGED vars
  BY <1>7 DEF vars, LinksAgree, Linked, PendingAdds
<1> QED
  BY <1>1, <1>2, <1>3, <1>4, <1>5, <1>6, <1>7 DEF Next, Api

\* init_event_manager: every head is its own list.
LEMMA LinksInit == Init => LinksInv
<1> SUFFICES ASSUME Init PROVE LinksAgree /\ PendingAdds
  BY TypeInit DEF LinksInv
<1>1. LinksAgree
  BY EventAssumption DEF Init, LinksAgree, Linked, Nodes
<1>2. PendingAdds
  BY DEF Init, PendingAdds, None
<1> QED
  BY <1>1, <1>2

\* The lists of event.c hold together whatever is unregistered by whom and
\* when, if no entry is registered by two threads.
THEOREM ListsHoldTogether == Owned => (Spec => []LinksAgree)
<1> SUFFICES ASSUME Owned PROVE Spec => []LinksAgree
  OBVIOUS
<1>1. Init => LinksInv
  BY LinksInit
<1>2. LinksInv /\ [Next]_vars => LinksInv'
  BY LinksStep
<1>3. LinksInv => LinksAgree
  BY DEF LinksInv
<1> QED
  BY <1>1, <1>2, <1>3, PTL DEF Spec

-----------------------------------------------------------------------------
(* The walk                                                                *)

\* Every node has the event of its list, and no entry leads to itself: the
\* entries of a list have increasing ranks.
Ordered(event, rank) ==
    /\ \A t \in Types : event[t] = t
    /\ \A n \in Linked : event[next[n]] = event[n]
    /\ \A e \in Linked \cap Entries :
         next[e] \in Entries => rank[e] < rank[next[e]]

\* The iterator is in the list that is walked.
InList(event) == broadcasting # NULL => it \in Linked /\ event[it] = broadcasting

ListsOrdered ==
    \E event \in [Nodes -> Types \cup {NULL}], rank \in [Entries -> Int] :
        Ordered(event, rank) /\ InList(event)

\* While a callback runs the iterator is past its entry, and what is about to
\* be unregistered is that entry.
PastRunning ==
    /\ running # NULL => it # running
    /\ \A c \in Callers :
         call[c].op = "remove" => c = Main /\ running # NULL /\ call[c].entry = running

WalkInv == LinksInv /\ ListsOrdered /\ PastRunning /\ halted # "broadcast_event"

\* list_insert_head puts an entry before all others of its list.
LEMMA InsertKeepsOrder ==
    ASSUME LinksInv, ListsOrdered, NEW e \in Entries, NEW t \in Types, ~registered[e],
           InsertHead(t, e), registered' = [registered EXCEPT ![e] = TRUE],
           UNCHANGED <<broadcasting, it>>
    PROVE  ListsOrdered'
<1> USE EventAssumption DEF LinksInv
<1>1. PICK event \in [Nodes -> Types \cup {NULL}], rank \in [Entries -> Int] :
        Ordered(event, rank) /\ InList(event)
  BY DEF ListsOrdered
<1> DEFINE first == next[t]
<1>2. t \in Linked /\ e \notin Linked /\ e # t /\ e \in Nodes /\ t \in Nodes
  BY DEF Linked, Nodes
<1>3. first \in Linked /\ first \in Nodes /\ first # e
  BY <1>2 DEF LinksAgree, Nodes, Linked
<1>4. Linked' = Linked \cup {e}
  BY DEF Linked, TypeOK
<1>5. /\ next'[e] = first /\ next'[t] = e
      /\ \A n \in Nodes : n # e /\ n # t => next'[n] = next[n]
  BY <1>2 DEF InsertHead, TypeOK
<1>6. \A n \in Linked : next[n] \in Linked /\ n \in Nodes /\ next[n] \in Nodes /\ next[n] # e /\ n # e
  BY <1>2 DEF LinksAgree, Linked, Nodes
<1>7. (IF first \in Entries THEN rank[first] - 1 ELSE 0) \in Int
  BY <1>1
<1>8. PICK event2 \in [Nodes -> Types \cup {NULL}], rank2 \in [Entries -> Int] :
        /\ event2[e] = t /\ \A n \in Nodes : n # e => event2[n] = event[n]
        /\ rank2[e] = (IF first \in Entries THEN rank[first] - 1 ELSE 0)
        /\ \A n \in Entries : n # e => rank2[n] = rank[n]
  <2> DEFINE ev == [event EXCEPT ![e] = t]
             rk == [rank EXCEPT ![e] = IF first \in Entries THEN rank[first] - 1 ELSE 0]
  <2>1. ev \in [Nodes -> Types \cup {NULL}] /\ ev[e] = t /\ \A n \in Nodes : n # e => ev[n] = event[n]
    BY <1>1, <1>2
  <2>2. /\ rk \in [Entries -> Int]
        /\ rk[e] = (IF first \in Entries THEN rank[first] - 1 ELSE 0)
        /\ \A n \in Entries : n # e => rk[n] = rank[n]
    BY <1>1, <1>7
  <2> HIDE DEF first, ev, rk
  <2> QED
    BY <2>1, <2>2
<1>9. Ordered(event2, rank2)'
  <2>1. \A u \in Types : event2[u] = u
    BY <1>1, <1>8 DEF Ordered, Nodes
  <2>2. ASSUME NEW n \in Linked \cup {e} PROVE event2[next'[n]] = event2[n]
    <3>1. CASE n = e
      <4>1. event[first] = event[t] /\ event[t] = t
        BY <1>1, <1>2 DEF Ordered
      <4> QED
        BY <1>3, <1>5, <1>8, <3>1, <4>1
    <3>2. CASE n = t
      BY <1>1, <1>2, <1>5, <1>8, <3>2 DEF Ordered
    <3>3. CASE n \in Linked /\ n # t
      BY <1>1, <1>5, <1>6, <1>8, <3>3 DEF Ordered
    <3> QED
      BY <3>1, <3>2, <3>3
  <2>3. ASSUME NEW n \in (Linked \cup {e}) \cap Entries, next'[n] \in Entries
        PROVE  rank2[n] < rank2[next'[n]]
    <3>1. CASE n = e
      <4>1. first \in Entries /\ rank2[first] = rank[first] /\ rank2[e] = rank[first] - 1
        BY <1>3, <1>5, <1>8, <2>3, <3>1
      <4>2. rank[first] \in Int
        BY <1>1, <4>1
      <4> QED
        BY <1>5, <3>1, <4>1, <4>2
    <3>2. CASE n # e
      <4>1. n \in Linked /\ n \in Entries /\ n # t
        BY <2>3, <3>2
      <4>2. next'[n] = next[n] /\ next[n] # e
        BY <1>5, <1>6, <4>1
      <4>3. rank[n] < rank[next[n]]
        BY <1>1, <2>3, <4>1, <4>2 DEF Ordered
      <4> QED
        BY <1>8, <2>3, <3>2, <4>1, <4>2, <4>3
    <3> QED
      BY <3>1, <3>2
  <2> QED
    BY <1>4, <2>1, <2>2, <2>3 DEF Ordered
<1>10. InList(event2)'
  BY <1>1, <1>4, <1>6, <1>8 DEF InList
<1> QED
  BY <1>9, <1>10 DEF ListsOrdered

\* list_remove leaves the others in their order, and the iterator alone when it
\* is past the entry.
LEMMA RemoveKeepsOrder ==
    ASSUME LinksInv, ListsOrdered, NEW e \in Entries, next[e] # NULL, it # e,
           Remove(e), registered' = [registered EXCEPT ![e] = FALSE],
           UNCHANGED <<broadcasting, it>>
    PROVE  ListsOrdered'
<1> USE EventAssumption DEF LinksInv
<1>1. PICK event \in [Nodes -> Types \cup {NULL}], rank \in [Entries -> Int] :
        Ordered(event, rank) /\ InList(event)
  BY DEF ListsOrdered
<1>2. /\ e \in Linked /\ e \in Nodes
      /\ next[e] \in Linked /\ next[e] \in Nodes
      /\ prev[e] \in Linked /\ prev[e] \in Nodes /\ next[prev[e]] = e
  BY DEF LinksAgree, Linked, Nodes
<1>3. Linked' = Linked \ {e}
  BY DEF Linked, TypeOK
<1>4. \A n \in Linked \ {e} : next'[n] = IF n = prev[e] THEN next[e] ELSE next[n]
  BY <1>2 DEF Remove, TypeOK, Linked, Nodes
<1>5. ASSUME NEW n \in Linked \ {e} PROVE event[next'[n]] = event[n]
  <2>1. event[next[n]] = event[n] /\ event[next[e]] = event[e]
    BY <1>1, <1>2 DEF Ordered
  <2> QED
    BY <1>2, <1>4, <2>1
<1>6. ASSUME NEW n \in (Linked \ {e}) \cap Entries, next'[n] \in Entries
      PROVE  rank[n] < rank[next'[n]]
  <2>1. CASE n = prev[e]
    <3>1. next'[n] = next[e] /\ next[n] = e
      BY <1>2, <1>4, <2>1
    <3>2. rank[n] < rank[e] /\ rank[e] < rank[next[e]]
      BY <1>1, <1>2, <1>6, <3>1 DEF Ordered
    <3>3. rank[n] \in Int /\ rank[e] \in Int /\ rank[next[e]] \in Int
      BY <1>1, <1>6, <3>1
    <3> QED
      BY <3>1, <3>2, <3>3
  <2>2. CASE n # prev[e]
    BY <1>1, <1>4, <1>6, <2>2 DEF Ordered
  <2> QED
    BY <2>1, <2>2
<1>7. Ordered(event, rank)'
  BY <1>1, <1>3, <1>5, <1>6 DEF Ordered
<1>8. InList(event)'
  BY <1>1, <1>3 DEF InList
<1> QED
  BY <1>1, <1>7, <1>8 DEF ListsOrdered

\* In a step that leaves the lists alone the order remains, and the iterator
\* only has to stay in its list.
LEMMA ListsKeepOrder ==
    ASSUME ListsOrdered, UNCHANGED lists,
           \/ UNCHANGED <<broadcasting, it>>
           \/ broadcasting' = NULL
           \/ broadcasting' \in Types /\ LinksInv /\ it' = next[broadcasting']
           \/ broadcasting' = broadcasting /\ broadcasting # NULL /\ LinksInv /\ it' = next[it]
    PROVE  ListsOrdered'
<1>1. PICK event \in [Nodes -> Types \cup {NULL}], rank \in [Entries -> Int] :
        Ordered(event, rank) /\ InList(event)
  BY DEF ListsOrdered
<1>2. Ordered(event, rank)'
  BY <1>1 DEF Ordered, Linked, lists
<1>3. \A n \in Linked : n \in Nodes
  BY DEF Linked, Nodes
<1>4. InList(event)'
  <2>1. Linked' = Linked
    BY DEF Linked, lists
  <2>2. CASE UNCHANGED <<broadcasting, it>>
    BY <1>1, <2>1, <2>2 DEF InList
  <2>3. CASE broadcasting' = NULL
    BY <2>3 DEF InList
  <2>4. CASE broadcasting' \in Types /\ LinksInv /\ it' = next[broadcasting']
    <3>1. broadcasting' \in Linked /\ event[next[broadcasting']] = event[broadcasting']
          /\ event[broadcasting'] = broadcasting'
      BY <1>1, <2>4 DEF Linked, Ordered
    <3>2. next[broadcasting'] \in Linked
      BY <1>3, <2>4, <3>1 DEF LinksInv, LinksAgree
    <3> QED
      BY <2>1, <2>4, <3>1, <3>2 DEF InList
  <2>5. CASE broadcasting' = broadcasting /\ broadcasting # NULL /\ LinksInv /\ it' = next[it]
    <3>1. it \in Linked /\ event[it] = broadcasting /\ event[next[it]] = event[it]
      BY <1>1, <2>5 DEF InList, Ordered
    <3>2. next[it] \in Linked
      BY <1>3, <2>5, <3>1 DEF LinksInv, LinksAgree
    <3> QED
      BY <2>1, <2>5, <3>1, <3>2 DEF InList
  <2> QED
    BY <2>2, <2>3, <2>4, <2>5
<1> QED
  BY <1>1, <1>2, <1>4 DEF ListsOrdered

\* The inductive step of the walk: only the callback that runs unregisters, only
\* itself, and the iterator is past it.
LEMMA WalkStep == Owned /\ OnlyThemselves /\ WalkInv /\ [Next]_vars => WalkInv'
<1> SUFFICES ASSUME Owned, OnlyThemselves, WalkInv, [Next]_vars
             PROVE  ListsOrdered' /\ PastRunning' /\ halted' # "broadcast_event"
  BY LinksStep DEF WalkInv
<1> USE EventAssumption DEF WalkInv
<1>1. ASSUME NEW c \in Callers, NEW e \in Entries, NEW t \in Types, RegisterEvent(c, e, t)
      PROVE  ListsOrdered' /\ PastRunning' /\ halted' # "broadcast_event"
  <2>1. ListsOrdered'
    BY <1>1, ListsKeepOrder DEF RegisterEvent, walk
  <2>2. PastRunning'
    BY <1>1 DEF RegisterEvent, walk, PastRunning, LinksInv, TypeOK
  <2> QED
    BY <1>1, <2>1, <2>2 DEF RegisterEvent
<1>2. ASSUME NEW c \in Callers, NEW e \in Entries, UnRegisterEvent(c, e)
      PROVE  ListsOrdered' /\ PastRunning' /\ halted' # "broadcast_event"
  <2>1. ListsOrdered'
    BY <1>2, ListsKeepOrder DEF UnRegisterEvent, walk
  <2>2. c = Main /\ running # NULL /\ e = running
    BY <1>2 DEF UnRegisterEvent, Removable, OnlyThemselves, Callers, LinksInv, TypeOK
  <2>3. PastRunning'
    BY <1>2, <2>2 DEF UnRegisterEvent, walk, PastRunning, LinksInv, TypeOK
  <2> QED
    BY <1>2, <2>1, <2>3 DEF UnRegisterEvent
<1>3. ASSUME NEW c \in Callers, events_add_entry(c)
      PROVE  ListsOrdered' /\ PastRunning' /\ halted' # "broadcast_event"
  <2>1. call[c].entry \in Entries /\ call[c].type \in Types /\ ~registered[call[c].entry]
    BY <1>3 DEF events_add_entry, LinksInv, TypeOK, Calls, None, PendingAdds
  <2>2. ListsOrdered'
    BY <1>3, <2>1, InsertKeepsOrder DEF events_add_entry, walk
  <2>3. PastRunning'
    BY <1>3 DEF events_add_entry, walk, PastRunning, LinksInv, TypeOK, None
  <2> QED
    BY <1>3, <2>2, <2>3 DEF events_add_entry
<1>4. ASSUME NEW c \in Callers, events_rem_entry(c)
      PROVE  ListsOrdered' /\ PastRunning' /\ halted' # "broadcast_event"
  <2>1. call[c].entry \in Entries /\ it # call[c].entry
    BY <1>4 DEF events_rem_entry, LinksInv, TypeOK, Calls, None, PastRunning
  <2>2. CASE next[call[c].entry] # NULL /\ prev[call[c].entry] # NULL
    <3>1. /\ Remove(call[c].entry) /\ registered' = [registered EXCEPT ![call[c].entry] = FALSE]
          /\ call' = [call EXCEPT ![c] = None] /\ UNCHANGED <<walk, halted>>
      BY <1>4, <2>2 DEF events_rem_entry
    <3>2. ListsOrdered'
      BY <2>1, <2>2, <3>1, RemoveKeepsOrder DEF walk
    <3>3. PastRunning'
      BY <3>1 DEF walk, PastRunning, LinksInv, TypeOK, None
    <3> QED
      BY <3>1, <3>2, <3>3
  <2>3. CASE halted' = "events_rem_entry" /\ UNCHANGED <<lists, call, walk>>
    <3>1. ListsOrdered'
      BY <2>3, ListsKeepOrder DEF walk
    <3> QED
      BY <2>3, <3>1 DEF PastRunning, walk
  <2> QED
    BY <1>4, <2>2, <2>3 DEF events_rem_entry
<1>5. ASSUME NEW t \in Types, Broadcast(t)
      PROVE  ListsOrdered' /\ PastRunning' /\ halted' # "broadcast_event"
  <2>1. ListsOrdered'
    BY <1>5, ListsKeepOrder DEF Broadcast
  <2> QED
    BY <1>5, <2>1 DEF Broadcast, PastRunning, LinksInv, TypeOK
<1>6. CASE Callback
  <2>1. ListsOrdered'
    BY <1>6, ListsKeepOrder DEF Callback
  <2>2. next[it] # it
    <3>1. PICK event \in [Nodes -> Types \cup {NULL}], rank \in [Entries -> Int] :
            Ordered(event, rank) /\ InList(event)
      BY DEF ListsOrdered
    <3>2. it \in Linked /\ it \in Entries /\ rank[it] \in Int
      BY <1>6, <3>1 DEF Callback, InList
    <3> QED
      BY <3>1, <3>2 DEF Ordered
  <2>3. it # NULL
    BY <1>6 DEF Callback
  <2> QED
    BY <1>6, <2>1, <2>2, <2>3 DEF Callback, PastRunning
<1>7. CASE Astray
  <2>1. PICK event \in [Nodes -> Types \cup {NULL}], rank \in [Entries -> Int] :
          Ordered(event, rank) /\ InList(event)
    BY DEF ListsOrdered
  <2>2. it \in Linked /\ event[it] = broadcasting /\ it \notin Entries
    BY <1>7, <2>1 DEF Astray, InList
  <2>3. it = broadcasting
    BY <2>1, <2>2 DEF Linked, Ordered
  <2> QED
    BY <1>7, <2>3 DEF Astray
<1>8. CASE CallbackReturns
  <2>1. ListsOrdered'
    BY <1>8, ListsKeepOrder DEF CallbackReturns
  <2>2. PastRunning'
    BY <1>8 DEF CallbackReturns, PastRunning, None
  <2> QED
    BY <1>8, <2>1, <2>2 DEF CallbackReturns
<1>9. CASE BroadcastEnds
  <2>1. ListsOrdered'
    BY <1>9, ListsKeepOrder DEF BroadcastEnds
  <2> QED
    BY <1>9, <2>1 DEF BroadcastEnds, PastRunning
<1>10. CASE UNCHANGED vars
  <2>1. ListsOrdered'
    BY <1>10, ListsKeepOrder DEF vars, lists
  <2> QED
    BY <1>10, <2>1 DEF vars, PastRunning
<1> QED
  BY <1>1, <1>2, <1>3, <1>4, <1>5, <1>6, <1>7, <1>8, <1>9, <1>10 DEF Next, Api, Walk

\* Nothing is linked and nothing is walked at first.
LEMMA WalkInit == Init => WalkInv
<1> SUFFICES ASSUME Init PROVE ListsOrdered /\ PastRunning /\ halted # "broadcast_event"
  BY LinksInit DEF WalkInv
<1>1. PastRunning /\ halted # "broadcast_event"
  BY DEF Init, PastRunning, None
<1>2. ListsOrdered
  <2> DEFINE ev == [n \in Nodes |-> IF n \in Types THEN n ELSE NULL]
             rk == [e \in Entries |-> 0]
  <2>1. ev \in [Nodes -> Types \cup {NULL}] /\ \A u \in Types : ev[u] = u
    BY DEF Nodes
  <2>2. rk \in [Entries -> Int]
    OBVIOUS
  <2>3. Linked = Types /\ \A n \in Types : next[n] = n
    BY DEF Init, Linked, Nodes
  <2>4. Ordered(ev, rk)
    BY <2>1, <2>3, EventAssumption DEF Ordered
  <2>5. InList(ev)
    BY DEF Init, InList
  <2> HIDE DEF ev, rk
  <2> QED
    BY <2>1, <2>2, <2>4, <2>5 DEF ListsOrdered
<1> QED
  BY <1>1, <1>2

\* broadcast_event never stands on a removed entry and finds the end of its list,
\* if a callback unregisters itself at most and plugin threads do not unregister.
THEOREM WalkStaysInList == Owned /\ OnlyThemselves => (Spec => []WalkIsRegistered)
<1> SUFFICES ASSUME Owned, OnlyThemselves PROVE Spec => []WalkIsRegistered
  OBVIOUS
<1>1. Init => WalkInv
  BY WalkInit
<1>2. WalkInv /\ [Next]_vars => WalkInv'
  BY WalkStep
<1>3. WalkInv => WalkIsRegistered
  <2> SUFFICES ASSUME WalkInv PROVE WalkIsRegistered
    OBVIOUS
  <2>1. PICK event \in [Nodes -> Types \cup {NULL}], rank \in [Entries -> Int] :
          Ordered(event, rank) /\ InList(event)
    BY DEF WalkInv, ListsOrdered
  <2> QED
    BY <2>1 DEF WalkInv, Ordered, InList, WalkIsRegistered
<1> QED
  BY <1>1, <1>2, <1>3, PTL DEF Spec

-----------------------------------------------------------------------------
(* The bus                                                                 *)

\* S is not left by the links of its entries.
Closed(link, S) == \A m \in S \cap Entries : link[m] \in S

Places == Nodes \cup {NULL}

\* Rest, of any links.
Reach(link, n) ==
    {e \in Entries : \A S \in SUBSET Places : n \in S /\ Closed(link, S) => e \in S}

\* What is closed and holds n holds all that is reached.
LEMMA ReachWithin ==
    ASSUME NEW link, NEW n, NEW S \in SUBSET Places, n \in S, Closed(link, S)
    PROVE  Reach(link, n) \subseteq S
  BY DEF Reach

\* The end of a list.
LEMMA ReachNothing ==
    ASSUME NEW link, NEW n \in Places, n \notin Entries
    PROVE  Reach(link, n) = {}
<1>1. Closed(link, {n})
  BY DEF Closed
<1>2. Reach(link, n) \subseteq {n}
  BY <1>1, ReachWithin
<1> QED
  BY <1>2 DEF Reach

\* An entry, and what its link leads to.
LEMMA ReachNext ==
    ASSUME NEW link, NEW e \in Entries, link[e] \in Places
    PROVE  Reach(link, e) = {e} \cup Reach(link, link[e])
<1>1. e \in Reach(link, e)
  BY DEF Reach
<1>2. ASSUME NEW x \in Reach(link, link[e]) PROVE x \in Reach(link, e)
  BY <1>2 DEF Reach, Closed
<1>3. ASSUME NEW x \in Reach(link, e), x # e PROVE x \in Reach(link, link[e])
  <2> SUFFICES ASSUME NEW S \in SUBSET Places, link[e] \in S, Closed(link, S) PROVE x \in S
    BY DEF Reach
  <2>1. S \cup {e} \in SUBSET Places /\ Closed(link, S \cup {e})
    BY DEF Closed, Places, Nodes
  <2>2. x \in S \cup {e}
    BY <2>1 DEF Reach
  <2> QED
    BY <1>3, <2>2
<1> QED
  BY <1>1, <1>2, <1>3

\* Links that agree where one of them leads.
LEMMA ReachSame ==
    ASSUME NEW link, NEW link2, NEW S \in SUBSET Places, NEW n \in S, Closed(link, S),
           \A m \in S \cap Entries : link2[m] = link[m]
    PROVE  Reach(link2, n) = Reach(link, n)
<1>1. ASSUME NEW f, NEW g, Closed(f, S), \A m \in S \cap Entries : f[m] = g[m],
             NEW x \in Reach(f, n)
      PROVE  x \in Reach(g, n)
  <2> SUFFICES ASSUME NEW T \in SUBSET Places, n \in T, Closed(g, T) PROVE x \in T
    BY DEF Reach
  <2>1. T \cap S \in SUBSET Places /\ n \in T \cap S /\ Closed(f, T \cap S)
    BY <1>1 DEF Closed
  <2>2. x \in T \cap S
    BY <1>1, <2>1 DEF Reach
  <2> QED
    BY <2>2
<1>2. Closed(link2, S)
  BY DEF Closed
<1> QED
  BY <1>1, <1>2

\* A removal takes one entry out of what is reached.
LEMMA ReachWithout ==
    ASSUME NEW link, NEW link2, NEW S \in SUBSET Places, NEW e \in S \cap Entries,
           Closed(link, S), link[e] # e,
           \A m \in (S \cap Entries) \ {e} :
              link2[m] = IF link[m] = e THEN link[e] ELSE link[m],
           NEW n \in S \ {e}
    PROVE  Reach(link2, n) = Reach(link, n) \ {e}
<1>0. link[e] \in S
  BY DEF Closed
<1>1. ASSUME NEW x \in Reach(link, n), x # e PROVE x \in Reach(link2, n)
  <2> SUFFICES ASSUME NEW T \in SUBSET Places, n \in T, Closed(link2, T) PROVE x \in T
    BY DEF Reach
  <2> DEFINE U == ((T \cap S) \ {e}) \cup (IF link[e] \in T THEN {e} ELSE {})
  <2>1. U \in SUBSET Places /\ n \in U
    BY DEF Places, Nodes
  <2>2. ASSUME NEW m \in U \cap Entries PROVE link[m] \in U
    <3>1. CASE m = e
      BY <1>0, <2>2, <3>1
    <3>2. CASE m # e /\ link[m] = e
      <4>1. link2[m] \in T /\ link2[m] = link[e]
        BY <2>2, <3>2 DEF Closed
      <4> QED
        BY <3>2, <4>1
    <3>3. CASE m # e /\ link[m] # e
      <4>1. link2[m] \in T /\ link2[m] = link[m] /\ link[m] \in S
        BY <2>2, <3>3 DEF Closed
      <4> QED
        BY <3>3, <4>1
    <3> QED
      BY <3>1, <3>2, <3>3
  <2>3. x \in U
    BY <1>1, <2>1, <2>2 DEF Reach, Closed
  <2> QED
    BY <1>1, <2>3
<1>2. ASSUME NEW x \in Reach(link2, n) PROVE x \in Reach(link, n) /\ x # e
  <2>1. ASSUME NEW T \in SUBSET Places, n \in T, Closed(link, T) PROVE x \in T /\ x # e
    <3> DEFINE U == (T \cap S) \ {e}
    <3>1. U \in SUBSET Places /\ n \in U
      BY <2>1
    <3>2. ASSUME NEW m \in U \cap Entries PROVE link2[m] \in U
      <4>1. link[m] \in T /\ link[m] \in S
        BY <2>1, <3>2 DEF Closed
      <4>2. link[m] = e => link[e] \in T
        BY <2>1, <4>1 DEF Closed
      <4> QED
        BY <1>0, <3>2, <4>1, <4>2
    <3>3. x \in U
      BY <1>2, <3>1, <3>2 DEF Reach, Closed
    <3> QED
      BY <3>3
  <2>2. x # e
    BY <2>1
  <2> QED
    BY <1>2, <2>1, <2>2 DEF Reach
<1> QED
  BY <1>1, <1>2

\* From a head and from a registered entry only registered entries are reached, all of the
\* same list, and no entry behind itself.
LEMMA LinkedClosed ==
    ASSUME LinksInv
    PROVE  Linked \in SUBSET Places /\ Closed(next, Linked)
  BY DEF LinksInv, LinksAgree, Linked, Places, Nodes, Closed

\* What a node reaches is of its own event, and an entry is not behind itself.
LEMMA ReachInList ==
    ASSUME LinksInv, NEW event, NEW rank \in [Entries -> Int], Ordered(event, rank),
           NEW n \in Linked
    PROVE  /\ \A x \in Reach(next, n) : x \in Linked /\ event[x] = event[n]
           /\ n \in Entries => next[n] # n /\ n \notin Reach(next, next[n])
<1>0. Linked \in SUBSET Places /\ Closed(next, Linked)
  BY LinkedClosed
<1>1. ASSUME NEW x \in Reach(next, n) PROVE x \in Linked /\ event[x] = event[n]
  <2> DEFINE S == {m \in Linked : event[m] = event[n]}
  <2>1. S \in SUBSET Places /\ n \in S /\ Closed(next, S)
    BY <1>0 DEF Closed, Ordered
  <2> HIDE DEF S
  <2>2. x \in S
    BY <1>1, <2>1, ReachWithin
  <2> QED
    BY <2>2 DEF S
<1>2. ASSUME n \in Entries PROVE next[n] # n /\ n \notin Reach(next, next[n])
  <2> DEFINE S == {m \in Linked : m \in Entries => rank[n] < rank[m]}
  <2>1. S \in SUBSET Places
    BY <1>0
  <2>2. next[n] \in S
    BY <1>0, <1>2 DEF Closed, Ordered
  <2>3. ASSUME NEW m \in S \cap Entries PROVE next[m] \in S
    <3>1. m \in Linked /\ next[m] \in Linked /\ rank[n] < rank[m]
      BY <1>0, <2>3 DEF Closed
    <3>2. next[m] \in Entries => rank[m] < rank[next[m]]
      BY <2>3, <3>1 DEF Ordered
    <3>3. next[m] \in Entries => rank[n] < rank[next[m]]
      BY <1>2, <2>3, <3>1, <3>2
    <3> QED
      BY <3>1, <3>3
  <2>4. n \notin S
    BY <1>2
  <2> HIDE DEF S
  <2>5. Reach(next, next[n]) \subseteq S
    BY <2>1, <2>2, <2>3, ReachWithin DEF Closed
  <2> QED
    BY <2>2, <2>4, <2>5
<1> QED
  BY <1>1, <1>2

\* list_insert_head puts an entry into one list and leaves the rest of every list alone.
LEMMA InsertReaches ==
    ASSUME LinksInv, NEW e \in Entries, NEW t \in Types, ~registered[e], InsertHead(t, e)
    PROVE  /\ \A n \in Linked : Reach(next', n) = Reach(next, n)
           /\ \A u \in Types : Reach(next', next'[u]) =
                 IF u = t THEN Reach(next, next[u]) \cup {e} ELSE Reach(next, next[u])
<1> USE EventAssumption
<1>1. Linked \in SUBSET Places /\ Closed(next, Linked)
  BY LinkedClosed
<1>2. t \in Linked /\ e \notin Linked /\ e \in Nodes /\ t \in Nodes /\ e # t
  BY DEF Linked, Nodes
<1>3. /\ next'[e] = next[t] /\ next'[t] = e
      /\ \A n \in Nodes : n # e /\ n # t => next'[n] = next[n]
  BY <1>2 DEF InsertHead, LinksInv, TypeOK
<1>4. \A m \in Linked \cap Entries : next'[m] = next[m]
  BY <1>2, <1>3 DEF Nodes
<1>5. ASSUME NEW n \in Linked PROVE Reach(next', n) = Reach(next, n)
  BY <1>1, <1>4, ReachSame
<1>6. ASSUME NEW u \in Types PROVE next[u] \in Linked /\ (u # t => next'[u] = next[u])
  BY <1>2, <1>3 DEF LinksInv, LinksAgree, Linked, Nodes
<1>7. Reach(next', next'[t]) = Reach(next, next[t]) \cup {e}
  <2>1. next'[e] \in Places /\ next'[e] \in Linked
    BY <1>1, <1>3, <1>6
  <2>2. Reach(next', e) = {e} \cup Reach(next', next'[e])
    BY <2>1, ReachNext
  <2>3. Reach(next', next'[e]) = Reach(next, next[t])
    BY <1>3, <1>5, <1>6
  <2> QED
    BY <1>3, <2>2, <2>3
<1>8. ASSUME NEW u \in Types, u # t PROVE Reach(next', next'[u]) = Reach(next, next[u])
  BY <1>5, <1>6, <1>8
<1> QED
  BY <1>5, <1>7, <1>8

\* list_remove takes the entry out of its list, and of the rest of the walk.
LEMMA RemoveReaches ==
    ASSUME LinksInv, ListsOrdered, NEW e \in Entries, next[e] # NULL, Remove(e)
    PROVE  /\ \A n \in Linked \ {e} : Reach(next', n) = Reach(next, n) \ {e}
           /\ \A u \in Types : Reach(next', next'[u]) = Reach(next, next[u]) \ {e}
           /\ registered[e]
<1> USE EventAssumption DEF LinksInv
<1>0. PICK event \in [Nodes -> Types \cup {NULL}], rank \in [Entries -> Int] :
        Ordered(event, rank)
  BY DEF ListsOrdered
<1>1. Linked \in SUBSET Places /\ Closed(next, Linked)
  BY LinkedClosed
<1>2. /\ e \in Linked /\ e \in Nodes /\ e \notin Types /\ registered[e]
      /\ next[e] \in Linked /\ next[e] \in Nodes
      /\ prev[e] \in Linked /\ prev[e] \in Nodes /\ next[prev[e]] = e
  BY DEF LinksAgree, Linked, Nodes
<1>3. next[e] # e /\ e \notin Reach(next, next[e])
  BY <1>0, <1>2, ReachInList
<1>4. ASSUME NEW n \in Linked \ {e} PROVE next'[n] = IF next[n] = e THEN next[e] ELSE next[n]
  <2>1. next'[n] = IF n = prev[e] THEN next[e] ELSE next[n]
    BY <1>2 DEF Remove, TypeOK, Linked, Nodes
  <2>2. next[n] = e <=> n = prev[e]
    BY <1>2 DEF LinksAgree, Linked, Nodes
  <2> QED
    BY <2>1, <2>2
<1>5. ASSUME NEW n \in Linked \ {e} PROVE Reach(next', n) = Reach(next, n) \ {e}
  BY <1>1, <1>2, <1>3, <1>4, ReachWithout
<1>6. ASSUME NEW u \in Types PROVE Reach(next', next'[u]) = Reach(next, next[u]) \ {e}
  <2>1. u \in Linked \ {e} /\ next[u] \in Linked
    BY <1>2 DEF LinksAgree, Linked, Nodes
  <2>2. CASE next[u] = e
    <3>1. next'[u] = next[e] /\ next[e] \in Linked \ {e}
      BY <1>2, <1>3, <1>4, <2>1, <2>2
    <3>2. Reach(next', next[e]) = Reach(next, next[e]) \ {e}
      BY <1>5, <3>1
    <3>3. Reach(next, e) = {e} \cup Reach(next, next[e])
      BY <1>1, <1>2, ReachNext
    <3> QED
      BY <2>2, <3>1, <3>2, <3>3
  <2>3. CASE next[u] # e
    <3>1. next'[u] = next[u] /\ next[u] \in Linked \ {e}
      BY <1>4, <2>1, <2>3
    <3> QED
      BY <1>5, <3>1
  <2> QED
    BY <2>2, <2>3
<1> QED
  BY <1>2, <1>5, <1>6

\* Every registered entry is reached from the head of a list, and without a walk there is
\* no iterator.
AllReached ==
    \A e \in Entries : registered[e] => \E t \in Types : e \in Reach(next, next[t])

BusInv == WalkInv /\ AllReached /\ (broadcasting = NULL => it = NULL)

\* The variables of the bus, in both states.
LEMMA BusIs ==
    /\ [t \in Types |-> Rest(next[t])] = [t \in Types |-> Reach(next, next[t])]
    /\ [t \in Types |-> Rest(next[t])]' = [t \in Types |-> Reach(next', next'[t])]
    /\ Rest(it) = Reach(next, it)
    /\ Rest(it)' = Reach(next', it')
  BY DEF Rest, Reach, Closed, Places, Nodes

\* The bus sees lists and walk only.
LEMMA BusKept ==
    ASSUME UNCHANGED lists, UNCHANGED walk
    PROVE  UNCHANGED Bus!vars
<1>1. next' = next /\ it' = it /\ broadcasting' = broadcasting /\ running' = running
  BY DEF lists, walk
<1> QED
  BY <1>1, BusIs DEF Bus!vars

\* events_add_entry subscribes the entry.
LEMMA BusAdds ==
    ASSUME BusInv, NEW c \in Callers, events_add_entry(c)
    PROVE  Bus!Next /\ AllReached'
<1> USE EventAssumption
<1> DEFINE e == call[c].entry
           t == call[c].type
<1>1. e \in Entries /\ t \in Types /\ ~registered[e] /\ LinksInv
  BY DEF BusInv, WalkInv, events_add_entry, LinksInv, TypeOK, Calls, None, PendingAdds
<1>2. /\ InsertHead(t, e) /\ registered' = [registered EXCEPT ![e] = TRUE]
      /\ it' = it /\ broadcasting' = broadcasting /\ running' = running
  BY DEF events_add_entry, walk
<1> HIDE DEF e, t
<1>3. /\ \A n \in Linked : Reach(next', n) = Reach(next, n)
      /\ \A u \in Types : Reach(next', next'[u]) =
            IF u = t THEN Reach(next, next[u]) \cup {e} ELSE Reach(next, next[u])
  BY <1>1, <1>2, InsertReaches
<1>4. PICK event \in [Nodes -> Types \cup {NULL}], rank \in [Entries -> Int] :
        Ordered(event, rank) /\ InList(event)
  BY DEF BusInv, WalkInv, ListsOrdered
<1>5. \A u \in Types : e \notin Reach(next, next[u])
  <2> SUFFICES ASSUME NEW u \in Types, e \in Reach(next, next[u]) PROVE FALSE
    OBVIOUS
  <2>1. next[u] \in Linked
    BY <1>1 DEF LinksInv, LinksAgree, Linked, Nodes
  <2>2. e \in Linked
    BY <1>1, <1>4, <2>1, ReachInList
  <2> QED
    BY <1>1, <2>2 DEF Linked
<1>6. Reach(next', it') = Reach(next, it)
  <2>1. CASE broadcasting = NULL
    <3>1. it = NULL /\ NULL \in Places /\ NULL \notin Entries
      BY <2>1 DEF BusInv, Places
    <3> QED
      BY <1>2, <3>1, ReachNothing
  <2>2. CASE broadcasting # NULL
    BY <1>2, <1>3, <1>4, <2>2 DEF InList
  <2> QED
    BY <2>1, <2>2
<1>7. Bus!Subscribe(t, e)
  <2> DEFINE s == [u \in Types |-> Reach(next, next[u])]
             s2 == [u \in Types |-> Reach(next', next'[u])]
  <2>1. s2 = [s EXCEPT ![t] = @ \cup {e}]
    BY <1>1, <1>3
  <2>2. \A u \in Types : e \notin s[u]
    BY <1>5
  <2> HIDE DEF s, s2
  <2> QED
    BY <1>2, <1>6, <2>1, <2>2, BusIs DEF Bus!Subscribe, s, s2
<1>8. AllReached'
  <2> SUFFICES ASSUME NEW x \in Entries, registered'[x]
               PROVE  \E u \in Types : x \in Reach(next', next'[u])
    BY DEF AllReached
  <2>1. CASE x = e
    BY <1>1, <1>3, <2>1
  <2>2. CASE x # e
    <3>1. registered[x]
      BY <1>2, <2>2 DEF BusInv, WalkInv, LinksInv, TypeOK
    <3>2. PICK u \in Types : x \in Reach(next, next[u])
      BY <3>1 DEF BusInv, AllReached
    <3> QED
      BY <1>3, <3>2
  <2> QED
    BY <2>1, <2>2
<1> QED
  BY <1>1, <1>7, <1>8 DEF Bus!Next

\* events_rem_entry unsubscribes the entry, or does nothing to one that is in no list.
LEMMA BusRemoves ==
    ASSUME BusInv, NEW c \in Callers, events_rem_entry(c)
    PROVE  (Bus!Next \/ UNCHANGED Bus!vars) /\ AllReached'
<1> USE EventAssumption
<1> DEFINE e == call[c].entry
<1>1. e \in Entries /\ it # e /\ LinksInv /\ ListsOrdered
  BY DEF BusInv, WalkInv, events_rem_entry, LinksInv, TypeOK, Calls, None, PastRunning
<1>2. CASE UNCHANGED <<lists, walk>>
  BY <1>2, BusKept DEF BusInv, AllReached, lists
<1>3. CASE /\ next[e] # NULL /\ Remove(e) /\ registered' = [registered EXCEPT ![e] = FALSE]
           /\ UNCHANGED walk
  <2> HIDE DEF e
  <2>1. /\ \A n \in Linked \ {e} : Reach(next', n) = Reach(next, n) \ {e}
        /\ \A u \in Types : Reach(next', next'[u]) = Reach(next, next[u]) \ {e}
        /\ registered[e]
    BY <1>1, <1>3, RemoveReaches
  <2>2. PICK event \in [Nodes -> Types \cup {NULL}], rank \in [Entries -> Int] :
          Ordered(event, rank) /\ InList(event)
    BY <1>1 DEF ListsOrdered
  <2>3. it' = it /\ broadcasting' = broadcasting /\ running' = running
    BY <1>3 DEF walk
  <2>4. Reach(next', it') = Reach(next, it) \ {e}
    <3>1. CASE broadcasting = NULL
      <4>1. it = NULL /\ NULL \in Places /\ NULL \notin Entries
        BY <3>1 DEF BusInv, Places
      <4> QED
        BY <2>3, <4>1, ReachNothing
    <3>2. CASE broadcasting # NULL
      BY <1>1, <2>1, <2>2, <2>3, <3>2 DEF InList
    <3> QED
      BY <3>1, <3>2
  <2>5. PICK t \in Types : e \in Reach(next, next[t])
    BY <1>1, <2>1 DEF BusInv, AllReached
  <2>6. ASSUME NEW u \in Types, e \in Reach(next, next[u]) PROVE event[e] = u
    <3>1. next[u] \in Linked /\ u \in Linked /\ event[next[u]] = event[u] /\ event[u] = u
      BY <1>1, <2>2 DEF LinksInv, LinksAgree, Linked, Nodes, Ordered
    <3> QED
      BY <1>1, <2>2, <2>6, <3>1, ReachInList
  <2>7. \A u \in Types : u # t => Reach(next', next'[u]) = Reach(next, next[u])
    <3> SUFFICES ASSUME NEW u \in Types, u # t
                 PROVE  Reach(next', next'[u]) = Reach(next, next[u])
      OBVIOUS
    <3>1. event[e] = t
      BY <2>5, <2>6
    <3>2. e \notin Reach(next, next[u])
      BY <2>6, <3>1
    <3>3. Reach(next, next[u]) \ {e} = Reach(next, next[u])
      BY <3>2
    <3> QED
      BY <2>1, <3>3
  <2>8. Bus!Unsubscribe(t, e)
    <3> DEFINE s == [u \in Types |-> Reach(next, next[u])]
               s2 == [u \in Types |-> Reach(next', next'[u])]
    <3>1. s2 = [s EXCEPT ![t] = @ \ {e}]
      BY <2>1, <2>7
    <3>2. e \in s[t]
      BY <2>5
    <3> HIDE DEF s, s2
    <3> QED
      BY <2>3, <2>4, <3>1, <3>2, BusIs DEF Bus!Unsubscribe, s, s2
  <2>9. AllReached'
    <3> SUFFICES ASSUME NEW x \in Entries, registered'[x]
                 PROVE  \E u \in Types : x \in Reach(next', next'[u])
      BY DEF AllReached
    <3>1. x # e /\ registered[x]
      BY <1>1, <1>3 DEF LinksInv, TypeOK
    <3>2. PICK u \in Types : x \in Reach(next, next[u])
      BY <3>1 DEF BusInv, AllReached
    <3> QED
      BY <2>1, <3>1, <3>2
  <2> QED
    BY <1>1, <2>8, <2>9 DEF Bus!Next
<1> QED
  BY <1>2, <1>3 DEF events_rem_entry

\* The steps of the walk.
LEMMA BusWalks ==
    ASSUME BusInv, NEW t \in Types, Broadcast(t) \/ Walk
    PROVE  Bus!Next \/ UNCHANGED Bus!vars
<1> USE EventAssumption
<1>0. LinksInv /\ Linked \in SUBSET Places /\ Closed(next, Linked)
  BY LinkedClosed DEF BusInv, WalkInv
<1>1. PICK event \in [Nodes -> Types \cup {NULL}], rank \in [Entries -> Int] :
        Ordered(event, rank) /\ InList(event)
  BY DEF BusInv, WalkInv, ListsOrdered
<1>2. CASE Broadcast(t)
  <2>1. /\ broadcasting = NULL /\ broadcasting' = t /\ it' = next[t] /\ next' = next
        /\ running' = running
    BY <1>2 DEF Broadcast, lists
  <2>2. [u \in Types |-> Reach(next, next[u])][t] = Reach(next, next[t])
    OBVIOUS
  <2> QED
    BY <2>1, <2>2, BusIs DEF Bus!Begin, Bus!Next
<1>3. CASE Callback
  <2>1. /\ broadcasting # NULL /\ running = NULL /\ it \in Entries
        /\ it' = next[it] /\ running' = it /\ next' = next /\ broadcasting' = broadcasting
    BY <1>3 DEF Callback, lists
  <2>2. it \in Linked /\ it \in Places /\ next[it] \in Places
    BY <1>0, <1>1, <2>1 DEF InList, Closed
  <2>3. it \notin Reach(next, next[it])
    BY <1>0, <1>1, <2>1, <2>2, ReachInList
  <2>4. Reach(next, it) = {it} \cup Reach(next, next[it])
    BY <2>1, <2>2, ReachNext
  <2>5. it \in Reach(next, it) /\ Reach(next', it') = Reach(next, it) \ {it}
    BY <2>1, <2>3, <2>4
  <2>6. Bus!Call(it)
    BY <2>1, <2>5, BusIs DEF Bus!Call
  <2> QED
    BY <2>1, <2>6 DEF Bus!Next
<1>4. CASE Astray
  BY <1>4, BusKept DEF Astray
<1>5. CASE CallbackReturns
  <2>1. /\ running # NULL /\ running' = NULL /\ next' = next /\ it' = it
        /\ broadcasting' = broadcasting
    BY <1>5 DEF CallbackReturns, lists
  <2> QED
    BY <2>1, BusIs DEF Bus!Return, Bus!Next
<1>6. CASE BroadcastEnds
  <2>1. /\ broadcasting # NULL /\ running = NULL /\ it = broadcasting
        /\ broadcasting' = NULL /\ it' = NULL /\ next' = next /\ running' = running
    BY <1>6 DEF BroadcastEnds, lists
  <2>2. it \in Places /\ it \notin Entries /\ NULL \in Places /\ NULL \notin Entries
    BY <1>0, <2>1 DEF LinksInv, TypeOK, Places, Nodes
  <2>3. Reach(next, it) = {} /\ Reach(next', it') = {}
    BY <2>1, <2>2, ReachNothing
  <2> QED
    BY <2>1, <2>3, BusIs DEF Bus!End, Bus!Next
<1> QED
  BY <1>2, <1>3, <1>4, <1>5, <1>6 DEF Walk

\* Each step is one of the bus or changes nothing of it.
LEMMA BusStep ==
    ASSUME Owned, OnlyThemselves, BusInv, [Next]_vars
    PROVE  BusInv' /\ [Bus!Next]_(Bus!vars)
<1>1. WalkInv'
  BY WalkStep DEF BusInv
<1>2. CASE UNCHANGED <<lists, walk>>
  BY <1>1, <1>2, BusKept DEF BusInv, AllReached, lists, walk
<1>3. ASSUME NEW c \in Callers, events_add_entry(c) PROVE BusInv' /\ [Bus!Next]_(Bus!vars)
  BY <1>1, <1>3, BusAdds DEF BusInv, events_add_entry, walk
<1>4. ASSUME NEW c \in Callers, events_rem_entry(c) PROVE BusInv' /\ [Bus!Next]_(Bus!vars)
  BY <1>1, <1>4, BusRemoves DEF BusInv, events_rem_entry, walk
<1>5. ASSUME NEW t \in Types, Broadcast(t) PROVE BusInv' /\ [Bus!Next]_(Bus!vars)
  <2>1. AllReached' /\ broadcasting' # NULL
    BY <1>5, EventAssumption DEF BusInv, AllReached, Broadcast, lists
  <2> QED
    BY <1>1, <1>5, <2>1, BusWalks DEF BusInv
<1>6. CASE Walk
  <2>1. AllReached'
    BY <1>6 DEF BusInv, AllReached, Walk, Callback, Astray, CallbackReturns, BroadcastEnds, lists
  <2>2. broadcasting' = NULL => it' = NULL
    BY <1>6 DEF BusInv, Walk, Callback, Astray, CallbackReturns, BroadcastEnds, walk
  <2>3. Bus!Next \/ UNCHANGED Bus!vars
    <3>1. CASE \E t \in Types : TRUE
      BY <1>6, <3>1, BusWalks
    <3>2. CASE ~\E t \in Types : TRUE
      BY <1>6, <3>2, EventAssumption
         DEF BusInv, WalkInv, LinksInv, TypeOK, Walk, Callback, Astray, CallbackReturns,
             BroadcastEnds
    <3> QED
      BY <3>1, <3>2
  <2> QED
    BY <1>1, <2>1, <2>2, <2>3 DEF BusInv
<1> QED
  BY <1>2, <1>3, <1>4, <1>5, <1>6
     DEF Next, Api, RegisterEvent, UnRegisterEvent, vars, lists, walk

\* event.c implements the bus, for any events, entries and threads, if no entry is
\* registered by two threads, plugin threads do not unregister and a callback unregisters
\* itself at most: a broadcast calls who was registered when it began and still is at its
\* turn, once, and nobody else.
THEOREM ListsAreBus == Owned /\ OnlyThemselves => (Spec => ImplementsBus)
<1> SUFFICES ASSUME Owned, OnlyThemselves PROVE Spec => ImplementsBus
  OBVIOUS
<1>1. Init => BusInv /\ Bus!Init
  <2> SUFFICES ASSUME Init PROVE BusInv /\ Bus!Init
    OBVIOUS
  <2>1. WalkInv /\ broadcasting = NULL /\ it = NULL /\ running = NULL
    BY WalkInit DEF Init
  <2>2. \A e \in Entries : ~registered[e]
    BY DEF Init
  <2>3. \A t \in Types : next[t] \in Places /\ next[t] \notin Entries
    BY EventAssumption DEF Init, Places, Nodes
  <2>4. NULL \in Places /\ NULL \notin Entries
    BY EventAssumption DEF Places
  <2>5. [t \in Types |-> Reach(next, next[t])] = [t \in Types |-> {}] /\ Reach(next, it) = {}
    BY <2>1, <2>3, <2>4, ReachNothing
  <2>6. Bus!Init
    BY <2>1, <2>5, BusIs DEF Bus!Init
  <2> QED
    BY <2>1, <2>2, <2>6 DEF BusInv, AllReached
<1>2. BusInv /\ [Next]_vars => BusInv' /\ [Bus!Next]_(Bus!vars)
  BY BusStep
<1> QED
  BY <1>1, <1>2, PTL DEF Spec, ImplementsBus, Bus!Spec

=============================================================================
