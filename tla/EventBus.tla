------------------------------ MODULE EventBus ------------------------------
(***************************************************************************)
(* What event.c promises.  Entries subscribe to events.  A broadcast calls *)
(* every entry that was subscribed when it began and has not unsubscribed  *)
(* before its turn, each once, and no other.                               *)
(***************************************************************************)
EXTENDS Naturals

CONSTANTS Types, Entries, NULL

VARIABLES
    subscribed,  \* for every event, its entries
    current,     \* the event that is broadcast, or NULL
    due,         \* the entries it has still to call
    running      \* the entry whose callback runs, or NULL

vars == <<subscribed, current, due, running>>

Init ==
    /\ subscribed = [t \in Types |-> {}]
    /\ current = NULL /\ due = {} /\ running = NULL

Subscribe(t, e) ==
    /\ \A u \in Types : e \notin subscribed[u]
    /\ subscribed' = [subscribed EXCEPT ![t] = @ \cup {e}]
    /\ UNCHANGED <<current, due, running>>

Unsubscribe(t, e) ==
    /\ e \in subscribed[t]
    /\ subscribed' = [subscribed EXCEPT ![t] = @ \ {e}]
    /\ due' = due \ {e}
    /\ UNCHANGED <<current, running>>

Begin(t) ==
    /\ current = NULL
    /\ current' = t /\ due' = subscribed[t]
    /\ UNCHANGED <<subscribed, running>>

Call(e) ==
    /\ running = NULL /\ e \in due
    /\ running' = e /\ due' = due \ {e}
    /\ UNCHANGED <<subscribed, current>>

Return ==
    /\ running # NULL /\ running' = NULL
    /\ UNCHANGED <<subscribed, current, due>>

End ==
    /\ current # NULL /\ running = NULL /\ due = {}
    /\ current' = NULL
    /\ UNCHANGED <<subscribed, due, running>>

Next ==
    \/ \E t \in Types, e \in Entries : Subscribe(t, e) \/ Unsubscribe(t, e)
    \/ \E t \in Types : Begin(t)
    \/ \E e \in Entries : Call(e)
    \/ Return
    \/ End

Spec == Init /\ [][Next]_vars

=============================================================================
