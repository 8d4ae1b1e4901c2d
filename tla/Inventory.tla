----------------------------- MODULE Inventory -----------------------------
(***************************************************************************)
(* The items and the bags of a world (code/client/item.c): the table of    *)
(* items by id, the hash table of bags, the slots of the bags, and what    *)
(* plugins read of them (code/client/api.c).                               *)
(*                                                                         *)
(* The game server owns the items; its packets tell the client where each  *)
(* one is.  `place' is the server's knowledge (external).                  *)
(***************************************************************************)
EXTENDS Integers, FiniteSets, FiniteSetsExt

CONSTANTS
    ItemIds,      \* ids the server gives to items
    Objects,      \* addresses that calloc can return for an Item
    BagIds,       \* ids the server gives to bags
    SlotCount,    \* the slots of a bag
    TableSize,    \* the size of world->bags (32 in the code)
    Probe,        \* the indices hash_int32 goes through from the id of a bag
    Overwrites,   \* the server may put an item in an occupied slot (item.c:273)
    NULL, Unknown, Loose

Slots == 0 .. SlotCount - 1
Indices == 0 .. TableSize - 1

\* The functions whose asserts end the process here.
Faults == {"remove_item_from_bag", "HandleInventoryItemLocation", "HandleItemChangeLocation"}

Item == [item_id : ItemIds, bag : Indices \cup {NULL}, slot : Slots \cup {0}]
Bag == [bag_id : BagIds \cup {NULL}, items : [Slots -> Objects \cup {NULL}], item_count : Int]

\* Repeated hash_int32 reaches every index of the table from every 16-bit id
\* (within 523 steps for the 32 entries of the code).
ASSUME InventoryAssumption ==
    /\ SlotCount \in Nat /\ TableSize \in Nat
    /\ DOMAIN Probe = BagIds
    /\ \A b \in BagIds :
          /\ DOMAIN Probe[b] \subseteq Nat
          /\ \A i \in Indices : \E n \in DOMAIN Probe[b] : Probe[b][n] = i
          /\ \A n \in DOMAIN Probe[b] : Probe[b][n] \in Indices
    /\ Overwrites \in BOOLEAN
    /\ NULL \notin Objects \cup Indices \cup BagIds
    /\ NULL \notin Item /\ NULL \notin Faults
    /\ Unknown # Loose
    /\ {Unknown, Loose} \cap (BagIds \X Slots) = {}

VARIABLES
    items,      \* world->items: the object of an id, or NULL
    heap,       \* the fields of every allocated Item; NULL when it is free
    bags,       \* world->bags: bag_id (NULL when unused), items, item_count
    inventory,  \* world->inventory.bags: the entry of world->bags, or NULL
    place,      \* the server's knowledge: Unknown, Loose, or a bag and a slot
    fault       \* the function whose assert ended the process, or NULL

vars == <<items, heap, bags, inventory, place, fault>>

EmptyBag == [bag_id |-> NULL, items |-> [s \in Slots |-> NULL], item_count |-> 0]

TypeOK ==
    /\ items \in [ItemIds -> Objects \cup {NULL}]
    /\ heap \in [Objects -> Item \cup {NULL}]
    /\ bags \in [Indices -> Bag]
    /\ inventory \in [BagIds -> Indices \cup {NULL}]
    /\ place \in [ItemIds -> {Unknown, Loose} \cup (BagIds \X Slots)]
    /\ fault \in Faults \cup {NULL}

\* init_world
Init ==
    /\ items = [i \in ItemIds |-> NULL]
    /\ heap = [o \in Objects |-> NULL]
    /\ bags = [i \in Indices |-> EmptyBag]
    /\ inventory = [b \in BagIds |-> NULL]
    /\ place = [i \in ItemIds |-> Unknown]
    /\ fault = NULL

-----------------------------------------------------------------------------
(* Helpers of item.c.                                                      *)

\* Mutant: an entry that another bag has is taken.
FirstWhatever(b, wanted) == 1

\* The first index on the way of b whose entry is `wanted'.
FirstOn(b, wanted) ==
    LET Stops(n) == bags[Probe[b][n]].bag_id \in wanted
    IN  CHOOSE n \in DOMAIN Probe[b] :
            Stops(n) /\ \A m \in DOMAIN Probe[b] : m < n => ~Stops(m)

\* The search of the two handlers that move an item.  It ends at the bag, or at
\* an unused entry, where the assert inside the loop fails.
FindBag(b) == Probe[b][FirstOn(b, {b, NULL})]
BagIsFound(b) == bags[FindBag(b)].bag_id = b

\* Assertions of remove_item_from_bag.
CanRemove(o) ==
    heap[o].bag # NULL => bags[heap[o].bag].items[heap[o].slot] # NULL

\* The bags after remove_item_from_bag.
WithoutItem(o) ==
    IF heap[o].bag = NULL THEN bags
    ELSE [bags EXCEPT ![heap[o].bag].items[heap[o].slot] = NULL,
                      ![heap[o].bag].item_count = @ - 1]

\* The bags `in' after an item is written into a slot; whatever is there is
\* overwritten.
WithItem(in, k, s, o) ==
    [in EXCEPT ![k].items[s] = o, ![k].item_count = @ + 1]

Alive == fault = NULL

-----------------------------------------------------------------------------
(* The game server (external): where it may put an item.                   *)

Created == {b \in BagIds : inventory[b] # NULL}
Holder(b, s) == {i \in ItemIds : place[i] = <<b, s>>}

\* The server puts i in slot s of b; an item that was there is displaced.
Puts(i, b, s) ==
    /\ b \in Created /\ s \in Slots
    /\ i \notin Holder(b, s)
    /\ Holder(b, s) = {} \/ Overwrites
    /\ place' = [j \in ItemIds |-> IF j = i THEN <<b, s>>
                                   ELSE IF j \in Holder(b, s) THEN Loose
                                   ELSE place[j]]

-----------------------------------------------------------------------------
(* The handlers.                                                           *)

\* A new item; the server does not announce an item twice.
HandleItemGeneralInfo(i, o) ==
    /\ Alive /\ place[i] = Unknown /\ heap[o] = NULL
    /\ heap' = [heap EXCEPT ![o] = [item_id |-> i, bag |-> NULL, slot |-> 0]]
    /\ items' = [items EXCEPT ![i] = o]
    /\ place' = [place EXCEPT ![i] = Loose]
    /\ UNCHANGED <<bags, inventory, fault>>

\* Mutant: the return for an item that is in no bag comes before free_item.
RemoveReturnsEarly(i) ==
    /\ Alive /\ place[i] # Unknown /\ items[i] # NULL
    /\ place' = [place EXCEPT ![i] = Unknown]
    /\ items' = [items EXCEPT ![i] = NULL]
    /\ bags' = WithoutItem(items[i])
    /\ heap' = IF heap[items[i]].bag = NULL THEN heap ELSE [heap EXCEPT ![items[i]] = NULL]
    /\ UNCHANGED <<inventory, fault>>

\* The item is no longer in the table when the assertions of remove_item_from_bag are
\* reached, and is freed after them.
HandleItemRemove(i) ==
    /\ Alive /\ place[i] # Unknown /\ items[i] # NULL
    /\ place' = [place EXCEPT ![i] = Unknown]
    /\ items' = [items EXCEPT ![i] = NULL]
    /\ UNCHANGED inventory
    /\ IF CanRemove(items[i])
       THEN /\ bags' = WithoutItem(items[i])
            /\ heap' = [heap EXCEPT ![items[i]] = NULL]
            /\ UNCHANGED fault
       ELSE fault' = "remove_item_from_bag" /\ UNCHANGED <<bags, heap>>

\* The first placement of an item.
HandleInventoryItemLocation(i, b, s) ==
    /\ Alive /\ place[i] = Loose /\ items[i] # NULL
    /\ Puts(i, b, s)
    /\ UNCHANGED <<items, inventory>>
    /\ IF BagIsFound(b)
       THEN /\ heap' = [heap EXCEPT ![items[i]].bag = FindBag(b), ![items[i]].slot = s]
            /\ bags' = WithItem(bags, FindBag(b), s, items[i])
            /\ UNCHANGED fault
       ELSE fault' = "HandleInventoryItemLocation" /\ UNCHANGED <<heap, bags>>

\* Mutant: the item also stays where it was.
ChangeWithoutRemoval(i, b, s) ==
    /\ Alive /\ place[i] # Unknown /\ items[i] # NULL
    /\ Puts(i, b, s)
    /\ heap' = [heap EXCEPT ![items[i]].bag = FindBag(b), ![items[i]].slot = s]
    /\ bags' = WithItem(bags, FindBag(b), s, items[i])
    /\ UNCHANGED <<items, inventory, fault>>

HandleItemChangeLocation(i, b, s) ==
    /\ Alive /\ place[i] # Unknown /\ items[i] # NULL
    /\ Puts(i, b, s)
    /\ UNCHANGED <<items, inventory>>
    /\ IF BagIsFound(b) /\ CanRemove(items[i])
       THEN /\ heap' = [heap EXCEPT ![items[i]].bag = FindBag(b), ![items[i]].slot = s]
            /\ bags' = WithItem(WithoutItem(items[i]), FindBag(b), s, items[i])
            /\ UNCHANGED fault
       ELSE /\ fault' = IF BagIsFound(b) THEN "remove_item_from_bag"
                                         ELSE "HandleItemChangeLocation"
            /\ UNCHANGED <<heap, bags>>

\* The server creates a bag once.
HandleInventoryCreateBag(b) ==
    /\ Alive /\ b \notin Created
    /\ \E k \in Indices : bags[k].bag_id = NULL
    /\ LET k == Probe[b][FirstOn(b, {NULL})]
       IN  /\ bags' = [bags EXCEPT ![k] = [EmptyBag EXCEPT !.bag_id = b]]
           /\ inventory' = [inventory EXCEPT ![b] = k]
    /\ UNCHANGED <<items, heap, place, fault>>

\* free_world and init_world: the client leaves for another world.  Items that the
\* table does not hold are not freed.
ResetWorld ==
    /\ Alive
    /\ heap' = [o \in Objects |-> IF \E i \in ItemIds : items[i] = o THEN NULL ELSE heap[o]]
    /\ items' = [i \in ItemIds |-> NULL]
    /\ bags' = [i \in Indices |-> EmptyBag]
    /\ inventory' = [b \in BagIds |-> NULL]
    /\ place' = [i \in ItemIds |-> Unknown]
    /\ UNCHANGED fault

Next ==
    \/ \E i \in ItemIds :
          \/ \E o \in Objects : HandleItemGeneralInfo(i, o)
          \/ HandleItemRemove(i)
          \/ \E b \in BagIds, s \in Slots :
                \/ HandleInventoryItemLocation(i, b, s)
                \/ HandleItemChangeLocation(i, b, s)
    \/ \E b \in BagIds : HandleInventoryCreateBag(b)
    \/ ResetWorld

Spec == Init /\ [][Next]_vars

-----------------------------------------------------------------------------
(* What plugins read.                                                      *)

GetItem(i) == items[i] # NULL

GetItemLocation(i) ==
    IF items[i] = NULL \/ heap[items[i]].bag = NULL THEN NULL
    ELSE <<bags[heap[items[i]].bag].bag_id, heap[items[i]].slot>>

\* The ids of the items in a bag; a slot that points to a freed item gives NULL.
GetBagItems(b) ==
    LET held == {bags[inventory[b]].items[s] : s \in Slots} \ {NULL}
    IN  IF inventory[b] = NULL THEN {}
        ELSE {IF heap[o] = NULL THEN NULL ELSE heap[o].item_id : o \in held}

-----------------------------------------------------------------------------
(* Properties.                                                             *)

\* Every bag that was created is found by its id, on the way that hashing takes through
\* a table that other bags share, and the inventory points to it.
BagsAreFound ==
    \A b \in Created : BagIsFound(b) /\ inventory[b] = FindBag(b)

\* The item a plugin looks up, the place it is told, the contents of the bag and the number of
\* occupied slots are those of the server, through placements, moves and removals: the table
\* of items, the pointers of the items, the slots and the item_count of the bags agree.
MirrorsServer ==
    Alive =>
        /\ \A i \in ItemIds : GetItem(i) <=> place[i] # Unknown
        /\ \A i \in ItemIds :
              GetItemLocation(i) = IF place[i] \in {Unknown, Loose} THEN NULL ELSE place[i]
        /\ \A b \in Created :
              /\ GetBagItems(b) = {i \in ItemIds : \E s \in Slots : place[i] = <<b, s>>}
              /\ bags[inventory[b]].item_count =
                    Cardinality({s \in Slots : bags[inventory[b]].items[s] # NULL})

\* No item is lost to free_item: an allocated item is in the table under its id.
NothingLeaks ==
    Alive => \A o \in Objects : heap[o] # NULL => items[heap[o].item_id] = o

\* The asserts of remove_item_from_bag hold: an item that is in a bag is in its slot.
RemovedIsInSlot == fault # "remove_item_from_bag"
=============================================================================
