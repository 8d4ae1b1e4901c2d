--------------------------- MODULE InventoryProofs ---------------------------
(***************************************************************************)
(* Proofs about Inventory, for any number of items, bags and slots and any *)
(* hashing that reaches every entry of the table.                          *)
(***************************************************************************)
EXTENDS Inventory, FiniteSetTheorems, WellFoundedInduction, TLAPS

-----------------------------------------------------------------------------
(* The inductive invariants                                                *)

\* The entry of a bag is on its way, after entries of other bags only: entries are
\* filled and never emptied, so it stays the first that the search stops at.
WaysLeadToBags ==
    \A b \in Created : \E n \in DOMAIN Probe[b] :
        /\ Probe[b][n] = inventory[b]
        /\ bags[inventory[b]].bag_id = b
        /\ \A m \in DOMAIN Probe[b] : m < n => bags[Probe[b][m]].bag_id \notin {b, NULL}

\* An entry in use is the one to which the inventory points.
EntriesAreOwned ==
    \A k \in Indices : bags[k].bag_id # NULL => inventory[bags[k].bag_id] = k

\* The table has an allocated item under its own id for each item that the server
\* has announced.
ItemsAreHeld ==
    \A i \in ItemIds :
        /\ items[i] # NULL <=> place[i] # Unknown
        /\ items[i] # NULL => heap[items[i]] # NULL /\ heap[items[i]].item_id = i

TableInv ==
    /\ TypeOK
    /\ WaysLeadToBags
    /\ EntriesAreOwned
    /\ ItemsAreHeld
    /\ NothingLeaks

\* An item that is in a bag is in its slot there, and a slot holds an item that is in it.
SlotsAgree ==
    /\ \A o \in Objects : heap[o] # NULL /\ heap[o].bag # NULL =>
          heap[o].slot \in Slots /\ bags[heap[o].bag].items[heap[o].slot] = o
    /\ \A k \in Indices, s \in Slots : LET o == bags[k].items[s] IN
          o # NULL => heap[o] # NULL /\ heap[o].bag = k /\ heap[o].slot = s

\* An item is where the server put it.
PlacesAgree ==
    \A i \in ItemIds : items[i] # NULL =>
        \/ place[i] = Loose /\ heap[items[i]].bag = NULL
        \/ \E b \in Created, s \in Slots :
              /\ place[i] = <<b, s>>
              /\ heap[items[i]].bag = inventory[b]
              /\ heap[items[i]].slot = s

Occupied(k) == {s \in Slots : bags[k].items[s] # NULL}

CountsAgree == \A k \in Indices : bags[k].item_count = Cardinality(Occupied(k))

MirrorInv ==
    /\ Alive
    /\ SlotsAgree
    /\ PlacesAgree
    /\ CountsAgree

-----------------------------------------------------------------------------
(* Searching the table                                                     *)

\* A set of natural numbers that is not empty has a least element.
LEMMA LeastNumber ==
    ASSUME NEW T, T \subseteq Nat, T # {}
    PROVE  \E n \in T : \A m \in T : ~(m < n)
<1>1. PICK n \in T : \A m \in T : ~(<<m, n>> \in OpToRel(<, Nat))
  BY NatLessThanWellFounded, WFMin, Zenon
<1>2. ASSUME NEW m \in T, m < n PROVE FALSE
  BY <1>1, <1>2 DEF OpToRel
<1> QED
  BY <1>1, <1>2

\* The search stops where something that is wanted is, and nothing before it is.
LEMMA FirstOnStops ==
    ASSUME TypeOK, NEW b \in BagIds, NEW wanted,
           NEW n \in DOMAIN Probe[b], bags[Probe[b][n]].bag_id \in wanted
    PROVE  /\ FirstOn(b, wanted) \in DOMAIN Probe[b]
           /\ bags[Probe[b][FirstOn(b, wanted)]].bag_id \in wanted
           /\ \A m \in DOMAIN Probe[b] :
                 m < FirstOn(b, wanted) => bags[Probe[b][m]].bag_id \notin wanted
<1> DEFINE T == {m \in DOMAIN Probe[b] : bags[Probe[b][m]].bag_id \in wanted}
<1>1. T \subseteq Nat /\ n \in T
  BY InventoryAssumption
<1>2. PICK first \in T : \A m \in T : ~(m < first)
  <2> HIDE DEF T
  <2> QED
    BY <1>1, LeastNumber
<1>3. \E m \in DOMAIN Probe[b] :
        /\ bags[Probe[b][m]].bag_id \in wanted
        /\ \A l \in DOMAIN Probe[b] : l < m => ~(bags[Probe[b][l]].bag_id \in wanted)
  BY <1>2
<1> QED
  BY <1>3, Zenon DEF FirstOn

\* The handlers find a bag that was created, where the inventory points.
LEMMA CreatedIsFound ==
    ASSUME TypeOK, WaysLeadToBags, NEW b \in Created
    PROVE  BagIsFound(b) /\ FindBag(b) = inventory[b]
<1>1. b \in BagIds
  BY DEF Created
<1>2. PICK n \in DOMAIN Probe[b] :
        /\ Probe[b][n] = inventory[b]
        /\ bags[inventory[b]].bag_id = b
        /\ \A m \in DOMAIN Probe[b] : m < n => bags[Probe[b][m]].bag_id \notin {b, NULL}
  BY DEF WaysLeadToBags
<1> DEFINE first == FirstOn(b, {b, NULL})
<1>3. /\ first \in DOMAIN Probe[b]
      /\ bags[Probe[b][first]].bag_id \in {b, NULL}
      /\ \A m \in DOMAIN Probe[b] : m < first => bags[Probe[b][m]].bag_id \notin {b, NULL}
  <2>1. bags[Probe[b][n]].bag_id \in {b, NULL}
    BY <1>2
  <2> QED
    BY <1>1, <2>1, FirstOnStops
<1>4. first = n
  <2> HIDE DEF first
  <2>1. n \in Nat /\ first \in Nat
    BY <1>1, <1>2, <1>3, InventoryAssumption
  <2>2. ~(first < n) /\ ~(n < first)
    BY <1>2, <1>3
  <2> QED
    BY <2>1, <2>2
<1> QED
  BY <1>2, <1>4 DEF FindBag, BagIsFound

\* A bag that is created gets an unused entry of the table.
LEMMA UnusedIsFound ==
    ASSUME TypeOK, NEW b \in BagIds, NEW j \in Indices, bags[j].bag_id = NULL
    PROVE  /\ FirstOn(b, {NULL}) \in DOMAIN Probe[b]
           /\ Probe[b][FirstOn(b, {NULL})] \in Indices
           /\ bags[Probe[b][FirstOn(b, {NULL})]].bag_id = NULL
           /\ \A m \in DOMAIN Probe[b] :
                 m < FirstOn(b, {NULL}) => bags[Probe[b][m]].bag_id # NULL
<1>1. PICK n \in DOMAIN Probe[b] : Probe[b][n] = j
  BY InventoryAssumption
<1>2. bags[Probe[b][n]].bag_id \in {NULL}
  BY <1>1
<1>3. /\ FirstOn(b, {NULL}) \in DOMAIN Probe[b]
      /\ bags[Probe[b][FirstOn(b, {NULL})]].bag_id \in {NULL}
      /\ \A m \in DOMAIN Probe[b] :
            m < FirstOn(b, {NULL}) => bags[Probe[b][m]].bag_id \notin {NULL}
  BY <1>2, FirstOnStops
<1> QED
  BY <1>3, InventoryAssumption

-----------------------------------------------------------------------------
(* The tables                                                              *)

\* Other slots and another count in one entry.
Filled(in, k, slots, count) ==
    [in EXCEPT ![k] = [in[k] EXCEPT !.items = slots, !.item_count = count]]

LEMMA FilledIs ==
    ASSUME NEW in \in [Indices -> Bag], NEW k \in Indices,
           NEW slots \in [Slots -> Objects \cup {NULL}], NEW count \in Int
    PROVE  /\ Filled(in, k, slots, count) \in [Indices -> Bag]
           /\ \A j \in Indices : Filled(in, k, slots, count)[j].bag_id = in[j].bag_id
           /\ \A j \in Indices \ {k} : Filled(in, k, slots, count)[j] = in[j]
           /\ Filled(in, k, slots, count)[k].items = slots
           /\ Filled(in, k, slots, count)[k].item_count = count
<1>1. /\ [in[k] EXCEPT !.items = slots, !.item_count = count] \in Bag
      /\ [in[k] EXCEPT !.items = slots, !.item_count = count].bag_id = in[k].bag_id
      /\ [in[k] EXCEPT !.items = slots, !.item_count = count].items = slots
      /\ [in[k] EXCEPT !.items = slots, !.item_count = count].item_count = count
  BY DEF Bag
<1> QED
  BY <1>1 DEF Filled

\* The bags after an item came into a slot, and after one left its slot.
LEMMA WithItemIs ==
    ASSUME NEW in \in [Indices -> Bag], NEW k \in Indices, NEW s \in Slots, NEW o \in Objects
    PROVE  /\ WithItem(in, k, s, o) \in [Indices -> Bag]
           /\ \A j \in Indices : WithItem(in, k, s, o)[j].bag_id = in[j].bag_id
           /\ \A j \in Indices \ {k} : WithItem(in, k, s, o)[j] = in[j]
           /\ \A t \in Slots :
                 WithItem(in, k, s, o)[k].items[t] = IF t = s THEN o ELSE in[k].items[t]
           /\ WithItem(in, k, s, o)[k].item_count = in[k].item_count + 1
<1>1. in[k].items \in [Slots -> Objects \cup {NULL}] /\ in[k].item_count \in Int
  BY DEF Bag
<1>2. PICK slots \in [Slots -> Objects \cup {NULL}], count \in Int :
        /\ WithItem(in, k, s, o) = Filled(in, k, slots, count)
        /\ \A t \in Slots : slots[t] = IF t = s THEN o ELSE in[k].items[t]
        /\ count = in[k].item_count + 1
  <2> DEFINE slots == [in[k].items EXCEPT ![s] = o]
  <2>1. slots \in [Slots -> Objects \cup {NULL}]
    BY <1>1
  <2>2. WithItem(in, k, s, o) = Filled(in, k, slots, in[k].item_count + 1)
    BY DEF Filled, WithItem
  <2>3. \A t \in Slots : slots[t] = IF t = s THEN o ELSE in[k].items[t]
    BY <1>1
  <2> HIDE DEF slots
  <2> QED
    BY <1>1, <2>1, <2>2, <2>3
<1> QED
  BY <1>1, <1>2, FilledIs

LEMMA WithoutItemIs ==
    ASSUME TypeOK, NEW o \in Objects, heap[o] # NULL
    PROVE  /\ WithoutItem(o) \in [Indices -> Bag]
           /\ \A k \in Indices : WithoutItem(o)[k].bag_id = bags[k].bag_id
           /\ heap[o].bag = NULL => WithoutItem(o) = bags
           /\ heap[o].bag # NULL => LET k == heap[o].bag IN
                 /\ \A j \in Indices \ {k} : WithoutItem(o)[j] = bags[j]
                 /\ \A t \in Slots : WithoutItem(o)[k].items[t] =
                       IF t = heap[o].slot THEN NULL ELSE bags[k].items[t]
                 /\ WithoutItem(o)[k].item_count = bags[k].item_count - 1
<1>1. heap[o] \in Item /\ bags \in [Indices -> Bag]
  BY DEF TypeOK
<1>2. CASE heap[o].bag = NULL
  BY <1>1, <1>2 DEF WithoutItem
<1>3. CASE heap[o].bag # NULL
  <2>1. PICK k \in Indices : k = heap[o].bag
    BY <1>1, <1>3 DEF Item
  <2>2. bags[k].items \in [Slots -> Objects \cup {NULL}] /\ bags[k].item_count \in Int
    BY <1>1 DEF Bag
  <2>3. PICK slots \in [Slots -> Objects \cup {NULL}], count \in Int :
          /\ WithoutItem(o) = Filled(bags, k, slots, count)
          /\ \A t \in Slots : slots[t] = IF t = heap[o].slot THEN NULL ELSE bags[k].items[t]
          /\ count = bags[k].item_count - 1
    <3> DEFINE slots == [bags[k].items EXCEPT ![heap[o].slot] = NULL]
    <3>1. slots \in [Slots -> Objects \cup {NULL}]
      BY <2>2
    <3>2. WithoutItem(o) = Filled(bags, k, slots, bags[k].item_count - 1)
      BY <1>3, <2>1 DEF Filled, WithoutItem
    <3>3. \A t \in Slots : slots[t] = IF t = heap[o].slot THEN NULL ELSE bags[k].items[t]
      BY <2>2
    <3> HIDE DEF slots
    <3> QED
      BY <2>2, <3>1, <3>2, <3>3
  <2>4. /\ WithoutItem(o) \in [Indices -> Bag]
        /\ \A j \in Indices : WithoutItem(o)[j].bag_id = bags[j].bag_id
        /\ \A j \in Indices \ {k} : WithoutItem(o)[j] = bags[j]
        /\ WithoutItem(o)[k].items = slots
        /\ WithoutItem(o)[k].item_count = count
    BY <1>1, <2>3, FilledIs
  <2> QED
    BY <1>3, <2>1, <2>2, <2>3, <2>4
<1> QED
  BY <1>2, <1>3

\* What the server does when it puts an item: every place stays a place.
LEMMA PutsIs ==
    ASSUME TypeOK, NEW i \in ItemIds, NEW b \in BagIds, NEW s \in Slots, Puts(i, b, s),
           place[i] # Unknown
    PROVE  /\ b \in Created
           /\ place' \in [ItemIds -> {Unknown, Loose} \cup (BagIds \X Slots)]
           /\ \A j \in ItemIds : place'[j] # Unknown <=> place[j] # Unknown
<1>1. b \in Created
  BY DEF Puts
<1>2. <<b, s>> \in BagIds \X Slots
  OBVIOUS
<1>3. place' = [j \in ItemIds |-> IF j = i THEN <<b, s>>
                                  ELSE IF j \in Holder(b, s) THEN Loose ELSE place[j]]
  BY DEF Puts
<1>4. place' \in [ItemIds -> {Unknown, Loose} \cup (BagIds \X Slots)]
  BY <1>2, <1>3 DEF TypeOK
<1>5. ASSUME NEW j \in ItemIds PROVE place'[j] # Unknown <=> place[j] # Unknown
  <2>1. <<b, s>> # Unknown /\ Loose # Unknown
    BY <1>2, InventoryAssumption
  <2>2. j \in Holder(b, s) => place[j] = <<b, s>>
    BY DEF Holder
  <2> QED
    BY <1>3, <2>1, <2>2
<1> QED
  BY <1>1, <1>4, <1>5

\* The way to a bag does not change while bags keep their entries.
LEMMA KeptWays ==
    ASSUME TypeOK, WaysLeadToBags, EntriesAreOwned, UNCHANGED inventory,
           \A k \in Indices : bags'[k].bag_id = bags[k].bag_id
    PROVE  WaysLeadToBags' /\ EntriesAreOwned'
<1>1. WaysLeadToBags'
  <2> SUFFICES ASSUME NEW b \in Created
               PROVE  \E n \in DOMAIN Probe[b] :
                        /\ Probe[b][n] = inventory[b]
                        /\ bags'[inventory[b]].bag_id = b
                        /\ \A m \in DOMAIN Probe[b] : m < n => bags'[Probe[b][m]].bag_id \notin {b, NULL}
    BY DEF WaysLeadToBags, Created
  <2>1. b \in BagIds
    BY DEF Created
  <2>2. PICK n \in DOMAIN Probe[b] :
          /\ Probe[b][n] = inventory[b]
          /\ bags[inventory[b]].bag_id = b
          /\ \A m \in DOMAIN Probe[b] : m < n => bags[Probe[b][m]].bag_id \notin {b, NULL}
    BY DEF WaysLeadToBags
  <2>3. \A m \in DOMAIN Probe[b] : Probe[b][m] \in Indices
    BY <2>1, InventoryAssumption
  <2> QED
    BY <2>2, <2>3
<1>2. EntriesAreOwned'
  BY DEF EntriesAreOwned
<1> QED
  BY <1>1, <1>2

\* What both ways to move an item do to the tables.
LEMMA MovesKeepTable ==
    ASSUME TableInv, NEW i \in ItemIds, NEW b \in BagIds, NEW s \in Slots, items[i] # NULL,
           place[i] # Unknown, Puts(i, b, s),
           UNCHANGED <<items, inventory, fault>>,
           heap' = [heap EXCEPT ![items[i]].bag = FindBag(b), ![items[i]].slot = s],
           bags' \in [Indices -> Bag],
           \A k \in Indices : bags'[k].bag_id = bags[k].bag_id
    PROVE  TableInv'
<1>1. b \in Created /\ FindBag(b) = inventory[b] /\ inventory[b] \in Indices
  BY PutsIs, CreatedIsFound DEF TableInv, TypeOK, Created
<1>2. items[i] \in Objects /\ heap[items[i]] \in Item /\ heap[items[i]].item_id = i
  BY DEF TableInv, TypeOK, ItemsAreHeld
<1>3. [heap[items[i]] EXCEPT !.bag = FindBag(b), !.slot = s] \in Item
  BY <1>1, <1>2 DEF Item
<1>4. /\ heap' \in [Objects -> Item \cup {NULL}]
      /\ \A o \in Objects : heap'[o] = NULL <=> heap[o] = NULL
      /\ \A o \in Objects : heap[o] # NULL => heap'[o].item_id = heap[o].item_id
  BY <1>2, <1>3, InventoryAssumption DEF TableInv, TypeOK, Item
<1>5. TypeOK'
  BY <1>4, PutsIs DEF TableInv, TypeOK
<1>6. WaysLeadToBags' /\ EntriesAreOwned'
  BY KeptWays DEF TableInv
<1>7. ItemsAreHeld'
  <2>1. \A j \in ItemIds : place'[j] # Unknown <=> place[j] # Unknown
    BY PutsIs DEF TableInv
  <2> QED
    BY <1>4, <2>1 DEF TableInv, TypeOK, ItemsAreHeld
<1>8. NothingLeaks'
  BY <1>4 DEF TableInv, TypeOK, NothingLeaks, Alive
<1> QED
  BY <1>5, <1>6, <1>7, <1>8 DEF TableInv

\* Every packet keeps the tables, also when the server puts items into occupied slots.
LEMMA TableStep == TableInv /\ [Next]_vars => TableInv'
<1> SUFFICES ASSUME TableInv, [Next]_vars PROVE TableInv'
  OBVIOUS
<1> USE InventoryAssumption
<1>1. ASSUME NEW i \in ItemIds, NEW o \in Objects, HandleItemGeneralInfo(i, o)
      PROVE  TableInv'
  <2>1. [item_id |-> i, bag |-> NULL, slot |-> 0] \in Item
    BY DEF Item
  <2>2. TypeOK'
    BY <1>1, <2>1 DEF TableInv, TypeOK, HandleItemGeneralInfo
  <2>3. WaysLeadToBags' /\ EntriesAreOwned'
    BY <1>1, KeptWays DEF TableInv, HandleItemGeneralInfo
  <2>4. ItemsAreHeld'
    BY <1>1, <2>1 DEF TableInv, TypeOK, ItemsAreHeld, HandleItemGeneralInfo
  <2>5. NothingLeaks'
    <3>1. items[i] = NULL
      BY <1>1 DEF TableInv, ItemsAreHeld, HandleItemGeneralInfo
    <3> QED
      BY <1>1, <3>1 DEF TableInv, TypeOK, NothingLeaks, HandleItemGeneralInfo, Alive, Item
  <2> QED
    BY <2>2, <2>3, <2>4, <2>5 DEF TableInv
<1>2. ASSUME NEW i \in ItemIds, HandleItemRemove(i)
      PROVE  TableInv'
  <2>1. items[i] \in Objects /\ heap[items[i]] # NULL /\ heap[items[i]].item_id = i
    BY <1>2 DEF TableInv, TypeOK, ItemsAreHeld, HandleItemRemove
  <2>2. CASE CanRemove(items[i])
    <3>1. /\ bags' \in [Indices -> Bag]
          /\ \A k \in Indices : bags'[k].bag_id = bags[k].bag_id
      <4>1. bags' = WithoutItem(items[i])
        BY <1>2, <2>2 DEF HandleItemRemove
      <4>2. TypeOK
        BY DEF TableInv
      <4> QED
        BY <2>1, <4>1, <4>2, WithoutItemIs
    <3>2. TypeOK'
      BY <1>2, <2>2, <3>1 DEF TableInv, TypeOK, HandleItemRemove
    <3>3. WaysLeadToBags' /\ EntriesAreOwned'
      BY <1>2, <3>1, KeptWays DEF TableInv, HandleItemRemove
    <3>4. ItemsAreHeld'
      BY <1>2, <2>1, <2>2 DEF TableInv, TypeOK, ItemsAreHeld, HandleItemRemove
    <3>5. NothingLeaks'
      BY <1>2, <2>1, <2>2 DEF TableInv, TypeOK, NothingLeaks, HandleItemRemove, Alive, Item
    <3> QED
      BY <3>2, <3>3, <3>4, <3>5 DEF TableInv
  <2>3. CASE ~CanRemove(items[i])
    <3>1. UNCHANGED <<bags, heap, inventory>> /\ ~Alive'
      BY <1>2, <2>3 DEF HandleItemRemove, Alive, Faults
    <3>2. TypeOK'
      BY <1>2, <2>3, <3>1 DEF TableInv, TypeOK, HandleItemRemove, Faults
    <3>3. WaysLeadToBags' /\ EntriesAreOwned'
      BY <3>1, KeptWays DEF TableInv
    <3>4. ItemsAreHeld'
      BY <1>2, <3>1 DEF TableInv, TypeOK, ItemsAreHeld, HandleItemRemove
    <3>5. NothingLeaks'
      BY <3>1 DEF NothingLeaks
    <3> QED
      BY <3>2, <3>3, <3>4, <3>5 DEF TableInv
  <2> QED
    BY <2>2, <2>3
<1>3. ASSUME NEW i \in ItemIds, NEW b \in BagIds, NEW s \in Slots,
             HandleInventoryItemLocation(i, b, s)
      PROVE  TableInv'
  <2>1. Puts(i, b, s) /\ place[i] # Unknown /\ items[i] # NULL
    BY <1>3 DEF HandleInventoryItemLocation
  <2>2. b \in Created /\ BagIsFound(b) /\ FindBag(b) \in Indices /\ items[i] \in Objects
    BY <2>1, PutsIs, CreatedIsFound DEF TableInv, TypeOK, Created
  <2>3. /\ UNCHANGED <<items, inventory, fault>>
        /\ heap' = [heap EXCEPT ![items[i]].bag = FindBag(b), ![items[i]].slot = s]
        /\ bags' = WithItem(bags, FindBag(b), s, items[i])
    BY <1>3, <2>2 DEF HandleInventoryItemLocation
  <2>4. /\ bags' \in [Indices -> Bag]
        /\ \A k \in Indices : bags'[k].bag_id = bags[k].bag_id
    BY <2>2, <2>3, WithItemIs DEF TableInv, TypeOK
  <2> QED
    BY <2>1, <2>3, <2>4, MovesKeepTable
<1>4. ASSUME NEW i \in ItemIds, NEW b \in BagIds, NEW s \in Slots,
             HandleItemChangeLocation(i, b, s)
      PROVE  TableInv'
  <2>1. Puts(i, b, s) /\ place[i] # Unknown /\ items[i] # NULL
    BY <1>4 DEF HandleItemChangeLocation
  <2>2. b \in Created /\ BagIsFound(b) /\ FindBag(b) \in Indices /\ items[i] \in Objects
    BY <2>1, PutsIs, CreatedIsFound DEF TableInv, TypeOK, Created
  <2>3. CASE CanRemove(items[i])
    <3>1. /\ UNCHANGED <<items, inventory, fault>>
          /\ heap' = [heap EXCEPT ![items[i]].bag = FindBag(b), ![items[i]].slot = s]
          /\ bags' = WithItem(WithoutItem(items[i]), FindBag(b), s, items[i])
      BY <1>4, <2>2, <2>3 DEF HandleItemChangeLocation
    <3>2. heap[items[i]] # NULL
      BY <2>1 DEF TableInv, ItemsAreHeld
    <3>3. /\ WithoutItem(items[i]) \in [Indices -> Bag]
          /\ \A k \in Indices : WithoutItem(items[i])[k].bag_id = bags[k].bag_id
      BY <2>2, <3>2, WithoutItemIs DEF TableInv
    <3>4. /\ bags' \in [Indices -> Bag]
          /\ \A k \in Indices : bags'[k].bag_id = bags[k].bag_id
      <4>1. PICK in \in [Indices -> Bag] : in = WithoutItem(items[i])
        BY <3>3
      <4>2. PICK k \in Indices : k = FindBag(b)
        BY <2>2
      <4>3. /\ WithItem(in, k, s, items[i]) \in [Indices -> Bag]
            /\ \A j \in Indices : WithItem(in, k, s, items[i])[j].bag_id = in[j].bag_id
        BY <2>2, WithItemIs
      <4> QED
        BY <3>1, <3>3, <4>1, <4>2, <4>3
    <3> QED
      BY <2>1, <3>1, <3>4, MovesKeepTable
  <2>4. CASE ~CanRemove(items[i])
    <3>1. UNCHANGED <<items, bags, heap, inventory>> /\ fault' \in Faults /\ ~Alive'
      BY <1>4, <2>2, <2>4 DEF HandleItemChangeLocation, Alive, Faults
    <3>2. TypeOK'
      BY <2>1, <3>1, PutsIs DEF TableInv, TypeOK
    <3>3. WaysLeadToBags' /\ EntriesAreOwned'
      BY <3>1, KeptWays DEF TableInv
    <3>4. ItemsAreHeld'
      BY <2>1, <3>1, PutsIs DEF TableInv, TypeOK, ItemsAreHeld
    <3>5. NothingLeaks'
      BY <3>1 DEF NothingLeaks
    <3> QED
      BY <3>2, <3>3, <3>4, <3>5 DEF TableInv
  <2> QED
    BY <2>3, <2>4
<1>5. ASSUME NEW b \in BagIds, HandleInventoryCreateBag(b)
      PROVE  TableInv'
  <2> DEFINE first == FirstOn(b, {NULL})
             k == Probe[b][first]
  <2>1. PICK j \in Indices : bags[j].bag_id = NULL
    BY <1>5 DEF HandleInventoryCreateBag
  <2>2. /\ first \in DOMAIN Probe[b]
        /\ k \in Indices
        /\ bags[k].bag_id = NULL
        /\ \A m \in DOMAIN Probe[b] : m < first => bags[Probe[b][m]].bag_id # NULL
    BY <2>1, UnusedIsFound DEF TableInv
  <2>3. /\ bags' = [bags EXCEPT ![k] = [EmptyBag EXCEPT !.bag_id = b]]
        /\ inventory' = [inventory EXCEPT ![b] = k]
        /\ inventory[b] = NULL
        /\ UNCHANGED <<items, heap, place, fault>>
    BY <1>5 DEF HandleInventoryCreateBag, Created
  <2>4. [EmptyBag EXCEPT !.bag_id = b] \in Bag /\ [EmptyBag EXCEPT !.bag_id = b].bag_id = b
    BY DEF EmptyBag, Bag
  <2> HIDE DEF first, k
  <2>5. TypeOK'
    BY <2>2, <2>3, <2>4 DEF TableInv, TypeOK
  <2>6. /\ bags'[k].bag_id = b
        /\ \A l \in Indices \ {k} : bags'[l] = bags[l]
    BY <2>2, <2>3, <2>4 DEF TableInv, TypeOK
  <2>7. \A l \in Indices : bags[l].bag_id # b
    BY <2>3 DEF TableInv, TypeOK, EntriesAreOwned
  <2>8. WaysLeadToBags'
    <3> SUFFICES ASSUME NEW c \in Created'
                 PROVE  \E n \in DOMAIN Probe[c] :
                          /\ Probe[c][n] = inventory'[c]
                          /\ bags'[inventory'[c]].bag_id = c
                          /\ \A m \in DOMAIN Probe[c] :
                                m < n => bags'[Probe[c][m]].bag_id \notin {c, NULL}
      BY DEF WaysLeadToBags
    <3>1. c \in BagIds /\ \A m \in DOMAIN Probe[c] : Probe[c][m] \in Indices
      BY DEF Created
    <3>2. CASE c = b
      <4>1. inventory'[c] = k /\ Probe[c][first] = k
        BY <2>3, <3>2 DEF TableInv, TypeOK, k
      <4>2. ASSUME NEW m \in DOMAIN Probe[c], m < first
            PROVE  bags'[Probe[c][m]].bag_id \notin {c, NULL}
        <5>1. bags[Probe[c][m]].bag_id # NULL
          BY <2>2, <3>2, <4>2
        <5>2. Probe[c][m] # k
          BY <2>2, <5>1
        <5> QED
          BY <2>6, <2>7, <3>1, <3>2, <5>1, <5>2
      <4> QED
        BY <2>2, <2>6, <3>2, <4>1, <4>2
    <3>3. CASE c # b
      <4>1. c \in Created /\ inventory'[c] = inventory[c] /\ inventory[c] \in Indices
        BY <2>3, <3>1, <3>3 DEF Created, TableInv, TypeOK
      <4>2. PICK n \in DOMAIN Probe[c] :
              /\ Probe[c][n] = inventory[c]
              /\ bags[inventory[c]].bag_id = c
              /\ \A m \in DOMAIN Probe[c] : m < n => bags[Probe[c][m]].bag_id \notin {c, NULL}
        BY <4>1 DEF TableInv, WaysLeadToBags
      <4>3. inventory[c] # k
        BY <2>2, <3>1, <4>2
      <4>4. ASSUME NEW m \in DOMAIN Probe[c], m < n
            PROVE  bags'[Probe[c][m]].bag_id \notin {c, NULL}
        <5>1. bags[Probe[c][m]].bag_id \notin {c, NULL}
          BY <4>2, <4>4
        <5>2. Probe[c][m] # k
          BY <2>2, <5>1
        <5> QED
          BY <2>6, <3>1, <5>1, <5>2
      <4> QED
        BY <2>6, <4>1, <4>2, <4>3, <4>4
    <3> QED
      BY <3>2, <3>3
  <2>9. EntriesAreOwned'
    BY <2>2, <2>3, <2>6, <2>7 DEF TableInv, TypeOK, EntriesAreOwned
  <2>10. ItemsAreHeld' /\ NothingLeaks'
    BY <2>3 DEF TableInv, ItemsAreHeld, NothingLeaks, Alive
  <2> QED
    BY <2>5, <2>8, <2>9, <2>10 DEF TableInv
<1>6. ASSUME ResetWorld
      PROVE  TableInv'
  <2>1. EmptyBag \in Bag /\ EmptyBag.bag_id = NULL
    BY DEF EmptyBag, Bag
  <2>2. TypeOK'
    BY <1>6, <2>1 DEF TableInv, TypeOK, ResetWorld
  <2>3. Created' = {}
    BY <1>6 DEF Created, ResetWorld
  <2>4. WaysLeadToBags' /\ EntriesAreOwned'
    BY <1>6, <2>1, <2>3 DEF WaysLeadToBags, EntriesAreOwned, ResetWorld
  <2>5. ItemsAreHeld'
    BY <1>6 DEF ItemsAreHeld, ResetWorld
  <2>6. \A o \in Objects : heap'[o] = NULL
    <3> SUFFICES ASSUME NEW o \in Objects, heap[o] # NULL
                 PROVE  \E i \in ItemIds : items[i] = o
      BY <1>6 DEF ResetWorld
    <3>1. heap[o].item_id \in ItemIds
      BY DEF TableInv, TypeOK, Item
    <3> QED
      BY <1>6, <3>1 DEF TableInv, NothingLeaks, ResetWorld
  <2>7. NothingLeaks'
    BY <2>6 DEF NothingLeaks
  <2> QED
    BY <2>2, <2>4, <2>5, <2>7 DEF TableInv
<1>7. CASE UNCHANGED vars
  <2>1. UNCHANGED <<items, heap, bags, inventory, place, fault>>
    BY <1>7 DEF vars
  <2>2. TypeOK' /\ ItemsAreHeld' /\ NothingLeaks'
    BY <2>1 DEF TableInv, TypeOK, ItemsAreHeld, NothingLeaks, Alive
  <2>3. WaysLeadToBags' /\ EntriesAreOwned'
    BY <2>1, KeptWays DEF TableInv
  <2> QED
    BY <2>2, <2>3 DEF TableInv
<1> QED
  BY <1>1, <1>2, <1>3, <1>4, <1>5, <1>6, <1>7 DEF Next

\* A world begins with empty tables.
LEMMA TableInit == Init => TableInv
<1> SUFFICES ASSUME Init PROVE TableInv
  OBVIOUS
<1>1. EmptyBag \in Bag /\ EmptyBag.bag_id = NULL
  BY DEF EmptyBag, Bag
<1>2. Created = {}
  BY DEF Created, Init
<1> QED
  BY <1>1, <1>2, InventoryAssumption
  DEF Init, TableInv, TypeOK, WaysLeadToBags, EntriesAreOwned, ItemsAreHeld, NothingLeaks

LEMMA TableHolds == Spec => []TableInv
  BY TableInit, TableStep, PTL DEF Spec

\* The fields have their types, and the pointers point into the tables.
THEOREM TypeCorrect == Spec => []TypeOK
<1>1. TableInv => TypeOK
  BY DEF TableInv
<1> QED
  BY <1>1, TableHolds, PTL

\* The search that the handlers of moved items do, ends at the bag it is for, whatever bags
\* share its way (HandleInventoryItemLocation, HandleItemChangeLocation).
THEOREM CreatedBagsAreFound == Spec => []BagsAreFound
<1>1. TableInv => BagsAreFound
  BY CreatedIsFound DEF TableInv, BagsAreFound
<1> QED
  BY <1>1, TableHolds, PTL

\* free_item and free_world reach every item that was allocated, unless an assert ended the
\* process.
THEOREM ItemsAreFreed == Spec => []NothingLeaks
<1>1. TableInv => NothingLeaks
  BY DEF TableInv
<1> QED
  BY <1>1, TableHolds, PTL

-----------------------------------------------------------------------------
(* The items and the slots, when the server puts items into free slots     *)

\* Slots without o: every other item that is in a bag is in its slot, and the counts
\* are right.
ApartFrom(o, in) ==
    /\ \A p \in Objects \ {o} : heap[p] # NULL /\ heap[p].bag # NULL =>
          heap[p].slot \in Slots /\ in[heap[p].bag].items[heap[p].slot] = p
    /\ \A k \in Indices, t \in Slots : LET p == in[k].items[t] IN
          p # NULL => p # o /\ heap[p] # NULL /\ heap[p].bag = k /\ heap[p].slot = t
    /\ \A k \in Indices : in[k].item_count = Cardinality({t \in Slots : in[k].items[t] # NULL})

\* The slots of a bag are finitely many.
LEMMA FiniteSlots == ASSUME NEW T, T \subseteq Slots PROVE IsFiniteSet(T)
<1>1. IsFiniteSet(Slots)
  BY FS_Interval, InventoryAssumption DEF Slots
<1> QED
  BY <1>1, FS_Subset

\* remove_item_from_bag leaves such slots, and its assert holds.
LEMMA TakenOut ==
    ASSUME TypeOK, SlotsAgree, CountsAgree, NEW o \in Objects, heap[o] # NULL
    PROVE  CanRemove(o) /\ ApartFrom(o, WithoutItem(o))
<1> USE InventoryAssumption
<1>1. heap[o] \in Item /\ bags \in [Indices -> Bag]
  BY DEF TypeOK
<1>2. CanRemove(o)
  BY DEF CanRemove, SlotsAgree
<1>3. CASE heap[o].bag = NULL
  <2>1. WithoutItem(o) = bags
    BY <1>3, WithoutItemIs
  <2>2. ApartFrom(o, bags)
    BY <1>3 DEF ApartFrom, SlotsAgree, CountsAgree, Occupied
  <2> QED
    BY <1>2, <2>1, <2>2
<1>4. CASE heap[o].bag # NULL
  <2>1. PICK k \in Indices : k = heap[o].bag
    BY <1>1, <1>4 DEF Item
  <2>2. PICK s \in Slots : s = heap[o].slot /\ bags[k].items[s] = o
    BY <1>4, <2>1 DEF SlotsAgree
  <2>3. PICK in \in [Indices -> Bag] :
          /\ in = WithoutItem(o)
          /\ \A j \in Indices \ {k} : in[j] = bags[j]
          /\ \A t \in Slots : in[k].items[t] = IF t = s THEN NULL ELSE bags[k].items[t]
          /\ in[k].item_count = bags[k].item_count - 1
    BY <1>4, <2>1, <2>2, WithoutItemIs
  <2>4. \A p \in Objects \ {o} : heap[p] # NULL /\ heap[p].bag # NULL =>
           heap[p].slot \in Slots /\ in[heap[p].bag].items[heap[p].slot] = p
    <3> SUFFICES ASSUME NEW p \in Objects \ {o}, heap[p] # NULL, heap[p].bag # NULL
                 PROVE  heap[p].slot \in Slots /\ in[heap[p].bag].items[heap[p].slot] = p
      OBVIOUS
    <3>1. heap[p].bag \in Indices
      BY DEF TypeOK, Item
    <3>2. heap[p].slot \in Slots /\ bags[heap[p].bag].items[heap[p].slot] = p
      BY DEF SlotsAgree
    <3> QED
      BY <2>2, <2>3, <3>1, <3>2
  <2>5. \A j \in Indices, t \in Slots : LET p == in[j].items[t] IN
           p # NULL => p # o /\ heap[p] # NULL /\ heap[p].bag = j /\ heap[p].slot = t
    <3> SUFFICES ASSUME NEW j \in Indices, NEW t \in Slots, in[j].items[t] # NULL
                 PROVE  LET p == in[j].items[t] IN
                        p # o /\ heap[p] # NULL /\ heap[p].bag = j /\ heap[p].slot = t
      OBVIOUS
    <3>1. in[j].items[t] = bags[j].items[t] /\ ~(j = k /\ t = s)
      BY <2>3
    <3> QED
      BY <2>1, <2>2, <3>1 DEF SlotsAgree
  <2>6. ASSUME NEW j \in Indices
        PROVE  in[j].item_count = Cardinality({t \in Slots : in[j].items[t] # NULL})
    <3>1. CASE j = k
      <4>1. {t \in Slots : in[k].items[t] # NULL} = Occupied(k) \ {s}
        BY <2>3 DEF Occupied
      <4>2. s \in Occupied(k) /\ IsFiniteSet(Occupied(k))
        BY <2>2, FiniteSlots DEF Occupied
      <4>3. Cardinality(Occupied(k) \ {s}) = Cardinality(Occupied(k)) - 1
        BY <4>2, FS_RemoveElement
      <4> QED
        BY <2>3, <3>1, <4>1, <4>3 DEF CountsAgree
    <3>2. CASE j # k
      <4>1. {t \in Slots : in[j].items[t] # NULL} = Occupied(j)
        BY <2>3, <3>2 DEF Occupied
      <4> QED
        BY <2>3, <3>2, <4>1 DEF CountsAgree
    <3> QED
      BY <3>1, <3>2
  <2>7. ApartFrom(o, in)
    BY <2>4, <2>5, <2>6 DEF ApartFrom
  <2> QED
    BY <1>2, <2>3, <2>7
<1> QED
  BY <1>3, <1>4

\* An item that is written into a free slot is linked with it.
Linked(o, k, s) == [heap EXCEPT ![o].bag = k, ![o].slot = s]

LEMMA PutIn ==
    ASSUME TypeOK, NEW o \in Objects, heap[o] # NULL, NEW in \in [Indices -> Bag],
           ApartFrom(o, in), NEW k \in Indices, NEW s \in Slots, in[k].items[s] = NULL,
           heap' = Linked(o, k, s), bags' = WithItem(in, k, s, o)
    PROVE  SlotsAgree' /\ CountsAgree'
<1> USE InventoryAssumption
<1>1. /\ heap'[o] # NULL /\ heap'[o].bag = k /\ heap'[o].slot = s
      /\ \A p \in Objects \ {o} : heap'[p] = heap[p]
  <2>1. heap[o] \in Item
    BY DEF TypeOK
  <2>2. [heap[o] EXCEPT !.bag = k, !.slot = s] \in Item
    BY <2>1 DEF Item
  <2>3. /\ [heap[o] EXCEPT !.bag = k, !.slot = s].bag = k
        /\ [heap[o] EXCEPT !.bag = k, !.slot = s].slot = s
    BY <2>1 DEF Item
  <2>4. heap' = [heap EXCEPT ![o] = [heap[o] EXCEPT !.bag = k, !.slot = s]]
    BY DEF Linked
  <2> QED
    BY <2>2, <2>3, <2>4 DEF TypeOK
<1>2. /\ \A j \in Indices \ {k} : bags'[j] = in[j]
      /\ \A t \in Slots : bags'[k].items[t] = IF t = s THEN o ELSE in[k].items[t]
      /\ bags'[k].item_count = in[k].item_count + 1
  BY WithItemIs
<1>3. \A j \in Indices, t \in Slots : in[j].items[t] \in Objects \cup {NULL}
  BY DEF Bag
<1>4. ASSUME NEW p \in Objects, heap'[p] # NULL, heap'[p].bag # NULL
      PROVE  heap'[p].slot \in Slots /\ bags'[heap'[p].bag].items[heap'[p].slot] = p
  <2>1. CASE p = o
    BY <1>1, <1>2, <2>1
  <2>2. CASE p # o
    <3>1. heap'[p] = heap[p] /\ heap[p].bag \in Indices
      BY <1>1, <1>4, <2>2 DEF TypeOK, Item
    <3>2. heap[p].slot \in Slots /\ in[heap[p].bag].items[heap[p].slot] = p
      BY <1>4, <2>2, <3>1 DEF ApartFrom
    <3> QED
      BY <1>2, <3>1, <3>2
  <2> QED
    BY <2>1, <2>2
<1>5. ASSUME NEW j \in Indices, NEW t \in Slots, bags'[j].items[t] # NULL
      PROVE  LET p == bags'[j].items[t] IN
             heap'[p] # NULL /\ heap'[p].bag = j /\ heap'[p].slot = t
  <2>1. CASE j = k /\ t = s
    BY <1>1, <1>2, <2>1
  <2>2. CASE ~(j = k /\ t = s)
    <3>1. PICK p \in Objects : p = bags'[j].items[t] /\ p = in[j].items[t]
      BY <1>2, <1>3, <1>5, <2>2
    <3>2. p # o /\ heap[p] # NULL /\ heap[p].bag = j /\ heap[p].slot = t
      BY <3>1 DEF ApartFrom
    <3> QED
      BY <1>1, <3>1, <3>2
  <2> QED
    BY <2>1, <2>2
<1>6. ASSUME NEW j \in Indices
      PROVE  bags'[j].item_count = Cardinality(Occupied(j)')
  <2>1. in[j].item_count = Cardinality({t \in Slots : in[j].items[t] # NULL})
    BY DEF ApartFrom
  <2>2. CASE j = k
    <3> DEFINE before == {t \in Slots : in[k].items[t] # NULL}
    <3>1. Occupied(k)' = before \cup {s}
      BY <1>2 DEF Occupied
    <3>2. s \notin before /\ IsFiniteSet(before)
      BY FiniteSlots
    <3>3. Cardinality(before \cup {s}) = Cardinality(before) + 1
      BY <3>2, FS_AddElement
    <3> QED
      BY <1>2, <2>1, <2>2, <3>1, <3>3
  <2>3. CASE j # k
    <3>1. Occupied(j)' = {t \in Slots : in[j].items[t] # NULL}
      BY <1>2, <2>3 DEF Occupied
    <3> QED
      BY <1>2, <2>1, <2>3, <3>1
  <2> QED
    BY <2>2, <2>3
<1> QED
  BY <1>4, <1>5, <1>6 DEF SlotsAgree, CountsAgree

\* An item in a slot is the one that the server has there.
LEMMA InSlotIsPlaced ==
    ASSUME TableInv, MirrorInv, NEW p \in Objects, heap[p] # NULL, heap[p].bag # NULL
    PROVE  \E j \in ItemIds, c \in Created :
              /\ items[j] = p
              /\ place[j] = <<c, heap[p].slot>>
              /\ heap[p].bag = inventory[c]
              /\ bags[inventory[c]].bag_id = c
<1>1. PICK j \in ItemIds : items[j] = p
  BY DEF TableInv, TypeOK, NothingLeaks, Item, MirrorInv, Alive
<1>2. PICK c \in Created, t \in Slots :
        place[j] = <<c, t>> /\ heap[p].bag = inventory[c] /\ heap[p].slot = t
  BY <1>1, InventoryAssumption DEF MirrorInv, PlacesAgree, TableInv, TypeOK
<1>3. bags[inventory[c]].bag_id = c
  BY DEF TableInv, WaysLeadToBags
<1> QED
  BY <1>1, <1>2, <1>3

\* An item is either in no bag or where the server has it.
LEMMA PlaceOfItem ==
    ASSUME PlacesAgree, NEW i \in ItemIds, items[i] # NULL
    PROVE  /\ place[i] = Loose => heap[items[i]].bag = NULL
           /\ place[i] # Loose => \E c \in Created, t \in Slots :
                 /\ place[i] = <<c, t>>
                 /\ heap[items[i]].bag = inventory[c]
                 /\ heap[items[i]].slot = t
<1>1. \A c \in Created, t \in Slots : <<c, t>> # Loose
  BY InventoryAssumption DEF Created
<1>2. \/ place[i] = Loose /\ heap[items[i]].bag = NULL
      \/ \E c \in Created, t \in Slots :
            place[i] = <<c, t>> /\ heap[items[i]].bag = inventory[c] /\ heap[items[i]].slot = t
  BY DEF PlacesAgree
<1> QED
  BY <1>1, <1>2

\* What both ways to move an item do.
LEMMA MovesMirror ==
    ASSUME ~Overwrites, TableInv, MirrorInv,
           NEW i \in ItemIds, NEW b \in BagIds, NEW s \in Slots, items[i] # NULL,
           place[i] # Unknown, Puts(i, b, s),
           UNCHANGED <<items, inventory, fault>>,
           heap' = [heap EXCEPT ![items[i]].bag = FindBag(b), ![items[i]].slot = s],
           bags' = WithItem(WithoutItem(items[i]), FindBag(b), s, items[i])
    PROVE  MirrorInv'
<1> USE InventoryAssumption
<1>1. b \in Created /\ FindBag(b) = inventory[b] /\ inventory[b] \in Indices
      /\ bags[inventory[b]].bag_id = b
  BY PutsIs, CreatedIsFound DEF TableInv, TypeOK, Created, BagIsFound
<1>2. PICK o \in Objects : o = items[i] /\ heap[o] # NULL /\ heap[o].item_id = i
  BY DEF TableInv, TypeOK, ItemsAreHeld
<1>3. PICK k \in Indices : k = inventory[b]
  BY <1>1
<1>4. TypeOK
  BY DEF TableInv
<1>5. PICK in \in [Indices -> Bag] : in = WithoutItem(o)
  BY <1>2, <1>4, WithoutItemIs
<1>6. ApartFrom(o, in)
  BY <1>2, <1>4, <1>5, TakenOut DEF MirrorInv
<1>7. in[k].items[s] = NULL
  <2> SUFFICES ASSUME in[k].items[s] # NULL PROVE FALSE
    OBVIOUS
  <2>1. PICK p \in Objects : p = in[k].items[s]
    BY DEF Bag
  <2>2. heap[p] # NULL /\ heap[p].bag = k /\ heap[p].slot = s
    BY <2>1 , <1>6 DEF ApartFrom
  <2>3. heap[p].bag # NULL
    BY <2>2
  <2>4. PICK j \in ItemIds, c \in Created :
          /\ items[j] = p
          /\ place[j] = <<c, heap[p].slot>>
          /\ heap[p].bag = inventory[c]
          /\ bags[inventory[c]].bag_id = c
    BY <2>2, <2>3, InSlotIsPlaced
  <2>5. place[j] = <<b, s>>
    BY <1>1, <1>3, <2>2, <2>4
  <2> QED
    BY <2>5 DEF Puts, Holder
<1>8. SlotsAgree' /\ CountsAgree'
  <2>1. heap' = Linked(o, k, s)
    BY <1>1, <1>2, <1>3 DEF Linked
  <2>2. bags' = WithItem(in, k, s, o)
    BY <1>1, <1>2, <1>3, <1>5
  <2> QED
    BY ONLY <1>2, <1>4, <1>6, <1>7, <2>1, <2>2, PutIn
<1>9. PlacesAgree'
  <2> SUFFICES ASSUME NEW j \in ItemIds, items'[j] # NULL
               PROVE  \/ place'[j] = Loose /\ heap'[items'[j]].bag = NULL
                      \/ \E c \in Created', t \in Slots :
                            /\ place'[j] = <<c, t>>
                            /\ heap'[items'[j]].bag = inventory'[c]
                            /\ heap'[items'[j]].slot = t
    BY DEF PlacesAgree
  <2> items' = items /\ inventory' = inventory /\ Created' = Created
    BY DEF Created
  <2>1. Holder(b, s) = {}
    BY DEF Puts
  <2>2. CASE j = i
    <3>1. place'[i] = <<b, s>>
      BY DEF Puts
    <3>2. heap'[o].bag = k /\ heap'[o].slot = s
      <4>1. heap[o] \in Item
        BY <1>2, <1>4 DEF TypeOK
      <4>2. heap' = [heap EXCEPT ![o] = [heap[o] EXCEPT !.bag = k, !.slot = s]]
        BY <1>1, <1>2, <1>3
      <4>3. /\ [heap[o] EXCEPT !.bag = k, !.slot = s].bag = k
            /\ [heap[o] EXCEPT !.bag = k, !.slot = s].slot = s
        BY <4>1 DEF Item
      <4> QED
        BY <1>4, <4>2, <4>3 DEF TypeOK
    <3>3. /\ b \in Created' /\ place'[j] = <<b, s>>
          /\ heap'[items'[j]].bag = inventory'[b] /\ heap'[items'[j]].slot = s
      BY <1>1, <1>2, <1>3, <2>2, <3>1, <3>2
    <3> QED
      BY <3>3
  <2>3. CASE j # i
    <3>1. place'[j] = place[j]
      BY <2>1, <2>3 DEF Puts
    <3>2. items[j] \in Objects /\ items[j] # o
      BY <1>2, <2>3 DEF TableInv, TypeOK, ItemsAreHeld
    <3>3. heap'[items[j]] = heap[items[j]]
      BY <1>2, <1>4, <3>2 DEF TypeOK
    <3>4. \/ place[j] = Loose /\ heap[items[j]].bag = NULL
          \/ \E c \in Created, t \in Slots :
                place[j] = <<c, t>> /\ heap[items[j]].bag = inventory[c] /\ heap[items[j]].slot = t
      BY DEF MirrorInv, PlacesAgree
    <3>5. items'[j] = items[j]
      OBVIOUS
    <3>6. \/ place'[j] = Loose /\ heap'[items'[j]].bag = NULL
          \/ \E c \in Created, t \in Slots :
                /\ place'[j] = <<c, t>>
                /\ heap'[items'[j]].bag = inventory[c]
                /\ heap'[items'[j]].slot = t
      BY ONLY <3>1, <3>3, <3>4, <3>5
    <3> QED
      BY ONLY <3>6, items' = items, inventory' = inventory, Created' = Created
  <2> QED
    BY <2>2, <2>3
<1> QED
  BY <1>8, <1>9 DEF MirrorInv, Alive

\* Every packet keeps the pointers, the slots, the counts and the places together.
LEMMA MirrorStep == ~Overwrites /\ TableInv /\ MirrorInv /\ [Next]_vars => MirrorInv'
<1> SUFFICES ASSUME ~Overwrites, TableInv, MirrorInv, [Next]_vars PROVE MirrorInv'
  OBVIOUS
<1> USE InventoryAssumption
<1>1. ASSUME NEW i \in ItemIds, NEW o \in Objects, HandleItemGeneralInfo(i, o)
      PROVE  MirrorInv'
  <2>1. /\ heap[o] = NULL /\ items[i] = NULL
        /\ heap' = [heap EXCEPT ![o] = [item_id |-> i, bag |-> NULL, slot |-> 0]]
        /\ items' = [items EXCEPT ![i] = o]
        /\ place' = [place EXCEPT ![i] = Loose]
        /\ UNCHANGED <<bags, inventory, fault>>
    BY <1>1 DEF HandleItemGeneralInfo, TableInv, ItemsAreHeld
  <2>2. heap'[o].bag = NULL /\ \A p \in Objects \ {o} : heap'[p] = heap[p]
    BY <2>1 DEF TableInv, TypeOK
  <2>3. SlotsAgree'
    <3>1. \A p \in Objects : heap'[p] # NULL /\ heap'[p].bag # NULL =>
             heap'[p].slot \in Slots /\ bags[heap'[p].bag].items[heap'[p].slot] = p
      BY <2>2 DEF MirrorInv, SlotsAgree
    <3>2. ASSUME NEW k \in Indices, NEW t \in Slots, bags[k].items[t] # NULL
          PROVE  LET p == bags[k].items[t] IN
                 heap'[p] # NULL /\ heap'[p].bag = k /\ heap'[p].slot = t
      <4>1. PICK p \in Objects : p = bags[k].items[t]
        BY <3>2 DEF TableInv, TypeOK, Bag
      <4>2. heap[p] # NULL /\ heap[p].bag = k /\ heap[p].slot = t
        BY <3>2, <4>1 DEF MirrorInv, SlotsAgree
      <4> QED
        BY <2>1, <2>2, <4>1, <4>2
    <3> QED
      BY <2>1, <3>1, <3>2 DEF SlotsAgree
  <2>4. PlacesAgree'
    <3> SUFFICES ASSUME NEW j \in ItemIds, items'[j] # NULL
                 PROVE  \/ place'[j] = Loose /\ heap'[items'[j]].bag = NULL
                        \/ \E c \in Created', t \in Slots :
                              /\ place'[j] = <<c, t>>
                              /\ heap'[items'[j]].bag = inventory'[c]
                              /\ heap'[items'[j]].slot = t
      BY DEF PlacesAgree
    <3> inventory' = inventory /\ Created' = Created
      BY <2>1 DEF Created
    <3>1. CASE j = i
      BY <2>1, <2>2, <3>1 DEF TableInv, TypeOK
    <3>2. CASE j # i
      <4>1. items'[j] = items[j] /\ place'[j] = place[j]
        BY <2>1, <3>2 DEF TableInv, TypeOK
      <4>2. heap'[items[j]] = heap[items[j]]
        BY <2>1, <2>2, <4>1 DEF TableInv, TypeOK, ItemsAreHeld
      <4>3. \/ place[j] = Loose /\ heap[items[j]].bag = NULL
            \/ \E c \in Created, t \in Slots :
                  place[j] = <<c, t>> /\ heap[items[j]].bag = inventory[c] /\ heap[items[j]].slot = t
        BY <4>1 DEF MirrorInv, PlacesAgree
      <4> QED
        BY <4>1, <4>2, <4>3
    <3> QED
      BY <3>1, <3>2
  <2>5. CountsAgree'
    BY <2>1 DEF MirrorInv, CountsAgree, Occupied
  <2> QED
    BY <2>1, <2>3, <2>4, <2>5 DEF MirrorInv, Alive
<1>2. ASSUME NEW i \in ItemIds, HandleItemRemove(i)
      PROVE  MirrorInv'
  <2>1. PICK o \in Objects : o = items[i] /\ heap[o] # NULL /\ heap[o].item_id = i
    BY <1>2 DEF HandleItemRemove, TableInv, TypeOK, ItemsAreHeld
  <2>2. CanRemove(o) /\ ApartFrom(o, WithoutItem(o))
    BY <2>1, TakenOut DEF TableInv, MirrorInv
  <2>3. /\ bags' = WithoutItem(o)
        /\ heap' = [heap EXCEPT ![o] = NULL]
        /\ items' = [items EXCEPT ![i] = NULL]
        /\ place' = [place EXCEPT ![i] = Unknown]
        /\ UNCHANGED <<inventory, fault>>
    BY <1>2, <2>1, <2>2 DEF HandleItemRemove
  <2>4. heap'[o] = NULL /\ \A p \in Objects \ {o} : heap'[p] = heap[p]
    BY <2>3 DEF TableInv, TypeOK
  <2>5. ApartFrom(o, bags')
    BY <2>2, <2>3
  <2>6. bags' \in [Indices -> Bag]
    BY <2>1, <2>3, WithoutItemIs DEF TableInv
  <2>7. SlotsAgree'
    <3>1. \A p \in Objects : heap'[p] # NULL /\ heap'[p].bag # NULL =>
             heap'[p].slot \in Slots /\ bags'[heap'[p].bag].items[heap'[p].slot] = p
      BY <2>4, <2>5 DEF ApartFrom
    <3>2. ASSUME NEW k \in Indices, NEW t \in Slots, bags'[k].items[t] # NULL
          PROVE  LET p == bags'[k].items[t] IN
                 heap'[p] # NULL /\ heap'[p].bag = k /\ heap'[p].slot = t
      <4>1. PICK p \in Objects : p = bags'[k].items[t]
        BY <2>6, <3>2 DEF Bag
      <4>2. p # o /\ heap[p] # NULL /\ heap[p].bag = k /\ heap[p].slot = t
        BY <2>5, <3>2, <4>1 DEF ApartFrom
      <4> QED
        BY <2>4, <4>1, <4>2
    <3> QED
      BY <3>1, <3>2 DEF SlotsAgree
  <2>8. CountsAgree'
    BY <2>5 DEF ApartFrom, CountsAgree, Occupied
  <2>9. PlacesAgree'
    <3> SUFFICES ASSUME NEW j \in ItemIds, items'[j] # NULL
                 PROVE  \/ place'[j] = Loose /\ heap'[items'[j]].bag = NULL
                        \/ \E c \in Created', t \in Slots :
                              /\ place'[j] = <<c, t>>
                              /\ heap'[items'[j]].bag = inventory'[c]
                              /\ heap'[items'[j]].slot = t
      BY DEF PlacesAgree
    <3> inventory' = inventory /\ Created' = Created
      BY <2>3 DEF Created
    <3>1. j # i /\ items'[j] = items[j] /\ place'[j] = place[j]
      BY <2>3 DEF TableInv, TypeOK
    <3>2. items[j] \in Objects /\ items[j] # o
      BY <2>1, <3>1 DEF TableInv, TypeOK, ItemsAreHeld
    <3>3. heap'[items[j]] = heap[items[j]]
      BY <2>4, <3>2
    <3>4. \/ place[j] = Loose /\ heap[items[j]].bag = NULL
          \/ \E c \in Created, t \in Slots :
                place[j] = <<c, t>> /\ heap[items[j]].bag = inventory[c] /\ heap[items[j]].slot = t
      BY <3>1 DEF MirrorInv, PlacesAgree
    <3> QED
      BY <3>1, <3>3, <3>4
  <2> QED
    BY <2>3, <2>7, <2>8, <2>9 DEF MirrorInv, Alive
<1>3. ASSUME NEW i \in ItemIds, NEW b \in BagIds, NEW s \in Slots,
             HandleInventoryItemLocation(i, b, s)
      PROVE  MirrorInv'
  <2>1. Puts(i, b, s) /\ place[i] = Loose /\ place[i] # Unknown /\ items[i] # NULL
    BY <1>3 DEF HandleInventoryItemLocation
  <2>2. BagIsFound(b)
    BY <2>1, PutsIs, CreatedIsFound DEF TableInv
  <2>3. heap[items[i]].bag = NULL
    BY <2>1, PlaceOfItem DEF MirrorInv
  <2>4. WithoutItem(items[i]) = bags
    BY <2>3 DEF WithoutItem
  <2>5. /\ UNCHANGED <<items, inventory, fault>>
        /\ heap' = [heap EXCEPT ![items[i]].bag = FindBag(b), ![items[i]].slot = s]
        /\ bags' = WithItem(WithoutItem(items[i]), FindBag(b), s, items[i])
    BY <1>3, <2>2, <2>4 DEF HandleInventoryItemLocation
  <2> QED
    BY <2>1, <2>5, MovesMirror
<1>4. ASSUME NEW i \in ItemIds, NEW b \in BagIds, NEW s \in Slots,
             HandleItemChangeLocation(i, b, s)
      PROVE  MirrorInv'
  <2>1. Puts(i, b, s) /\ place[i] # Unknown /\ items[i] # NULL
    BY <1>4 DEF HandleItemChangeLocation
  <2>2. BagIsFound(b)
    BY <2>1, PutsIs, CreatedIsFound DEF TableInv
  <2>3. CanRemove(items[i])
    BY <2>1, TakenOut DEF TableInv, TypeOK, ItemsAreHeld, MirrorInv
  <2>4. /\ UNCHANGED <<items, inventory, fault>>
        /\ heap' = [heap EXCEPT ![items[i]].bag = FindBag(b), ![items[i]].slot = s]
        /\ bags' = WithItem(WithoutItem(items[i]), FindBag(b), s, items[i])
    BY <1>4, <2>2, <2>3 DEF HandleItemChangeLocation
  <2> QED
    BY <2>1, <2>4, MovesMirror
<1>5. ASSUME NEW b \in BagIds, HandleInventoryCreateBag(b)
      PROVE  MirrorInv'
  <2>1. PICK k \in Indices :
          /\ bags[k].bag_id = NULL
          /\ bags' = [bags EXCEPT ![k] = [EmptyBag EXCEPT !.bag_id = b]]
          /\ inventory' = [inventory EXCEPT ![b] = k]
          /\ inventory[b] = NULL
          /\ UNCHANGED <<items, heap, place, fault>>
    <3>1. PICK j \in Indices : bags[j].bag_id = NULL
      BY <1>5 DEF HandleInventoryCreateBag
    <3> QED
      BY <1>5, <3>1, UnusedIsFound DEF TableInv, HandleInventoryCreateBag, Created
  <2>2. ASSUME NEW t \in Slots PROVE bags[k].items[t] = NULL
    <3> SUFFICES ASSUME bags[k].items[t] # NULL PROVE FALSE
      OBVIOUS
    <3>1. PICK p \in Objects : p = bags[k].items[t]
      BY DEF TableInv, TypeOK, Bag
    <3>2. heap[p] # NULL /\ heap[p].bag = k
      BY <3>1 DEF MirrorInv, SlotsAgree
    <3>3. heap[p].bag # NULL
      BY <3>2
    <3>4. PICK j \in ItemIds, c \in Created :
            /\ items[j] = p
            /\ place[j] = <<c, heap[p].slot>>
            /\ heap[p].bag = inventory[c]
            /\ bags[inventory[c]].bag_id = c
      BY <3>2, <3>3, InSlotIsPlaced
    <3> QED
      BY <2>1, <3>2, <3>4 DEF Created
  <2>3. /\ \A j \in Indices \ {k} : bags'[j] = bags[j]
        /\ \A t \in Slots : bags'[k].items[t] = NULL
        /\ bags'[k].item_count = 0
    BY <2>1 DEF TableInv, TypeOK, EmptyBag
  <2>4. \A j \in Indices, t \in Slots : bags'[j].items[t] = bags[j].items[t]
    BY <2>2, <2>3
  <2>5. SlotsAgree'
    <3>1. \A p \in Objects : heap[p] # NULL /\ heap[p].bag # NULL => heap[p].bag \in Indices
      BY DEF TableInv, TypeOK, Item
    <3> QED
      BY <2>1, <2>4, <3>1 DEF MirrorInv, SlotsAgree
  <2>6. CountsAgree'
    <3> SUFFICES ASSUME NEW j \in Indices PROVE bags'[j].item_count = Cardinality(Occupied(j)')
      BY DEF CountsAgree
    <3>1. CASE j = k
      <4>1. Occupied(k)' = {}
        BY <2>3 DEF Occupied
      <4> QED
        BY <2>3, <3>1, <4>1, FS_EmptySet
    <3>2. CASE j # k
      <4>1. Occupied(j)' = Occupied(j)
        BY <2>3, <3>2 DEF Occupied
      <4> QED
        BY <2>3, <3>2, <4>1 DEF MirrorInv, CountsAgree
    <3> QED
      BY <3>1, <3>2
  <2>7. PlacesAgree'
    <3>1. \A c \in Created : c \in Created' /\ inventory'[c] = inventory[c]
      BY <2>1 DEF Created, TableInv, TypeOK
    <3> SUFFICES ASSUME NEW j \in ItemIds, items'[j] # NULL
                 PROVE  \/ place'[j] = Loose /\ heap'[items'[j]].bag = NULL
                        \/ \E c \in Created', t \in Slots :
                              /\ place'[j] = <<c, t>>
                              /\ heap'[items'[j]].bag = inventory'[c]
                              /\ heap'[items'[j]].slot = t
      BY DEF PlacesAgree
    <3>2. items'[j] = items[j] /\ place'[j] = place[j] /\ heap' = heap
      BY <2>1
    <3>3. CASE place[j] = Loose
      BY <3>2, <3>3, PlaceOfItem DEF MirrorInv
    <3>4. CASE place[j] # Loose
      <4>1. PICK c \in Created, t \in Slots :
              place[j] = <<c, t>> /\ heap[items[j]].bag = inventory[c] /\ heap[items[j]].slot = t
        BY <3>2, <3>4, PlaceOfItem DEF MirrorInv
      <4> QED
        BY <3>1, <3>2, <4>1
    <3> QED
      BY <3>3, <3>4
  <2> QED
    BY <2>1, <2>5, <2>6, <2>7 DEF MirrorInv, Alive
<1>6. ASSUME ResetWorld
      PROVE  MirrorInv'
  <2>1. \A k \in Indices : bags'[k] = EmptyBag
    BY <1>6 DEF ResetWorld
  <2>2. \A i \in ItemIds : items'[i] = NULL
    BY <1>6 DEF ResetWorld
  <2>3. \A o \in Objects : heap'[o] = NULL
    BY <1>6, TableStep, <2>2 DEF Next, TableInv, NothingLeaks, ResetWorld, Alive, TypeOK, Item
  <2>4. SlotsAgree' /\ PlacesAgree'
    BY <2>1, <2>2, <2>3 DEF SlotsAgree, PlacesAgree, EmptyBag
  <2>5. CountsAgree'
    <3> SUFFICES ASSUME NEW k \in Indices PROVE bags'[k].item_count = Cardinality(Occupied(k)')
      BY DEF CountsAgree
    <3>1. Occupied(k)' = {}
      BY <2>1 DEF Occupied, EmptyBag
    <3> QED
      BY <2>1, <3>1, FS_EmptySet DEF EmptyBag
  <2> QED
    BY <1>6, <2>4, <2>5 DEF MirrorInv, Alive, ResetWorld
<1>7. CASE UNCHANGED vars
  BY <1>7 DEF vars, MirrorInv, SlotsAgree, PlacesAgree, CountsAgree, Occupied, Created, Alive
<1> QED
  BY <1>1, <1>2, <1>3, <1>4, <1>5, <1>6, <1>7 DEF Next

LEMMA MirrorInit == Init => MirrorInv
<1> SUFFICES ASSUME Init PROVE MirrorInv
  OBVIOUS
<1>1. \A k \in Indices : bags[k] = EmptyBag
  BY DEF Init
<1>2. SlotsAgree /\ PlacesAgree /\ Alive
  BY <1>1 DEF Init, SlotsAgree, PlacesAgree, EmptyBag, Alive
<1>3. CountsAgree
  <2> SUFFICES ASSUME NEW k \in Indices PROVE bags[k].item_count = Cardinality(Occupied(k))
    BY DEF CountsAgree
  <2>1. Occupied(k) = {}
    BY <1>1 DEF Occupied, EmptyBag
  <2> QED
    BY <1>1, <2>1, FS_EmptySet DEF EmptyBag
<1> QED
  BY <1>2, <1>3 DEF MirrorInv

\* What plugins read follows the pointers that the invariant holds together.
LEMMA InvMirrors == TableInv /\ MirrorInv => MirrorsServer
<1> SUFFICES ASSUME TableInv, MirrorInv PROVE MirrorsServer
  OBVIOUS
<1> USE InventoryAssumption
<1>1. \A i \in ItemIds : GetItem(i) <=> place[i] # Unknown
  BY DEF TableInv, ItemsAreHeld, GetItem
<1>2. ASSUME NEW i \in ItemIds
      PROVE  GetItemLocation(i) = IF place[i] \in {Unknown, Loose} THEN NULL ELSE place[i]
  <2>1. CASE items[i] = NULL
    BY <2>1 DEF TableInv, ItemsAreHeld, GetItemLocation
  <2>2. CASE items[i] # NULL /\ place[i] = Loose /\ heap[items[i]].bag = NULL
    BY <2>2 DEF GetItemLocation
  <2>3. CASE items[i] # NULL /\ ~(place[i] = Loose /\ heap[items[i]].bag = NULL)
    <3>1. PICK b \in Created, s \in Slots :
            place[i] = <<b, s>> /\ heap[items[i]].bag = inventory[b] /\ heap[items[i]].slot = s
      BY <2>3 DEF MirrorInv, PlacesAgree
    <3>2. bags[inventory[b]].bag_id = b /\ inventory[b] # NULL
      BY DEF TableInv, WaysLeadToBags, Created
    <3>3. place[i] \notin {Unknown, Loose}
      BY <3>1 DEF Created
    <3> QED
      BY <2>3, <3>1, <3>2, <3>3 DEF GetItemLocation
  <2> QED
    BY <2>1, <2>2, <2>3
<1>3. ASSUME NEW b \in Created
      PROVE  /\ GetBagItems(b) = {i \in ItemIds : \E s \in Slots : place[i] = <<b, s>>}
             /\ bags[inventory[b]].item_count =
                   Cardinality({s \in Slots : bags[inventory[b]].items[s] # NULL})
  <2>1. PICK k \in Indices : k = inventory[b] /\ inventory[b] # NULL
    BY DEF Created, TableInv, TypeOK
  <2>2. bags[k].bag_id = b
    BY <2>1 DEF TableInv, WaysLeadToBags
  <2> DEFINE held == {bags[k].items[s] : s \in Slots} \ {NULL}
             shown == {IF heap[o] = NULL THEN NULL ELSE heap[o].item_id : o \in held}
             there == {i \in ItemIds : \E s \in Slots : place[i] = <<b, s>>}
  <2>3. GetBagItems(b) = shown
    BY <2>1 DEF GetBagItems
  <2>4. ASSUME NEW i \in shown PROVE i \in there
    <3>1. PICK s \in Slots : bags[k].items[s] # NULL
                             /\ i = IF heap[bags[k].items[s]] = NULL THEN NULL
                                    ELSE heap[bags[k].items[s]].item_id
      OBVIOUS
    <3>2. PICK o \in Objects : o = bags[k].items[s]
      BY <3>1 DEF TableInv, TypeOK, Bag
    <3>3. heap[o] # NULL /\ heap[o].bag = k /\ heap[o].slot = s
      BY <3>1, <3>2 DEF MirrorInv, SlotsAgree
    <3>4. heap[o].bag # NULL
      BY <3>3
    <3>5. PICK j \in ItemIds, c \in Created :
            /\ items[j] = o
            /\ place[j] = <<c, heap[o].slot>>
            /\ heap[o].bag = inventory[c]
            /\ bags[inventory[c]].bag_id = c
      BY <3>3, <3>4, InSlotIsPlaced
    <3>6. place[j] = <<b, s>> /\ heap[o].item_id = j
      BY <2>1, <2>2, <3>3, <3>5 DEF TableInv, ItemsAreHeld
    <3> QED
      BY <3>1, <3>2, <3>3, <3>6
  <2>5. ASSUME NEW i \in there PROVE i \in shown
    <3>1. PICK s \in Slots : place[i] = <<b, s>>
      OBVIOUS
    <3>2. <<b, s>> # Unknown /\ <<b, s>> # Loose
      BY DEF Created
    <3>3. PICK o \in Objects : o = items[i] /\ heap[o] # NULL /\ heap[o].item_id = i
      BY <3>1, <3>2 DEF TableInv, TypeOK, ItemsAreHeld
    <3>4. PICK c \in Created, t \in Slots :
            place[i] = <<c, t>> /\ heap[o].bag = inventory[c] /\ heap[o].slot = t
      <4>1. items[i] # NULL /\ place[i] # Loose
        BY <3>1, <3>2, <3>3
      <4> QED
        BY <3>3, <4>1, PlaceOfItem DEF MirrorInv
    <3>5. heap[o].bag = k /\ heap[o].slot = s
      BY <2>1, <3>1, <3>4
    <3>6. bags[k].items[s] = o
      BY <3>3, <3>5 DEF MirrorInv, SlotsAgree
    <3>7. o \in held
      BY <3>6
    <3> QED
      BY <3>3, <3>7
  <2>6. shown = there
    <3> HIDE DEF shown, there
    <3> QED
      BY <2>4, <2>5
  <2>7. bags[k].item_count = Cardinality({s \in Slots : bags[k].items[s] # NULL})
    BY DEF MirrorInv, CountsAgree, Occupied
  <2> QED
    BY <2>1, <2>3, <2>6, <2>7
<1> QED
  BY <1>1, <1>2, <1>3 DEF MirrorsServer

\* If the server only puts items into free slots, what GetItem, GetItemLocation, GetBagItems
\* and item_count show is what the server has, through placements, moves and removals.
THEOREM PluginsSeeTheServer == ~Overwrites => (Spec => []MirrorsServer)
<1> SUFFICES ASSUME ~Overwrites PROVE Spec => []MirrorsServer
  OBVIOUS
<1>1. TableInv /\ MirrorInv /\ [Next]_vars => MirrorInv'
  BY MirrorStep
<1> QED
  BY <1>1, MirrorInit, TableHolds, InvMirrors, PTL DEF Spec

\* Under the same condition the asserts of remove_item_from_bag never end the process.
THEOREM RemovalsNeverFail == ~Overwrites => (Spec => []RemovedIsInSlot)
<1> SUFFICES ASSUME ~Overwrites PROVE Spec => []RemovedIsInSlot
  OBVIOUS
<1>1. TableInv /\ MirrorInv /\ [Next]_vars => MirrorInv'
  BY MirrorStep
<1>2. MirrorInv => RemovedIsInSlot
  BY InventoryAssumption DEF MirrorInv, Alive, RemovedIsInSlot, Faults
<1> QED
  BY <1>1, <1>2, MirrorInit, TableHolds, PTL DEF Spec
=============================================================================
