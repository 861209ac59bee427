--------------------------------- MODULE Foo ---------------------------------
(***************************************************************************)
(* The example service: FooDao, the hash map and the list it keeps its     *)
(* entries in, and the actions of FooHandler, which run in several threads *)
(* of the work pool.  The content of an entry is left out; its links are   *)
(* not, for a replacement overwrites them with those of the request, which *)
(* the clients of test/client have allocated with calloc.  FooInit to      *)
(* FooSpec bear the module's name so that MapProofs can extend it together *)
(* with ClusterMapMon.                                                     *)
(***************************************************************************)
EXTENDS LinkedList, FiniteSets, SequencesExt

CONSTANTS Workers,   \* threads of the work pool
          Ids,       \* Foo.id, natural numbers
          Slots,     \* slot_size of the map
          Pages,     \* FooListRequest: [page, page_size]
          MaxPuts,   \* bound: Put requests
          NoOne      \* nobody holds the lock

VARIABLES links,      \* the memory: next and prev of heads, entries and items
          map_size,   \* MapHashLinkedPrivate.size
          list_size,  \* FooDaoPrivate.list_size
          lock,       \* FooDaoPrivate.lock
          pc,         \* of each worker
          arg,        \* of each worker: the id it adds, or the page it lists
          cursor,     \* of each worker: [head, left], how far the encoder has come
          page,       \* of each worker: what the response to a List it encodes holds
          order,      \* history: ids in the order in which they were added
          replaced,   \* history: ids whose entry has been replaced
          fate,       \* of the process: "up", "null" or "head" (what it died of), "end"
          freed,      \* values that destroy has freed
          puts        \* bound

local == <<pc, arg, cursor, page>>
foo_vars == <<links, map_size, list_size, lock, local, order, replaced, fate, freed, puts>>

\* The elements: a ListHead per slot and one of the list, a Foo and an item per id.
Slot(s) == <<"slot", s>>
List == <<"list", 0>>
Foo(id) == <<"foo", id>>
Item(id) == <<"item", id>>
Elements == {Slot(s) : s \in 0..(Slots - 1)} \cup {List} \cup {Foo(i) : i \in Ids} \cup {Item(i) : i \in Ids}
Bound == Cardinality(Ids) + 1

Parameters == /\ Ids \subseteq Nat /\ IsFiniteSet(Ids)
              /\ Slots \in Nat \ {0}
              /\ Pages \subseteq [page : Nat, page_size : Nat \ {0}]
              /\ NoOne \notin Workers
              /\ Null \notin Elements
ASSUME FooAssumption == Parameters

-----------------------------------------------------------------------------
(* MapHashLinked.c.                                                         *)

FooHash(id) == id % Slots
Key(item) == item[2]

\* initMapHashLinked
MapInit(m) == [next |-> [e \in DOMAIN m.next |-> IF e[1] = "slot" THEN e ELSE m.next[e]],
               prev |-> [e \in DOMAIN m.prev |-> IF e[1] = "slot" THEN e ELSE m.prev[e]]]

\* Mutant: the first item of the slot is the only one that is looked at.
MapGetFirst(m, id) == m.next[Slot(FooHash(id))] = Item(id)

\* get: whether the key is there; its value is Foo(id).
MapGet(m, id) == \E n \in 0..Bound : WalkTo(m, Slot(FooHash(id)), n) = Item(id)

\* put of a key that is not there yet (FooDao.c looks first): a new item at the tail.
MapPut(m, id) == ListAddTail(m, Item(id), Slot(FooHash(id)))

\* clear: the values, slot by slot; the items are unlinked and freed.
SlotItems(m, s) == LET length == CHOOSE n \in 0..Bound :
                                     /\ WalkTo(m, Slot(s), n) = Slot(s)
                                     /\ \A k \in 0..(n - 1) : WalkTo(m, Slot(s), k) # Slot(s)
                   IN [n \in 1..length |-> Key(WalkTo(m, Slot(s), n - 1))]
MapClear(m) == FlattenSeq([n \in 1..Slots |-> SlotItems(m, n - 1)])

-----------------------------------------------------------------------------
(* FooDao.c and the actions of FooHandler.c.                                *)

Loose == [next |-> [e \in Elements |-> Null], prev |-> [e \in Elements |-> Null]]

\* initFooDao
FooInit == /\ links = ListHeadInit(MapInit(Loose), List)
           /\ map_size = 0 /\ list_size = 0 /\ lock = NoOne
           /\ pc = [w \in Workers |-> "idle"]
           /\ arg = [w \in Workers |-> Null] /\ cursor = [w \in Workers |-> Null]
           /\ page = [w \in Workers |-> <<>>]
           /\ order = <<>> /\ replaced = {} /\ fate = "up" /\ freed = <<>> /\ puts = 0

\* A worker takes the lock; getFoo (one look at the map under it) changes nothing.
Begins(w) == fate = "up" /\ pc[w] = "idle" /\ lock = NoOne

Put(w, id) == Begins(w) /\ puts < MaxPuts /\ puts' = puts + 1

\* putFoo of a new id, up to the last store of listAddTail.
PutAdd(w, id) == /\ Put(w, id) /\ ~MapGet(links, id)
                 /\ LET m == MapPut(links, id)
                    IN links' = Attach(m, Foo(id), m.prev[List], List)
                 /\ map_size' = map_size + 1
                 /\ lock' = w
                 /\ pc' = [pc EXCEPT ![w] = "adding"]
                 /\ arg' = [arg EXCEPT ![w] = id]
                 /\ UNCHANGED <<list_size, cursor, page, order, replaced, fate, freed>>

\* Mutant: the list's tail is not moved on.
PutPublishAtHead(w) ==
    /\ fate = "up" /\ pc[w] = "adding"
    /\ links' = Publish(links, Foo(arg[w]), List)
    /\ list_size' = list_size + 1 /\ order' = Append(order, arg[w])
    /\ lock' = NoOne /\ pc' = [pc EXCEPT ![w] = "idle"] /\ arg' = [arg EXCEPT ![w] = Null]
    /\ UNCHANGED <<map_size, cursor, page, replaced, fate, freed, puts>>

PutPublish(w) == /\ fate = "up" /\ pc[w] = "adding"
                 /\ links' = Publish(links, Foo(arg[w]), links.prev[Foo(arg[w])])
                 /\ list_size' = list_size + 1
                 /\ order' = Append(order, arg[w])
                 /\ lock' = NoOne
                 /\ pc' = [pc EXCEPT ![w] = "idle"] /\ arg' = [arg EXCEPT ![w] = Null]
                 /\ UNCHANGED <<map_size, cursor, page, replaced, fate, freed, puts>>

\* putFoo of a known id: memcpy of the whole structure, its links included.
PutReplace(w, id) ==
    /\ Put(w, id) /\ MapGet(links, id)
    /\ links' = [links EXCEPT !.next[Foo(id)] = Null, !.prev[Foo(id)] = Null]
    /\ replaced' = replaced \cup {id}
    /\ UNCHANGED <<map_size, list_size, lock, local, order, fate, freed>>

\* listFoo: list_size is read before the lock is taken; behind the end of the list the
\* response is empty, and nothing more happens.
Offset(p) == p.page * p.page_size
ListBegin(w, p) ==
    /\ fate = "up" /\ pc[w] = "idle" /\ Offset(p) < list_size
    /\ arg' = [arg EXCEPT ![w] = p]
    /\ pc' = [pc EXCEPT ![w] = "listing"]
    /\ UNCHANGED <<links, map_size, list_size, lock, cursor, page, order, replaced, fate, freed, puts>>

Lesser(a, b) == IF a < b THEN a ELSE b

\* Mutant: a page is full, whatever is left.
PageLengthFull(p) == p.page_size

PageLength(p) == Lesser(list_size - Offset(p), p.page_size)

\* The walk to the first entry of the page; it dies of following a Null.
ListFoo(w) ==
    /\ fate = "up" /\ pc[w] = "listing" /\ lock = NoOne
    /\ LET p == arg[w]
       IN IF \E n \in 0..(Offset(p) - 1) : WalkTo(links, List, n) = Null
          THEN fate' = "null" /\ UNCHANGED <<cursor, pc>>
          ELSE /\ cursor' = [cursor EXCEPT ![w] = [head |-> WalkTo(links, List, Offset(p)),
                                               left |-> PageLength(p)]]
               /\ pc' = [pc EXCEPT ![w] = "encoding"]
               /\ UNCHANGED fate
    /\ UNCHANGED <<links, map_size, list_size, lock, arg, page, order, replaced, freed, puts>>

\* A turn of the loop of FooResponseEncoderList: without the lock, and from the entry
\* behind head.  Beyond the last entry it takes the list head for a Foo: what lies there
\* passes for a path length that it survives, or does not.
Encode(w) ==
    /\ fate = "up" /\ pc[w] = "encoding" /\ cursor[w].left > 0
    /\ LET head == cursor[w].head
           s == IF head = Null THEN Null ELSE links.next[head]
       IN \/ s = Null /\ fate' = "null" /\ UNCHANGED <<cursor, page>>
          \/ s = List /\ fate' = "head" /\ UNCHANGED <<cursor, page>>
          \/ /\ s # Null
             /\ page' = [page EXCEPT ![w] = Append(@, s)]
             /\ cursor' = [cursor EXCEPT ![w] = [head |-> s, left |-> @.left - 1]]
             /\ UNCHANGED fate
    /\ UNCHANGED <<links, map_size, list_size, lock, pc, arg, order, replaced, freed, puts>>

EncodeDone(w) == /\ fate = "up" /\ pc[w] = "encoding" /\ cursor[w].left = 0
                 /\ pc' = [pc EXCEPT ![w] = "idle"]
                 /\ arg' = [arg EXCEPT ![w] = Null] /\ cursor' = [cursor EXCEPT ![w] = Null]
                 /\ page' = [page EXCEPT ![w] = <<>>]
                 /\ UNCHANGED <<links, map_size, list_size, lock, order, replaced, fate, freed, puts>>

\* destroy, after the server's has waited for the actions (UtServer.c:51): an empty list
\* is not even looked at.
Destroy == /\ fate = "up" /\ \A w \in Workers : pc[w] = "idle"
           /\ fate' = "end"
           /\ IF list_size > 0
              THEN /\ freed' = MapClear(links)
                   /\ links' = ListHeadInit(MapInit(links), List)
                   /\ map_size' = 0
              ELSE UNCHANGED <<freed, links, map_size>>
           /\ UNCHANGED <<list_size, lock, local, order, replaced, puts>>

FooNext == \/ \E w \in Workers : \/ \E id \in Ids : PutAdd(w, id) \/ PutReplace(w, id)
                              \/ \E p \in Pages : ListBegin(w, p)
                              \/ PutPublish(w) \/ ListFoo(w) \/ Encode(w) \/ EncodeDone(w)
        \/ Destroy

FooSpec == FooInit /\ [][FooNext]_foo_vars
-----------------------------------------------------------------------------
(* Properties.                                                              *)

Adding == {arg[w] : w \in {v \in Workers : pc[v] = "adding"}}
Added == {order[k] : k \in DOMAIN order}
OfSlot(ids, s) == FlattenSeq([k \in DOMAIN ids |-> IF FooHash(ids[k]) = s THEN <<ids[k]>> ELSE <<>>])
Items(ids) == [k \in DOMAIN ids |-> Item(ids[k])]

\* Whatever has been put, added or replaced, in whatever order: each slot of the map is
\* a list, well formed in both directions, of the ids with its hash, each once and in
\* the order in which they were added; both sizes agree, as the assertion of destroy
\* demands (FooDao.c:88); and destroy frees each entry once.
MapExact ==
    /\ lock = NoOne /\ fate # "end" =>
          /\ \A s \in 0..(Slots - 1) : Linked(links, Slot(s), Items(OfSlot(order, s)))
          /\ map_size = list_size
    /\ Cardinality(Added) = list_size
    /\ fate = "end" => Len(freed) = list_size /\ {freed[k] : k \in DOMAIN freed} = Added

\* The list holds the entries in the order in which they were added: each points to its
\* follower, or to nothing once it has been replaced; the links that lead to it from the
\* head and back to the tail are never lost, so that the list goes on growing at its end.
ListExact ==
    LET all == order \o [k \in 1..Cardinality(Adding) |-> CHOOSE id \in Adding : TRUE]
    IN fate # "end" =>
       /\ links.next[List] = IF order = <<>> THEN List ELSE Foo(order[1])
       /\ links.prev[List] = IF all = <<>> THEN List ELSE Foo(all[Len(all)])
       /\ \A k \in DOMAIN order :
             \/ links.next[Foo(order[k])] = IF k < Len(order) THEN Foo(order[k + 1]) ELSE List
             \/ links.next[Foo(order[k])] = Null /\ order[k] \in replaced

\* A page is encoded without the lock while entries are added and replaced; even so it
\* is a run of entries that follow one another, none left out and none twice.  As the
\* encoder begins behind the first entry of the page, the run begins one too late; the
\* list head stands in only for what lies behind the last entry, once, at the end.  The
\* encoder loses its way only behind an entry that has been replaced.
PageInOrder ==
    /\ \A w \in Workers : \A k \in DOMAIN page[w] :
          LET n == Offset(arg[w]) + k + 1
          IN \/ n <= Len(order) /\ page[w][k] = Foo(order[n])
             \/ page[w][k] = List /\ k = Len(page[w]) /\ cursor[w].left = 0
    /\ fate = "null" => replaced # {}
=============================================================================
