------------------------------- MODULE StpList -------------------------------
(***************************************************************************)
(* The doubly linked list of src/src/main/print-list.c, under which the    *)
(* printers, papers, options, parsed XML files and caches of the library   *)
(* are kept.  The list remembers the node found last by index and, per     *)
(* name function, the node found last by name; the lookups start from      *)
(* those nodes, and every insertion or removal must forget them.           *)
(*                                                                         *)
(* Nodes are heap addresses: a freed one may come back as a new node.  A   *)
(* lookup runs its loop one node at a time.  `order' is a history          *)
(* variable: the list that the insertions and removals promise             *)
(* (include/gutenprint/list.h).                                            *)
(***************************************************************************)
EXTENDS Integers, Sequences, SequencesExt

CONSTANTS
  Nodes,     (* heap addresses of nodes                                     *)
  NULL,
  Kinds,     (* the name functions set: "name", "long_name"                 *)
  Names,     (* what they return                                            *)
  Befores    (* values callers pass for `next': NULL, or a node             *)

ASSUME ListAssumption == NULL \notin Nodes /\ NULL \notin Names /\ NULL \in Befores
                          /\ "index" \notin Kinds

Pointers == Nodes \union {NULL}
Data     == [Kinds -> Names]

VARIABLES
  next, prev, data, (* the nodes' fields                                    *)
  start, end, length,
  index_cache, index_cache_node,
  name_cache, name_cache_node, (* per kind: cached name and node            *)
  pc,      (* "idle", or the operation that runs                            *)
  node,    (* its cursor                                                    *)
  i, d,    (* the cursor's index, and the direction of the walk             *)
  want,    (* what is looked for: <<"index", idx>> or <<kind, name>>        *)
  result,  (* what the lookup returned                                      *)
  order    (* history: the nodes of the list, in order                      *)

links  == <<next, prev, data, start, end, length>>
caches == <<index_cache, index_cache_node, name_cache, name_cache_node>>
loop   == <<pc, node, i, d, want, result>>
vars   == <<links, caches, loop, order>>

Abs(n) == IF n < 0 THEN -n ELSE n

live == {order[k] : k \in DOMAIN order}
PositionOf(n) == CHOOSE k \in DOMAIN order : order[k] = n

Init ==
  /\ next = [n \in Nodes |-> NULL] /\ prev = next
  /\ data = [n \in Nodes |-> NULL]
  /\ start = NULL /\ end = NULL /\ length = 0
  /\ index_cache = 0 /\ index_cache_node = NULL
  /\ name_cache = [k \in Kinds |-> NULL] /\ name_cache_node = name_cache
  /\ pc = "idle" /\ node = NULL /\ i = 0 /\ d = "forward" /\ want = <<>> /\ result = NULL
  /\ order = <<>>

(* Mutant: the index cache stays. *)
ClearsNamesOnly ==
  /\ UNCHANGED <<index_cache, index_cache_node>>
  /\ name_cache' = [k \in Kinds |-> NULL] /\ name_cache_node' = name_cache'

clear_cache ==
  /\ index_cache' = 0 /\ index_cache_node' = NULL
  /\ name_cache' = [k \in Kinds |-> NULL] /\ name_cache_node' = name_cache'

-----------------------------------------------------------------------------
(* stp_list_item_create(list, before, value): `prev' of the new node is    *)
(* NULL when it is first tested, so it always becomes the end of the list. *)
ItemCreate(ln, before, value) ==
  LET newStart == IF start = NULL THEN ln ELSE start
      newPrev  == IF start # NULL THEN end
                  ELSE IF before # NULL THEN prev[before] ELSE NULL
      pointed  == [next EXCEPT ![ln] = before]
  IN
  /\ pc = "idle"
  /\ ln \in Nodes \ live
  /\ before # NULL => before \in live
  /\ clear_cache
  /\ data' = [data EXCEPT ![ln] = value]
  /\ start' = IF newStart = before THEN ln ELSE newStart
  /\ end' = ln
  /\ next' = IF newPrev = NULL THEN pointed ELSE [pointed EXCEPT ![newPrev] = ln]
  /\ prev' = [n \in Nodes |-> CASE n = ln     -> newPrev
                                [] n = before -> ln
                                [] OTHER      -> prev[n]]
  /\ length' = length + 1
  /\ order' = IF before = NULL THEN Append(order, ln)
              ELSE InsertAt(order, PositionOf(before), ln)
  /\ UNCHANGED loop

(* Without data no node is made, but the caches are cleared.               *)
CreateWithoutData ==
  /\ pc = "idle"
  /\ clear_cache
  /\ UNCHANGED <<links, loop, order>>

(* Mutant: removing the last node leaves the end of the list as it was. *)
EndStays(item) == end

EndWithout(item) == IF next[item] = NULL THEN prev[item] ELSE end

(* stp_list_item_destroy; the fields of the freed node are lost.           *)
ItemDestroy(item) ==
  LET nextOf == IF prev[item] = NULL THEN next ELSE [next EXCEPT ![prev[item]] = next[item]]
      prevOf == IF next[item] = NULL THEN prev ELSE [prev EXCEPT ![next[item]] = prev[item]]
  IN
  /\ item \in live
  /\ clear_cache
  /\ length' = length - 1
  /\ start' = IF prev[item] = NULL THEN next[item] ELSE start
  /\ end' = EndWithout(item)
  /\ next' = [nextOf EXCEPT ![item] = NULL]
  /\ prev' = [prevOf EXCEPT ![item] = NULL]
  /\ data' = [data EXCEPT ![item] = NULL]
  /\ order' = RemoveAt(order, PositionOf(item))

RemoveItem(item) ==
  /\ pc = "idle"
  /\ ItemDestroy(item)
  /\ UNCHANGED loop

(* stp_list_item_set_data: the caches stay.                                *)
SetData(item, value) ==
  /\ pc = "idle"
  /\ item \in live
  /\ data' = [data EXCEPT ![item] = value]
  /\ UNCHANGED <<next, prev, start, end, length, caches, loop, order>>

(* stp_list_destroy: the next node is read before the node is freed.       *)
DestroyList ==
  /\ pc = "idle"
  /\ clear_cache
  /\ pc' = "destroy" /\ node' = start
  /\ UNCHANGED <<links, i, d, want, result, order>>

DestroyStep ==
  /\ pc = "destroy"
  /\ IF node = NULL
     THEN pc' = "idle" /\ UNCHANGED <<node, links, caches, order>>
     ELSE ItemDestroy(node) /\ node' = next[node] /\ UNCHANGED pc
  /\ UNCHANGED <<i, d, want, result>>

-----------------------------------------------------------------------------
(* A lookup that needs no walk, and one that starts at node n of index k.  *)
Return(n) ==
  /\ pc' = "returned" /\ result' = n
  /\ UNCHANGED <<node, i, d>>

(* Mutant: a walk from the cached node counts from the start of the list. *)
WalkFromZero(operation, n, k, direction) ==
  /\ pc' = operation
  /\ node' = n /\ i' = (IF n = end THEN k ELSE 0) /\ d' = direction
  /\ UNCHANGED <<result, caches>>

Walk(operation, n, k, direction) ==
  /\ pc' = operation
  /\ node' = n /\ i' = k /\ d' = direction
  /\ UNCHANGED <<result, caches>>

CacheIndex(k, n) ==
  /\ index_cache' = k /\ index_cache_node' = n
  /\ UNCHANGED <<name_cache, name_cache_node>>

(* Is walking from the cached index taken to be shorter than from an end?  *)
NearCache(idx) ==
  /\ index_cache # 0
  /\ IF idx < length \div 2 THEN idx > Abs(idx - index_cache)
     ELSE length - 1 - idx > Abs(length - 1 - idx - index_cache)

(* stp_list_get_item_by_index: the node found last and its neighbours need *)
(* no walk.                                                                *)
GetByIndex(idx) ==
  /\ pc = "idle"
  /\ want' = <<"index", idx>>
  /\ IF idx >= length THEN Return(NULL) /\ UNCHANGED caches
     ELSE IF index_cache_node # NULL /\ Abs(idx - index_cache) <= 1
     THEN LET near == CASE idx = index_cache     -> index_cache_node
                        [] idx = index_cache + 1 -> next[index_cache_node]
                        [] idx = index_cache - 1 -> prev[index_cache_node]
          IN Return(near) /\ CacheIndex(idx, near)
     ELSE IF NearCache(idx)
     THEN Walk("index", index_cache_node, index_cache,
               IF idx > index_cache THEN "forward" ELSE "backward")
     ELSE IF index_cache # 0 /\ idx >= length \div 2
     THEN Walk("index", end, length - 1, "backward")
     ELSE Walk("index", start, 0, "forward")
  /\ UNCHANGED <<links, order>>

IndexStep ==
  /\ pc = "index"
  /\ node # NULL /\ i # want[2]
  /\ IF d = "forward" THEN node' = next[node] /\ i' = i + 1
                      ELSE node' = prev[node] /\ i' = i - 1
  /\ UNCHANGED <<links, caches, pc, d, want, result, order>>

IndexFound ==
  /\ pc = "index"
  /\ node = NULL \/ i = want[2]
  /\ Return(node)
  /\ CacheIndex(i, node)
  /\ UNCHANGED <<links, want, order>>

-----------------------------------------------------------------------------
CacheName(kind, name, n) ==
  /\ name_cache' = [name_cache EXCEPT ![kind] = name]
  /\ name_cache_node' = [name_cache_node EXCEPT ![kind] = n]
  /\ UNCHANGED <<index_cache, index_cache_node>>

Named(n, kind, name) == n # NULL /\ data[n][kind] = name

(* Mutant: the cached name is taken for the node's. *)
CachedNameTrusted(kind, name) == name = name_cache[kind]

(* "Is this the item we've cached?": the node's own name is read again.    *)
IsCached(kind, name) ==
  name = name_cache[kind] /\ Named(name_cache_node[kind], kind, name)

(* stp_list_get_item_by_name and stp_list_get_item_by_long_name: the node  *)
(* found last, the one after it, the one of the index cache, then a walk.  *)
GetByName(kind, name) ==
  LET cached == name_cache_node[kind]
      hit    == IF name_cache[kind] = NULL \/ cached = NULL THEN NULL
                ELSE IF IsCached(kind, name) THEN cached
                ELSE IF Named(next[cached], kind, name) THEN next[cached]
                ELSE IF Named(index_cache_node, kind, name) THEN index_cache_node
                ELSE NULL
  IN
  /\ pc = "idle"
  /\ want' = <<kind, name>>
  /\ IF hit # NULL THEN Return(hit) /\ CacheName(kind, name, hit)
     ELSE Walk("name", start, 0, "forward")
  /\ UNCHANGED <<links, order>>

NameStep ==
  /\ pc = "name"
  /\ node # NULL /\ ~Named(node, want[1], want[2])
  /\ node' = next[node]
  /\ i' = i + 1 (* no variable of the code: the position of the cursor *)
  /\ UNCHANGED <<links, caches, pc, d, want, result, order>>

NameFound ==
  /\ pc = "name"
  /\ node = NULL \/ Named(node, want[1], want[2])
  /\ Return(node)
  /\ IF node = NULL THEN UNCHANGED caches ELSE CacheName(want[1], want[2], node)
  /\ UNCHANGED <<links, want, order>>

(* The caller is done with the result. *)
Returned ==
  /\ pc = "returned"
  /\ pc' = "idle" /\ node' = NULL /\ i' = 0 /\ d' = "forward"
  /\ want' = <<>> /\ result' = NULL
  /\ UNCHANGED <<links, caches, order>>

Next ==
  \/ \E ln \in Nodes, before \in Befores, value \in Data : ItemCreate(ln, before, value)
  \/ CreateWithoutData
  \/ \E item \in live : RemoveItem(item) \/ \E value \in Data : SetData(item, value)
  \/ DestroyList \/ DestroyStep
  \/ \E idx \in -1 .. length : GetByIndex(idx)
  \/ IndexStep \/ IndexFound
  \/ \E kind \in Kinds, name \in Names : GetByName(kind, name)
  \/ NameStep \/ NameFound
  \/ Returned

Spec == Init /\ [][Next]_vars

-----------------------------------------------------------------------------
(* The variables keep their types, and the cached index its range: one     *)
(* place before the first node and one after the last can be cached.       *)
TypeOK ==
  /\ next \in [Nodes -> Pointers] /\ prev \in [Nodes -> Pointers]
  /\ data \in [Nodes -> Data \union {NULL}]
  /\ start \in Pointers /\ end \in Pointers
  /\ length \in Nat
  /\ index_cache \in -1 .. Len(order) /\ index_cache_node \in Pointers
  /\ name_cache \in [Kinds -> Names \union {NULL}]
  /\ name_cache_node \in [Kinds -> Pointers]
  /\ pc \in {"idle", "index", "name", "destroy", "returned"}
  /\ node \in Pointers /\ i \in Int /\ d \in {"forward", "backward"}
  /\ result \in Pointers
  /\ order \in Seq(Nodes)

(* The node at position k of the list, NULL before and after it. *)
At(k) == IF k \in DOMAIN order THEN order[k] ELSE NULL

(* The pointers of the nodes make up the promised list, forwards and       *)
(* backwards: what list.h says of insertion, `next' included.              *)
WellLinked ==
  /\ TypeOK
  /\ start = At(1) /\ end = At(Len(order)) /\ length = Len(order)
  /\ \A k \in DOMAIN order : /\ next[order[k]] = At(k + 1)
                             /\ prev[order[k]] = At(k - 1)
  /\ \A k, m \in DOMAIN order : order[k] = order[m] => k = m

(* No cache outlives what it caches: the cached node is a node of the      *)
(* list, and the index cache has its position.                             *)
CachesCoherent ==
  /\ index_cache_node # NULL => index_cache_node = At(index_cache + 1)
  /\ \A kind \in Kinds : name_cache_node[kind] # NULL => name_cache_node[kind] \in live

(* Whatever was looked up before, a lookup by index returns the node at    *)
(* that index, or NULL outside the list.                                   *)
IndexLookupRight == pc = "returned" /\ want[1] = "index" => result = At(want[2] + 1)

(* No node before n has the name. *)
IsFirst(n, kind, name) ==
  \A k \in DOMAIN order : Named(order[k], kind, name) => \E j \in 1 .. k : order[j] = n

(* The caches had no node of the name: the list was walked up to the result. *)
Walked == node # NULL

(* A lookup by name returns a node of that name of the list if there is    *)
(* one, although the caches know nothing of stp_list_item_set_data.        *)
(* "get the first node with name; requires a callback function to"         *)
(* (print-list.c:365, :439) is true of a lookup that walks; what a cache   *)
(* answers may be a later node of the name.                                *)
NameLookupRight ==
  pc = "returned" /\ want[1] \in Kinds =>
    IF result = NULL THEN \A n \in live : ~Named(n, want[1], want[2])
    ELSE /\ result \in live /\ Named(result, want[1], want[2])
         /\ Walked => IsFirst(result, want[1], want[2])
=============================================================================
