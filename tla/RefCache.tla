------------------------------ MODULE RefCache ------------------------------
(***************************************************************************)
(* The object caches of src/src/main/refcache.c: a list of caches, and per *)
(* cache a list of named pointers the library keeps for the whole run      *)
(* (parsed XML, resolutions, weaves, ink groups).  Next to each list a     *)
(* list of strings holds the same names, for stp_refcache_list_caches and  *)
(* stp_refcache_list_cache_items.                                          *)
(***************************************************************************)
EXTENDS Naturals, Sequences, SequencesExt

CONSTANTS
  NULL,
  Caches     (* names of caches                                             *)

VARIABLES
  global_cache_list,   (* names of the caches, in the order of creation     *)
  global_cache_names,  (* the list of strings kept next to it               *)
  cache,               (* per cache: its list of [name, content]            *)
  cache_items          (* per cache: the list of strings kept next to it    *)

refcache == <<global_cache_list, global_cache_names, cache, cache_items>>

RefCacheInit ==
  /\ global_cache_list = <<>> /\ global_cache_names = <<>>
  /\ cache = [c \in Caches |-> <<>>] /\ cache_items = [c \in Caches |-> <<>>]

Exists(c) == c \in ToSet(global_cache_list)

(* Index of the first element called `name', 0 when there is none. *)
Position(c, name) == SelectInSeq(cache[c], LAMBDA item : item.name = name)

stp_refcache_find_item(c, name) ==
  IF Position(c, name) = 0 THEN NULL ELSE cache[c][Position(c, name)].content

(* The part of find_or_create_cache_named that changes the lists of caches. *)
FoundOrCreated(c) ==
  IF Exists(c) THEN UNCHANGED <<global_cache_list, global_cache_names>>
  ELSE /\ global_cache_list' = Append(global_cache_list, c)
       /\ global_cache_names' = Append(global_cache_names, c)

stp_refcache_create(c) ==
  /\ FoundOrCreated(c)
  /\ UNCHANGED <<cache, cache_items>>

add_item_to_cache(c, name, data) ==
  /\ cache' = [cache EXCEPT ![c] = Append(@, [name |-> name, content |-> data])]
  /\ cache_items' = [cache_items EXCEPT ![c] = Append(@, name)]

(* Mutant: an item of the same name is shadowed, not kept. *)
AddsAgain(c, name, data) ==
  /\ FoundOrCreated(c)
  /\ add_item_to_cache(c, name, data)

stp_refcache_add_item(c, name, data) ==
  /\ FoundOrCreated(c)
  /\ IF Position(c, name) = 0 THEN add_item_to_cache(c, name, data)
     ELSE UNCHANGED <<cache, cache_items>>

(* stp_string_list_remove_string: the first string of that name goes. *)
stp_string_list_remove_string(list, name) ==
  LET k == SelectInSeq(list, LAMBDA s : s = name)
  IN  IF k = 0 THEN list ELSE RemoveAt(list, k)

(* Mutant: the list of strings is forgotten. *)
RemovesItemOnly(c, name) ==
  /\ UNCHANGED <<global_cache_list, global_cache_names, cache_items>>
  /\ cache' = IF Position(c, name) = 0 THEN cache
              ELSE [cache EXCEPT ![c] = RemoveAt(@, Position(c, name))]

stp_refcache_remove_item(c, name) ==
  /\ IF Position(c, name) = 0 THEN UNCHANGED <<cache, cache_items>>
     ELSE /\ cache' = [cache EXCEPT ![c] = RemoveAt(@, Position(c, name))]
          /\ cache_items' =
               [cache_items EXCEPT ![c] = stp_string_list_remove_string(@, name)]
  /\ UNCHANGED <<global_cache_list, global_cache_names>>

stp_refcache_replace_item(c, name, data) ==
  /\ FoundOrCreated(c)
  /\ IF Position(c, name) = 0 THEN add_item_to_cache(c, name, data)
     ELSE /\ cache' = [cache EXCEPT ![c][Position(c, name)].content = data]
          /\ UNCHANGED cache_items

(* The cache and both its lists are freed, what it points to is not. *)
stp_refcache_destroy(c) ==
  /\ Exists(c)
  /\ global_cache_list' = RemoveFirst(global_cache_list, c)
  /\ global_cache_names' = stp_string_list_remove_string(global_cache_names, c)
  /\ cache' = [cache EXCEPT ![c] = <<>>]
  /\ cache_items' = [cache_items EXCEPT ![c] = <<>>]

-----------------------------------------------------------------------------
(* The lists shown to the applications name exactly the caches and items   *)
(* there are, each once and in the same order, although each pair of lists *)
(* is kept by two separate calls.                                          *)
ListsAgree ==
  /\ global_cache_names = global_cache_list
  /\ IsInjective(global_cache_list)
  /\ \A c \in Caches :
       /\ cache_items[c] = [k \in DOMAIN cache[c] |-> cache[c][k].name]
       /\ IsInjective(cache_items[c])
       /\ cache[c] # <<>> => Exists(c)
=============================================================================
