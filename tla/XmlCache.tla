------------------------------ MODULE XmlCache ------------------------------
(***************************************************************************)
(* Parsed XML files, shared through the object caches (src/src/main/xml.c  *)
(* over refcache.c).  A parse is cached under the file's name in a cache   *)
(* for the wanted element and the search path; cached_xml_files remembers, *)
(* per address of a parsed node, the cache it is in, so that               *)
(* stp_xml_free_parsed_file can take it out again.                         *)
(*                                                                         *)
(* Nodes are heap addresses: mxml may return a freed one for a new tree.   *)
(* Another client keeps objects of its own in the caches OtherCaches.      *)
(***************************************************************************)
EXTENDS RefCache

CONSTANTS
  Nodes,       (* addresses of parsed nodes                                 *)
  Files, TopNodes, Paths,  (* what callers ask for                          *)
  OtherCaches, (* caches of the rest of the library                         *)
  Uncached     (* the text "" of cached_xml_files: in no cache              *)

(* The cache that stp_xml_parse_file_from_path uses. *)
XmlCaches == TopNodes \X Paths

ASSUME XmlAssumption ==
  /\ Caches = XmlCaches \union OtherCaches /\ XmlCaches \intersect OtherCaches = {}
  /\ NULL \notin Nodes \union XmlCaches \union (Files \X TopNodes \X Paths)
  /\ Files \intersect Nodes = {}
  /\ Uncached \notin XmlCaches \union {NULL}

VARIABLES
  docs,             (* what each live node was parsed from, NULL if freed    *)
  cached_xml_files, (* address -> its cache, or Uncached; NULL: no entry    *)
  owned,            (* nodes callers got uncached and will free              *)
  asked, result,    (* the last call's document and what it returned         *)
  aborted

xml  == <<docs, cached_xml_files, owned>>
call == <<asked, result>>
vars == <<refcache, xml, call, aborted>>

XmlInit ==
  /\ RefCacheInit
  /\ docs = [n \in Nodes |-> NULL]
  /\ cached_xml_files = [n \in Nodes |-> NULL]
  /\ owned = {}
  /\ asked = NULL /\ result = NULL
  /\ aborted = FALSE

-----------------------------------------------------------------------------
(* Mutant: the path has no part in the cache's name. *)
CacheIgnoresPath(top, path) == <<top, CHOOSE p \in Paths : TRUE>>

CacheFor(top, path) == <<top, path>>

(* Mutant: what must not be cached is cached all the same. *)
CachesEverything(name, top, path, c, node) ==
  /\ cached_xml_files' = [cached_xml_files EXCEPT ![node] = c]
  /\ stp_refcache_add_item(CacheFor(top, path), name, node)

(* xml_cache_file, for a node that the assertion lets pass. *)
xml_cache_file(name, top, path, c, node) ==
  /\ cached_xml_files' = [cached_xml_files EXCEPT ![node] = c]
  /\ IF c = Uncached THEN UNCHANGED refcache
     ELSE stp_refcache_add_item(c, name, node)

(* xml_parse_file_from_path: the file is found in one of the directories   *)
(* and has the element, or not; the "safe" callers abort then.             *)
xml_parse_file_from_path(name, top, path, c) ==
  /\ asked' = <<name, top, path>>
  /\ \/ /\ result' = NULL
        /\ aborted' \in BOOLEAN
        /\ UNCHANGED <<refcache, xml>>
     \/ \E node \in {n \in Nodes : docs[n] = NULL} :
          /\ docs' = [docs EXCEPT ![node] = <<name, top, path>>]
          /\ result' = node
          /\ owned' = IF c = Uncached THEN owned \union {node} ELSE owned
          /\ IF cached_xml_files[node] # NULL (* STPI_ASSERT *)
             THEN aborted' = TRUE /\ UNCHANGED <<refcache, cached_xml_files>>
             ELSE xml_cache_file(name, top, path, c, node) /\ UNCHANGED aborted

(* stp_xml_parse_file_from_path_uncached and its _safe form. *)
ParseUncached(name, top, path) ==
  /\ ~aborted
  /\ xml_parse_file_from_path(name, top, path, Uncached)

(* stp_xml_parse_file_from_path and its _safe form. *)
ParseCached(name, top, path) ==
  LET c    == CacheFor(top, path)
      data == stp_refcache_find_item(c, name)
  IN
  /\ ~aborted
  /\ IF data = NULL THEN xml_parse_file_from_path(name, top, path, c)
     ELSE /\ asked' = <<name, top, path>> /\ result' = data
          /\ UNCHANGED <<refcache, xml, aborted>>

(* Mutant: the entry of the address stays. *)
KeepsAddress(node) == UNCHANGED cached_xml_files

(* The node is taken out of cached_xml_files. *)
Unrecorded(node) == cached_xml_files' = [cached_xml_files EXCEPT ![node] = NULL]

(* stp_xml_free_parsed_file: a cached node is looked for in its cache      *)
(* under its address, and the whole tree is freed.  Callers free what they *)
(* own: none frees a node it got from a cache.                             *)
Free(node) ==
  /\ ~aborted
  /\ node \in owned
  /\ IF cached_xml_files[node] = NULL
     THEN aborted' = TRUE /\ UNCHANGED <<refcache, xml>>
     ELSE /\ IF cached_xml_files[node] = Uncached THEN UNCHANGED refcache
             ELSE stp_refcache_remove_item(cached_xml_files[node], node)
          /\ Unrecorded(node)
          /\ docs' = [docs EXCEPT ![node] = NULL]
          /\ owned' = owned \ {node}
          /\ UNCHANGED aborted
  /\ asked' = NULL /\ result' = NULL

(* The rest of the library keeps objects under names of its own. *)
OtherClient ==
  /\ ~aborted
  /\ \E c \in OtherCaches, name \in Files :
       \/ stp_refcache_create(c)
       \/ stp_refcache_add_item(c, name, "first")
       \/ stp_refcache_replace_item(c, name, "second")
       \/ stp_refcache_remove_item(c, name)
       \/ stp_refcache_destroy(c)
  /\ asked' = NULL /\ result' = NULL
  /\ UNCHANGED <<xml, aborted>>

Aborted == aborted /\ UNCHANGED vars

Next ==
  \/ \E name \in Files, top \in TopNodes, path \in Paths :
       ParseUncached(name, top, path) \/ ParseCached(name, top, path)
  \/ \E node \in Nodes : Free(node)
  \/ OtherClient
  \/ Aborted

Spec == XmlInit /\ [][Next]_vars

-----------------------------------------------------------------------------
(* Every variable keeps its type; an address has one entry at most. *)
TypeOK ==
  /\ cache \in [Caches -> Seq([name : Files, content : Nodes \union {"first", "second"}])]
  /\ docs \in [Nodes -> (Files \X TopNodes \X Paths) \union {NULL}]
  /\ cached_xml_files \in [Nodes -> XmlCaches \union {Uncached, NULL}]
  /\ owned \subseteq Nodes
  /\ asked \in (Files \X TopNodes \X Paths) \union {NULL}
  /\ result \in Nodes \union {NULL}
  /\ aborted \in BOOLEAN

(* The addresses recorded are those of the parsed trees: neither the       *)
(* assertion in xml_cache_file nor "Trying to free unrecorded node" can    *)
(* ever end the program, and no address outlives its tree.                 *)
RecordsLiveNodes ==
  /\ TypeOK
  /\ \A n \in Nodes : cached_xml_files[n] # NULL <=> docs[n] # NULL

(* A cache never hands out a tree that was freed, or one of another file,  *)
(* element or path than the caller asked for.                              *)
CachedNodesLive ==
  \A c \in XmlCaches : \A k \in DOMAIN cache[c] :
    docs[cache[c][k].content] = <<cache[c][k].name>> \o c

(* What a parse returns is the document that was asked for. *)
ReturnsWhatWasAsked == result # NULL => docs[result] = asked
=============================================================================
