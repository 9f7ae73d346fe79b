--------------------------- MODULE XmlCache_proof ---------------------------
(* Proofs about RefCache and XmlCache, for any number of caches, items,     *)
(* files and addresses.                                                     *)
EXTENDS XmlCache, SequenceTheorems, TLAPS

Items == [name : Files, content : Nodes \union {"first", "second"}]

-----------------------------------------------------------------------------
(* Sequences: looking an element up, and taking it out. *)

(* All that is used of a lookup: the first position is the only one when    *)
(* no element comes twice.                                                  *)
LEMMA OnlyIsMin ==
  ASSUME NEW k \in Nat, NEW I, I = {k}
  PROVE  Min(I) = k
  BY DEF Min

(* RemoveAt closes the gap. *)
LEMMA RemoveAtFacts ==
  ASSUME NEW S, NEW s \in Seq(S), NEW k \in 1 .. Len(s)
  PROVE  /\ RemoveAt(s, k) \in Seq(S)
         /\ Len(RemoveAt(s, k)) = Len(s) - 1
         /\ \A i \in 1 .. Len(s) - 1 : RemoveAt(s, k)[i] = s[IF i < k THEN i ELSE i + 1]
<1>1. Len(s) \in Nat /\ k \in Int  OBVIOUS
<1> DEFINE before == SubSeq(s, 1, k - 1)
           behind == SubSeq(s, k + 1, Len(s))
<1>2. /\ before \in Seq(S) /\ Len(before) = k - 1
      /\ \A i \in 1 .. k - 1 : before[i] = s[i]
  BY <1>1
<1>3. /\ behind \in Seq(S) /\ Len(behind) = Len(s) - k
      /\ \A i \in 1 .. Len(s) - k : behind[i] = s[k + i]
  BY <1>1
<1>4. RemoveAt(s, k) = before \o behind  BY DEF RemoveAt
<1> HIDE DEF before, behind
<1>5. /\ before \o behind \in Seq(S) /\ Len(before \o behind) = Len(s) - 1
      /\ \A i \in 1 .. Len(s) - 1 :
           (before \o behind)[i] = IF i <= k - 1 THEN before[i] ELSE behind[i - (k - 1)]
  <2>1. /\ before \o behind \in Seq(S)
        /\ Len(before \o behind) = Len(before) + Len(behind)
        /\ \A i \in 1 .. Len(before) + Len(behind) :
             (before \o behind)[i] = IF i <= Len(before) THEN before[i] ELSE behind[i - Len(before)]
    BY <1>2, <1>3, ConcatProperties, Zenon
  <2>2. Len(before) + Len(behind) = Len(s) - 1  BY <1>1, <1>2, <1>3
  <2> QED  BY <1>2, <2>1, <2>2
<1>6. ASSUME NEW i \in 1 .. Len(s) - 1
      PROVE  (before \o behind)[i] = s[IF i < k THEN i ELSE i + 1]
  <2>1. CASE i < k
    <3>1. i \in 1 .. k - 1 /\ i <= k - 1  BY <2>1, <1>1
    <3> QED  BY <2>1, <3>1, <1>2, <1>5
  <2>2. CASE ~(i < k)
    <3>1. i - (k - 1) \in 1 .. Len(s) - k /\ ~(i <= k - 1) /\ k + (i - (k - 1)) = i + 1
      BY <2>2, <1>1
    <3>2. (before \o behind)[i] = behind[i - (k - 1)]  BY <3>1, <1>5
    <3>3. behind[i - (k - 1)] = s[k + (i - (k - 1))]  BY <3>1, <1>3
    <3> QED  BY <2>2, <3>1, <3>2, <3>3
  <2> QED  BY <2>1, <2>2
<1> QED  BY <1>4, <1>5, <1>6

(* No element comes twice in what is left, and the one that went is gone. *)
LEMMA RemoveAtInjective ==
  ASSUME NEW S, NEW s \in Seq(S), NEW k \in 1 .. Len(s), IsInjective(s)
  PROVE  /\ IsInjective(RemoveAt(s, k))
         /\ ToSet(RemoveAt(s, k)) = ToSet(s) \ {s[k]}
<1> DEFINE t == RemoveAt(s, k)
           place(i) == IF i < k THEN i ELSE i + 1
<1>1. Len(s) \in Nat /\ DOMAIN s = 1 .. Len(s) /\ k \in Int  OBVIOUS
<1>2. /\ t \in Seq(S) /\ Len(t) = Len(s) - 1 /\ DOMAIN t = 1 .. Len(s) - 1
      /\ \A i \in 1 .. Len(s) - 1 : t[i] = s[place(i)]
  BY RemoveAtFacts
<1>3. \A i, j \in 1 .. Len(s) - 1 :
        /\ place(i) \in DOMAIN s /\ place(i) # k
        /\ place(i) = place(j) => i = j
  BY <1>1
<1>4. \A i \in DOMAIN s : i # k => \E j \in 1 .. Len(s) - 1 : place(j) = i
  <2> TAKE i \in DOMAIN s
  <2> HAVE i # k
  <2>1. CASE i < k
    <3>1. i \in 1 .. Len(s) - 1 /\ place(i) = i  BY <2>1, <1>1
    <3> QED  BY <3>1
  <2>2. CASE ~(i < k)
    <3>1. i - 1 \in 1 .. Len(s) - 1 /\ place(i - 1) = i  BY <2>2, <1>1
    <3> QED  BY <3>1
  <2> QED  BY <2>1, <2>2
<1> HIDE DEF t, place
<1>5. IsInjective(t)  BY <1>2, <1>3 DEF IsInjective
<1>6. ToSet(t) \subseteq ToSet(s) \ {s[k]}
  <2> SUFFICES ASSUME NEW i \in DOMAIN t PROVE t[i] \in ToSet(s) /\ t[i] # s[k]
    BY DEF ToSet
  <2>1. t[i] = s[place(i)] /\ place(i) \in DOMAIN s /\ place(i) # k  BY <1>2, <1>3
  <2> QED  BY <2>1, <1>1 DEF ToSet, IsInjective
<1>7. ToSet(s) \ {s[k]} \subseteq ToSet(t)
  <2> SUFFICES ASSUME NEW i \in DOMAIN s, s[i] # s[k] PROVE s[i] \in ToSet(t)
    BY DEF ToSet
  <2>1. PICK j \in 1 .. Len(s) - 1 : place(j) = i  BY <1>4
  <2>2. t[j] = s[i] /\ j \in DOMAIN t  BY <2>1, <1>2
  <2> QED  BY <2>2 DEF ToSet
<1> QED  BY <1>5, <1>6, <1>7 DEF t

LEMMA AppendNewFacts ==
  ASSUME NEW S, NEW s \in Seq(S), NEW x \in S, IsInjective(s), x \notin ToSet(s)
  PROVE  /\ Append(s, x) \in Seq(S)
         /\ IsInjective(Append(s, x))
         /\ ToSet(Append(s, x)) = ToSet(s) \union {x}
<1> DEFINE t == Append(s, x)
<1>1. /\ t \in Seq(S) /\ Len(s) \in Nat /\ DOMAIN s = 1 .. Len(s)
      /\ DOMAIN t = 1 .. Len(s) + 1
      /\ \A i \in 1 .. Len(s) : t[i] = s[i]
      /\ t[Len(s) + 1] = x
  OBVIOUS
<1> HIDE DEF t
<1>2. \A i \in DOMAIN t : i \in DOMAIN s \/ i = Len(s) + 1  BY <1>1
<1>3. IsInjective(t)  BY <1>1, <1>2 DEF IsInjective, ToSet
<1>4. ToSet(t) = ToSet(s) \union {x}  BY <1>1, <1>2 DEF ToSet
<1> QED  BY <1>1, <1>3, <1>4 DEF t

-----------------------------------------------------------------------------
(* The operations of refcache.c keep both lists of every cache together. *)

Names(items) == [k \in DOMAIN items |-> items[k].name]

RefTypeOK ==
  /\ global_cache_list \in Seq(Caches)
  /\ cache \in [Caches -> Seq(Items)]
  /\ cache_items \in [Caches -> Seq(Files)]

RefInv == RefTypeOK /\ ListsAgree

(* What a lookup finds: nothing, or the one item of that name. *)
LEMMA PositionFacts ==
  ASSUME RefInv, NEW c \in Caches, NEW name
  PROVE  /\ Position(c, name) = 0 => name \notin ToSet(cache_items[c])
         /\ Position(c, name) # 0 =>
              /\ Position(c, name) \in 1 .. Len(cache[c])
              /\ cache[c][Position(c, name)].name = name
<1> DEFINE I == {i \in 1 .. Len(cache[c]) : cache[c][i].name = name}
<1>1. /\ cache[c] \in Seq(Items) /\ Len(cache[c]) \in Nat /\ DOMAIN cache[c] = 1 .. Len(cache[c])
      /\ cache_items[c] = [k \in 1 .. Len(cache[c]) |-> cache[c][k].name]
      /\ IsInjective(cache_items[c])
  BY DEF RefInv, RefTypeOK, ListsAgree
<1>2. Position(c, name) = IF I # {} THEN Min(I) ELSE 0
  BY DEF Position, SelectInSeq
<1>3. CASE I = {}
  <2>1. name \notin ToSet(cache_items[c])  BY <1>1, <1>3 DEF ToSet
  <2> QED  BY <1>2, <1>3, <2>1
<1>4. ASSUME NEW k \in I PROVE Position(c, name) = k
  <2>1. \A i \in I : i = k  BY <1>1 DEF IsInjective
  <2>2. I = {k} /\ k \in Nat  BY <1>1, <2>1
  <2> HIDE DEF I
  <2> QED  BY <1>2, <2>2, OnlyIsMin
<1>5. CASE I # {}
  <2>1. PICK k \in I : TRUE  BY <1>5
  <2>2. Position(c, name) = k  BY <1>4, <2>1
  <2>3. k # 0  BY <1>1
  <2> QED  BY <2>2, <2>3
<1> QED  BY <1>3, <1>5

(* Both ways of taking a string out of a list take that one. *)
LEMMA RemoveStringFacts ==
  ASSUME NEW S, NEW list \in Seq(S), IsInjective(list), NEW k \in 1 .. Len(list)
  PROVE  /\ stp_string_list_remove_string(list, list[k]) = RemoveAt(list, k)
         /\ RemoveFirst(list, list[k]) = RemoveAt(list, k)
<1> DEFINE I == {i \in 1 .. Len(list) : list[i] = list[k]}
<1>1. Len(list) \in Nat /\ DOMAIN list = 1 .. Len(list) /\ k \in Nat /\ k # 0  OBVIOUS
<1>2. I = {k}  BY <1>1 DEF IsInjective
<1> HIDE DEF I
<1>3. SelectInSeq(list, LAMBDA s : s = list[k]) = k
  BY <1>1, <1>2, OnlyIsMin DEF SelectInSeq, I
<1>4. SelectInSeq(list, LAMBDA v : v = list[k]) = k
  BY <1>1, <1>2, OnlyIsMin DEF SelectInSeq, I
<1> QED  BY <1>1, <1>3, <1>4 DEF stp_string_list_remove_string, RemoveFirst

LEMMA FoundOrCreatedOK ==
  ASSUME RefInv, NEW c \in Caches, FoundOrCreated(c)
  PROVE  /\ global_cache_list' \in Seq(Caches)
         /\ global_cache_names' = global_cache_list'
         /\ IsInjective(global_cache_list')
         /\ ToSet(global_cache_list') = ToSet(global_cache_list) \union {c}
<1>1. CASE Exists(c)
  BY <1>1 DEF FoundOrCreated, RefInv, RefTypeOK, ListsAgree, Exists
<1>2. CASE ~Exists(c)
  <2>1. /\ global_cache_list \in Seq(Caches) /\ IsInjective(global_cache_list)
        /\ c \notin ToSet(global_cache_list)
    BY <1>2 DEF RefInv, RefTypeOK, ListsAgree, Exists
  <2>2. global_cache_list' = Append(global_cache_list, c) /\ global_cache_names' = global_cache_list'
    BY <1>2 DEF FoundOrCreated, RefInv, ListsAgree
  <2> QED  BY <2>1, <2>2, AppendNewFacts
<1> QED  BY <1>1, <1>2

(* What is left to show for a step that changes one cache. *)
LEMMA OneCacheOK ==
  ASSUME RefInv, NEW c \in Caches, NEW items \in Seq(Items), NEW names,
         global_cache_list' \in Seq(Caches), global_cache_names' = global_cache_list',
         IsInjective(global_cache_list'),
         ToSet(global_cache_list) \ {c} \subseteq ToSet(global_cache_list'),
         items # <<>> => c \in ToSet(global_cache_list'),
         names = Names(items), IsInjective(names),
         cache' = [cache EXCEPT ![c] = items],
         cache_items' = [cache_items EXCEPT ![c] = names]
  PROVE  RefInv'
<1>1. names \in Seq(Files)
  <2>1. \A item \in Items : item.name \in Files  BY DEF Items
  <2>2. Len(items) \in Nat /\ DOMAIN items = 1 .. Len(items)
        /\ \A k \in 1 .. Len(items) : items[k] \in Items
    OBVIOUS
  <2> QED  BY <2>1, <2>2 DEF Names
<1>2. RefTypeOK'  BY <1>1 DEF RefInv, RefTypeOK
<1>3. \A d \in Caches : /\ cache'[d] = IF d = c THEN items ELSE cache[d]
                        /\ cache_items'[d] = IF d = c THEN names ELSE cache_items[d]
  BY DEF RefInv, RefTypeOK
<1>4. ASSUME NEW d \in Caches
      PROVE  /\ cache_items'[d] = [k \in DOMAIN cache'[d] |-> cache'[d][k].name]
             /\ IsInjective(cache_items'[d])
             /\ cache'[d] # <<>> => d \in ToSet(global_cache_list')
  <2>1. CASE d = c
    BY <1>3, <2>1 DEF Names
  <2>2. CASE d # c
    BY <1>3, <2>2 DEF RefInv, ListsAgree, Exists
  <2> QED  BY <2>1, <2>2
<1> QED  BY <1>2, <1>4 DEF RefInv, ListsAgree, Exists

LEMMA AddItemOK ==
  ASSUME RefInv, NEW c \in Caches, NEW name \in Files,
         NEW data \in Nodes \union {"first", "second"},
         FoundOrCreated(c), Position(c, name) = 0, add_item_to_cache(c, name, data)
  PROVE  RefInv'
<1> DEFINE item  == [name |-> name, content |-> data]
           items == Append(cache[c], item)
           names == Append(cache_items[c], name)
<1>1. item \in Items  BY DEF Items
<1>2. /\ cache[c] \in Seq(Items) /\ cache_items[c] = Names(cache[c])
      /\ cache_items[c] \in Seq(Files) /\ IsInjective(cache_items[c])
  BY DEF RefInv, RefTypeOK, ListsAgree, Names
<1>3. name \notin ToSet(cache_items[c])  BY PositionFacts
<1>4. IsInjective(names)  BY <1>2, <1>3, AppendNewFacts
<1>5. names = Names(items) /\ items \in Seq(Items)
  <2>1. /\ Len(cache[c]) \in Nat /\ DOMAIN cache[c] = 1 .. Len(cache[c])
        /\ Len(cache_items[c]) = Len(cache[c])
        /\ \A k \in 1 .. Len(cache[c]) : cache_items[c][k] = cache[c][k].name
    BY <1>2 DEF Names
  <2>2. /\ items \in Seq(Items) /\ DOMAIN items = 1 .. Len(cache[c]) + 1
        /\ items[Len(cache[c]) + 1] = item
        /\ \A k \in 1 .. Len(cache[c]) : items[k] = cache[c][k]
    BY <1>1, <1>2
  <2>3. /\ names \in [1 .. Len(cache[c]) + 1 -> Files]
        /\ names[Len(cache[c]) + 1] = name
        /\ \A k \in 1 .. Len(cache[c]) : names[k] = cache_items[c][k]
    <3> DEFINE old == cache_items[c]
    <3>1. old \in Seq(Files) /\ Len(old) = Len(cache[c]) /\ Len(cache[c]) \in Nat
      BY <1>2, <2>1
    <3>2. names = Append(old, name)  OBVIOUS
    <3> HIDE DEF old, names
    <3>3. /\ names \in Seq(Files) /\ Len(names) = Len(old) + 1
          /\ names[Len(old) + 1] = name
          /\ \A k \in 1 .. Len(old) : names[k] = old[k]
      BY <3>1, <3>2, AppendProperties
    <3> QED  BY <3>1, <3>3 DEF old
  <2>4. item.name = name  OBVIOUS
  <2> HIDE DEF items, names, item
  <2>5. \A k \in 1 .. Len(cache[c]) + 1 : names[k] = items[k].name
    <3>1. \A k \in 1 .. Len(cache[c]) + 1 : k \in 1 .. Len(cache[c]) \/ k = Len(cache[c]) + 1
      BY <2>1
    <3> QED  BY <2>1, <2>2, <2>3, <2>4, <3>1
  <2> QED  BY <2>2, <2>3, <2>5 DEF Names
<1>6. cache' = [cache EXCEPT ![c] = items] /\ cache_items' = [cache_items EXCEPT ![c] = names]
  BY DEF add_item_to_cache
<1> HIDE DEF items, names
<1> QED  BY <1>4, <1>5, <1>6, FoundOrCreatedOK, OneCacheOK

LEMMA CreateOK ==
  ASSUME RefInv, NEW c \in Caches, stp_refcache_create(c)
  PROVE  RefInv'
<1>1. FoundOrCreated(c) /\ cache' = cache /\ cache_items' = cache_items
  BY DEF stp_refcache_create
<1> QED  BY <1>1, FoundOrCreatedOK DEF RefInv, RefTypeOK, ListsAgree, Exists

LEMMA AddOK ==
  ASSUME RefInv, NEW c \in Caches, NEW name \in Files,
         NEW data \in Nodes \union {"first", "second"}, stp_refcache_add_item(c, name, data)
  PROVE  RefInv'
<1>1. CASE Position(c, name) = 0
  BY <1>1, AddItemOK DEF stp_refcache_add_item
<1>2. CASE Position(c, name) # 0
  <2>1. stp_refcache_create(c)  BY <1>2 DEF stp_refcache_add_item, stp_refcache_create
  <2> QED  BY <2>1, CreateOK
<1> QED  BY <1>1, <1>2

(* The item has its name still, and its place. *)
LEMMA ReplaceOK ==
  ASSUME RefInv, NEW c \in Caches, NEW name \in Files,
         NEW data \in Nodes \union {"first", "second"}, stp_refcache_replace_item(c, name, data)
  PROVE  RefInv'
<1>1. CASE Position(c, name) = 0
  BY <1>1, AddItemOK DEF stp_refcache_replace_item
<1>2. CASE Position(c, name) # 0
  <2> DEFINE k     == Position(c, name)
             items == [cache[c] EXCEPT ![k].content = data]
  <2>1. FoundOrCreated(c) /\ cache_items' = cache_items
        /\ cache' = [cache EXCEPT ![c][k].content = data]
    BY <1>2 DEF stp_refcache_replace_item
  <2>2. /\ cache[c] \in Seq(Items) /\ cache_items[c] = Names(cache[c])
        /\ IsInjective(cache_items[c])
        /\ cache[c] # <<>> => c \in ToSet(global_cache_list)
        /\ cache \in [Caches -> Seq(Items)] /\ cache_items \in [Caches -> Seq(Files)]
    BY DEF RefInv, RefTypeOK, ListsAgree, Exists, Names
  <2>3. k \in 1 .. Len(cache[c])  BY <1>2, PositionFacts
  <2>4. cache' = [cache EXCEPT ![c] = items]  BY <2>1, <2>2
  <2> HIDE DEF k
  <2>5. \A item \in Items : [item EXCEPT !.content = data] \in Items
                            /\ [item EXCEPT !.content = data].name = item.name
    BY DEF Items
  <2>6. cache[c][k] \in Items  BY <2>2, <2>3
  <2>7. /\ items \in Seq(Items) /\ DOMAIN items = DOMAIN cache[c]
        /\ \A i \in DOMAIN cache[c] : items[i].name = cache[c][i].name
    <3>1. items = [cache[c] EXCEPT ![k] = [cache[c][k] EXCEPT !.content = data]]
      BY <2>2, <2>3
    <3> HIDE DEF items
    <3> QED  BY <2>2, <2>3, <2>5, <2>6, <3>1
  <2> HIDE DEF items
  <2>8. cache_items[c] = Names(items)  BY <2>2, <2>7 DEF Names
  <2>9. cache_items' = [cache_items EXCEPT ![c] = cache_items[c]]  BY <2>1, <2>2
  <2> QED  BY <2>1, <2>2, <2>4, <2>7, <2>8, <2>9, FoundOrCreatedOK, OneCacheOK
<1> QED  BY <1>1, <1>2

LEMMA RemoveOK ==
  ASSUME RefInv, NEW c \in Caches, NEW name, stp_refcache_remove_item(c, name)
  PROVE  RefInv'
<1>1. CASE Position(c, name) = 0
  BY <1>1 DEF stp_refcache_remove_item, RefInv, RefTypeOK, ListsAgree, Exists
<1>2. CASE Position(c, name) # 0
  <2> DEFINE k     == Position(c, name)
             items == RemoveAt(cache[c], k)
             names == RemoveAt(cache_items[c], k)
  <2>1. /\ cache[c] \in Seq(Items) /\ cache_items[c] = Names(cache[c])
        /\ cache_items[c] \in Seq(Files) /\ IsInjective(cache_items[c])
        /\ cache[c] # <<>> => c \in ToSet(global_cache_list)
    BY DEF RefInv, RefTypeOK, ListsAgree, Exists, Names
  <2>2. k \in 1 .. Len(cache[c]) /\ cache[c][k].name = name  BY <1>2, PositionFacts
  <2> HIDE DEF k
  <2>3. /\ Len(cache[c]) \in Nat /\ DOMAIN cache[c] = 1 .. Len(cache[c])
        /\ Len(cache_items[c]) = Len(cache[c])
        /\ \A i \in 1 .. Len(cache[c]) : cache_items[c][i] = cache[c][i].name
    BY <2>1 DEF Names
  <2>4. /\ items \in Seq(Items) /\ Len(items) = Len(cache[c]) - 1
        /\ \A i \in 1 .. Len(cache[c]) - 1 : items[i] = cache[c][IF i < k THEN i ELSE i + 1]
    BY <2>1, <2>2, RemoveAtFacts
  <2>5. /\ names \in Seq(Files) /\ Len(names) = Len(cache[c]) - 1
        /\ \A i \in 1 .. Len(cache[c]) - 1 : names[i] = cache_items[c][IF i < k THEN i ELSE i + 1]
    <3>1. k \in 1 .. Len(cache_items[c])  BY <2>2, <2>3
    <3>2. /\ names \in Seq(Files) /\ Len(names) = Len(cache_items[c]) - 1
          /\ \A i \in 1 .. Len(cache_items[c]) - 1 :
               names[i] = cache_items[c][IF i < k THEN i ELSE i + 1]
      BY <2>1, <3>1, RemoveAtFacts, Zenon
    <3> QED  BY <2>3, <3>2
  <2>6. IsInjective(names)  BY <2>1, <2>2, <2>3, RemoveAtInjective
  <2>7. stp_string_list_remove_string(cache_items[c], name) = names
    BY <2>1, <2>2, <2>3, RemoveStringFacts
  <2>8. /\ UNCHANGED <<global_cache_list, global_cache_names>>
        /\ cache' = [cache EXCEPT ![c] = items]
        /\ cache_items' = [cache_items EXCEPT ![c] = names]
    BY <1>2, <2>7 DEF stp_refcache_remove_item, k
  <2> HIDE DEF items, names
  <2>9. names = Names(items)
    <3>1. \A i \in 1 .. Len(cache[c]) - 1 : (IF i < k THEN i ELSE i + 1) \in 1 .. Len(cache[c])
      BY <2>2, <2>3
    <3>2. \A i \in 1 .. Len(cache[c]) - 1 : names[i] = items[i].name
      BY <2>3, <2>4, <2>5, <3>1
    <3>3. DOMAIN items = 1 .. Len(cache[c]) - 1 /\ names = [i \in 1 .. Len(cache[c]) - 1 |-> names[i]]
      BY <2>3, <2>4, <2>5
    <3> QED  BY <3>2, <3>3 DEF Names
  <2>10. cache[c] # <<>>  BY <2>2, <2>3
  <2>11. /\ global_cache_list \in Seq(Caches) /\ global_cache_names = global_cache_list
         /\ IsInjective(global_cache_list)
    BY DEF RefInv, RefTypeOK, ListsAgree
  <2> QED  BY <2>1, <2>4, <2>6, <2>8, <2>9, <2>10, <2>11, OneCacheOK
<1> QED  BY <1>1, <1>2

LEMMA DestroyOK ==
  ASSUME RefInv, NEW c \in Caches, stp_refcache_destroy(c)
  PROVE  RefInv'
<1>1. /\ global_cache_list \in Seq(Caches) /\ global_cache_names = global_cache_list
      /\ IsInjective(global_cache_list) /\ c \in ToSet(global_cache_list)
  BY DEF RefInv, RefTypeOK, ListsAgree, stp_refcache_destroy, Exists
<1>2. PICK k \in 1 .. Len(global_cache_list) : global_cache_list[k] = c
  BY <1>1 DEF ToSet
<1>3. /\ global_cache_list' = RemoveAt(global_cache_list, k)
      /\ global_cache_names' = global_cache_list'
  BY <1>1, <1>2, RemoveStringFacts DEF stp_refcache_destroy
<1>4. /\ global_cache_list' \in Seq(Caches) /\ IsInjective(global_cache_list')
      /\ ToSet(global_cache_list') = ToSet(global_cache_list) \ {c}
  BY <1>1, <1>2, <1>3, RemoveAtFacts, RemoveAtInjective
<1>5. <<>> \in Seq(Items) /\ <<>> = Names(<<>>) /\ IsInjective(<<>>)
  BY DEF Names, IsInjective
<1>6. cache' = [cache EXCEPT ![c] = <<>>] /\ cache_items' = [cache_items EXCEPT ![c] = <<>>]
  BY DEF stp_refcache_destroy
<1> QED  BY <1>3, <1>4, <1>5, <1>6, OneCacheOK
-----------------------------------------------------------------------------
(* What each operation leaves in the caches. *)

LEMMA AddFrame ==
  ASSUME RefInv, NEW c \in Caches, NEW name \in Files,
         NEW data \in Nodes \union {"first", "second"}, stp_refcache_add_item(c, name, data)
  PROVE  \A d \in Caches : \A k \in DOMAIN cache'[d] :
           \/ k \in DOMAIN cache[d] /\ cache'[d][k] = cache[d][k]
           \/ d = c /\ cache'[d][k].name = name /\ cache'[d][k].content = data
<1>1. CASE Position(c, name) # 0
  BY <1>1 DEF stp_refcache_add_item
<1>2. CASE Position(c, name) = 0
  <2> DEFINE item  == [name |-> name, content |-> data]
             old   == cache[c]
             items == Append(old, item)
  <2>1. cache' = [cache EXCEPT ![c] = items]
    BY <1>2 DEF stp_refcache_add_item, add_item_to_cache
  <2>2. old \in Seq(Items) /\ item \in Items /\ item.name = name /\ item.content = data
        /\ cache \in [Caches -> Seq(Items)]
    BY DEF RefInv, RefTypeOK, Items
  <2> HIDE DEF item
  <2>3. /\ Len(old) \in Nat /\ DOMAIN old = 1 .. Len(old) /\ DOMAIN items = 1 .. Len(old) + 1
        /\ items[Len(old) + 1] = item
        /\ \A k \in 1 .. Len(old) : items[k] = old[k]
    <3> HIDE DEF old
    <3> QED  BY <2>2
  <2> HIDE DEF items
  <2>4. ASSUME NEW k \in DOMAIN items
        PROVE  (k \in DOMAIN old /\ items[k] = old[k]) \/ items[k] = item
    <3>1. k \in 1 .. Len(old) \/ k = Len(old) + 1  BY <2>3, <2>4
    <3> QED  BY <2>3, <3>1
  <2>5. \A d \in Caches : cache'[d] = IF d = c THEN items ELSE cache[d]
    BY <2>1, <2>2
  <2> QED  BY <2>2, <2>4, <2>5
<1> QED  BY <1>1, <1>2

(* One client's operations leave every other cache as it is. *)
OtherOperation(c, name) ==
  \/ stp_refcache_create(c)
  \/ stp_refcache_add_item(c, name, "first")
  \/ stp_refcache_replace_item(c, name, "second")
  \/ stp_refcache_remove_item(c, name)
  \/ stp_refcache_destroy(c)

LEMMA OtherFrame ==
  ASSUME RefInv, NEW c \in Caches, NEW name, OtherOperation(c, name)
  PROVE  \A d \in Caches : d # c => cache'[d] = cache[d]
<1>1. cache' = cache \/ \E items : cache' = [cache EXCEPT ![c] = items]
  <2>1. CASE stp_refcache_create(c)  BY <2>1 DEF stp_refcache_create
  <2>2. CASE stp_refcache_add_item(c, name, "first")
    BY <2>2 DEF stp_refcache_add_item, add_item_to_cache
  <2>3. CASE stp_refcache_replace_item(c, name, "second")
    <3>1. CASE Position(c, name) = 0
      BY <2>3, <3>1 DEF stp_refcache_replace_item, add_item_to_cache
    <3>2. CASE Position(c, name) # 0
      <4>1. cache' = [cache EXCEPT ![c] = [cache[c] EXCEPT ![Position(c, name)].content = "second"]]
        BY <2>3, <3>2 DEF stp_refcache_replace_item, RefInv, RefTypeOK
      <4> QED  BY <4>1
    <3> QED  BY <3>1, <3>2
  <2>4. CASE stp_refcache_remove_item(c, name)  BY <2>4 DEF stp_refcache_remove_item
  <2>5. CASE stp_refcache_destroy(c)  BY <2>5 DEF stp_refcache_destroy
  <2> QED  BY <2>1, <2>2, <2>3, <2>4, <2>5 DEF OtherOperation
<1> QED  BY <1>1 DEF RefInv, RefTypeOK

LEMMA OtherOperationOK ==
  ASSUME RefInv, NEW c \in Caches, NEW name \in Files, OtherOperation(c, name)
  PROVE  RefInv'
BY CreateOK, AddOK, ReplaceOK, RemoveOK, DestroyOK DEF OtherOperation

-----------------------------------------------------------------------------
(* The inductive invariant of the parsed files. *)

(* Callers own what no cache has. *)
OwnedAreUncached == \A n \in Nodes : n \in owned <=> cached_xml_files[n] = Uncached

(* What the caches of parsed files hold are nodes, recorded under the cache *)
(* they are in: no node is in two.                                          *)
CachedAreRecorded ==
  \A c \in XmlCaches : \A k \in DOMAIN cache[c] :
    cache[c][k].content \in Nodes /\ cached_xml_files[cache[c][k].content] = c

(* The caches, the trees and their records, whatever the last call was. *)
StateInv ==
  /\ docs \in [Nodes -> (Files \X TopNodes \X Paths) \union {NULL}]
  /\ cached_xml_files \in [Nodes -> XmlCaches \union {Uncached, NULL}]
  /\ owned \subseteq Nodes
  /\ RefInv
  /\ \A n \in Nodes : cached_xml_files[n] # NULL <=> docs[n] # NULL
  /\ CachedNodesLive /\ CachedAreRecorded /\ OwnedAreUncached

(* The last call. *)
CallInv ==
  /\ asked \in (Files \X TopNodes \X Paths) \union {NULL}
  /\ result \in Nodes \union {NULL}
  /\ aborted \in BOOLEAN
  /\ ReturnsWhatWasAsked

(* The inductive invariant. *)
XInv == StateInv /\ CallInv

(* The name of a file and what its cache is for make a document. *)
LEMMA DocumentIs ==
  ASSUME NEW name, NEW top, NEW path
  PROVE  <<name>> \o <<top, path>> = <<name, top, path>>
<1> DEFINE S == {name, top, path}
           l == <<name>> \o <<top, path>>
           r == <<name, top, path>>
<1>1. <<name>> \in Seq(S) /\ <<top, path>> \in Seq(S) /\ r \in Seq(S)  OBVIOUS
<1>2. /\ l \in Seq(S) /\ Len(l) = Len(<<name>>) + Len(<<top, path>>)
      /\ \A i \in 1 .. Len(<<name>>) + Len(<<top, path>>) :
           l[i] = IF i <= Len(<<name>>) THEN <<name>>[i] ELSE <<top, path>>[i - Len(<<name>>)]
  BY <1>1, ConcatProperties, Zenon
<1>3. Len(<<name>>) = 1 /\ Len(<<top, path>>) = 2 /\ Len(r) = 3  OBVIOUS
<1>4. /\ <<name>>[1] = name /\ <<top, path>>[1] = top /\ <<top, path>>[2] = path
      /\ r[1] = name /\ r[2] = top /\ r[3] = path
  OBVIOUS
<1>5. \A i \in 1 .. 3 : i = 1 \/ i = 2 \/ i = 3  OBVIOUS
<1> HIDE DEF S, l, r
<1>6. \A i \in 1 .. 3 : l[i] = r[i]  BY <1>2, <1>3, <1>4, <1>5
<1>7. l = r  BY <1>1, <1>2, <1>3, <1>6
<1> QED  BY <1>7 DEF l, r

(* The document of an entry, as one of the documents there are. *)
LEMMA DocumentOf ==
  ASSUME NEW name \in Files, NEW c \in XmlCaches
  PROVE  /\ <<name>> \o c \in Files \X TopNodes \X Paths
         /\ <<name>> \o c # NULL
         /\ c \in Caches /\ c # NULL /\ c # Uncached
<1>1. PICK top \in TopNodes, path \in Paths : c = <<top, path>>  BY DEF XmlCaches
<1>2. <<name>> \o <<top, path>> = <<name, top, path>>  BY DocumentIs, Zenon
<1>3. <<name, top, path>> \in Files \X TopNodes \X Paths  OBVIOUS
<1> QED  BY <1>1, <1>2, <1>3, XmlAssumption

(* It holds before the first call: no cache, no tree. *)
THEOREM XmlInitInv == XmlInit => XInv
<1> SUFFICES ASSUME XmlInit PROVE StateInv /\ CallInv  BY DEF XInv
<1>1. <<>> \in Seq(Caches) /\ <<>> \in Seq(Items) /\ <<>> \in Seq(Files)  OBVIOUS
<1>2. RefInv
  <2>1. RefTypeOK  BY <1>1 DEF XmlInit, RefCacheInit, RefTypeOK
  <2>2. IsInjective(<<>>)  BY DEF IsInjective
  <2>3. \A c \in Caches : cache_items[c] = [k \in DOMAIN cache[c] |-> cache[c][k].name]
    <3>1. <<>> = [k \in DOMAIN <<>> |-> <<>>[k].name]  OBVIOUS
    <3> QED  BY <3>1 DEF XmlInit, RefCacheInit
  <2> QED  BY <2>1, <2>2, <2>3 DEF RefInv, ListsAgree, XmlInit, RefCacheInit
<1>3. CachedNodesLive /\ CachedAreRecorded
  <2>1. \A c \in XmlCaches : cache[c] = <<>>
    BY XmlAssumption DEF XmlInit, RefCacheInit
  <2> QED  BY <2>1 DEF CachedNodesLive, CachedAreRecorded
<1>4. \A n \in Nodes : docs[n] = NULL /\ cached_xml_files[n] = NULL  BY DEF XmlInit
<1>5. OwnedAreUncached  BY <1>4, XmlAssumption DEF XmlInit, OwnedAreUncached
<1>6. StateInv  BY <1>2, <1>3, <1>4, <1>5 DEF StateInv, XmlInit
<1>7. CallInv  BY DEF CallInv, XmlInit, ReturnsWhatWasAsked
<1> QED  BY <1>6, <1>7

-----------------------------------------------------------------------------
(* A parse: the new tree has an address that no record and no cache knows.  *)

LEMMA NewNode ==
  ASSUME StateInv, NEW node \in Nodes, docs[node] = NULL
  PROVE  /\ cached_xml_files[node] = NULL
         /\ node \notin owned
         /\ \A c \in XmlCaches : \A k \in DOMAIN cache[c] : cache[c][k].content # node
<1>1. cached_xml_files[node] = NULL  BY DEF StateInv
<1>2. node \notin owned  BY <1>1, XmlAssumption DEF StateInv, OwnedAreUncached
<1>3. ASSUME NEW c \in XmlCaches, NEW k \in DOMAIN cache[c] PROVE cache[c][k].content # node
  BY <1>1, XmlAssumption DEF StateInv, CachedAreRecorded
<1> QED  BY <1>1, <1>2, <1>3

LEMMA ParsedNew ==
  ASSUME StateInv, NEW name \in Files, NEW top \in TopNodes, NEW path \in Paths,
         NEW c, c = Uncached \/ c = <<top, path>>,
         NEW node \in Nodes, docs[node] = NULL,
         docs' = [docs EXCEPT ![node] = <<name, top, path>>],
         owned' = IF c = Uncached THEN owned \union {node} ELSE owned,
         xml_cache_file(name, top, path, c, node)
  PROVE  StateInv'
<1>1. /\ cached_xml_files[node] = NULL /\ node \notin owned
      /\ \A d \in XmlCaches : \A k \in DOMAIN cache[d] : cache[d][k].content # node
  BY NewNode
<1>2. cached_xml_files' = [cached_xml_files EXCEPT ![node] = c]  BY DEF xml_cache_file
<1>3. /\ <<name, top, path>> \in Files \X TopNodes \X Paths /\ <<name, top, path>> # NULL
      /\ <<top, path>> \in XmlCaches /\ c \in XmlCaches \union {Uncached} /\ c # NULL
      /\ XmlCaches \subseteq Caches /\ Uncached \notin XmlCaches
  BY XmlAssumption DEF XmlCaches
<1>4. \A n \in Nodes : /\ docs'[n] = IF n = node THEN <<name, top, path>> ELSE docs[n]
                       /\ cached_xml_files'[n] = IF n = node THEN c ELSE cached_xml_files[n]
  BY <1>2 DEF StateInv
<1>5. /\ docs' \in [Nodes -> (Files \X TopNodes \X Paths) \union {NULL}]
      /\ cached_xml_files' \in [Nodes -> XmlCaches \union {Uncached, NULL}]
      /\ owned' \subseteq Nodes
  BY <1>2, <1>3 DEF StateInv
<1>6. \A n \in Nodes : cached_xml_files'[n] # NULL <=> docs'[n] # NULL
  BY <1>3, <1>4 DEF StateInv
<1>7. OwnedAreUncached'
  BY <1>1, <1>3, <1>4 DEF StateInv, OwnedAreUncached
<1>8. RefInv'
  <2>1. CASE c = Uncached
    BY <2>1 DEF xml_cache_file, StateInv, RefInv, RefTypeOK, ListsAgree, Exists, refcache
  <2>2. CASE c # Uncached
    BY <1>3, <2>2, AddOK DEF xml_cache_file, StateInv
  <2> QED  BY <2>1, <2>2
<1>9. \A d \in XmlCaches : \A k \in DOMAIN cache'[d] :
        \/ k \in DOMAIN cache[d] /\ cache'[d][k] = cache[d][k]
        \/ d = c /\ cache'[d][k].name = name /\ cache'[d][k].content = node
  <2>1. CASE c = Uncached
    BY <2>1 DEF xml_cache_file, refcache
  <2>2. CASE c # Uncached
    <3>1. c \in Caches /\ stp_refcache_add_item(c, name, node) /\ RefInv
      BY <1>3, <2>2 DEF xml_cache_file, StateInv
    <3>2. \A d \in Caches : \A k \in DOMAIN cache'[d] :
            \/ k \in DOMAIN cache[d] /\ cache'[d][k] = cache[d][k]
            \/ d = c /\ cache'[d][k].name = name /\ cache'[d][k].content = node
      BY <3>1, AddFrame
    <3> QED  BY <1>3, <3>2
  <2> QED  BY <2>1, <2>2
<1>10. ASSUME NEW d \in XmlCaches, NEW k \in DOMAIN cache'[d]
       PROVE  /\ cache'[d][k].content \in Nodes
              /\ cached_xml_files'[cache'[d][k].content] = d
              /\ docs'[cache'[d][k].content] = <<cache'[d][k].name>> \o d
  <2>1. CASE k \in DOMAIN cache[d] /\ cache'[d][k] = cache[d][k]
    <3>1. /\ cache[d][k].content \in Nodes /\ cache[d][k].content # node
          /\ cached_xml_files[cache[d][k].content] = d
          /\ docs[cache[d][k].content] = <<cache[d][k].name>> \o d
      BY <1>1, <2>1 DEF StateInv, CachedAreRecorded, CachedNodesLive
    <3> QED  BY <1>4, <2>1, <3>1
  <2>2. CASE d = c /\ cache'[d][k].name = name /\ cache'[d][k].content = node
    <3>1. d = <<top, path>>  BY <1>3, <2>2
    <3>2. <<name>> \o d = <<name, top, path>>  BY <3>1, DocumentIs, Zenon
    <3>3. docs'[node] = <<name>> \o d  BY <1>4, <3>2
    <3> QED  BY <1>4, <2>2, <3>3
  <2> QED  BY <1>9, <2>1, <2>2
<1>11. (CachedNodesLive /\ CachedAreRecorded)'
  BY <1>10 DEF CachedNodesLive, CachedAreRecorded
<1> QED  BY <1>5, <1>6, <1>7, <1>8, <1>11 DEF StateInv

LEMMA StateUnchanged ==
  ASSUME StateInv, UNCHANGED <<refcache, xml>>
  PROVE  StateInv'
<1>1. RefInv'
  BY DEF StateInv, RefInv, RefTypeOK, ListsAgree, Exists, refcache
<1>2. (CachedNodesLive /\ CachedAreRecorded /\ OwnedAreUncached)'
  BY DEF StateInv, refcache, xml, CachedNodesLive, CachedAreRecorded, OwnedAreUncached
<1> QED  BY <1>1, <1>2 DEF StateInv, xml

(* What the call returned: nothing, or the document it asked for. *)
LEMMA CallOK ==
  ASSUME aborted' \in BOOLEAN,
         asked' \in (Files \X TopNodes \X Paths) \union {NULL},
         \/ result' = NULL
         \/ result' \in Nodes /\ docs'[result'] = asked'
  PROVE  CallInv'
BY DEF CallInv, ReturnsWhatWasAsked

LEMMA ParseOK ==
  ASSUME XInv, NEW name \in Files, NEW top \in TopNodes, NEW path \in Paths,
         NEW c, c = Uncached \/ c = <<top, path>>,
         xml_parse_file_from_path(name, top, path, c)
  PROVE  XInv'
<1>1. StateInv /\ CallInv  BY DEF XInv
<1>2. asked' = <<name, top, path>> /\ asked' \in Files \X TopNodes \X Paths
  BY DEF xml_parse_file_from_path
<1>3. CASE result' = NULL /\ aborted' \in BOOLEAN /\ UNCHANGED <<refcache, xml>>
  BY <1>1, <1>2, <1>3, StateUnchanged, CallOK DEF XInv
<1>4. ASSUME NEW node \in Nodes, docs[node] = NULL,
             docs' = [docs EXCEPT ![node] = <<name, top, path>>],
             result' = node,
             owned' = IF c = Uncached THEN owned \union {node} ELSE owned,
             IF cached_xml_files[node] # NULL
             THEN aborted' = TRUE /\ UNCHANGED <<refcache, cached_xml_files>>
             ELSE xml_cache_file(name, top, path, c, node) /\ UNCHANGED aborted
      PROVE  XInv'
  <2>1. cached_xml_files[node] = NULL  BY <1>1, <1>4, NewNode
  <2>2. xml_cache_file(name, top, path, c, node) /\ aborted' = aborted  BY <1>4, <2>1
  <2>3. StateInv'  BY <1>1, <1>4, <2>2, ParsedNew
  <2>4. docs'[node] = asked' /\ aborted' \in BOOLEAN
    BY <1>1, <1>2, <1>4, <2>2 DEF StateInv, CallInv
  <2> QED  BY <1>2, <1>4, <2>3, <2>4, CallOK DEF XInv
<1> QED  BY <1>3, <1>4 DEF xml_parse_file_from_path

LEMMA ParseCachedOK ==
  ASSUME XInv, NEW name \in Files, NEW top \in TopNodes, NEW path \in Paths,
         ParseCached(name, top, path)
  PROVE  XInv'
<1> DEFINE c    == <<top, path>>
           data == stp_refcache_find_item(c, name)
<1>1. StateInv /\ CallInv /\ RefInv /\ c \in XmlCaches /\ c \in Caches
  BY XmlAssumption DEF XInv, StateInv, XmlCaches
<1>2. CASE data = NULL
  BY <1>2, ParseOK DEF ParseCached, CacheFor
<1>3. CASE data # NULL
  <2> DEFINE k == Position(c, name)
  <2>1. k # 0 /\ data = cache[c][k].content  BY <1>3 DEF stp_refcache_find_item
  <2>2. k \in DOMAIN cache[c] /\ cache[c][k].name = name
    BY <1>1, <2>1, PositionFacts DEF RefInv, RefTypeOK
  <2>3. /\ asked' = <<name, top, path>> /\ result' = data
        /\ UNCHANGED <<refcache, xml, aborted>>
    BY <1>3 DEF ParseCached, CacheFor
  <2> HIDE DEF k, data, c
  <2>4. data \in Nodes /\ docs[data] = <<name>> \o c
    BY <1>1, <2>1, <2>2 DEF StateInv, CachedNodesLive, CachedAreRecorded
  <2>5. docs[data] = <<name, top, path>>  BY <2>4, DocumentIs, Zenon DEF c
  <2>6. docs'[data] = asked' /\ aborted' \in BOOLEAN
    BY <1>1, <2>3, <2>5 DEF xml, CallInv
  <2>7. asked' \in Files \X TopNodes \X Paths  BY <2>3
  <2> QED  BY <1>1, <2>3, <2>4, <2>6, <2>7, StateUnchanged, CallOK DEF XInv
<1> QED  BY <1>2, <1>3

(* A tree that is freed is in no cache: its owner got it uncached. *)
LEMMA FreeOK ==
  ASSUME XInv, NEW node \in Nodes, Free(node)
  PROVE  XInv'
<1>1. StateInv /\ CallInv  BY DEF XInv
<1>2. node \in owned /\ cached_xml_files[node] = Uncached /\ cached_xml_files[node] # NULL
  BY <1>1, XmlAssumption DEF Free, StateInv, OwnedAreUncached
<1>3. /\ UNCHANGED refcache /\ cached_xml_files' = [cached_xml_files EXCEPT ![node] = NULL]
      /\ docs' = [docs EXCEPT ![node] = NULL] /\ owned' = owned \ {node}
      /\ aborted' = aborted /\ asked' = NULL /\ result' = NULL
  BY <1>2 DEF Free, Unrecorded
<1>4. \A n \in Nodes : /\ docs'[n] = IF n = node THEN NULL ELSE docs[n]
                       /\ cached_xml_files'[n] = IF n = node THEN NULL ELSE cached_xml_files[n]
  BY <1>1, <1>3 DEF StateInv
<1>5. ASSUME NEW c \in XmlCaches, NEW k \in DOMAIN cache[c]
      PROVE  cache[c][k].content \in Nodes /\ cache[c][k].content # node
  BY <1>1, <1>2, XmlAssumption DEF StateInv, CachedAreRecorded
<1>6. cache' = cache  BY <1>3 DEF refcache
<1>7. (CachedNodesLive /\ CachedAreRecorded)'
  BY <1>1, <1>4, <1>5, <1>6 DEF StateInv, CachedNodesLive, CachedAreRecorded
<1>8. RefInv'
  BY <1>1, <1>3 DEF StateInv, RefInv, RefTypeOK, ListsAgree, Exists, refcache
<1>9. OwnedAreUncached'
  BY <1>1, <1>3, <1>4, XmlAssumption DEF StateInv, OwnedAreUncached
<1>10. /\ docs' \in [Nodes -> (Files \X TopNodes \X Paths) \union {NULL}]
       /\ cached_xml_files' \in [Nodes -> XmlCaches \union {Uncached, NULL}]
       /\ owned' \subseteq Nodes
       /\ \A n \in Nodes : cached_xml_files'[n] # NULL <=> docs'[n] # NULL
  BY <1>1, <1>3, <1>4 DEF StateInv
<1>11. StateInv'  BY <1>7, <1>8, <1>9, <1>10 DEF StateInv
<1> QED  BY <1>1, <1>3, <1>11, CallOK DEF XInv, CallInv

LEMMA OtherClientOK ==
  ASSUME XInv, OtherClient
  PROVE  XInv'
<1>1. StateInv /\ CallInv /\ RefInv  BY DEF XInv, StateInv
<1>2. PICK c \in OtherCaches, name \in Files : OtherOperation(c, name)
  BY DEF OtherClient, OtherOperation
<1>3. c \in Caches /\ \A d \in XmlCaches : d \in Caches /\ d # c  BY XmlAssumption
<1>4. RefInv'  BY <1>1, <1>2, <1>3, OtherOperationOK
<1>5. \A d \in XmlCaches : cache'[d] = cache[d]  BY <1>1, <1>2, <1>3, OtherFrame
<1>6. UNCHANGED <<docs, cached_xml_files, owned, aborted>> /\ asked' = NULL /\ result' = NULL
  BY DEF OtherClient, xml
<1>7. (CachedNodesLive /\ CachedAreRecorded)'
  BY <1>1, <1>5, <1>6 DEF StateInv, CachedNodesLive, CachedAreRecorded
<1>8. StateInv'  BY <1>1, <1>4, <1>6, <1>7 DEF StateInv, OwnedAreUncached
<1> QED  BY <1>1, <1>6, <1>8, CallOK DEF XInv, CallInv

LEMMA XStutter ==
  ASSUME XInv, UNCHANGED vars
  PROVE  XInv'
<1>1. StateInv'  BY StateUnchanged DEF vars, XInv
<1>2. CallInv'  BY DEF XInv, vars, call, xml, CallInv, ReturnsWhatWasAsked
<1> QED  BY <1>1, <1>2 DEF XInv

(* Every call of either client keeps it, those that abort included. *)
THEOREM XInductive == XInv /\ [Next]_vars => XInv'
<1> SUFFICES ASSUME XInv, [Next]_vars PROVE XInv'  OBVIOUS
<1>1. ASSUME NEW name \in Files, NEW top \in TopNodes, NEW path \in Paths,
             ParseUncached(name, top, path)
      PROVE  XInv'
  BY <1>1, ParseOK DEF ParseUncached
<1>2. CASE UNCHANGED vars  BY <1>2, XStutter
<1> QED
  BY <1>1, <1>2, ParseCachedOK, FreeOK, OtherClientOK DEF Next, Aborted

(* The caches and the records of addresses always fit each other. *)
THEOREM XInvHolds == Spec => []XInv
BY XmlInitInv, XInductive, PTL DEF Spec

(* The names shown are those of the caches and items there are. *)
THEOREM ListsAlwaysAgree == Spec => []ListsAgree
<1>1. XInv => ListsAgree  BY DEF XInv, StateInv, RefInv
<1> QED  BY <1>1, XInvHolds, PTL

(* Neither assertion on recorded addresses ever fires, and every variable   *)
(* keeps its type.                                                          *)
THEOREM LiveNodesRecorded == Spec => []RecordsLiveNodes
<1>1. XInv => RecordsLiveNodes
  BY DEF XInv, StateInv, CallInv, RecordsLiveNodes, TypeOK, RefInv, RefTypeOK, Items
<1> QED  BY <1>1, XInvHolds, PTL

(* No cache holds a freed tree or one that is not what it is for. *)
THEOREM CachedNodesAreLive == Spec => []CachedNodesLive
<1>1. XInv => CachedNodesLive  BY DEF XInv, StateInv
<1> QED  BY <1>1, XInvHolds, PTL

(* A parse returns the document that was asked for, cached or not. *)
THEOREM WhatWasAskedIsReturned == Spec => []ReturnsWhatWasAsked
<1>1. XInv => ReturnsWhatWasAsked  BY DEF XInv, CallInv
<1> QED  BY <1>1, XInvHolds, PTL
=============================================================================
