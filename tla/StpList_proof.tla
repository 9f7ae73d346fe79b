---------------------------- MODULE StpList_proof ----------------------------
(***************************************************************************)
(* For every set of nodes, names and name functions, and lists of every    *)
(* length: as long as no caller inserts before a node, the pointers of the *)
(* nodes are the promised list, no cache outlives what it caches, and the  *)
(* lookups by index and by name return the right node.                     *)
(***************************************************************************)
EXTENDS StpList, SequenceTheorems, TLAPS

(* Every caller of stp_list_item_create passes NULL for `next': only then  *)
(* are the new nodes put where list.h says.                                *)
AppendsOnly == Befores = {NULL}

(* What is looked for; between the operations there is no cursor. *)
WantOK ==
  CASE pc = "idle"     -> node = NULL
    [] pc = "index"    -> want \in {"index"} \X (-1 .. Len(order) - 1)
    [] pc = "name"     -> want \in Kinds \X Names
    [] pc = "returned" -> want \in ({"index"} \X Int) \union (Kinds \X Names)
    [] OTHER           -> TRUE

(* The index cache is clear, or it has what is at its index, be it NULL.   *)
IndexCacheOK ==
  \/ index_cache = 0 /\ index_cache_node = NULL
  \/ index_cache_node = At(index_cache + 1)

(* A walk by index has the node at its index, and is on its way: it cannot *)
(* leave the list before it has reached an index of the list.              *)
IndexWalkOK ==
  pc = "index" =>
    /\ node = At(i + 1)
    /\ \/ d = "forward" /\ want[2] = -1 /\ i \in 0 .. Len(order)
       \/ d = "forward" /\ 0 <= i /\ i <= want[2]
       \/ d = "backward" /\ want[2] <= i /\ 0 <= want[2] /\ i < Len(order)

(* A walk by name has passed no node of that name. *)
NameWalkOK ==
  pc = "name" =>
    /\ i \in 0 .. Len(order) /\ node = At(i + 1)
    /\ \A k \in 1 .. i : ~Named(order[k], want[1], want[2])

ListInv ==
  /\ WellLinked
  /\ IndexCacheOK
  /\ \A kind \in Kinds : name_cache_node[kind] # NULL => name_cache_node[kind] \in live
  /\ WantOK /\ IndexWalkOK /\ NameWalkOK
  /\ IndexLookupRight /\ NameLookupRight

-----------------------------------------------------------------------------
(* RemoveAt closes the gap. *)
LEMMA RemoveAtFacts ==
  ASSUME NEW S, NEW s \in Seq(S), NEW k \in 1 .. Len(s)
  PROVE  /\ RemoveAt(s, k) \in Seq(S)
         /\ Len(RemoveAt(s, k)) = Len(s) - 1
         /\ \A m \in 1 .. Len(s) - 1 : RemoveAt(s, k)[m] = s[IF m < k THEN m ELSE m + 1]
<1>1. Len(s) \in Nat /\ k \in Int  OBVIOUS
<1> DEFINE before == SubSeq(s, 1, k - 1)
           behind == SubSeq(s, k + 1, Len(s))
<1>2. /\ before \in Seq(S) /\ Len(before) = k - 1
      /\ \A m \in 1 .. k - 1 : before[m] = s[m]
  BY <1>1
<1>3. /\ behind \in Seq(S) /\ Len(behind) = Len(s) - k
      /\ \A m \in 1 .. Len(s) - k : behind[m] = s[k + m]
  BY <1>1
<1>4. RemoveAt(s, k) = before \o behind  BY DEF RemoveAt
<1> HIDE DEF before, behind
<1>5. /\ before \o behind \in Seq(S) /\ Len(before \o behind) = Len(s) - 1
      /\ \A m \in 1 .. Len(s) - 1 :
           (before \o behind)[m] = IF m <= k - 1 THEN before[m] ELSE behind[m - (k - 1)]
  <2>1. /\ before \o behind \in Seq(S)
        /\ Len(before \o behind) = Len(before) + Len(behind)
        /\ \A m \in 1 .. Len(before) + Len(behind) :
             (before \o behind)[m] = IF m <= Len(before) THEN before[m] ELSE behind[m - Len(before)]
    BY <1>2, <1>3, ConcatProperties, Zenon
  <2>2. Len(before) + Len(behind) = Len(s) - 1  BY <1>1, <1>2, <1>3
  <2> QED  BY <1>2, <2>1, <2>2
<1>6. ASSUME NEW m \in 1 .. Len(s) - 1
      PROVE  (before \o behind)[m] = s[IF m < k THEN m ELSE m + 1]
  <2>1. CASE m < k
    <3>1. m \in 1 .. k - 1 /\ m <= k - 1  BY <2>1, <1>1
    <3> QED  BY <2>1, <3>1, <1>2, <1>5
  <2>2. CASE ~(m < k)
    <3>1. m - (k - 1) \in 1 .. Len(s) - k /\ ~(m <= k - 1) /\ k + (m - (k - 1)) = m + 1
      BY <2>2, <1>1
    <3>2. (before \o behind)[m] = behind[m - (k - 1)]  BY <3>1, <1>5
    <3>3. behind[m - (k - 1)] = s[k + (m - (k - 1))]  BY <3>1, <1>3
    <3> QED  BY <2>2, <3>1, <3>2, <3>3
  <2> QED  BY <2>1, <2>2
<1> QED  BY <1>4, <1>5, <1>6

(* A node of the list has one position. *)
LEMMA PositionFacts ==
  ASSUME WellLinked, NEW n \in live
  PROVE  /\ n \in Nodes /\ n # NULL /\ PositionOf(n) \in 1 .. Len(order)
         /\ order[PositionOf(n)] = n
         /\ next[n] = At(PositionOf(n) + 1) /\ prev[n] = At(PositionOf(n) - 1)
<1>1. \E k \in DOMAIN order : order[k] = n  BY DEF live
<1>2. PositionOf(n) \in DOMAIN order /\ order[PositionOf(n)] = n
  <2> DEFINE P(k) == k \in DOMAIN order /\ order[k] = n
  <2>1. \E k : P(k)  BY <1>1
  <2>2. P(CHOOSE k : P(k))  BY <2>1, Zenon
  <2>3. PositionOf(n) = CHOOSE k \in DOMAIN order : order[k] = n  BY DEF PositionOf
  <2> QED  BY <1>1, <2>3
<1>3. order \in Seq(Nodes)  BY DEF WellLinked, TypeOK
<1>4. DOMAIN order = 1 .. Len(order) /\ n \in Nodes  BY <1>2, <1>3
<1> QED  BY <1>2, <1>4, ListAssumption DEF WellLinked

(* What is at a place of the list. *)
LEMMA AtFacts ==
  ASSUME order \in Seq(Nodes)
  PROVE  /\ Len(order) \in Nat /\ DOMAIN order = 1 .. Len(order) /\ live \subseteq Nodes
         /\ \A k : At(k) \in Pointers /\ (At(k) # NULL <=> k \in 1 .. Len(order))
         /\ \A k \in 1 .. Len(order) : At(k) = order[k] /\ At(k) \in live
<1>1. /\ Len(order) \in Nat /\ DOMAIN order = 1 .. Len(order)
      /\ \A k \in DOMAIN order : order[k] \in Nodes
  OBVIOUS
<1> QED  BY <1>1, ListAssumption DEF At, live, Pointers

(* Between two operations the cursor is put away. *)
LEMMA NoCursor ==
  ASSUME ListInv, pc = "idle"
  PROVE  node = NULL
BY DEF ListInv, WantOK

(* An operation that clears the caches and starts no walk keeps the         *)
(* invariant when it leaves a well-linked list.                             *)
LEMMA ClearedKeeps ==
  ASSUME WellLinked', clear_cache, pc' \in {"idle", "destroy"},
         pc' = "idle" => node' = NULL
  PROVE  ListInv'
<1>1. index_cache' = 0 /\ index_cache_node' = NULL /\ \A kind \in Kinds : name_cache_node'[kind] = NULL
  BY DEF clear_cache
<1>2. pc' # "index" /\ pc' # "name" /\ pc' # "returned"  OBVIOUS
<1>3. IndexCacheOK'  BY <1>1 DEF IndexCacheOK
<1>4. WantOK' /\ IndexWalkOK' /\ NameWalkOK' /\ IndexLookupRight' /\ NameLookupRight'
  BY <1>2 DEF WantOK, IndexWalkOK, NameWalkOK, IndexLookupRight, NameLookupRight
<1> QED  BY <1>1, <1>3, <1>4 DEF ListInv

(* What clear_cache leaves has the types of the caches. *)
LEMMA ClearedTypes ==
  ASSUME clear_cache, NEW n \in Nat
  PROVE  /\ index_cache' \in -1 .. n /\ index_cache_node' \in Pointers
         /\ name_cache' \in [Kinds -> Names \union {NULL}]
         /\ name_cache_node' \in [Kinds -> Pointers]
BY DEF clear_cache, Pointers

-----------------------------------------------------------------------------
(* A node appended: the end of the list points to it and it points back.    *)
LEMMA CreateKeeps ==
  ASSUME AppendsOnly, ListInv,
         NEW ln \in Nodes, NEW before \in Befores, NEW value \in Data,
         ItemCreate(ln, before, value)
  PROVE  ListInv'
<1> DEFINE n == Len(order)
           newPrev == IF start # NULL THEN end ELSE NULL
           newStart == IF start = NULL THEN ln ELSE start
           pointed == [next EXCEPT ![ln] = NULL]
<1>1. before = NULL /\ ln # NULL  BY ListAssumption DEF AppendsOnly
<1>2. /\ ln \notin live /\ clear_cache /\ data' = [data EXCEPT ![ln] = value]
      /\ start' = newStart /\ end' = ln
      /\ next' = IF newPrev = NULL THEN pointed ELSE [pointed EXCEPT ![newPrev] = ln]
      /\ prev' = [m \in Nodes |-> IF m = ln THEN newPrev ELSE prev[m]]
      /\ length' = length + 1 /\ order' = Append(order, ln)
      /\ UNCHANGED loop /\ pc = "idle"
  <2>1. /\ ln \notin live /\ clear_cache /\ data' = [data EXCEPT ![ln] = value]
        /\ start' = newStart /\ end' = ln
        /\ next' = IF newPrev = NULL THEN pointed ELSE [pointed EXCEPT ![newPrev] = ln]
        /\ length' = length + 1 /\ order' = Append(order, ln)
        /\ UNCHANGED loop /\ pc = "idle"
    BY <1>1 DEF ItemCreate
  <2>2. prev' = [m \in Nodes |-> CASE m = ln     -> newPrev
                                   [] m = before -> ln
                                   [] OTHER      -> prev[m]]
    BY <1>1 DEF ItemCreate
  <2>3. \A m \in Nodes : m # before  BY <1>1, ListAssumption
  <2> HIDE DEF newPrev
  <2>4. prev' = [m \in Nodes |-> IF m = ln THEN newPrev ELSE prev[m]]  BY <2>2, <2>3
  <2> QED  BY <2>1, <2>4
<1>3. /\ order \in Seq(Nodes) /\ next \in [Nodes -> Pointers] /\ prev \in [Nodes -> Pointers]
      /\ data \in [Nodes -> Data \union {NULL}] /\ start = At(1) /\ end = At(n) /\ length = n
      /\ \A k \in DOMAIN order : next[order[k]] = At(k + 1) /\ prev[order[k]] = At(k - 1)
      /\ \A k, m \in DOMAIN order : order[k] = order[m] => k = m
      /\ node \in Pointers /\ i \in Int /\ d \in {"forward", "backward"} /\ result \in Pointers
  BY DEF ListInv, WellLinked, TypeOK
<1>4. /\ n \in Nat /\ DOMAIN order = 1 .. n
      /\ \A k : At(k) \in Pointers /\ (At(k) # NULL <=> k \in 1 .. n)
      /\ \A k \in 1 .. n : At(k) = order[k] /\ At(k) \in live
  BY <1>3, AtFacts
<1>5. /\ order' \in Seq(Nodes) /\ Len(order') = n + 1 /\ DOMAIN order' = 1 .. n + 1
      /\ \A k \in 1 .. n : order'[k] = order[k]
      /\ order'[n + 1] = ln
  BY <1>2, <1>3
<1> HIDE DEF n
<1>6. \A k \in 1 .. n + 1 : k \in 1 .. n \/ k = n + 1  BY <1>4
<1>7. \A k : At(k)' = IF k = n + 1 THEN ln ELSE At(k)
  <2>1. n + 1 \in 1 .. n + 1 /\ \A k \in 1 .. n : k \in 1 .. n + 1 /\ k # n + 1  BY <1>4
  <2>2. \A k : k \in 1 .. n + 1 <=> k \in 1 .. n \/ k = n + 1  BY <1>6, <2>1
  <2> QED  BY <1>4, <1>5, <2>1, <2>2 DEF At
<1>8. newPrev = At(n)
  <2>1. CASE n = 0  BY <1>3, <1>4, <2>1
  <2>2. CASE n # 0
    <3>1. 1 \in 1 .. n  BY <1>4, <2>2
    <3> QED  BY <1>3, <1>4, <3>1
  <2> QED  BY <2>1, <2>2
<1>9. newPrev \in Pointers /\ newPrev # ln  BY <1>1, <1>2, <1>4, <1>8 DEF Pointers
<1> HIDE DEF newPrev
<1>10. ln \in Pointers /\ NULL \in Pointers  BY DEF Pointers
<1>11. /\ next' \in [Nodes -> Pointers] /\ prev' \in [Nodes -> Pointers]
       /\ data' \in [Nodes -> Data \union {NULL}] /\ start' \in Pointers /\ end' \in Pointers
       /\ length' \in Nat
  <2>1. next' \in [Nodes -> Pointers]  BY <1>2, <1>3, <1>10
  <2>2. prev' \in [Nodes -> Pointers]  BY <1>2, <1>3, <1>9
  <2>3. start' \in Pointers /\ end' \in Pointers /\ length' \in Nat
    BY <1>2, <1>3, <1>4, <1>10
  <2> QED  BY <1>2, <1>3, <2>1, <2>2, <2>3
<1>12. start' = At(1)' /\ end' = At(Len(order))' /\ length' = Len(order')
  <2>1. CASE n = 0
    <3>1. n + 1 = 1 /\ start = NULL  BY <1>3, <1>4, <2>1
    <3> QED  BY <1>2, <1>3, <1>5, <1>7, <3>1
  <2>2. CASE n # 0
    <3>1. 1 \in 1 .. n /\ n + 1 # 1  BY <1>4, <2>2
    <3> QED  BY <1>2, <1>3, <1>4, <1>5, <1>7, <3>1
  <2> QED  BY <2>1, <2>2
<1>13. ASSUME NEW k \in 1 .. n + 1
       PROVE  next'[order'[k]] = At(k + 1)' /\ prev'[order'[k]] = At(k - 1)'
  <2>1. CASE k = n + 1
    <3>1. k + 1 # n + 1 /\ k + 1 \notin 1 .. n /\ k - 1 = n /\ k - 1 # n + 1
      BY <1>4, <2>1
    <3>2. next'[ln] = NULL  BY <1>2, <1>3, <1>9
    <3>3. prev'[ln] = At(n)  BY <1>2, <1>8
    <3> QED  BY <1>4, <1>5, <1>7, <2>1, <3>1, <3>2, <3>3
  <2>2. CASE k \in 1 .. n
    <3>1. order[k] # ln /\ order[k] \in Nodes /\ order'[k] = order[k]
      BY <1>2, <1>3, <1>4, <1>5, <2>2
    <3>2. k - 1 # n + 1  BY <1>4, <2>2
    <3>3. prev'[order[k]] = At(k - 1)'  BY <1>2, <1>3, <1>4, <1>7, <2>2, <3>1, <3>2
    <3>4. CASE k = n
      <4>1. newPrev = order[k] /\ newPrev # NULL  BY <1>4, <1>8, <2>2, <3>4
      <4>2. next'[order[k]] = ln  BY <1>2, <1>3, <3>1, <4>1
      <4> QED  BY <1>7, <3>1, <3>3, <3>4, <4>2
    <3>5. CASE k # n
      <4>1. k + 1 # n + 1 /\ n \in 1 .. n  BY <1>4, <2>2, <3>5
      <4>2. newPrev # order[k]  BY <1>3, <1>4, <1>8, <2>2, <3>5, <4>1
      <4>3. next'[order[k]] = next[order[k]]  BY <1>2, <1>3, <3>1, <4>2
      <4> QED  BY <1>3, <1>4, <1>7, <2>2, <3>1, <3>3, <4>1, <4>3
    <3> QED  BY <3>4, <3>5
  <2> QED  BY <1>6, <2>1, <2>2
<1>14. ASSUME NEW k \in 1 .. n + 1, NEW m \in 1 .. n + 1, order'[k] = order'[m]
       PROVE  k = m
  <2>1. \A l \in 1 .. n : order'[l] # ln  BY <1>2, <1>4, <1>5
  <2> QED  BY <1>3, <1>4, <1>5, <1>6, <1>14, <2>1
<1>15. TypeOK'
  <2>1. /\ index_cache' \in -1 .. Len(order') /\ index_cache_node' \in Pointers
        /\ name_cache' \in [Kinds -> Names \union {NULL}]
        /\ name_cache_node' \in [Kinds -> Pointers]
    <3>1. Len(order') \in Nat  BY <1>4, <1>5
    <3> QED  BY <1>2, <3>1, ClearedTypes
  <2>2. UNCHANGED <<pc, node, i, d, result>>  BY <1>2 DEF loop
  <2> QED  BY <1>2, <1>3, <1>5, <1>11, <2>1, <2>2 DEF TypeOK
<1>16. WellLinked'  BY <1>5, <1>12, <1>13, <1>14, <1>15 DEF WellLinked
<1>17. node' = NULL /\ pc' = "idle"  BY <1>2, NoCursor DEF loop
<1> QED  BY <1>2, <1>16, <1>17, ClearedKeeps

(* A node unlinked: its neighbours point past it. *)
LEMMA DestroyLinks ==
  ASSUME ListInv, NEW item, ItemDestroy(item)
  PROVE  /\ order' \in Seq(Nodes)
         /\ next' \in [Nodes -> Pointers] /\ prev' \in [Nodes -> Pointers]
         /\ data' \in [Nodes -> Data \union {NULL}] /\ start' \in Pointers /\ end' \in Pointers
         /\ length' \in Nat
         /\ start' = At(1)' /\ end' = At(Len(order))' /\ length' = Len(order')
         /\ \A k \in DOMAIN order' : next'[order'[k]] = At(k + 1)' /\ prev'[order'[k]] = At(k - 1)'
         /\ \A k, m \in DOMAIN order' : order'[k] = order'[m] => k = m
<1> DEFINE n == Len(order)
           p == PositionOf(item)
           place(k) == IF k < p THEN k ELSE k + 1
           nextOf == IF prev[item] = NULL THEN next ELSE [next EXCEPT ![prev[item]] = next[item]]
           prevOf == IF next[item] = NULL THEN prev ELSE [prev EXCEPT ![next[item]] = prev[item]]
<1>1. /\ item \in live /\ length' = length - 1
      /\ start' = IF prev[item] = NULL THEN next[item] ELSE start
      /\ end' = IF next[item] = NULL THEN prev[item] ELSE end
      /\ next' = [nextOf EXCEPT ![item] = NULL]
      /\ prev' = [prevOf EXCEPT ![item] = NULL]
      /\ data' = [data EXCEPT ![item] = NULL]
      /\ order' = RemoveAt(order, p)
  BY DEF ItemDestroy, EndWithout
<1>2. /\ order \in Seq(Nodes) /\ next \in [Nodes -> Pointers] /\ prev \in [Nodes -> Pointers]
      /\ data \in [Nodes -> Data \union {NULL}] /\ start = At(1) /\ end = At(n) /\ length = n
      /\ \A k \in DOMAIN order : next[order[k]] = At(k + 1) /\ prev[order[k]] = At(k - 1)
      /\ \A k, m \in DOMAIN order : order[k] = order[m] => k = m
      /\ WellLinked
  BY DEF ListInv, WellLinked, TypeOK
<1>3. /\ n \in Nat /\ DOMAIN order = 1 .. n
      /\ \A k : At(k) \in Pointers /\ (At(k) # NULL <=> k \in 1 .. n)
      /\ \A k \in 1 .. n : At(k) = order[k] /\ At(k) \in live
  BY <1>2, AtFacts
<1>4. /\ item \in Nodes /\ p \in 1 .. n /\ order[p] = item
      /\ next[item] = At(p + 1) /\ prev[item] = At(p - 1)
  BY <1>1, <1>2, PositionFacts
<1>5. /\ order' \in Seq(Nodes) /\ Len(order') = n - 1 /\ DOMAIN order' = 1 .. n - 1
      /\ \A k \in 1 .. n - 1 : order'[k] = order[place(k)]
  <2>1. p \in 1 .. Len(order)  BY <1>4
  <2> HIDE DEF p
  <2>2. /\ RemoveAt(order, p) \in Seq(Nodes) /\ Len(RemoveAt(order, p)) = Len(order) - 1
        /\ \A k \in 1 .. Len(order) - 1 : RemoveAt(order, p)[k] = order[IF k < p THEN k ELSE k + 1]
    BY <1>2, <2>1, RemoveAtFacts
  <2> QED  BY <1>1, <2>2
<1> HIDE DEF n, p
<1>6. \A k \in 1 .. n - 1 : place(k) \in 1 .. n /\ place(k) # p
  BY <1>3, <1>4
<1>7. ASSUME NEW k \in Int PROVE At(k)' = At(place(k))
  <2>1. k \in 1 .. n - 1 <=> place(k) \in 1 .. n /\ place(k) # p
    BY <1>3, <1>4
  <2>2. place(k) # p  BY <1>3, <1>4
  <2>3. CASE k \in 1 .. n - 1
    <3>1. At(k)' = order'[k]  BY <1>5, <2>3 DEF At
    <3>2. At(place(k)) = order[place(k)]  BY <1>3, <1>6, <2>3
    <3> QED  BY <1>5, <2>3, <3>1, <3>2
  <2>4. CASE k \notin 1 .. n - 1
    <3>1. At(k)' = NULL  BY <1>5, <2>4 DEF At
    <3>2. At(place(k)) = NULL  BY <1>3, <2>1, <2>2, <2>4
    <3> QED  BY <3>1, <3>2
  <2> QED  BY <2>3, <2>4
<1>8. /\ next' \in [Nodes -> Pointers] /\ prev' \in [Nodes -> Pointers]
      /\ data' \in [Nodes -> Data \union {NULL}] /\ start' \in Pointers /\ end' \in Pointers
  <2>1. next[item] \in Pointers /\ prev[item] \in Pointers /\ NULL \in Pointers
    BY <1>2, <1>4 DEF Pointers
  <2>2. nextOf \in [Nodes -> Pointers] /\ prevOf \in [Nodes -> Pointers]
    BY <1>2, <2>1
  <2> HIDE DEF nextOf, prevOf
  <2>3. start \in Pointers /\ end \in Pointers  BY <1>2, <1>3
  <2> QED  BY <1>1, <1>2, <1>4, <2>1, <2>2, <2>3
<1>9. start' = At(1)' /\ end' = At(Len(order))' /\ length' = Len(order') /\ length' \in Nat
  <2>1. start' = At(place(1))
    <3>1. CASE p = 1
      <4>1. p - 1 \notin 1 .. n /\ place(1) = p + 1  BY <1>3, <3>1
      <4> QED  BY <1>1, <1>3, <1>4, <4>1
    <3>2. CASE p # 1
      <4>1. p - 1 \in 1 .. n /\ place(1) = 1  BY <1>3, <1>4, <3>2
      <4> QED  BY <1>1, <1>2, <1>3, <1>4, <4>1
    <3> QED  BY <3>1, <3>2
  <2>2. end' = At(place(n - 1))
    <3>1. CASE p = n
      <4>1. p + 1 \notin 1 .. n /\ place(n - 1) = p - 1  BY <1>3, <3>1
      <4> QED  BY <1>1, <1>3, <1>4, <4>1
    <3>2. CASE p # n
      <4>1. p + 1 \in 1 .. n /\ place(n - 1) = n  BY <1>3, <1>4, <3>2
      <4> QED  BY <1>1, <1>2, <1>3, <1>4, <4>1
    <3> QED  BY <3>1, <3>2
  <2>3. PICK e \in Int : e = n - 1  BY <1>3
  <2> HIDE DEF place
  <2>4. start' = At(1)' /\ end' = At(e)'
    <3>1. 1 \in Int  OBVIOUS
    <3> QED  BY <1>7, <2>1, <2>2, <2>3, <3>1
  <2>5. At(Len(order))' = At(e)'  BY <1>5, <2>3 DEF At
  <2>6. length' = n - 1 /\ n - 1 \in Nat  BY <1>1, <1>2, <1>3, <1>4
  <2> QED  BY <1>5, <2>4, <2>5, <2>6
<1>10. ASSUME NEW q \in 1 .. n, q # p
       PROVE  /\ next'[order[q]] = IF q = p - 1 THEN At(p + 1) ELSE At(q + 1)
              /\ prev'[order[q]] = IF q = p + 1 THEN At(p - 1) ELSE At(q - 1)
  <2>1. order[q] \in Nodes /\ order[q] # item
    BY <1>2, <1>3, <1>4, <1>10
  <2>2. next'[order[q]] = nextOf[order[q]] /\ prev'[order[q]] = prevOf[order[q]]
    <3>1. DOMAIN nextOf = Nodes /\ DOMAIN prevOf = Nodes  BY <1>2
    <3> HIDE DEF nextOf, prevOf
    <3> QED  BY <1>1, <2>1, <3>1
  <2>3. next[order[q]] = At(q + 1) /\ prev[order[q]] = At(q - 1)  BY <1>2, <1>3
  <2>4. nextOf[order[q]] = IF q = p - 1 THEN At(p + 1) ELSE At(q + 1)
    <3>1. CASE q = p - 1
      <4>1. prev[item] = order[q] /\ prev[item] # NULL  BY <1>3, <1>4, <3>1
      <4> QED  BY <1>2, <1>4, <2>1, <3>1, <4>1
    <3>2. CASE q # p - 1
      <4>1. prev[item] # order[q]
        <5>1. CASE p - 1 \in 1 .. n  BY <1>2, <1>3, <1>4, <3>2, <5>1
        <5>2. CASE p - 1 \notin 1 .. n  BY <1>3, <1>4, <2>1, <5>2
        <5> QED  BY <5>1, <5>2
      <4> QED  BY <1>2, <2>1, <2>3, <3>2, <4>1
    <3> QED  BY <3>1, <3>2
  <2>5. prevOf[order[q]] = IF q = p + 1 THEN At(p - 1) ELSE At(q - 1)
    <3>1. CASE q = p + 1
      <4>1. next[item] = order[q] /\ next[item] # NULL  BY <1>3, <1>4, <3>1
      <4> QED  BY <1>2, <1>4, <2>1, <3>1, <4>1
    <3>2. CASE q # p + 1
      <4>1. next[item] # order[q]
        <5>1. CASE p + 1 \in 1 .. n  BY <1>2, <1>3, <1>4, <3>2, <5>1
        <5>2. CASE p + 1 \notin 1 .. n  BY <1>3, <1>4, <2>1, <5>2
        <5> QED  BY <5>1, <5>2
      <4> QED  BY <1>2, <2>1, <2>3, <3>2, <4>1
    <3> QED  BY <3>1, <3>2
  <2> QED  BY <2>2, <2>4, <2>5
<1>11. ASSUME NEW k \in 1 .. n - 1
       PROVE  next'[order'[k]] = At(k + 1)' /\ prev'[order'[k]] = At(k - 1)'
  <2>1. /\ k \in Int /\ k + 1 \in Int /\ k - 1 \in Int
        /\ place(k) \in 1 .. n /\ place(k) # p /\ order'[k] = order[place(k)]
    BY <1>3, <1>5, <1>6
  <2>2. place(k + 1) = IF place(k) = p - 1 THEN p + 1 ELSE place(k) + 1
    BY <1>3, <1>4
  <2>3. place(k - 1) = IF place(k) = p + 1 THEN p - 1 ELSE place(k) - 1
    BY <1>3, <1>4
  <2>4. At(k + 1)' = At(place(k + 1)) /\ At(k - 1)' = At(place(k - 1))  BY <1>7, <2>1
  <2> HIDE DEF place
  <2> QED  BY <1>10, <2>1, <2>2, <2>3, <2>4
<1>12. ASSUME NEW k \in 1 .. n - 1, NEW m \in 1 .. n - 1, order'[k] = order'[m]
       PROVE  k = m
  <2>1. place(k) = place(m)
    <3> HIDE DEF place
    <3>1. order[place(k)] = order[place(m)]  BY <1>5, <1>12
    <3>2. place(k) \in DOMAIN order /\ place(m) \in DOMAIN order  BY <1>3, <1>6
    <3> QED  BY <1>2, <3>1, <3>2
  <2> QED  BY <1>3, <1>4, <2>1
<1> QED  BY <1>5, <1>8, <1>9, <1>11, <1>12

(* stp_list_item_destroy clears the caches, so nothing else can go stale.   *)
LEMMA DestroyKeeps ==
  ASSUME ListInv, NEW item, ItemDestroy(item), pc' \in {"idle", "destroy"},
         pc' = "idle" => node' = NULL,
         node' \in Pointers, UNCHANGED <<i, d, result>>
  PROVE  ListInv'
<1>1. clear_cache  BY DEF ItemDestroy
<1>2. order' \in Seq(Nodes) /\ Len(order') \in Nat  BY DestroyLinks
<1>3. /\ index_cache' \in -1 .. Len(order') /\ index_cache_node' \in Pointers
      /\ name_cache' \in [Kinds -> Names \union {NULL}]
      /\ name_cache_node' \in [Kinds -> Pointers]
  BY <1>1, <1>2, ClearedTypes
<1>4. i \in Int /\ d \in {"forward", "backward"} /\ result \in Pointers
  BY DEF ListInv, WellLinked, TypeOK
<1>5. TypeOK'  BY <1>2, <1>3, <1>4, DestroyLinks DEF TypeOK
<1>6. WellLinked'  BY <1>5, DestroyLinks DEF WellLinked
<1> QED  BY <1>1, <1>6, ClearedKeeps

(* What depends on the list alone, when the links stay. *)
LEMMA SameList ==
  ASSUME ListInv, UNCHANGED <<next, prev, start, end, length, order>>,
         data' \in [Nodes -> Data \union {NULL}],
         index_cache' \in -1 .. Len(order), index_cache_node' \in Pointers,
         name_cache' \in [Kinds -> Names \union {NULL}], name_cache_node' \in [Kinds -> Pointers],
         pc' \in {"idle", "index", "name", "destroy", "returned"},
         node' \in Pointers, i' \in Int, d' \in {"forward", "backward"}, result' \in Pointers
  PROVE  WellLinked' /\ live' = live /\ \A k : At(k)' = At(k)
<1>1. \A k : At(k)' = At(k)  BY DEF At
<1>2. live' = live  BY DEF live
<1>3. TypeOK'  BY DEF TypeOK, ListInv, WellLinked
<1>4. /\ start' = At(1)' /\ end' = At(Len(order))' /\ length' = Len(order')
      /\ \A k \in DOMAIN order' : next'[order'[k]] = At(k + 1)' /\ prev'[order'[k]] = At(k - 1)'
      /\ \A k, m \in DOMAIN order' : order'[k] = order'[m] => k = m
  <2>1. /\ start = At(1) /\ end = At(Len(order)) /\ length = Len(order)
        /\ \A k \in DOMAIN order : next[order[k]] = At(k + 1) /\ prev[order[k]] = At(k - 1)
        /\ \A k, m \in DOMAIN order : order[k] = order[m] => k = m
    BY DEF ListInv, WellLinked
  <2>2. At(Len(order))' = At(Len(order))  BY DEF At
  <2> QED  BY <1>1, <2>1, <2>2
<1> QED  BY <1>1, <1>2, <1>3, <1>4 DEF WellLinked

(* Back to idle with the caches as they were: another node's data do not    *)
(* matter to them, as a hit on a cached name reads the node's name again.   *)
LEMMA IdleKeeps ==
  ASSUME ListInv, UNCHANGED <<next, prev, start, end, length, order, caches>>,
         data' \in [Nodes -> Data \union {NULL}],
         pc' \in {"idle", "destroy"}, node' \in Pointers, i' \in Int,
         pc' = "idle" => node' = NULL,
         d' \in {"forward", "backward"}, result' \in Pointers
  PROVE  ListInv'
<1>1. UNCHANGED <<index_cache, index_cache_node, name_cache, name_cache_node>>  BY DEF caches
<1>2. WellLinked' /\ live' = live /\ \A k : At(k)' = At(k)
  BY <1>1, SameList DEF ListInv, WellLinked, TypeOK
<1>3. IndexCacheOK'
  <2>1. At(index_cache + 1)' = At(index_cache + 1)  BY <1>1 DEF At
  <2> QED  BY <1>1, <2>1 DEF ListInv, IndexCacheOK
<1>4. \A kind \in Kinds : name_cache_node'[kind] # NULL => name_cache_node'[kind] \in live'
  BY <1>1, <1>2 DEF ListInv
<1>5. pc' # "index" /\ pc' # "name" /\ pc' # "returned"  OBVIOUS
<1>6. WantOK' /\ IndexWalkOK' /\ NameWalkOK' /\ IndexLookupRight' /\ NameLookupRight'
  BY <1>5 DEF WantOK, IndexWalkOK, NameWalkOK, IndexLookupRight, NameLookupRight
<1> QED  BY <1>2, <1>3, <1>4, <1>6 DEF ListInv

(* The operations that change the list, a node or nothing, one by one.      *)
LEMMA ChangesKeep ==
  ASSUME AppendsOnly, ListInv,
         \/ \E ln \in Nodes, before \in Befores, value \in Data : ItemCreate(ln, before, value)
         \/ CreateWithoutData
         \/ \E item \in live : RemoveItem(item) \/ \E value \in Data : SetData(item, value)
         \/ DestroyList \/ DestroyStep \/ Returned
  PROVE  ListInv'
<1>1. /\ node \in Pointers /\ i \in Int /\ d \in {"forward", "backward"} /\ result \in Pointers
      /\ data \in [Nodes -> Data \union {NULL}] /\ NULL \in Pointers
      /\ next \in [Nodes -> Pointers] /\ start \in Pointers /\ order \in Seq(Nodes)
  BY DEF ListInv, WellLinked, TypeOK, Pointers
<1>2. CASE \E ln \in Nodes, before \in Befores, value \in Data : ItemCreate(ln, before, value)
  BY <1>2, CreateKeeps
<1>3. CASE \E item \in live : RemoveItem(item)
  <2>1. PICK item \in live : RemoveItem(item)  BY <1>3
  <2>2. ItemDestroy(item) /\ pc = "idle" /\ UNCHANGED <<pc, node, i, d, result>>
    BY <2>1 DEF RemoveItem, loop
  <2> QED  BY <1>1, <2>2, NoCursor, DestroyKeeps
<1>4. CASE DestroyStep /\ node # NULL
  <2>1. ItemDestroy(node) /\ node' = next[node] /\ UNCHANGED <<pc, i, d, result>> /\ pc = "destroy"
    BY <1>4 DEF DestroyStep
  <2>2. node' \in Pointers  BY <1>1, <1>4, <2>1 DEF Pointers
  <2> QED  BY <2>1, <2>2, DestroyKeeps
<1>5. CASE \E item \in live, value \in Data : SetData(item, value)
  <2>1. PICK item \in live, value \in Data : SetData(item, value)  BY <1>5
  <2>2. data' \in [Nodes -> Data \union {NULL}]  BY <1>1, <2>1 DEF SetData
  <2>3. UNCHANGED <<next, prev, start, end, length, order, caches, loop>> /\ pc = "idle"
    BY <2>1 DEF SetData
  <2> QED  BY <1>1, <2>2, <2>3, NoCursor, IdleKeeps DEF loop
<1>6. CASE CreateWithoutData \/ DestroyList
  <2>1. /\ clear_cache /\ UNCHANGED <<next, prev, data, start, end, length, order>>
        /\ pc' \in {"idle", "destroy"} /\ node' \in {node, start} /\ UNCHANGED <<i, d, result>>
        /\ pc = "idle" /\ (pc' = "idle" => node' = node)
    BY <1>6 DEF CreateWithoutData, DestroyList, links, loop
  <2>2. /\ index_cache' \in -1 .. Len(order) /\ index_cache_node' \in Pointers
        /\ name_cache' \in [Kinds -> Names \union {NULL}]
        /\ name_cache_node' \in [Kinds -> Pointers]
    <3>1. Len(order) \in Nat  BY <1>1
    <3> QED  BY <2>1, <3>1, ClearedTypes
  <2>3. WellLinked'  BY <1>1, <2>1, <2>2, SameList
  <2> QED  BY <2>1, <2>3, NoCursor, ClearedKeeps
<1>7. CASE DestroyStep /\ node = NULL
  <2>1. UNCHANGED <<next, prev, data, start, end, length, order, caches, node, i, d, result>> /\ pc' = "idle"
    BY <1>7 DEF DestroyStep, links
  <2> QED  BY <1>1, <1>7, <2>1, IdleKeeps
<1>8. CASE Returned
  <2>1. /\ UNCHANGED <<next, prev, data, start, end, length, order, caches>> /\ pc' = "idle"
        /\ node' = NULL /\ i' = 0 /\ d' = "forward" /\ result' = NULL
    BY <1>8 DEF Returned, links
  <2> QED  BY <1>1, <2>1, IdleKeeps
<1> QED  BY <1>2, <1>3, <1>4, <1>5, <1>6, <1>7, <1>8

-----------------------------------------------------------------------------
(* What a lookup finds in the list, and what it caches. *)
LEMMA LookupKeeps ==
  ASSUME ListInv, UNCHANGED <<links, order>>,
         node' \in Pointers, i' \in Int, d' \in {"forward", "backward"}, result' \in Pointers,
         pc' \in {"index", "name", "returned"},
         \/ UNCHANGED <<index_cache, index_cache_node>>
         \/ index_cache' \in -1 .. Len(order) /\ index_cache_node' = At(index_cache' + 1),
         \/ UNCHANGED <<name_cache, name_cache_node>>
         \/ \E kind \in Kinds, name \in Names, n \in live : CacheName(kind, name, n)
  PROVE  /\ WellLinked' /\ IndexCacheOK' /\ live' = live /\ \A k : At(k)' = At(k)
         /\ \A kind \in Kinds : name_cache_node'[kind] # NULL => name_cache_node'[kind] \in live'
<1>1. UNCHANGED <<next, prev, data, start, end, length, order>>  BY DEF links
<1>2. /\ data \in [Nodes -> Data \union {NULL}] /\ order \in Seq(Nodes)
      /\ index_cache \in -1 .. Len(order) /\ index_cache_node \in Pointers
      /\ name_cache \in [Kinds -> Names \union {NULL}] /\ name_cache_node \in [Kinds -> Pointers]
  BY DEF ListInv, WellLinked, TypeOK
<1>3. live \subseteq Pointers /\ \A k : At(k) \in Pointers  BY <1>2, AtFacts DEF Pointers
<1>4. index_cache' \in -1 .. Len(order) /\ index_cache_node' \in Pointers
  BY <1>2, <1>3
<1>5. /\ name_cache' \in [Kinds -> Names \union {NULL}] /\ name_cache_node' \in [Kinds -> Pointers]
      /\ \A kind \in Kinds : name_cache_node'[kind] # NULL => name_cache_node'[kind] \in live
  <2>1. CASE UNCHANGED <<name_cache, name_cache_node>>  BY <1>2, <2>1 DEF ListInv
  <2>2. CASE \E kind \in Kinds, name \in Names, n \in live : CacheName(kind, name, n)
    <3>1. PICK kind \in Kinds, name \in Names, n \in live : CacheName(kind, name, n)  BY <2>2
    <3>2. /\ name_cache' = [name_cache EXCEPT ![kind] = name]
          /\ name_cache_node' = [name_cache_node EXCEPT ![kind] = n]
      BY <3>1 DEF CacheName
    <3> QED  BY <1>2, <1>3, <3>2 DEF ListInv
  <2> QED  BY <2>1, <2>2
<1>6. WellLinked' /\ live' = live /\ \A k : At(k)' = At(k)
  BY <1>1, <1>2, <1>4, <1>5, SameList
<1>7. IndexCacheOK'
  <2>1. At(index_cache + 1)' = At(index_cache' + 1)  BY <1>1 DEF At
  <2>2. CASE UNCHANGED <<index_cache, index_cache_node>>
    BY <2>1, <2>2 DEF ListInv, IndexCacheOK
  <2>3. CASE index_cache_node' = At(index_cache' + 1)  BY <2>1, <2>3 DEF IndexCacheOK
  <2> QED  BY <2>2, <2>3
<1> QED  BY <1>5, <1>6, <1>7

(* An index found: returned, and cached unless it is outside the list.      *)
LEMMA IndexReturned ==
  ASSUME ListInv, UNCHANGED <<links, order>>, NEW idx \in Int, want' = <<"index", idx>>,
         Return(At(idx + 1)),
         \/ UNCHANGED caches
         \/ idx \in -1 .. Len(order) - 1 /\ CacheIndex(idx, At(idx + 1))
         \/ At(idx + 1) = NULL /\ CacheIndex(Len(order), NULL)
  PROVE  ListInv'
<1>1. pc' = "returned" /\ result' = At(idx + 1) /\ UNCHANGED <<node, i, d>>  BY DEF Return
<1>2. /\ order \in Seq(Nodes) /\ node \in Pointers /\ i \in Int /\ d \in {"forward", "backward"}
  BY DEF ListInv, WellLinked, TypeOK
<1>3. Len(order) \in Nat /\ \A k : At(k) \in Pointers /\ (At(k) # NULL <=> k \in 1 .. Len(order))
  BY <1>2, AtFacts
<1>4. /\ \/ UNCHANGED <<index_cache, index_cache_node>>
         \/ index_cache' \in -1 .. Len(order) /\ index_cache_node' = At(index_cache' + 1)
      /\ UNCHANGED <<name_cache, name_cache_node>>
  <2>1. CASE UNCHANGED caches  BY <2>1 DEF caches
  <2>2. CASE idx \in -1 .. Len(order) - 1 /\ CacheIndex(idx, At(idx + 1))
    BY <1>3, <2>2 DEF CacheIndex
  <2>3. CASE At(idx + 1) = NULL /\ CacheIndex(Len(order), NULL)
    <3>1. At(Len(order) + 1) = NULL /\ Len(order) \in -1 .. Len(order)  BY <1>3
    <3> QED  BY <2>3, <3>1 DEF CacheIndex
  <2> QED  BY <2>1, <2>2, <2>3
<1>5. /\ WellLinked' /\ IndexCacheOK' /\ live' = live /\ \A k : At(k)' = At(k)
      /\ \A kind \in Kinds : name_cache_node'[kind] # NULL => name_cache_node'[kind] \in live'
  BY <1>1, <1>2, <1>3, <1>4, LookupKeeps
<1>6. WantOK' /\ IndexWalkOK' /\ NameWalkOK'
  BY <1>1 DEF WantOK, IndexWalkOK, NameWalkOK
<1>7. IndexLookupRight' /\ NameLookupRight'
  <2>1. want'[1] = "index" /\ want'[2] = idx /\ "index" \notin Kinds  BY ListAssumption
  <2>2. At(want[2] + 1)' = At(idx + 1)  BY <1>5, <2>1 DEF At
  <2> QED  BY <1>1, <2>1, <2>2 DEF IndexLookupRight, NameLookupRight
<1> QED  BY <1>5, <1>6, <1>7 DEF ListInv

(* A walk by index that has come to k. *)
LEMMA IndexWalking ==
  ASSUME ListInv, UNCHANGED <<links, order, caches, result>>,
         NEW idx \in -1 .. Len(order) - 1, want' = <<"index", idx>>,
         NEW k \in Int, pc' = "index", node' = At(k + 1), i' = k,
         \/ d' = "forward" /\ idx = -1 /\ k \in 0 .. Len(order)
         \/ d' = "forward" /\ 0 <= k /\ k <= idx
         \/ d' = "backward" /\ idx <= k /\ 0 <= idx /\ k < Len(order)
  PROVE  ListInv'
<1>1. order \in Seq(Nodes) /\ result \in Pointers  BY DEF ListInv, WellLinked, TypeOK
<1>2. \A m : At(m) \in Pointers  BY <1>1, AtFacts
<1>3. /\ WellLinked' /\ IndexCacheOK' /\ live' = live /\ \A m : At(m)' = At(m)
      /\ \A kind \in Kinds : name_cache_node'[kind] # NULL => name_cache_node'[kind] \in live'
  BY <1>1, <1>2, LookupKeeps DEF caches
<1>4. WantOK' /\ NameWalkOK' /\ IndexLookupRight' /\ NameLookupRight'
  BY DEF WantOK, NameWalkOK, IndexLookupRight, NameLookupRight
<1>5. IndexWalkOK'
  <2>1. At(i + 1)' = At(k + 1)  BY DEF At
  <2>2. want'[2] = idx  OBVIOUS
  <2>3. IndexWalkOK' <=>
          /\ node' = At(i + 1)'
          /\ \/ d' = "forward" /\ want'[2] = -1 /\ i' \in 0 .. Len(order')
             \/ d' = "forward" /\ 0 <= i' /\ i' <= want'[2]
             \/ d' = "backward" /\ want'[2] <= i' /\ 0 <= want'[2] /\ i' < Len(order')
    BY DEF IndexWalkOK
  <2> QED  BY <2>1, <2>2, <2>3
<1> QED  BY <1>3, <1>4, <1>5 DEF ListInv

(* A step of the walk by index comes to the neighbour, whose index is the   *)
(* one counted.                                                             *)
LEMMA IndexStepKeeps ==
  ASSUME ListInv, IndexStep
  PROVE  ListInv'
<1> DEFINE n == Len(order)
<1>1. /\ pc = "index" /\ node # NULL /\ i # want[2]
      /\ \/ d = "forward" /\ node' = next[node] /\ i' = i + 1
         \/ d # "forward" /\ node' = prev[node] /\ i' = i - 1
      /\ UNCHANGED <<links, caches, pc, d, want, result, order>>
  BY DEF IndexStep
<1>2. /\ order \in Seq(Nodes) /\ i \in Int /\ n \in Nat /\ DOMAIN order = 1 .. n
      /\ \A k \in DOMAIN order : next[order[k]] = At(k + 1) /\ prev[order[k]] = At(k - 1)
  BY DEF ListInv, WellLinked, TypeOK
<1>3. /\ node = At(i + 1)
      /\ \/ d = "forward" /\ want[2] = -1 /\ i \in 0 .. n
         \/ d = "forward" /\ 0 <= i /\ i <= want[2]
         \/ d = "backward" /\ want[2] <= i /\ 0 <= want[2] /\ i < n
      /\ want \in {"index"} \X (-1 .. n - 1)
  BY <1>1 DEF ListInv, IndexWalkOK, WantOK
<1>4. i + 1 \in 1 .. n /\ node = order[i + 1]  BY <1>1, <1>2, <1>3, AtFacts
<1>5. PICK idx \in -1 .. n - 1 : want = <<"index", idx>> /\ want[2] = idx  BY <1>3
<1> HIDE DEF n
<1>6. next[node] = At(i + 1 + 1) /\ prev[node] = At(i - 1 + 1)
  <2>1. next[node] = At(i + 1 + 1) /\ prev[node] = At(i + 1 - 1)  BY <1>2, <1>4
  <2>2. i + 1 - 1 = i - 1 + 1  BY <1>2
  <2> QED  BY <2>1, <2>2
<1>7. CASE d = "forward"
  <2>1. PICK k \in Int : k = i + 1  BY <1>2
  <2>2. node' = At(k + 1) /\ i' = k /\ d' = "forward" /\ want' = <<"index", idx>> /\ pc' = "index"
    BY <1>1, <1>5, <1>6, <1>7, <2>1
  <2>3. (idx = -1 /\ k \in 0 .. n) \/ (0 <= k /\ k <= idx)
    BY <1>1, <1>2, <1>3, <1>4, <1>5, <1>7, <2>1
  <2> QED  BY <1>1, <2>2, <2>3, IndexWalking DEF n
<1>8. CASE d # "forward"
  <2>1. PICK k \in Int : k = i - 1  BY <1>2
  <2>2. node' = At(k + 1) /\ i' = k /\ d' = "backward" /\ want' = <<"index", idx>> /\ pc' = "index"
    BY <1>1, <1>3, <1>5, <1>6, <1>8, <2>1
  <2>3. idx <= k /\ 0 <= idx /\ k < n
    BY <1>1, <1>2, <1>3, <1>4, <1>5, <1>8, <2>1
  <2> QED  BY <1>1, <2>2, <2>3, IndexWalking DEF n
<1> QED  BY <1>7, <1>8

(* The walk by index ends at the index, or, only when idx is -1, at the end *)
(* of the list with NULL, which is then cached one past the last index.     *)
LEMMA IndexFoundKeeps ==
  ASSUME ListInv, IndexFound
  PROVE  ListInv'
<1> DEFINE n == Len(order)
<1>1. /\ pc = "index" /\ (node = NULL \/ i = want[2])
      /\ Return(node) /\ CacheIndex(i, node) /\ UNCHANGED <<links, want, order>>
  BY DEF IndexFound
<1>2. order \in Seq(Nodes) /\ i \in Int /\ n \in Nat
  BY DEF ListInv, WellLinked, TypeOK
<1>3. /\ node = At(i + 1)
      /\ \/ d = "forward" /\ want[2] = -1 /\ i \in 0 .. n
         \/ d = "forward" /\ 0 <= i /\ i <= want[2]
         \/ d = "backward" /\ want[2] <= i /\ 0 <= want[2] /\ i < n
      /\ want \in {"index"} \X (-1 .. n - 1)
  BY <1>1 DEF ListInv, IndexWalkOK, WantOK
<1>4. PICK idx \in -1 .. n - 1 : want = <<"index", idx>> /\ want[2] = idx  BY <1>3
<1>5. \A k : At(k) # NULL <=> k \in 1 .. n  BY <1>2, AtFacts
<1> HIDE DEF n
<1>6. CASE node # NULL
  <2>1. i = idx  BY <1>1, <1>4, <1>6
  <2> QED  BY <1>1, <1>3, <1>4, <2>1, IndexReturned DEF n
<1>7. CASE node = NULL
  <2>1. ~(i + 1 \in 1 .. n)  BY <1>3, <1>5, <1>7
  <2>2. idx = -1 /\ i = n  BY <1>2, <1>3, <1>4, <2>1
  <2>3. At(idx + 1) = NULL
    <3>1. ~(idx + 1 \in 1 .. n)  BY <2>2
    <3> QED  BY <1>5, <3>1
  <2>4. Return(At(idx + 1)) /\ CacheIndex(Len(order), NULL)  BY <1>1, <1>7, <2>2, <2>3 DEF n
  <2>5. idx \in Int /\ want' = <<"index", idx>>  BY <1>1, <1>4
  <2> QED  BY <1>1, <2>3, <2>4, <2>5, IndexReturned
<1> QED  BY <1>6, <1>7

(* The index cache is walked from only when it has a node on the way: when  *)
(* what it has is NULL, the arithmetic never takes its index for nearer.    *)
LEMMA NearIsInside ==
  ASSUME NEW n \in Nat, NEW c \in -1 .. n, NEW idx \in -1 .. n - 1, c # 0,
         IF idx < n \div 2 THEN idx > Abs(idx - c)
         ELSE n - 1 - idx > Abs(n - 1 - idx - c)
  PROVE  0 <= idx /\ 0 <= c /\ c < n
<1> DEFINE h == n \div 2
<1>1. h \in Nat /\ 2 * h <= n /\ n <= 2 * h + 1  OBVIOUS
<1>2. \A a \in Int : Abs(a) \in Nat /\ Abs(a) >= a /\ Abs(a) >= -a  BY DEF Abs
<1> HIDE DEF h
<1>3. CASE idx < h
  <2>1. Abs(idx - c) >= idx - c /\ Abs(idx - c) >= -(idx - c) /\ Abs(idx - c) \in Nat
    BY <1>2
  <2>2. idx > Abs(idx - c)  BY <1>3 DEF h
  <2>3. idx > idx - c /\ idx > c - idx /\ idx > 0  BY <2>1, <2>2
  <2> QED  BY <1>1, <1>3, <2>3
<1>4. CASE ~(idx < h)
  <2> DEFINE e == n - 1 - idx
  <2>1. e \in Int  OBVIOUS
  <2>2. Abs(e - c) >= e - c /\ Abs(e - c) >= -(e - c) /\ Abs(e - c) \in Nat
    BY <1>2, <2>1
  <2>3. e > Abs(e - c)  BY <1>4 DEF h
  <2> HIDE DEF e
  <2>4. e > e - c /\ e > c - e  BY <2>1, <2>2, <2>3
  <2>5. c > 0 /\ 2 * e > c  BY <2>1, <2>4
  <2> QED  BY <1>1, <1>4, <2>5 DEF e
<1> QED  BY <1>3, <1>4

(* A lookup by index starts right: at the cached node or a neighbour of it, *)
(* at an end of the list, or not at all.                                    *)
LEMMA GetByIndexKeeps ==
  ASSUME ListInv, NEW idx \in -1 .. length, GetByIndex(idx)
  PROVE  ListInv'
<1> DEFINE n == Len(order)
           c == index_cache
           near == CASE idx = c     -> index_cache_node
                     [] idx = c + 1 -> next[index_cache_node]
                     [] idx = c - 1 -> prev[index_cache_node]
<1>1. /\ order \in Seq(Nodes) /\ n \in Nat /\ length = n /\ c \in -1 .. n /\ idx \in Int
      /\ DOMAIN order = 1 .. n /\ start = At(1) /\ end = At(n)
      /\ \A k \in DOMAIN order : next[order[k]] = At(k + 1) /\ prev[order[k]] = At(k - 1)
  BY DEF ListInv, WellLinked, TypeOK
<1>2. /\ \A k : At(k) # NULL <=> k \in 1 .. n
      /\ \A k \in 1 .. n : At(k) = order[k]
  BY <1>1, AtFacts
<1>3. want' = <<"index", idx>> /\ UNCHANGED <<links, order>>  BY DEF GetByIndex
<1>4. CASE idx >= length
  <2>1. Return(NULL) /\ UNCHANGED caches  BY <1>4 DEF GetByIndex
  <2>2. ~(idx + 1 \in 1 .. n)  BY <1>1, <1>4
  <2>3. Return(At(idx + 1))  BY <1>2, <2>1, <2>2
  <2> QED  BY <1>1, <1>3, <2>1, <2>3, IndexReturned
<1>5. CASE ~(idx >= length) /\ index_cache_node # NULL /\ Abs(idx - c) <= 1
  <2>1. Return(near) /\ CacheIndex(idx, near)  BY <1>5 DEF GetByIndex
  <2>2. index_cache_node = At(c + 1)  BY <1>5 DEF ListInv, IndexCacheOK
  <2>3. c + 1 \in 1 .. n /\ index_cache_node = order[c + 1]  BY <1>2, <1>5, <2>2
  <2>4. next[index_cache_node] = At(c + 1 + 1) /\ prev[index_cache_node] = At(c + 1 - 1)
    BY <1>1, <2>3
  <2>5. idx = c \/ idx = c + 1 \/ idx = c - 1
    <3> HIDE DEF c, n
    <3>1. ~(idx - c < 0) => idx - c <= 1  BY <1>5 DEF Abs
    <3>2. idx - c < 0 => -(idx - c) <= 1  BY <1>5 DEF Abs
    <3> QED  BY <1>1, <3>1, <3>2
  <2>6. near = At(idx + 1)
    <3>1. CASE idx = c  BY <2>2, <3>1
    <3>2. CASE idx = c + 1
      <4>1. idx # c /\ idx # c - 1 /\ idx + 1 = c + 1 + 1  BY <1>1, <3>2
      <4> QED  BY <2>4, <3>2, <4>1
    <3>3. CASE idx = c - 1
      <4>1. idx # c /\ idx # c + 1 /\ idx + 1 = c + 1 - 1  BY <1>1, <3>3
      <4> QED  BY <2>4, <3>3, <4>1
    <3> QED  BY <2>5, <3>1, <3>2, <3>3
  <2>7. idx \in -1 .. n - 1  BY <1>1, <1>5
  <2> HIDE DEF near
  <2> QED  BY <1>1, <1>3, <2>1, <2>6, <2>7, IndexReturned
<1>6. CASE ~(idx >= length) /\ ~(index_cache_node # NULL /\ Abs(idx - c) <= 1)
  <2>1. idx \in -1 .. n - 1 /\ n > idx  BY <1>1, <1>6
  <2>2. \/ NearCache(idx) /\ Walk("index", index_cache_node, c,
                                  IF idx > c THEN "forward" ELSE "backward")
        \/ c # 0 /\ idx >= length \div 2 /\ Walk("index", end, length - 1, "backward")
        \/ Walk("index", start, 0, "forward")
    BY <1>6 DEF GetByIndex
  <2>3. CASE NearCache(idx) /\ Walk("index", index_cache_node, c,
                                    IF idx > c THEN "forward" ELSE "backward")
    <3>1. /\ c # 0
          /\ IF idx < n \div 2 THEN idx > Abs(idx - c) ELSE n - 1 - idx > Abs(n - 1 - idx - c)
      BY <1>1, <2>3 DEF NearCache
    <3>2. 0 <= idx /\ 0 <= c /\ c < n
      <4> HIDE DEF n, c
      <4> QED  BY <1>1, <2>1, <3>1, NearIsInside
    <3>3. index_cache_node = At(c + 1)  BY <3>1 DEF ListInv, IndexCacheOK
    <3>4. PICK k \in Int : k = c  BY <1>1
    <3>5. /\ pc' = "index" /\ node' = At(k + 1) /\ i' = k /\ UNCHANGED <<result, caches>>
          /\ d' = IF idx > c THEN "forward" ELSE "backward"
      BY <2>3, <3>3, <3>4 DEF Walk
    <3>6. \/ d' = "forward" /\ 0 <= k /\ k <= idx
          \/ d' = "backward" /\ idx <= k /\ 0 <= idx /\ k < n
      BY <1>1, <3>2, <3>4, <3>5
    <3> QED  BY <1>3, <2>1, <3>5, <3>6, IndexWalking
  <2>4. CASE c # 0 /\ idx >= length \div 2 /\ Walk("index", end, length - 1, "backward")
    <3>1. PICK k \in Int : k = n - 1  BY <1>1
    <3>2. n = k + 1 /\ length - 1 = k  BY <1>1, <3>1
    <3>3. /\ pc' = "index" /\ node' = At(k + 1) /\ i' = k /\ UNCHANGED <<result, caches>>
          /\ d' = "backward"
      BY <1>1, <2>4, <3>2 DEF Walk
    <3>4. idx <= k /\ 0 <= idx /\ k < n
      <4> HIDE DEF n, c
      <4> QED  BY <1>1, <2>1, <2>4, <3>1
    <3> QED  BY <1>3, <2>1, <3>3, <3>4, IndexWalking
  <2>5. CASE Walk("index", start, 0, "forward")
    <3>1. /\ pc' = "index" /\ node' = At(0 + 1) /\ i' = 0 /\ UNCHANGED <<result, caches>>
          /\ d' = "forward"
      BY <1>1, <2>5 DEF Walk
    <3>2. (idx = -1 /\ 0 \in 0 .. n) \/ (0 <= 0 /\ 0 <= idx)  BY <1>1, <2>1
    <3> QED  BY <1>3, <2>1, <3>1, <3>2, IndexWalking
  <2> QED  BY <2>2, <2>3, <2>4, <2>5
<1> QED  BY <1>4, <1>5, <1>6

-----------------------------------------------------------------------------
(* A name found: returned and cached. *)
LEMMA NameReturned ==
  ASSUME ListInv, UNCHANGED <<links, order>>, NEW kind \in Kinds, NEW name \in Names,
         want' = <<kind, name>>, NEW n \in live, Named(n, kind, name),
         node = NULL \/ IsFirst(n, kind, name),
         Return(n), CacheName(kind, name, n)
  PROVE  ListInv'
<1>1. pc' = "returned" /\ result' = n /\ UNCHANGED <<node, i, d>>  BY DEF Return
<1>2. /\ order \in Seq(Nodes) /\ node \in Pointers /\ i \in Int /\ d \in {"forward", "backward"}
  BY DEF ListInv, WellLinked, TypeOK
<1>3. n \in Nodes /\ n # NULL /\ n \in Pointers  BY <1>2, AtFacts, ListAssumption DEF Pointers
<1>4. UNCHANGED <<index_cache, index_cache_node>>  BY DEF CacheName
<1>5. /\ WellLinked' /\ IndexCacheOK' /\ live' = live /\ \A k : At(k)' = At(k)
      /\ \A l \in Kinds : name_cache_node'[l] # NULL => name_cache_node'[l] \in live'
  BY <1>1, <1>2, <1>3, <1>4, LookupKeeps
<1>6. /\ want'[1] = kind /\ want'[2] = name /\ kind # "index" /\ want' \in Kinds \X Names
  BY ListAssumption
<1>7. WantOK' /\ IndexWalkOK' /\ NameWalkOK' /\ IndexLookupRight'
  BY <1>1, <1>6 DEF WantOK, IndexWalkOK, NameWalkOK, IndexLookupRight
<1>8. data' = data  BY DEF links
<1>9. order' = order  OBVIOUS
<1>10. Walked' => IsFirst(result, want[1], want[2])'
  <2>1. Walked' => IsFirst(n, kind, name)  BY <1>1 DEF Walked
  <2>2. IsFirst(result, want[1], want[2])' <=> IsFirst(n, kind, name)
    BY <1>1, <1>6, <1>8, <1>9 DEF IsFirst, Named
  <2> QED  BY <2>1, <2>2
<1>11. NameLookupRight'
  BY <1>1, <1>3, <1>5, <1>6, <1>8, <1>10 DEF NameLookupRight, Named
<1> QED  BY <1>5, <1>7, <1>11 DEF ListInv

(* A walk by name that has come to k, past no node of that name. *)
LEMMA NameWalking ==
  ASSUME ListInv, UNCHANGED <<links, order, caches, result>>,
         NEW kind \in Kinds, NEW name \in Names, want' = <<kind, name>>,
         pc' = "name", d' \in {"forward", "backward"},
         NEW k \in 0 .. Len(order), node' = At(k + 1), i' = k,
         \A m \in 1 .. k : ~Named(order[m], kind, name)
  PROVE  ListInv'
<1>1. order \in Seq(Nodes) /\ result \in Pointers  BY DEF ListInv, WellLinked, TypeOK
<1>2. Len(order) \in Nat /\ \A m : At(m) \in Pointers  BY <1>1, AtFacts
<1>3. i' \in Int  BY <1>2
<1>4. /\ WellLinked' /\ IndexCacheOK' /\ live' = live /\ \A m : At(m)' = At(m)
      /\ \A l \in Kinds : name_cache_node'[l] # NULL => name_cache_node'[l] \in live'
  BY <1>1, <1>2, <1>3, LookupKeeps DEF caches
<1>5. want' \in Kinds \X Names /\ want'[1] = kind /\ want'[2] = name  OBVIOUS
<1>6. WantOK' /\ IndexWalkOK' /\ IndexLookupRight' /\ NameLookupRight'
  BY <1>5 DEF WantOK, IndexWalkOK, IndexLookupRight, NameLookupRight
<1>7. data' = data /\ order' = order  BY DEF links
<1>8. NameWalkOK'
  <2>1. At(i + 1)' = At(k + 1)  BY <1>7 DEF At
  <2>2. \A m \in 1 .. k : ~Named(order[m], want[1], want[2])'
    BY <1>5, <1>7 DEF Named
  <2>3. NameWalkOK' <=> /\ i' \in 0 .. Len(order') /\ node' = At(i + 1)'
                        /\ \A m \in 1 .. i' : ~Named(order[m], want[1], want[2])'
    BY DEF NameWalkOK
  <2> QED  BY <1>7, <2>1, <2>2, <2>3
<1> QED  BY <1>4, <1>6, <1>8 DEF ListInv

(* A step of the walk by name passes a node of another name. *)
LEMMA NameStepKeeps ==
  ASSUME ListInv, NameStep
  PROVE  ListInv'
<1>1. /\ pc = "name" /\ node # NULL /\ ~Named(node, want[1], want[2])
      /\ node' = next[node] /\ i' = i + 1
      /\ UNCHANGED <<links, caches, pc, d, want, result, order>>
  BY DEF NameStep
<1>2. /\ order \in Seq(Nodes) /\ Len(order) \in Nat /\ DOMAIN order = 1 .. Len(order)
      /\ d \in {"forward", "backward"}
      /\ \A k \in DOMAIN order : next[order[k]] = At(k + 1)
  BY DEF ListInv, WellLinked, TypeOK
<1>3. /\ i \in 0 .. Len(order) /\ node = At(i + 1) /\ want \in Kinds \X Names
      /\ \A k \in 1 .. i : ~Named(order[k], want[1], want[2])
  BY <1>1 DEF ListInv, NameWalkOK, WantOK
<1>4. i + 1 \in 1 .. Len(order) /\ node = order[i + 1]  BY <1>1, <1>2, <1>3, AtFacts
<1>5. PICK kind \in Kinds, name \in Names : want = <<kind, name>> /\ want[1] = kind /\ want[2] = name
  BY <1>3
<1>6. PICK k \in 0 .. Len(order) : k = i + 1  BY <1>2, <1>3, <1>4
<1>7. node' = At(k + 1)  BY <1>1, <1>2, <1>4, <1>6
<1>8. ASSUME NEW m \in 1 .. k PROVE ~Named(order[m], kind, name)
  <2>1. m \in 1 .. i \/ m = i + 1  BY <1>2, <1>3, <1>6
  <2> QED  BY <1>1, <1>3, <1>4, <1>5, <2>1
<1> QED  BY <1>1, <1>2, <1>5, <1>6, <1>7, <1>8, NameWalking

(* The walk by name ends at a node of the name, or after every node.        *)
LEMMA NameFoundKeeps ==
  ASSUME ListInv, NameFound
  PROVE  ListInv'
<1>1. /\ pc = "name" /\ Return(node) /\ UNCHANGED <<links, want, order>>
      /\ node = NULL \/ Named(node, want[1], want[2])
      /\ node = NULL => UNCHANGED caches
      /\ node # NULL => CacheName(want[1], want[2], node)
  BY DEF NameFound
<1>2. /\ order \in Seq(Nodes) /\ Len(order) \in Nat /\ DOMAIN order = 1 .. Len(order)
      /\ node \in Pointers /\ i \in Int /\ d \in {"forward", "backward"}
  BY DEF ListInv, WellLinked, TypeOK
<1>3. /\ i \in 0 .. Len(order) /\ node = At(i + 1) /\ want \in Kinds \X Names
      /\ \A k \in 1 .. i : ~Named(order[k], want[1], want[2])
  BY <1>1 DEF ListInv, NameWalkOK, WantOK
<1>4. /\ \A k : At(k) # NULL <=> k \in 1 .. Len(order)
      /\ \A k \in 1 .. Len(order) : At(k) \in live
  BY <1>2, AtFacts
<1>5. PICK kind \in Kinds, name \in Names : want = <<kind, name>> /\ want[1] = kind /\ want[2] = name
  BY <1>3
<1>6. CASE node # NULL
  <2>1. node \in live  BY <1>3, <1>4, <1>6
  <2>2. PICK n \in live : n = node  BY <2>1
  <2>3. Named(n, kind, name) /\ Return(n) /\ CacheName(kind, name, n) /\ want' = <<kind, name>>
    BY <1>1, <1>5, <1>6, <2>2
  <2>4. IsFirst(n, kind, name)
    <3>1. i + 1 \in 1 .. Len(order) /\ n = order[i + 1]
      BY <1>2, <1>3, <1>4, <1>6, <2>2 DEF At
    <3>2. ASSUME NEW k \in 1 .. Len(order), Named(order[k], kind, name)
          PROVE  \E j \in 1 .. k : order[j] = n
      <4>1. ~(k \in 1 .. i)  BY <1>3, <1>5, <3>2
      <4>2. i + 1 \in 1 .. k  BY <1>2, <1>3, <4>1
      <4> QED  BY <3>1, <4>2
    <3> QED  BY <1>2, <3>2 DEF IsFirst
  <2> QED  BY <1>1, <2>3, <2>4, NameReturned
<1>7. CASE node = NULL
  <2>1. /\ pc' = "returned" /\ result' = NULL /\ NULL \in Pointers
        /\ UNCHANGED <<node, i, d, index_cache, index_cache_node, name_cache, name_cache_node>>
    BY <1>1, <1>7 DEF Return, caches, Pointers
  <2>2. /\ WellLinked' /\ IndexCacheOK' /\ live' = live /\ \A k : At(k)' = At(k)
        /\ \A l \in Kinds : name_cache_node'[l] # NULL => name_cache_node'[l] \in live'
    BY <1>1, <1>2, <2>1, LookupKeeps
  <2>3. WantOK' /\ IndexWalkOK' /\ NameWalkOK' /\ IndexLookupRight'
    BY <1>1, <1>3, <1>5, <2>1, ListAssumption DEF WantOK, IndexWalkOK, NameWalkOK, IndexLookupRight
  <2>4. i = Len(order)
    <3>1. ~(i + 1 \in 1 .. Len(order))  BY <1>3, <1>4, <1>7
    <3>2. i \in 0 .. Len(order) /\ Len(order) \in Nat  BY <1>2, <1>3
    <3> QED  BY <3>1, <3>2
  <2>5. \A n \in live : ~Named(n, want[1], want[2])  BY <1>2, <1>3, <2>4 DEF live
  <2>6. data' = data /\ want' = want  BY <1>1 DEF links
  <2>7. NameLookupRight'
    <3>1. \A n \in live' : ~Named(n, want[1], want[2])'  BY <2>2, <2>5, <2>6 DEF Named
    <3> QED  BY <2>1, <3>1 DEF NameLookupRight
  <2> QED  BY <2>2, <2>3, <2>7 DEF ListInv
<1> QED  BY <1>6, <1>7

(* A hit needs no walk: each of the three nodes tried is of the list and    *)
(* has the name now, whatever the cache says.                               *)
LEMMA GetByNameKeeps ==
  ASSUME ListInv, NEW kind \in Kinds, NEW name \in Names, GetByName(kind, name)
  PROVE  ListInv'
<1> DEFINE cached == name_cache_node[kind]
           hit    == IF name_cache[kind] = NULL \/ cached = NULL THEN NULL
                     ELSE IF IsCached(kind, name) THEN cached
                     ELSE IF Named(next[cached], kind, name) THEN next[cached]
                     ELSE IF Named(index_cache_node, kind, name) THEN index_cache_node
                     ELSE NULL
<1>1. /\ want' = <<kind, name>> /\ UNCHANGED <<links, order>>
      /\ \/ hit # NULL /\ Return(hit) /\ CacheName(kind, name, hit)
         \/ hit = NULL /\ Walk("name", start, 0, "forward")
  BY DEF GetByName
<1>2. /\ order \in Seq(Nodes) /\ Len(order) \in Nat /\ DOMAIN order = 1 .. Len(order)
      /\ start = At(1)
      /\ \A k \in DOMAIN order : next[order[k]] = At(k + 1)
  BY DEF ListInv, WellLinked, TypeOK
<1>3. /\ \A k : At(k) # NULL <=> k \in 1 .. Len(order)
      /\ \A k \in 1 .. Len(order) : At(k) \in live
  BY <1>2, AtFacts
<1>4. CASE hit # NULL /\ Return(hit) /\ CacheName(kind, name, hit)
  <2>1. cached # NULL /\ cached \in live  BY <1>4 DEF ListInv
  <2>2. index_cache_node # NULL => index_cache_node \in live
    <3>1. index_cache_node # NULL => index_cache_node = At(index_cache + 1)
      BY DEF ListInv, IndexCacheOK
    <3> QED  BY <1>3, <3>1
  <2>3. next[cached] # NULL => next[cached] \in live
    <3> HIDE DEF cached
    <3>1. PICK k \in DOMAIN order : cached = order[k]  BY <2>1 DEF live
    <3>2. next[order[k]] = At(k + 1)  BY <1>2
    <3>3. k + 1 \in 1 .. Len(order) => At(k + 1) \in live  BY <1>3
    <3>4. At(k + 1) # NULL => k + 1 \in 1 .. Len(order)  BY <1>3
    <3> QED  BY <3>1, <3>2, <3>3, <3>4
  <2>4. IsCached(kind, name) => Named(cached, kind, name)  BY DEF IsCached
  <2>5. hit \in live /\ Named(hit, kind, name)
    <3> HIDE DEF cached
    <3>1. CASE IsCached(kind, name)  BY <1>4, <2>1, <2>4, <3>1
    <3>2. CASE ~IsCached(kind, name) /\ Named(next[cached], kind, name)
      <4>1. next[cached] # NULL  BY <3>2 DEF Named
      <4> QED  BY <1>4, <2>1, <2>3, <3>2, <4>1
    <3>3. CASE ~IsCached(kind, name) /\ ~Named(next[cached], kind, name)
      <4>1. hit = index_cache_node /\ Named(index_cache_node, kind, name)  BY <1>4, <3>3
      <4> QED  BY <1>4, <2>2, <4>1
    <3> QED  BY <3>1, <3>2, <3>3
  <2> HIDE DEF hit
  <2>6. PICK n \in live : n = hit  BY <2>5
  <2>7. node = NULL  BY NoCursor DEF GetByName
  <2> QED  BY <1>1, <1>4, <2>5, <2>6, <2>7, NameReturned
<1>5. CASE hit = NULL /\ Walk("name", start, 0, "forward")
  <2>1. /\ pc' = "name" /\ node' = At(0 + 1) /\ i' = 0 /\ d' = "forward" /\ UNCHANGED <<result, caches>>
    BY <1>2, <1>5 DEF Walk
  <2>2. 0 \in 0 .. Len(order) /\ \A m \in 1 .. 0 : ~Named(order[m], kind, name)  BY <1>2
  <2> QED  BY <1>1, <2>1, <2>2, NameWalking
<1> QED  BY <1>1, <1>4, <1>5

-----------------------------------------------------------------------------
(* Nothing has been asked of the empty list. *)
LEMMA InitList ==
  ASSUME Init
  PROVE  ListInv
<1>1. order = <<>> /\ Len(order) = 0 /\ DOMAIN order = {} /\ order \in Seq(Nodes)
  BY DEF Init
<1>2. NULL \in Pointers /\ 0 \in -1 .. 0  BY DEF Pointers
<1>3. \A k : At(k) = NULL  BY <1>1 DEF At
<1>4. /\ next \in [Nodes -> Pointers] /\ prev \in [Nodes -> Pointers]
      /\ data \in [Nodes -> Data \union {NULL}]
      /\ name_cache \in [Kinds -> Names \union {NULL}] /\ name_cache_node \in [Kinds -> Pointers]
  BY <1>2 DEF Init
<1>5. TypeOK  BY <1>1, <1>2, <1>4 DEF Init, TypeOK
<1>6. WellLinked  BY <1>1, <1>3, <1>5 DEF Init, WellLinked
<1>7. IndexCacheOK /\ \A kind \in Kinds : name_cache_node[kind] = NULL  BY DEF Init, IndexCacheOK
<1>8. WantOK /\ IndexWalkOK /\ NameWalkOK /\ IndexLookupRight /\ NameLookupRight
  BY DEF Init, WantOK, IndexWalkOK, NameWalkOK, IndexLookupRight, NameLookupRight
<1> QED  BY <1>6, <1>7, <1>8 DEF ListInv

(* The invariant speaks of the list alone. *)
LEMMA ListStutters ==
  ASSUME ListInv, UNCHANGED vars
  PROVE  ListInv'
BY DEF ListInv, WellLinked, TypeOK, IndexCacheOK, WantOK, IndexWalkOK, NameWalkOK,
       IndexLookupRight, NameLookupRight, IsFirst, Walked, At, live, Named, vars, links, caches, loop

(* Every operation, and every step of one, keeps the invariant. *)
LEMMA ListInductive ==
  ASSUME AppendsOnly, ListInv, [Next]_vars
  PROVE  ListInv'
<1>1. CASE \/ \E ln \in Nodes, before \in Befores, value \in Data : ItemCreate(ln, before, value)
           \/ CreateWithoutData
           \/ \E item \in live : RemoveItem(item) \/ \E value \in Data : SetData(item, value)
           \/ DestroyList \/ DestroyStep \/ Returned
  BY <1>1, ChangesKeep
<1>2. CASE \E idx \in -1 .. length : GetByIndex(idx)
  BY <1>2, GetByIndexKeeps
<1>3. CASE IndexStep  BY <1>3, IndexStepKeeps
<1>4. CASE IndexFound  BY <1>4, IndexFoundKeeps
<1>5. CASE \E kind \in Kinds, name \in Names : GetByName(kind, name)
  BY <1>5, GetByNameKeeps
<1>6. CASE NameStep  BY <1>6, NameStepKeeps
<1>7. CASE NameFound  BY <1>7, NameFoundKeeps
<1>8. CASE UNCHANGED vars  BY <1>8, ListStutters
<1> QED  BY <1>1, <1>2, <1>3, <1>4, <1>5, <1>6, <1>7, <1>8 DEF Next

(* In every state of a list nobody inserts into: the links, the caches, the *)
(* lookups under way and what they returned are right.                      *)
THEOREM ListInvHolds ==
  ASSUME AppendsOnly
  PROVE  Spec => []ListInv
<1>1. Init => ListInv  BY InitList
<1>2. ListInv /\ [Next]_vars => ListInv'  BY ListInductive
<1> QED  BY <1>1, <1>2, PTL DEF Spec

(* The pointers of the nodes make up the promised list, in both directions. *)
(* (stp_list_item_create and _destroy, and the list destroyed node by node.)*)
THEOREM ListWellLinked ==
  ASSUME AppendsOnly
  PROVE  Spec => []WellLinked
<1>1. ListInv => WellLinked  BY DEF ListInv
<1> QED  BY <1>1, ListInvHolds, PTL

(* No cache outlives what it caches: neither a removal nor a lookup leaves  *)
(* the index cache with another node, or a name cache with a freed one.     *)
THEOREM ListCachesCoherent ==
  ASSUME AppendsOnly
  PROVE  Spec => []CachesCoherent
<1>1. ListInv => CachesCoherent  BY DEF ListInv, IndexCacheOK, CachesCoherent
<1> QED  BY <1>1, ListInvHolds, PTL

(* stp_list_get_item_by_index returns the node at the index, from wherever  *)
(* it starts to walk and whatever was looked up before.                     *)
THEOREM IndexLookupsRight ==
  ASSUME AppendsOnly
  PROVE  Spec => []IndexLookupRight
<1>1. ListInv => IndexLookupRight  BY DEF ListInv
<1> QED  BY <1>1, ListInvHolds, PTL

(* stp_list_get_item_by_name returns a node of that name if the list has    *)
(* one, although stp_list_item_set_data leaves the name caches as they are, *)
(* and the first one if it had to walk.                                     *)
THEOREM NameLookupsRight ==
  ASSUME AppendsOnly
  PROVE  Spec => []NameLookupRight
<1>1. ListInv => NameLookupRight  BY DEF ListInv
<1> QED  BY <1>1, ListInvHolds, PTL
=============================================================================
