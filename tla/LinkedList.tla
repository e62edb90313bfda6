----------------------------- MODULE LinkedList -----------------------------
(***************************************************************************)
(* The double linked list of base/linked_list.c: nodes with two links,     *)
(* closed into a ring by a sentinel, and a count of items kept beside it.  *)
(* One action per function; assignments through links are done in the      *)
(* order of the code, because in a short list the nodes they reach are     *)
(* the same node.                                                          *)
(***************************************************************************)
EXTENDS Integers, Sequences, FiniteSets

CONSTANTS
  Nodes,     \* addresses the allocator can return for a list_node
  Sentinel,  \* dl_storage
  Items, NULL, Key

ASSUME NodesAssumption == IsFiniteSet(Nodes) /\ Sentinel \notin Nodes
ASSUME ItemsAssumption == NULL \notin Items /\ DOMAIN Key = Items

VARIABLES
  open,   \* the list exists
  used,   \* allocated nodes
  link,   \* n_link of a node
  data,   \* n_data of a node
  items,  \* dl_items
  call    \* the last function called and what it returned
vars == <<open, used, link, data, items, call>>

Did(op, r) == call' = <<op, r>>

Left == 0
Right == 1
Dirs == {Left, Right}
Opposite(d) == 1 - d
Places == Nodes \cup {Sentinel}

Ring == [p \in Places |-> [d \in Dirs |-> Sentinel]]

Init ==
  /\ open = FALSE /\ used = {} /\ items = 0 /\ call = <<"none", NULL>>
  /\ link = Ring
  /\ data = [n \in Nodes |-> NULL]

\* The walk along the right links l, which stops at the sentinel.  More steps
\* than there are nodes would not leave a cycle either.
Walk(l) ==
  LET at[k \in 1..Cardinality(Nodes)] ==
        IF k = 1 THEN l[Sentinel][Right]
        ELSE IF at[k - 1] = Sentinel THEN Sentinel
        ELSE l[at[k - 1]][Right]
  IN  at

\* The nodes it meets, in order.
Reached ==
  LET at == Walk(link)
  IN  [k \in {j \in DOMAIN at : at[j] # Sentinel} |-> at[k]]

\* (mutant) The search starts from the wrong end.
FirstLikeFromTail(x) ==
  LET hits == {k \in DOMAIN Reached : Key[data[Reached[k]]] = Key[x]}
  IN  IF hits = {} THEN Sentinel
      ELSE Reached[CHOOSE k \in hits : \A j \in hits : k >= j]

\* The first of them whose item compares equal to x, or the sentinel.
FirstLike(x) ==
  LET hits == {k \in DOMAIN Reached : Key[data[Reached[k]]] = Key[x]}
  IN  IF hits = {} THEN Sentinel
      ELSE Reached[CHOOSE k \in hits : \A j \in hits : k <= j]
-----------------------------------------------------------------------------
\* (mutant) Forgets the neighbour on the far side.
InsertLinksOnce(n, ref, where) ==
  [link EXCEPT ![n] = [d \in Dirs |-> IF d = where THEN link[ref][where] ELSE ref],
               ![ref][where] = n]

\* dlinked_list_internal_insert_node(): n goes next to ref, on the side where.
InsertLinks(n, ref, where) ==
  LET l1 == [link EXCEPT ![n] = [d \in Dirs |-> IF d = where THEN link[ref][where] ELSE ref]]
      l2 == [l1 EXCEPT ![l1[ref][where]][Opposite(where)] = n]
  IN  [l2 EXCEPT ![ref][where] = n]

Insert(op, x, ref, where) ==
  \/ \E n \in Nodes \ used :
       /\ used' = used \cup {n}
       /\ data' = [data EXCEPT ![n] = x]
       /\ link' = InsertLinks(n, ref, where)
       /\ items' = items + 1
       /\ Did(op, x)
  \/ Did(op, NULL) /\ UNCHANGED <<used, data, link, items>>

\* dlinked_list_internal_remove_node()
RemoveLinks(n) ==
  LET l1 == [link EXCEPT ![link[n][Right]][Left] = link[n][Left]]
  IN  [l1 EXCEPT ![l1[n][Left]][Right] = l1[n][Right]]

\* (mutant) The node is unlinked but neither released nor uncounted.
ReleaseForgets(n) == UNCHANGED <<used, items>>
Release(n) == used' = used \ {n} /\ items' = items - 1

\* (The links and the data of free memory are given the values of Init.)
RemoveNode(op, n) ==
  /\ link' = [RemoveLinks(n) EXCEPT ![n] = Ring[n]]
  /\ Release(n)
  /\ Did(op, data[n])
  /\ data' = [data EXCEPT ![n] = NULL]
-----------------------------------------------------------------------------
\* Without memory for the list there is no list.
dlist_create ==
  /\ ~open /\ open' \in BOOLEAN
  /\ link' = Ring /\ items' = 0 /\ Did("create", NULL)
  /\ UNCHANGED <<used, data>>

dlist_push_head(x) ==
  open /\ open' = open /\ Insert("push_head", x, link[Sentinel][Right], Left)

dlist_push_tail(x) ==
  open /\ open' = open /\ Insert("push_tail", x, link[Sentinel][Left], Right)

\* The item at the end the given link of the sentinel leads to.
PopAt(op, d) ==
  /\ open /\ open' = open
  /\ IF link[Sentinel][d] # Sentinel
     THEN RemoveNode(op, link[Sentinel][d])
     ELSE Did(op, NULL) /\ UNCHANGED <<used, data, link, items>>

dlist_pop_head == PopAt("pop_head", Right)
dlist_pop_tail == PopAt("pop_tail", Left)

dlist_find(x) ==
  /\ open
  /\ Did("find", IF FirstLike(x) = Sentinel THEN NULL ELSE data[FirstLike(x)])
  /\ UNCHANGED <<open, used, data, link, items>>

dlist_remove_item(x) ==
  /\ open /\ open' = open
  /\ IF FirstLike(x) # Sentinel
     THEN RemoveNode("remove_item", FirstLike(x))
     ELSE Did("remove_item", NULL) /\ UNCHANGED <<used, data, link, items>>

\* Every node that can be reached is released, then the list itself.
dlist_destroy ==
  /\ open /\ open' = FALSE
  /\ used' = used \ {Reached[k] : k \in DOMAIN Reached}
  /\ link' = Ring /\ items' = 0 /\ Did("destroy", NULL)
  /\ data' = [n \in Nodes |-> NULL]

Next ==
  \/ dlist_create \/ dlist_destroy
  \/ dlist_pop_head \/ dlist_pop_tail
  \/ \E x \in Items : \/ dlist_push_head(x) \/ dlist_push_tail(x)
                      \/ dlist_find(x) \/ dlist_remove_item(x)

Spec == Init /\ [][Next]_vars
-----------------------------------------------------------------------------
\* The count beside the list is the number of nodes in it, and no node that
\* left the list is still allocated (BUGSTOP_IF "Incorrect item count!" in
\* dlist_pop_head() and "Item count mismatch!" on removal).
CountMatches ==
  /\ {Reached[k] : k \in DOMAIN Reached} = used
  /\ items = Cardinality(used)

\* The ring reads the same in both directions, which is all that
\* dlist_pop_tail() and dlist_push_tail() rely on.
RingCloses ==
  \A p \in used \cup {Sentinel} : \A d \in Dirs : link[link[p][d]][Opposite(d)] = p

\* The items read off head first.
Contents == [k \in DOMAIN Reached |-> data[Reached[k]]]

\* They are the list linked_list.h describes.
Abstract == INSTANCE ListSeq WITH list <- Contents
IsAList == Abstract!Spec
=============================================================================
