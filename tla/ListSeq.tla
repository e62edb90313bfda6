------------------------------ MODULE ListSeq -------------------------------
(***************************************************************************)
(* What base/linked_list.h promises of a double linked list: a sequence of *)
(* item pointers with operations at both ends, and a search that compares  *)
(* items with the comparator passed to dlist_create().                     *)
(***************************************************************************)
EXTENDS Sequences, SequencesExt

CONSTANTS
  Items,  \* item pointers
  NULL,
  Key     \* what the comparator looks at: equal keys compare as 0

VARIABLES
  open,  \* between dlist_create() and dlist_destroy()
  list,  \* the items, head first
  call   \* the last operation and what it returned
vars == <<open, list, call>>

Did(op, r) == call' = <<op, r>>

Init == open = FALSE /\ list = <<>> /\ call = <<"none", NULL>>

\* The position of the first item that compares equal to x, or 0.
FirstLike(x) == SelectInSeq(list, LAMBDA y : Key[y] = Key[x])

\* "Handle to a double linked list if successfull, NULL on failure."
Create  == ~open /\ open' \in BOOLEAN /\ list' = <<>> /\ Did("create", NULL)
Destroy == open /\ open' = FALSE /\ list' = <<>> /\ Did("destroy", NULL)

\* "Pointer to the item's data on success, NULL on failure."
PushHead(x) ==
  /\ open /\ open' = open
  /\ \/ list' = <<x>> \o list /\ Did("push_head", x)
     \/ list' = list /\ Did("push_head", NULL)
PushTail(x) ==
  /\ open /\ open' = open
  /\ \/ list' = list \o <<x>> /\ Did("push_tail", x)
     \/ list' = list /\ Did("push_tail", NULL)

\* "Pointer to the item's data, NULL if the list was empty."
PopHead ==
  /\ open /\ open' = open
  /\ \/ list = <<>> /\ list' = list /\ Did("pop_head", NULL)
     \/ list # <<>> /\ list' = Tail(list) /\ Did("pop_head", Head(list))
PopTail ==
  /\ open /\ open' = open
  /\ \/ list = <<>> /\ list' = list /\ Did("pop_tail", NULL)
     \/ list # <<>> /\ list' = Front(list) /\ Did("pop_tail", Last(list))

\* "Pointer to the item if found, NULL if the item is not in the list."
Find(x) ==
  /\ open /\ UNCHANGED <<open, list>>
  /\ Did("find", IF FirstLike(x) = 0 THEN NULL ELSE list[FirstLike(x)])

\* The first item that compares equal goes, the others keep their order.
RemoveItem(x) ==
  /\ open /\ open' = open
  /\ IF FirstLike(x) = 0
     THEN list' = list /\ Did("remove_item", NULL)
     ELSE list' = RemoveAt(list, FirstLike(x)) /\ Did("remove_item", list[FirstLike(x)])

Next ==
  \/ Create \/ Destroy \/ PopHead \/ PopTail
  \/ \E x \in Items : PushHead(x) \/ PushTail(x) \/ Find(x) \/ RemoveItem(x)

Spec == Init /\ [][Next]_vars
=============================================================================
