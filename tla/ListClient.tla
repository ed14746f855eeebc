----------------------------- MODULE ListClient -----------------------------
(***************************************************************************)
(* A program that keeps one list and calls every function of list_mgr.c    *)
(* on it.  order is a history variable: the sequence of nodes the calls    *)
(* asked for.  list_init_from_array is a loop, one step per iteration,     *)
(* and todo holds the part of the array it has not reached.                *)
(***************************************************************************)
EXTENDS ListMgr

CONSTANT Arrays   \* the arrays of nodes the program builds a list from

ASSUME ArraysAssumption ==
  /\ Arrays \subseteq Seq(Node)
  /\ \A array \in Arrays : IsInjective(array)

VARIABLES list,    \* head pointer and node pointers, as the code leaves them
          order,   \* the nodes in the order the caller asked for
          todo     \* rest of the array list_init_from_array is linking

vars == <<list, order, todo>>

Init ==
  /\ list = EmptyList
  /\ order = << >>
  /\ todo = << >>

\* The call is made between two runs of the array loop, on a free node.
Free(new) == todo = << >> /\ new \in Node \ Range(order)

\* list_insert_node_after(list, order[k], new)
CallInsertAfter(k, new) ==
  /\ Free(new)
  /\ list' = InsertNodeAfter(list, order[k], new)
  /\ order' = InsertAt(order, k + 1, new)
  /\ UNCHANGED todo

\* list_insert_node_after(list, NULL, new)
CallAppend(new) ==
  /\ Free(new)
  /\ list' = InsertNodeAfter(list, NULL, new)
  /\ order' = Append(order, new)
  /\ UNCHANGED todo

\* list_insert_node_before(list, order[k], new)
CallInsertBefore(k, new) ==
  /\ Free(new)
  /\ list' = InsertNodeBefore(list, order[k], new)
  /\ order' = InsertAt(order, k, new)
  /\ UNCHANGED todo

\* list_insert_node_before(list, NULL, new)
CallPrepend(new) ==
  /\ Free(new)
  /\ list' = InsertNodeBefore(list, NULL, new)
  /\ order' = InsertAt(order, 1, new)
  /\ UNCHANGED todo

\* list_remove_node(list, order[k])
CallRemove(k) ==
  /\ todo = << >>
  /\ list' = RemoveNode(list, order[k])
  /\ order' = RemoveAt(order, k)
  /\ UNCHANGED todo

\* list_init_from_array rebuilds the list from an array that holds at least
\* the nodes listed now: list_init comes first, and forgets them all.
CallInitFromArray(array) ==
  /\ todo = << >>
  /\ Range(order) \subseteq Range(array)
  /\ list' = [list EXCEPT !.head = NULL]
  /\ order' = << >>
  /\ todo' = array

\* One iteration: list_node_init, then append at the tail.
InitFromArrayStep ==
  /\ todo # << >>
  /\ list' = InsertNodeAfter(InitNode(list, Head(todo)), NULL, Head(todo))
  /\ order' = Append(order, Head(todo))
  /\ todo' = Tail(todo)

Next ==
  \/ \E new \in Node : \/ CallAppend(new)
                       \/ CallPrepend(new)
                       \/ \E k \in DOMAIN order : \/ CallInsertAfter(k, new)
                                                  \/ CallInsertBefore(k, new)
  \/ \E k \in DOMAIN order : CallRemove(k)
  \/ \E array \in Arrays : CallInitFromArray(array)
  \/ InitFromArrayStep

Spec == Init /\ [][Next]_vars

------------------------------------------------------------------------------
\* The functions dereference the tail, head->prev, without a check.
TypeOK ==
  /\ list \in List
  /\ list.head # NULL => list.prev[list.head] \in Node
  /\ order \in Seq(Node)
  /\ todo \in Seq(Node)

\* The pointers always form the ring the calls asked for, whatever mix of
\* insertions, removals and rebuilds came before: nothing is lost from the
\* ring, linked twice or left half unlinked (list_mgr.c).
RingInOrder == Represents(list, order)

\* A node off the list holds null pointers, so that nothing reaches the ring
\* through a removed node; only the nodes an array rebuild has yet to reach
\* may hold old pointers (list_node_init in list_remove_node).
FreeNodesUnlinked == Unlinked(list, Node \ (Range(order) \union Range(todo)))

\* The traversal macros of list_mgr.h visit the nodes in order from either
\* end and stop at the other, although the ring itself never ends.
TraversalEnds ==
  \A i \in DOMAIN order :
     /\ NextNode(list, order[i]) = IF i = Len(order) THEN NULL ELSE order[i + 1]
     /\ PrevNode(list, order[i]) = IF i = 1 THEN NULL ELSE order[i - 1]
     /\ ListTail(list) = order[Len(order)]
==============================================================================
