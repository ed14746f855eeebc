------------------------------- MODULE ListMgr -------------------------------
(***************************************************************************)
(* lib/src/list_mgr.c: the intrusive, circular, doubly linked list that    *)
(* the library threads its request queues on.  The memory the functions    *)
(* work on is one record: the head pointer of the list and the prev/next   *)
(* pointers of every node.  Each operator follows the assignments of its C *)
(* function in their order, because a pointer just written may be the one  *)
(* the next assignment reads.                                              *)
(***************************************************************************)
EXTENDS SequencesExt

CONSTANTS Node,     \* the nodes a program owns (each embedded in a request)
          NULL      \* the null pointer

ASSUME NullAssumption == NULL \notin Node

Ptr == Node \union {NULL}

List == [head : Ptr, prev : [Node -> Ptr], next : [Node -> Ptr]]

\* list_init on fresh (zeroed) nodes.
EmptyList == [head |-> NULL,
              prev |-> [n \in Node |-> NULL],
              next |-> [n \in Node |-> NULL]]

\* list_node_init: the pointers of a node that is on no list.
InitNode(l, n) == [l EXCEPT !.prev[n] = NULL, !.next[n] = NULL]

\* A mutant of list_next_node: it walks round the ring without end.
NextNodeEndless(l, n) == l.next[n]

\* list_next_node / list_prev_node / list_tail: NULL past either end.
NextNode(l, n) == IF l.next[n] = l.head THEN NULL ELSE l.next[n]
PrevNode(l, n) == IF n = l.head THEN NULL ELSE l.prev[n]
ListTail(l)    == IF l.head = NULL THEN NULL ELSE l.prev[l.head]

\* Both insertions make a lone node its own neighbour.
CreateList(l, new) == [head |-> new,
                       prev |-> [l.prev EXCEPT ![new] = new],
                       next |-> [l.next EXCEPT ![new] = new]]

\* A mutant: node->next is overwritten before the new node has taken it.
InsertNodeAfterSwapped(l, node, new) ==
  IF l.head = NULL
  THEN CreateList(l, new)
  ELSE LET at == IF node = NULL THEN l.prev[l.head] ELSE node
       IN  [head |-> l.head,
            prev |-> [l.prev EXCEPT ![new] = new],
            next |-> [l.next EXCEPT ![at] = new, ![new] = new]]

\* list_insert_node_after: node = NULL appends at the tail.
InsertNodeAfter(l, node, new) ==
  IF l.head = NULL
  THEN CreateList(l, new)
  ELSE LET at    == IF node = NULL THEN l.prev[l.head] ELSE node
           prev1 == [l.prev EXCEPT ![new] = at]
           next2 == [l.next EXCEPT ![new] = l.next[at], ![at] = new]
           prev3 == [prev1 EXCEPT ![next2[new]] = new]
       IN  [head |-> l.head, prev |-> prev3, next |-> next2]

\* list_insert_node_before: node = NULL, or the head, inserts a new head.
InsertNodeBefore(l, node, new) ==
  IF l.head = NULL
  THEN CreateList(l, new)
  ELSE LET front == node \in {NULL, l.head}
           at    == IF front THEN l.head ELSE node
           next1 == [l.next EXCEPT ![new] = at]
           prev2 == [l.prev EXCEPT ![new] = l.prev[at], ![at] = new]
           next3 == [next1 EXCEPT ![prev2[new]] = new]
       IN  [head |-> IF front THEN new ELSE l.head,
            prev |-> prev2, next |-> next3]

\* A mutant of list_remove_node: the node keeps its pointers.
RemoveNodeNoInit(l, node) ==
  IF l.next[node] = node
  THEN [l EXCEPT !.head = NULL]
  ELSE [head |-> IF node = l.head THEN l.next[node] ELSE l.head,
        prev |-> [l.prev EXCEPT ![l.next[node]] = l.prev[node]],
        next |-> [l.next EXCEPT ![l.prev[node]] = l.next[node]]]

\* list_remove_node
RemoveNode(l, node) ==
  InitNode(IF l.next[node] = node
           THEN [l EXCEPT !.head = NULL]
           ELSE LET prev1 == [l.prev EXCEPT ![l.next[node]] = l.prev[node]]
                    next2 == [l.next EXCEPT ![prev1[node]] = l.next[node]]
                IN  [head |-> IF node = l.head THEN l.next[node] ELSE l.head,
                     prev |-> prev1, next |-> next2],
           node)

(***************************************************************************)
(* The abstraction: the list represents the sequence s of nodes.  Every    *)
(* node of s points at its neighbours in s, the ends at each other, and    *)
(* the head at the first node.                                             *)
(***************************************************************************)
Represents(l, s) ==
  /\ IsInjective(s)
  /\ s = << >> => l.head = NULL
  /\ s # << >> => /\ l.head = s[1]
                  /\ l.next[s[Len(s)]] = s[1]
                  /\ l.prev[s[1]] = s[Len(s)]
  /\ \A i \in 1 .. Len(s) - 1 : /\ l.next[s[i]] = s[i + 1]
                                /\ l.prev[s[i + 1]] = s[i]

\* The nodes of S are on no list.
Unlinked(l, S) == \A n \in S : l.next[n] = NULL /\ l.prev[n] = NULL
==============================================================================
