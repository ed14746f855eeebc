-------------------------- MODULE ListClientProofs --------------------------
(***************************************************************************)
(* What each function of list_mgr.c does to the sequence a ring            *)
(* represents; and so, for every set of nodes and every array, the list is *)
(* at all times the ring its callers asked for.                            *)
(***************************************************************************)
EXTENDS ListClient, SequenceTheorems, TLAPS

\* InsertAt, element by element.
LEMMA InsertAtProperties ==
  ASSUME NEW S, NEW s \in Seq(S), NEW e \in S, NEW k \in 1 .. Len(s) + 1
  PROVE  /\ InsertAt(s, k, e) \in Seq(S)
         /\ Len(InsertAt(s, k, e)) = Len(s) + 1
         /\ \A i \in 1 .. Len(s) + 1 :
               InsertAt(s, k, e)[i] =
                 IF i < k THEN s[i] ELSE IF i = k THEN e ELSE s[i - 1]
  <1> DEFINE a == SubSeq(s, 1, k - 1)
             b == SubSeq(s, k, Len(s))
  <1>1. /\ Len(s) \in Nat /\ DOMAIN s = 1 .. Len(s)
        /\ \A i \in 1 .. Len(s) : s[i] \in S
    BY LenProperties, ElementOfSeq
  <1>2. /\ a \in Seq(S) /\ Len(a) = k - 1
        /\ \A i \in 1 .. k - 1 : a[i] = s[i]
    <2>1. \A i \in 1 .. k - 1 : s[i] \in S
      BY <1>1
    <2> QED
      BY <2>1, <1>1, SubSeqProperties
  <1>3. /\ b \in Seq(S) /\ Len(b) = Len(s) - k + 1
        /\ \A i \in 1 .. Len(s) - k + 1 : b[i] = s[k + i - 1]
    <2>1. \A i \in k .. Len(s) : s[i] \in S
      BY <1>1
    <2> QED
      BY <2>1, <1>1, SubSeqProperties
  <1>4. <<e>> \in Seq(S) /\ Len(<<e>>) = 1 /\ <<e>>[1] = e
    OBVIOUS
  <1> DEFINE ae == a \o <<e>>
  <1>5. /\ ae \in Seq(S) /\ Len(ae) = k
        /\ \A i \in 1 .. k : ae[i] = IF i < k THEN s[i] ELSE e
    <2> HIDE DEF a
    <2>1. /\ ae \in Seq(S) /\ Len(ae) = k
          /\ \A i \in 1 .. k : ae[i] = IF i <= k - 1 THEN a[i] ELSE <<e>>[i - (k - 1)]
      BY <1>1, <1>2, <1>4, ConcatProperties
    <2> QED
      BY <1>1, <1>2, <1>4, <2>1
  <1> HIDE DEF a, b, ae
  <1>6. /\ ae \o b \in Seq(S) /\ Len(ae \o b) = Len(s) + 1
        /\ \A i \in 1 .. Len(s) + 1 :
              (ae \o b)[i] = IF i <= k THEN ae[i] ELSE b[i - k]
    <2>1. ae \in Seq(S) /\ b \in Seq(S)
      BY <1>3, <1>5
    <2>2. /\ ae \o b \in Seq(S) /\ Len(ae \o b) = Len(ae) + Len(b)
          /\ \A i \in 1 .. Len(ae) + Len(b) :
                (ae \o b)[i] = IF i <= Len(ae) THEN ae[i] ELSE b[i - Len(ae)]
      BY <2>1, ConcatProperties
    <2>3. Len(ae) + Len(b) = Len(s) + 1 /\ Len(ae) = k
      BY <1>1, <1>3, <1>5
    <2> QED
      BY <2>2, <2>3
  <1>7. InsertAt(s, k, e) = ae \o b
    BY DEF InsertAt, a, b, ae
  <1>8. ASSUME NEW i \in 1 .. Len(s) + 1
        PROVE  (ae \o b)[i] = IF i < k THEN s[i] ELSE IF i = k THEN e ELSE s[i - 1]
    <2>1. CASE i <= k
      BY <2>1, <1>1, <1>5, <1>6
    <2>2. CASE ~(i <= k)
      <3>1. i - k \in 1 .. Len(s) - k + 1 /\ k + (i - k) - 1 = i - 1
        BY <2>2, <1>1
      <3>2. (ae \o b)[i] = b[i - k]
        BY <2>2, <1>6
      <3> QED
        BY <3>1, <3>2, <2>2, <1>1, <1>3
    <2> QED
      BY <2>1, <2>2
  <1> QED
    BY <1>6, <1>7, <1>8

\* RemoveAt, element by element.
LEMMA RemoveAtProperties ==
  ASSUME NEW S, NEW s \in Seq(S), NEW k \in 1 .. Len(s)
  PROVE  /\ RemoveAt(s, k) \in Seq(S)
         /\ Len(RemoveAt(s, k)) = Len(s) - 1
         /\ \A i \in 1 .. Len(s) - 1 :
               RemoveAt(s, k)[i] = IF i < k THEN s[i] ELSE s[i + 1]
  <1> DEFINE a == SubSeq(s, 1, k - 1)
             b == SubSeq(s, k + 1, Len(s))
  <1>1. /\ Len(s) \in Nat /\ DOMAIN s = 1 .. Len(s)
        /\ \A i \in 1 .. Len(s) : s[i] \in S
    BY LenProperties, ElementOfSeq
  <1>2. /\ a \in Seq(S) /\ Len(a) = k - 1
        /\ \A i \in 1 .. k - 1 : a[i] = s[i]
    <2>1. \A i \in 1 .. k - 1 : s[i] \in S
      BY <1>1
    <2> QED
      BY <2>1, <1>1, SubSeqProperties
  <1>3. /\ b \in Seq(S) /\ Len(b) = Len(s) - k
        /\ \A i \in 1 .. Len(s) - k : b[i] = s[k + i]
    <2>1. \A i \in k + 1 .. Len(s) : s[i] \in S
      BY <1>1
    <2>2. /\ b \in Seq(S)
          /\ Len(b) = IF k + 1 <= Len(s) THEN Len(s) - (k + 1) + 1 ELSE 0
          /\ \A i \in 1 .. Len(s) - (k + 1) + 1 : b[i] = s[k + 1 + i - 1]
      BY <2>1, <1>1, SubSeqProperties
    <2>3. \A i \in 1 .. Len(s) - k :
             i \in 1 .. Len(s) - (k + 1) + 1 /\ k + 1 + i - 1 = k + i
      BY <1>1
    <2> HIDE DEF b
    <2>4. Len(b) = Len(s) - k
      <3>1. CASE k + 1 <= Len(s)
        BY <3>1, <2>2, <1>1
      <3>2. CASE k = Len(s)
        <4>1. ~(k + 1 <= k)
          OBVIOUS
        <4> QED
          BY <3>2, <4>1, <2>2
      <3>3. \A n \in Nat : \A j \in 1 .. n : j + 1 <= n \/ j = n
        OBVIOUS
      <3>4. k + 1 <= Len(s) \/ k = Len(s)
        BY <3>3, <1>1
      <3> QED
        BY <3>1, <3>2, <3>4
    <2>5. ASSUME NEW i \in 1 .. Len(s) - k PROVE b[i] = s[k + i]
      <3>1. b[i] = s[k + 1 + i - 1]
        BY <2>2, <2>3
      <3> QED
        BY <3>1, <2>3
    <2> QED
      BY <2>2, <2>4, <2>5
  <1> HIDE DEF a, b
  <1>4. /\ a \o b \in Seq(S) /\ Len(a \o b) = Len(s) - 1
        /\ \A i \in 1 .. Len(s) - 1 :
              (a \o b)[i] = IF i <= k - 1 THEN a[i] ELSE b[i - (k - 1)]
    <2>1. a \in Seq(S) /\ b \in Seq(S)
      BY <1>2, <1>3
    <2>2. /\ a \o b \in Seq(S) /\ Len(a \o b) = Len(a) + Len(b)
          /\ \A i \in 1 .. Len(a) + Len(b) :
                (a \o b)[i] = IF i <= Len(a) THEN a[i] ELSE b[i - Len(a)]
      BY <2>1, ConcatProperties
    <2>3. Len(a) + Len(b) = Len(s) - 1 /\ Len(a) = k - 1
      BY <1>1, <1>2, <1>3
    <2> QED
      BY <2>2, <2>3
  <1>5. RemoveAt(s, k) = a \o b
    BY DEF RemoveAt, a, b
  <1>6. ASSUME NEW i \in 1 .. Len(s) - 1
        PROVE  (a \o b)[i] = IF i < k THEN s[i] ELSE s[i + 1]
    <2>1. CASE i < k
      BY <2>1, <1>1, <1>2, <1>4
    <2>2. CASE ~(i < k)
      <3>1. i - (k - 1) \in 1 .. Len(s) - k /\ k + (i - (k - 1)) = i + 1
        BY <2>2, <1>1
      <3>2. (a \o b)[i] = b[i - (k - 1)]
        <4>1. ~(i <= k - 1)
          BY <2>2, <1>1
        <4> QED
          BY <4>1, <1>4
      <3>3. b[i - (k - 1)] = s[k + (i - (k - 1))]
        BY <3>1, <1>3
      <3> QED
        BY <3>1, <3>2, <3>3, <2>2
    <2> QED
      BY <2>1, <2>2
  <1> QED
    BY <1>4, <1>5, <1>6

------------------------------------------------------------------------------
\* The pointers list_insert_node_after leaves when the list is not empty and
\* at is the node the new one goes after.
LEMMA InsertAfterPointers ==
  ASSUME NEW l \in List, l.head \in Node,
         NEW node \in Ptr, NEW at \in Node,
         at = IF node = NULL THEN l.prev[l.head] ELSE node,
         l.next[at] \in Node,
         NEW new \in Node, new # at, new # l.next[at]
  PROVE  LET m == InsertNodeAfter(l, node, new)
         IN  /\ m \in List
             /\ m.head = l.head
             /\ m.next[new] = l.next[at] /\ m.next[at] = new
             /\ m.prev[l.next[at]] = new /\ m.prev[new] = at
             /\ \A x \in Node \ {new, at} : m.next[x] = l.next[x]
             /\ \A x \in Node \ {new, l.next[at]} : m.prev[x] = l.prev[x]
  BY NullAssumption DEF InsertNodeAfter, List, Ptr

\* The same for list_insert_node_before, at being the node that follows.
LEMMA InsertBeforePointers ==
  ASSUME NEW l \in List, l.head \in Node,
         NEW node \in Ptr, NEW at \in Node,
         at = IF node \in {NULL, l.head} THEN l.head ELSE node,
         l.prev[at] \in Node,
         NEW new \in Node, new # at, new # l.prev[at]
  PROVE  LET m == InsertNodeBefore(l, node, new)
         IN  /\ m \in List
             /\ m.head = IF at = l.head THEN new ELSE l.head
             /\ m.next[new] = at /\ m.prev[at] = new
             /\ m.prev[new] = l.prev[at] /\ m.next[l.prev[at]] = new
             /\ \A x \in Node \ {new, l.prev[at]} : m.next[x] = l.next[x]
             /\ \A x \in Node \ {new, at} : m.prev[x] = l.prev[x]
  BY NullAssumption DEF InsertNodeBefore, List, Ptr

\* The pointers list_remove_node leaves when another node stays on the list.
LEMMA RemovePointers ==
  ASSUME NEW l \in List, l.head \in Node, NEW node \in Node,
         l.next[node] \in Node \ {node}, l.prev[node] \in Node \ {node}
  PROVE  LET m == RemoveNode(l, node)
         IN  /\ m \in List
             /\ m.head = IF node = l.head THEN l.next[node] ELSE l.head
             /\ m.next[node] = NULL /\ m.prev[node] = NULL
             /\ m.prev[l.next[node]] = l.prev[node]
             /\ m.next[l.prev[node]] = l.next[node]
             /\ \A x \in Node \ {node, l.prev[node]} : m.next[x] = l.next[x]
             /\ \A x \in Node \ {node, l.next[node]} : m.prev[x] = l.prev[x]
  BY NullAssumption DEF RemoveNode, InitNode, List, Ptr

------------------------------------------------------------------------------
\* Inserting a new element keeps a sequence free of repetitions.
LEMMA InsertAtInjective ==
  ASSUME NEW S, NEW s \in Seq(S), IsInjective(s),
         NEW e \in S, e \notin Range(s), NEW k \in 1 .. Len(s) + 1
  PROVE  /\ IsInjective(InsertAt(s, k, e))
         /\ Range(InsertAt(s, k, e)) = Range(s) \union {e}
  <1> DEFINE t == InsertAt(s, k, e)
  <1>0. PICK n \in Nat : n = Len(s)
    BY LenProperties
  <1>1. DOMAIN s = 1 .. n /\ \A i \in 1 .. n : s[i] \in S /\ s[i] \in Range(s)
    BY <1>0, LenProperties, ElementOfSeq DEF Range
  <1>2. /\ t \in Seq(S) /\ Len(t) = n + 1 /\ k \in 1 .. n + 1
        /\ \A i \in 1 .. n + 1 :
              t[i] = IF i < k THEN s[i] ELSE IF i = k THEN e ELSE s[i - 1]
    <2>1. /\ t \in Seq(S) /\ Len(t) = Len(s) + 1
          /\ \A i \in 1 .. Len(s) + 1 :
                t[i] = IF i < k THEN s[i] ELSE IF i = k THEN e ELSE s[i - 1]
      BY InsertAtProperties
    <2> HIDE DEF t
    <2> QED
      BY <1>0, <2>1
  <1>3. DOMAIN t = 1 .. n + 1
    BY <1>2, LenProperties
  <1> HIDE DEF t
  <1>4. \A i, j \in 1 .. n : s[i] = s[j] => i = j
    BY <1>1 DEF IsInjective
  <1>5. \A i \in 1 .. n : s[i] # e
    BY <1>1
  <1>6. ASSUME NEW i \in 1 .. n + 1, NEW j \in 1 .. n + 1, t[i] = t[j]
        PROVE  i = j
    BY <1>2, <1>4, <1>5, <1>6
  <1>7. \A i \in 1 .. n : \E j \in 1 .. n + 1 : t[j] = s[i]
    <2> TAKE i \in 1 .. n
    <2>1. CASE i < k
      BY <2>1, <1>2
    <2>2. CASE ~(i < k)
      <3>1. t[i + 1] = s[i]
        BY <2>2, <1>2
      <3> QED
        BY <3>1
    <2> QED
      BY <2>1, <2>2
  <1>8. Range(t) \subseteq Range(s) \union {e}
    <2>1. ASSUME NEW i \in 1 .. n + 1 PROVE t[i] \in Range(s) \union {e}
      BY <1>1, <1>2
    <2> QED
      BY <2>1, <1>3 DEF Range
  <1>9. Range(s) \union {e} \subseteq Range(t)
    <2>1. t[k] = e /\ k \in DOMAIN t
      BY <1>2, <1>3
    <2>2. ASSUME NEW i \in 1 .. n PROVE s[i] \in Range(t)
      BY <1>3, <1>7 DEF Range
    <2>3. \A x \in Range(s) : \E i \in 1 .. n : x = s[i]
      BY <1>1 DEF Range
    <2>4. e \in Range(t)
      BY <2>1 DEF Range
    <2> QED
      BY <2>2, <2>3, <2>4
  <1> QED
    BY <1>3, <1>6, <1>8, <1>9 DEF IsInjective, t

\* Removing an element of a sequence without repetitions takes it away.
LEMMA RemoveAtInjective ==
  ASSUME NEW S, NEW s \in Seq(S), IsInjective(s), NEW k \in 1 .. Len(s)
  PROVE  /\ IsInjective(RemoveAt(s, k))
         /\ Range(RemoveAt(s, k)) = Range(s) \ {s[k]}
  <1> DEFINE t == RemoveAt(s, k)
  <1>0. PICK n \in Nat : n = Len(s)
    BY LenProperties
  <1>1. DOMAIN s = 1 .. n /\ \A i \in 1 .. n : s[i] \in S /\ s[i] \in Range(s)
    BY <1>0, LenProperties, ElementOfSeq DEF Range
  <1>2. /\ t \in Seq(S) /\ Len(t) = n - 1 /\ k \in 1 .. n
        /\ \A i \in 1 .. n - 1 : t[i] = IF i < k THEN s[i] ELSE s[i + 1]
    BY <1>0, RemoveAtProperties
  <1>3. DOMAIN t = 1 .. n - 1
    BY <1>2, LenProperties
  <1> HIDE DEF t
  <1>4. \A i, j \in 1 .. n : s[i] = s[j] => i = j
    BY <1>1 DEF IsInjective
  <1>6. ASSUME NEW i \in 1 .. n - 1, NEW j \in 1 .. n - 1, t[i] = t[j]
        PROVE  i = j
    BY <1>2, <1>4, <1>6
  <1>7. ASSUME NEW i \in 1 .. n, i # k
        PROVE  \E j \in 1 .. n - 1 : t[j] = s[i]
    <2>1. CASE i < k
      BY <2>1, <1>2
    <2>2. CASE i > k
      <3>1. i - 1 \in 1 .. n - 1 /\ ~(i - 1 < k) /\ (i - 1) + 1 = i
        BY <2>2, <1>2
      <3> QED
        BY <3>1, <1>2
    <2> QED
      BY <2>1, <2>2, <1>7, <1>2
  <1>8. Range(t) \subseteq Range(s) \ {s[k]}
    <2>1. ASSUME NEW i \in 1 .. n - 1 PROVE t[i] \in Range(s) /\ t[i] # s[k]
      BY <1>1, <1>2, <1>4
    <2> QED
      BY <2>1, <1>3 DEF Range
  <1>9. Range(s) \ {s[k]} \subseteq Range(t)
    <2>1. ASSUME NEW i \in 1 .. n, i # k PROVE s[i] \in Range(t)
      BY <2>1, <1>3, <1>7 DEF Range
    <2>2. \A x \in Range(s) : \E i \in 1 .. n : x = s[i]
      BY <1>1 DEF Range
    <2> QED
      BY <2>1, <2>2
  <1> QED
    BY <1>3, <1>6, <1>8, <1>9 DEF IsInjective, t

------------------------------------------------------------------------------
\* m and l agree on the pointers of the nodes of S.
SamePointers(l, m, S) == \A x \in S : m.next[x] = l.next[x] /\ m.prev[x] = l.prev[x]

\* The first insertion, by either function, makes a list of one node.
LEMMA CreateRepresents ==
  ASSUME NEW l \in List, NEW s \in Seq(Node), s = << >>, Represents(l, s),
         NEW node \in Ptr, NEW new \in Node
  PROVE  /\ CreateList(l, new) \in List
         /\ InsertNodeAfter(l, node, new) = CreateList(l, new)
         /\ InsertNodeBefore(l, node, new) = CreateList(l, new)
         /\ Represents(CreateList(l, new), <<new>>)
         /\ SamePointers(l, CreateList(l, new), Node \ {new})
  <1> DEFINE m == CreateList(l, new)
             t == <<new>>
  <1>1. l.head = NULL
    BY DEF Represents
  <1>2. /\ m \in List /\ m.head = new /\ m.next[new] = new /\ m.prev[new] = new
        /\ SamePointers(l, m, Node \ {new})
    BY DEF CreateList, List, Ptr, SamePointers
  <1>3. /\ t \in Seq(Node) /\ Len(t) = 1 /\ t[1] = new /\ IsInjective(t)
        /\ t # << >> /\ 1 .. Len(t) - 1 = {}
    BY DEF IsInjective
  <1> HIDE DEF m, t
  <1>4. Represents(m, t)
    BY <1>2, <1>3 DEF Represents
  <1> QED
    BY <1>1, <1>2, <1>4 DEF m, t, InsertNodeAfter, InsertNodeBefore

\* list_insert_node_after puts the new node right after its target, or at the
\* tail when no target is given, and touches no node off the list.
LEMMA InsertAfterRepresents ==
  ASSUME NEW l \in List, NEW s \in Seq(Node), Represents(l, s),
         NEW k \in 1 .. Len(s), NEW node \in Ptr,
         node = s[k] \/ (node = NULL /\ k = Len(s)),
         NEW new \in Node, new \notin Range(s)
  PROVE  /\ InsertNodeAfter(l, node, new) \in List
         /\ Represents(InsertNodeAfter(l, node, new), InsertAt(s, k + 1, new))
         /\ SamePointers(l, InsertNodeAfter(l, node, new),
                         Node \ (Range(s) \union {new}))
  <1> DEFINE m == InsertNodeAfter(l, node, new)
             t == InsertAt(s, k + 1, new)
  <1>1. PICK n \in Nat : n = Len(s)
    BY LenProperties
  <1>2. /\ k \in 1 .. n /\ n \in Nat \ {0} /\ 1 \in 1 .. n /\ n \in 1 .. n
        /\ \A i \in 1 .. n : s[i] \in Node /\ s[i] \in Range(s) /\ s[i] # new
    BY <1>1, LenProperties, ElementOfSeq DEF Range
  <1>3. /\ IsInjective(s) /\ l.head = s[1]
        /\ l.next[s[n]] = s[1] /\ l.prev[s[1]] = s[n]
        /\ \A i \in 1 .. n - 1 : l.next[s[i]] = s[i + 1] /\ l.prev[s[i + 1]] = s[i]
    BY <1>1, <1>2, EmptySeq DEF Represents
  <1>4. \A i, j \in 1 .. n : s[i] = s[j] => i = j
    BY <1>1, <1>3, LenProperties DEF IsInjective
  <1>5. /\ k = n => l.next[s[k]] = s[1]
        /\ k # n => k + 1 \in 1 .. n /\ l.next[s[k]] = s[k + 1]
    BY <1>2, <1>3
  <1>6. l.next[s[k]] \in Node /\ l.next[s[k]] \in Range(s)
    BY <1>2, <1>5
  <1>7. s[k] = IF node = NULL THEN l.prev[l.head] ELSE node
    BY <1>1, <1>2, <1>3, NullAssumption
  <1>8. /\ m \in List
        /\ m.head = l.head
        /\ m.next[new] = l.next[s[k]] /\ m.next[s[k]] = new
        /\ m.prev[l.next[s[k]]] = new /\ m.prev[new] = s[k]
        /\ \A x \in Node \ {new, s[k]} : m.next[x] = l.next[x]
        /\ \A x \in Node \ {new, l.next[s[k]]} : m.prev[x] = l.prev[x]
    <2>1. l.head \in Node /\ s[k] \in Node /\ new # s[k] /\ new # l.next[s[k]]
      BY <1>2, <1>3, <1>6
    <2> QED
      BY <2>1, <1>6, <1>7, InsertAfterPointers
  <1>9. /\ t \in Seq(Node) /\ Len(t) = n + 1 /\ IsInjective(t)
        /\ \A i \in 1 .. n + 1 :
              t[i] = IF i < k + 1 THEN s[i] ELSE IF i = k + 1 THEN new ELSE s[i - 1]
    <2>1. k + 1 \in 1 .. Len(s) + 1
      BY <1>1, <1>2
    <2>2. /\ t \in Seq(Node) /\ Len(t) = Len(s) + 1 /\ IsInjective(t)
          /\ \A i \in 1 .. Len(s) + 1 :
                t[i] = IF i < k + 1 THEN s[i] ELSE IF i = k + 1 THEN new ELSE s[i - 1]
      BY SMTT(30), <2>1, <1>3, InsertAtProperties, InsertAtInjective
    <2> HIDE DEF t
    <2> QED
      BY <1>1, <2>2
  <1> HIDE DEF m, t
  \* Away from the insertion the neighbours stay.
  <1>10. ASSUME NEW i \in 1 .. n - 1, i # k
         PROVE  m.next[s[i]] = s[i + 1] /\ m.prev[s[i + 1]] = s[i]
    <2>1. i \in 1 .. n /\ i + 1 \in 1 .. n /\ i + 1 # 1 /\ i + 1 # k + 1
      BY <1>2, <1>10
    <2>2. s[i] # s[k] /\ s[i + 1] # l.next[s[k]]
      BY <2>1, <1>2, <1>4, <1>5, <1>10
    <2> QED
      BY <2>1, <2>2, <1>2, <1>3, <1>8
  <1>11. ASSUME NEW i \in 1 .. n
         PROVE  m.next[t[i]] = t[i + 1] /\ m.prev[t[i + 1]] = t[i]
    <2>1. CASE i < k
      <3>1. i \in 1 .. n - 1 /\ i # k /\ t[i] = s[i] /\ t[i + 1] = s[i + 1]
        BY <2>1, <1>2, <1>9
      <3> QED
        BY <3>1, <1>10
    <2>2. CASE i = k
      <3>1. t[i] = s[k] /\ t[i + 1] = new
        BY <2>2, <1>2, <1>9
      <3> QED
        BY <3>1, <1>8
    <2>3. CASE i = k + 1
      <3>1. t[i] = new /\ t[i + 1] = s[k + 1] /\ k # n
        BY <2>3, <1>2, <1>9
      <3> QED
        BY <3>1, <1>5, <1>8
    <2>4. CASE i > k + 1
      <3>1. PICK j \in 1 .. n - 1 : j = i - 1
        BY <2>4, <1>2
      <3>2. j # k /\ t[i] = s[j] /\ t[i + 1] = s[j + 1]
        BY <2>4, <3>1, <1>2, <1>9
      <3> QED
        BY <3>2, <1>10
    <2> QED
      BY <2>1, <2>2, <2>3, <2>4, <1>2
  <1>12. m.head = t[1] /\ m.next[t[n + 1]] = t[1] /\ m.prev[t[1]] = t[n + 1]
    <2>1. t[1] = s[1]
      BY <1>2, <1>9
    <2>2. CASE k = n
      <3>1. t[n + 1] = new
        BY <2>2, <1>2, <1>9
      <3> QED
        BY <2>1, <2>2, <3>1, <1>3, <1>5, <1>8
    <2>3. CASE k # n
      <3>1. t[n + 1] = s[n]
        BY <2>3, <1>2, <1>9
      <3>2. s[n] # s[k] /\ s[1] # s[k + 1]
        BY <2>3, <1>2, <1>4, <1>5
      <3> QED
        BY SMTT(30), <2>1, <2>3, <3>1, <3>2, <1>2, <1>3, <1>5, <1>8
    <2> QED
      BY <2>2, <2>3
  <1>13. Represents(m, t)
    <2>1. t # << >> /\ Len(t) - 1 = n
      BY <1>2, <1>9, EmptySeq
    <2> QED
      BY <2>1, <1>9, <1>11, <1>12 DEF Represents
  <1>14. SamePointers(l, m, Node \ (Range(s) \union {new}))
    <2>1. s[k] \in Range(s)
      BY <1>2
    <2> QED
      BY <2>1, <1>6, <1>8 DEF SamePointers
  <1> QED
    BY <1>8, <1>13, <1>14 DEF m, t

\* list_insert_node_before puts the new node right before its target, or at
\* the head when no target is given, and touches no node off the list.
LEMMA InsertBeforeRepresents ==
  ASSUME NEW l \in List, NEW s \in Seq(Node), Represents(l, s),
         NEW k \in 1 .. Len(s), NEW node \in Ptr,
         node = s[k] \/ (node = NULL /\ k = 1),
         NEW new \in Node, new \notin Range(s)
  PROVE  /\ InsertNodeBefore(l, node, new) \in List
         /\ Represents(InsertNodeBefore(l, node, new), InsertAt(s, k, new))
         /\ SamePointers(l, InsertNodeBefore(l, node, new),
                         Node \ (Range(s) \union {new}))
  <1> DEFINE m == InsertNodeBefore(l, node, new)
             t == InsertAt(s, k, new)
  <1>1. PICK n \in Nat : n = Len(s)
    BY LenProperties
  <1>2. /\ k \in 1 .. n /\ n \in Nat \ {0} /\ 1 \in 1 .. n /\ n \in 1 .. n
        /\ \A i \in 1 .. n : s[i] \in Node /\ s[i] \in Range(s) /\ s[i] # new
    BY <1>1, LenProperties, ElementOfSeq DEF Range
  <1>3. /\ IsInjective(s) /\ l.head = s[1]
        /\ l.next[s[n]] = s[1] /\ l.prev[s[1]] = s[n]
        /\ \A i \in 1 .. n - 1 : l.next[s[i]] = s[i + 1] /\ l.prev[s[i + 1]] = s[i]
    BY <1>1, <1>2, EmptySeq DEF Represents
  <1>4. \A i, j \in 1 .. n : s[i] = s[j] => i = j
    BY <1>1, <1>3, LenProperties DEF IsInjective
  <1>5. /\ k = 1 => l.prev[s[k]] = s[n]
        /\ k # 1 => k - 1 \in 1 .. n - 1 /\ l.prev[s[k]] = s[k - 1]
    <2>1. CASE k = 1
      BY <2>1, <1>3
    <2>2. CASE k # 1
      <3>1. k - 1 \in 1 .. n - 1 /\ (k - 1) + 1 = k
        BY <2>2, <1>2
      <3> QED
        BY <3>1, <2>2, <1>3
    <2> QED
      BY <2>1, <2>2
  <1>6. l.prev[s[k]] \in Node /\ l.prev[s[k]] \in Range(s)
    BY <1>2, <1>5
  <1>7. s[k] = IF node \in {NULL, l.head} THEN l.head ELSE node
    BY <1>2, <1>3, NullAssumption
  <1>8. /\ m \in List
        /\ m.head = IF s[k] = l.head THEN new ELSE l.head
        /\ m.next[new] = s[k] /\ m.prev[s[k]] = new
        /\ m.prev[new] = l.prev[s[k]] /\ m.next[l.prev[s[k]]] = new
        /\ \A x \in Node \ {new, l.prev[s[k]]} : m.next[x] = l.next[x]
        /\ \A x \in Node \ {new, s[k]} : m.prev[x] = l.prev[x]
    <2>1. l.head \in Node /\ s[k] \in Node /\ new # s[k] /\ new # l.prev[s[k]]
      BY <1>2, <1>3, <1>6
    <2> QED
      BY <2>1, <1>6, <1>7, InsertBeforePointers
  <1>9. /\ t \in Seq(Node) /\ Len(t) = n + 1 /\ IsInjective(t)
        /\ \A i \in 1 .. n + 1 :
              t[i] = IF i < k THEN s[i] ELSE IF i = k THEN new ELSE s[i - 1]
    <2>1. k \in 1 .. Len(s) + 1
      BY <1>1, <1>2
    <2>2. /\ t \in Seq(Node) /\ Len(t) = Len(s) + 1 /\ IsInjective(t)
          /\ \A i \in 1 .. Len(s) + 1 :
                t[i] = IF i < k THEN s[i] ELSE IF i = k THEN new ELSE s[i - 1]
      BY <2>1, <1>3, InsertAtProperties, InsertAtInjective
    <2> HIDE DEF t
    <2> QED
      BY <1>1, <2>2
  <1> HIDE DEF m, t
  \* Away from the insertion the neighbours stay.
  <1>10. ASSUME NEW i \in 1 .. n - 1, i + 1 # k
         PROVE  m.next[s[i]] = s[i + 1] /\ m.prev[s[i + 1]] = s[i]
    <2>1. i \in 1 .. n /\ i + 1 \in 1 .. n /\ i # n /\ i # k - 1
      BY <1>2, <1>10
    <2>2. s[i + 1] # s[k] /\ s[i] # l.prev[s[k]]
      BY <2>1, <1>2, <1>4, <1>5, <1>10
    <2> QED
      BY <2>1, <2>2, <1>2, <1>3, <1>8
  <1>11. ASSUME NEW i \in 1 .. n
         PROVE  m.next[t[i]] = t[i + 1] /\ m.prev[t[i + 1]] = t[i]
    <2>1. CASE i + 1 < k
      <3>1. i \in 1 .. n - 1 /\ i + 1 # k /\ t[i] = s[i] /\ t[i + 1] = s[i + 1]
        BY <2>1, <1>2, <1>9
      <3> QED
        BY <3>1, <1>10
    <2>2. CASE i + 1 = k
      <3>1. t[i] = s[k - 1] /\ t[i + 1] = new /\ k # 1
        BY <2>2, <1>2, <1>9
      <3> QED
        BY <3>1, <1>5, <1>8
    <2>3. CASE i = k
      <3>0. i \in 1 .. n + 1 /\ i + 1 \in 1 .. n + 1 /\ ~(i + 1 < k) /\ i + 1 # k /\ (i + 1) - 1 = k
        BY <2>3, <1>2
      <3>1. t[i] = new /\ t[i + 1] = s[k]
        BY <3>0, <2>3, <1>9
      <3> QED
        BY <3>1, <1>8
    <2>4. CASE i > k
      <3>1. PICK j \in 1 .. n - 1 : j = i - 1
        BY <2>4, <1>2
      <3>2. j + 1 # k /\ t[i] = s[j] /\ t[i + 1] = s[j + 1]
        BY <2>4, <3>1, <1>2, <1>9
      <3> QED
        BY <3>2, <1>10
    <2> QED
      BY <2>1, <2>2, <2>3, <2>4, <1>2
  <1>12. m.head = t[1] /\ m.next[t[n + 1]] = t[1] /\ m.prev[t[1]] = t[n + 1]
    <2>1. t[n + 1] = s[n]
      BY <1>2, <1>9
    <2>2. CASE k = 1
      <3>1. t[1] = new
        BY <2>2, <1>2, <1>9
      <3> QED
        BY <2>1, <2>2, <3>1, <1>3, <1>5, <1>8
    <2>3. CASE k # 1
      <3>1. t[1] = s[1]
        BY <2>3, <1>2, <1>9
      <3>2. s[1] # s[k] /\ s[n] # s[k - 1]
        BY <2>3, <1>2, <1>4, <1>5
      <3> QED
        BY <2>1, <2>3, <3>1, <3>2, <1>2, <1>3, <1>5, <1>8
    <2> QED
      BY <2>2, <2>3
  <1>13. Represents(m, t)
    <2>1. t # << >> /\ Len(t) - 1 = n
      BY <1>2, <1>9, EmptySeq
    <2> QED
      BY <2>1, <1>9, <1>11, <1>12 DEF Represents
  <1>14. SamePointers(l, m, Node \ (Range(s) \union {new}))
    <2>1. s[k] \in Range(s)
      BY <1>2
    <2> QED
      BY <2>1, <1>6, <1>8 DEF SamePointers
  <1> QED
    BY <1>8, <1>13, <1>14 DEF m, t

\* list_remove_node takes its node out of the sequence, leaves it with null
\* pointers, and touches no node off the list.
LEMMA RemoveRepresents ==
  ASSUME NEW l \in List, NEW s \in Seq(Node), Represents(l, s),
         NEW k \in 1 .. Len(s)
  PROVE  /\ RemoveNode(l, s[k]) \in List
         /\ Represents(RemoveNode(l, s[k]), RemoveAt(s, k))
         /\ Unlinked(RemoveNode(l, s[k]), {s[k]})
         /\ SamePointers(l, RemoveNode(l, s[k]), Node \ Range(s))
  <1> DEFINE m == RemoveNode(l, s[k])
             t == RemoveAt(s, k)
  <1>1. PICK n \in Nat : n = Len(s)
    BY LenProperties
  <1>2. /\ k \in 1 .. n /\ n \in Nat \ {0} /\ 1 \in 1 .. n /\ n \in 1 .. n
        /\ \A i \in 1 .. n : s[i] \in Node /\ s[i] \in Range(s)
    BY <1>1, LenProperties, ElementOfSeq DEF Range
  <1>3. /\ IsInjective(s) /\ l.head = s[1]
        /\ l.next[s[n]] = s[1] /\ l.prev[s[1]] = s[n]
        /\ \A i \in 1 .. n - 1 : l.next[s[i]] = s[i + 1] /\ l.prev[s[i + 1]] = s[i]
    BY <1>1, <1>2, EmptySeq DEF Represents
  <1>4. \A i, j \in 1 .. n : s[i] = s[j] => i = j
    BY <1>1, <1>3, LenProperties DEF IsInjective
  <1>5. /\ t \in Seq(Node) /\ Len(t) = n - 1 /\ IsInjective(t)
        /\ \A i \in 1 .. n - 1 : t[i] = IF i < k THEN s[i] ELSE s[i + 1]
    <2>1. /\ t \in Seq(Node) /\ Len(t) = Len(s) - 1 /\ IsInjective(t)
          /\ \A i \in 1 .. Len(s) - 1 : t[i] = IF i < k THEN s[i] ELSE s[i + 1]
      BY <1>3, RemoveAtProperties, RemoveAtInjective
    <2> HIDE DEF t
    <2> QED
      BY <1>1, <2>1
  <1> HIDE DEF t
  <1>6. CASE n = 1
    <2>1. k = 1 /\ l.next[s[k]] = s[k]
      BY <1>2, <1>3, <1>6
    <2>2. /\ m \in List /\ m.head = NULL
          /\ m.next = [l.next EXCEPT ![s[k]] = NULL]
          /\ m.prev = [l.prev EXCEPT ![s[k]] = NULL]
      BY <2>1, <1>2 DEF RemoveNode, InitNode, List, Ptr
    <2> HIDE DEF m
    <2>3. t = << >> /\ Len(t) - 1 < 1
      BY <1>5, <1>6, EmptySeq
    <2>4. Represents(m, t)
      BY <2>2, <2>3, <1>5 DEF Represents
    <2>5. Unlinked(m, {s[k]}) /\ SamePointers(l, m, Node \ Range(s))
      BY <2>2, <1>2 DEF Unlinked, SamePointers, List
    <2> QED
      BY <2>2, <2>4, <2>5 DEF m, t
  <1>7. CASE n # 1
    <2>1. /\ k = 1 => l.prev[s[k]] = s[n]
          /\ k # 1 => k - 1 \in 1 .. n - 1 /\ l.prev[s[k]] = s[k - 1]
      <3>1. CASE k = 1
        BY <3>1, <1>3
      <3>2. CASE k # 1
        <4>1. k - 1 \in 1 .. n - 1 /\ (k - 1) + 1 = k
          BY <3>2, <1>2
        <4> QED
          BY <4>1, <3>2, <1>3
      <3> QED
        BY <3>1, <3>2
    <2>2. /\ k = n => l.next[s[k]] = s[1]
          /\ k # n => k + 1 \in 1 .. n /\ l.next[s[k]] = s[k + 1]
      BY <1>2, <1>3
    <2>3. /\ l.next[s[k]] \in Node \ {s[k]} /\ l.next[s[k]] \in Range(s)
          /\ l.prev[s[k]] \in Node \ {s[k]} /\ l.prev[s[k]] \in Range(s)
      BY <2>1, <2>2, <1>2, <1>4, <1>7
    <2>4. /\ m \in List
          /\ m.head = IF s[k] = l.head THEN l.next[s[k]] ELSE l.head
          /\ m.next[s[k]] = NULL /\ m.prev[s[k]] = NULL
          /\ m.prev[l.next[s[k]]] = l.prev[s[k]]
          /\ m.next[l.prev[s[k]]] = l.next[s[k]]
          /\ \A x \in Node \ {s[k], l.prev[s[k]]} : m.next[x] = l.next[x]
          /\ \A x \in Node \ {s[k], l.next[s[k]]} : m.prev[x] = l.prev[x]
      <3>1. l.head \in Node /\ s[k] \in Node
        BY <1>2, <1>3
      <3> QED
        BY <2>3, <3>1, RemovePointers
    <2> HIDE DEF m
    \* Away from the removed node the neighbours stay.
    <2>5. ASSUME NEW i \in 1 .. n - 1, i # k, i + 1 # k
          PROVE  m.next[s[i]] = s[i + 1] /\ m.prev[s[i + 1]] = s[i]
      <3>1. i \in 1 .. n /\ i + 1 \in 1 .. n /\ i # n /\ i + 1 # 1
        BY <1>2
      <3>2. /\ s[i] # s[k] /\ s[i + 1] # s[k]
            /\ s[i] # l.prev[s[k]] /\ s[i + 1] # l.next[s[k]]
        BY <2>1, <2>2, <2>5, <3>1, <1>2, <1>4
      <3> QED
        BY <3>1, <3>2, <1>2, <1>3, <2>4
    <2>6. ASSUME NEW i \in 1 .. n - 2
          PROVE  m.next[t[i]] = t[i + 1] /\ m.prev[t[i + 1]] = t[i]
      <3>1. CASE i + 1 < k
        <4>1. i \in 1 .. n - 1 /\ i # k /\ i + 1 # k /\ t[i] = s[i] /\ t[i + 1] = s[i + 1]
          BY <3>1, <1>2, <1>5
        <4> QED
          BY <4>1, <2>5
      <3>2. CASE i + 1 = k
        <4>1. t[i] = s[k - 1] /\ t[i + 1] = s[k + 1] /\ k # 1 /\ k # n
          BY <3>2, <1>2, <1>5
        <4> QED
          BY <4>1, <2>1, <2>2, <2>4
      <3>3. CASE i >= k
        <4>1. PICK j \in 1 .. n - 1 : j = i + 1
          BY <1>2
        <4>2. j # k /\ j + 1 # k /\ t[i] = s[j] /\ t[i + 1] = s[j + 1]
          BY <3>3, <4>1, <1>2, <1>5
        <4> QED
          BY <4>2, <2>5
      <3> QED
        BY <3>1, <3>2, <3>3, <1>2
    <2>7. m.head = t[1] /\ m.next[t[n - 1]] = t[1] /\ m.prev[t[1]] = t[n - 1]
      <3>1. 1 \in 1 .. n - 1 /\ n - 1 \in 1 .. n - 1
        BY <1>2, <1>7
      <3>2. CASE k = 1
        <4>1. t[1] = s[2] /\ t[n - 1] = s[n] /\ s[k] = l.head /\ k # n
          BY <3>1, <3>2, <1>2, <1>3, <1>5, <1>7
        <4> QED
          BY <3>2, <4>1, <2>1, <2>2, <2>4
      <3>3. CASE k = n
        <4>1. t[1] = s[1] /\ t[n - 1] = s[n - 1] /\ s[1] # s[k] /\ k # 1
          BY <3>1, <3>3, <1>2, <1>4, <1>5, <1>7
        <4> QED
          BY <3>3, <4>1, <1>3, <2>1, <2>2, <2>4
      <3>4. CASE k # 1 /\ k # n
        <4>1. t[1] = s[1] /\ t[n - 1] = s[n]
          <5>1. 1 < k /\ ~(n - 1 < k) /\ (n - 1) + 1 = n
            BY <3>4, <1>2
          <5> QED
            BY <5>1, <3>1, <1>5
        <4>2. s[1] # s[k] /\ s[n] # s[k] /\ s[n] # s[k - 1] /\ s[1] # s[k + 1]
          BY <3>4, <1>2, <1>4, <2>1, <2>2
        <4> QED
          BY <3>4, <4>1, <4>2, <1>2, <1>3, <2>1, <2>2, <2>4
      <3> QED
        BY <3>2, <3>3, <3>4
    <2>8. Represents(m, t)
      <3>1. t # << >> /\ Len(t) = n - 1 /\ Len(t) - 1 = n - 2
        BY <1>2, <1>5, <1>7, EmptySeq
      <3> QED
        BY <3>1, <1>5, <2>6, <2>7 DEF Represents
    <2>9. Unlinked(m, {s[k]}) /\ SamePointers(l, m, Node \ Range(s))
      <3>1. s[k] \in Range(s)
        BY <1>2
      <3> QED
        BY <3>1, <2>3, <2>4 DEF Unlinked, SamePointers
    <2> QED
      BY <2>4, <2>8, <2>9 DEF m, t
  <1> QED
    BY <1>6, <1>7

\* With no target, list_insert_node_after appends: the queues of the library
\* are first in, first out because of this.
LEMMA AppendRepresents ==
  ASSUME NEW l \in List, NEW s \in Seq(Node), Represents(l, s),
         NEW new \in Node, new \notin Range(s)
  PROVE  /\ InsertNodeAfter(l, NULL, new) \in List
         /\ Represents(InsertNodeAfter(l, NULL, new), Append(s, new))
         /\ SamePointers(l, InsertNodeAfter(l, NULL, new),
                         Node \ (Range(s) \union {new}))
         /\ Range(Append(s, new)) = Range(s) \union {new}
  <1>1. NULL \in Ptr
    BY DEF Ptr
  <1>2. CASE s = << >>
    <2>1. Append(s, new) = <<new>>
      BY <1>2
    <2>2. Range(s) = {} /\ Range(<<new>>) = {new}
      BY <1>2 DEF Range
    <2>3. /\ CreateList(l, new) \in List
          /\ InsertNodeAfter(l, NULL, new) = CreateList(l, new)
          /\ Represents(CreateList(l, new), <<new>>)
          /\ SamePointers(l, CreateList(l, new), Node \ {new})
      BY <1>1, <1>2, CreateRepresents
    <2>4. Node \ (Range(s) \union {new}) = Node \ {new}
      BY <2>2
    <2> QED
      BY <2>1, <2>2, <2>3, <2>4
  <1>3. CASE s # << >>
    <2>1. PICK n \in Nat : n = Len(s)
      BY LenProperties
    <2>2. n # 0 /\ Len(s) \in 1 .. Len(s) /\ Len(s) + 1 \in 1 .. Len(s) + 1
      BY <2>1, <1>3, EmptySeq
    <2>3. InsertAt(s, Len(s) + 1, new) = Append(s, new)
      <3> DEFINE t == InsertAt(s, Len(s) + 1, new)
                 u == Append(s, new)
      <3>0. PICK k \in 1 .. Len(s) + 1 : k = Len(s) + 1
        BY <2>2
      <3>1. /\ t \in Seq(Node) /\ Len(t) = Len(s) + 1
            /\ \A i \in 1 .. Len(s) + 1 :
                  t[i] = IF i < k THEN s[i] ELSE IF i = k THEN new ELSE s[i - 1]
        <4>1. /\ InsertAt(s, k, new) \in Seq(Node)
              /\ Len(InsertAt(s, k, new)) = Len(s) + 1
              /\ \A i \in 1 .. Len(s) + 1 :
                    InsertAt(s, k, new)[i] =
                      IF i < k THEN s[i] ELSE IF i = k THEN new ELSE s[i - 1]
          BY InsertAtProperties
        <4> QED
          BY <3>0, <4>1
      <3>2. /\ u \in Seq(Node) /\ Len(u) = Len(s) + 1
            /\ \A i \in 1 .. Len(s) : u[i] = s[i]
            /\ u[Len(s) + 1] = new
        BY AppendProperties
      <3> HIDE DEF t, u
      <3>3. ASSUME NEW i \in 1 .. n + 1 PROVE t[i] = u[i]
        BY <2>1, <3>0, <3>1, <3>2
      <3>4. Len(t) = Len(u) /\ \A i \in 1 .. Len(t) : t[i] = u[i]
        BY <2>1, <3>1, <3>2, <3>3
      <3>5. t = u
        BY <3>1, <3>2, <3>4, SeqEqual
      <3> QED
        BY <3>5 DEF t, u
    <2>4. IsInjective(s)
      BY DEF Represents
    <2>5. Range(Append(s, new)) = Range(s) \union {new}
      BY <2>2, <2>3, <2>4, InsertAtInjective
    <2> QED
      BY <1>1, <2>2, <2>3, <2>5, InsertAfterRepresents
  <1> QED
    BY <1>2, <1>3

\* With no target, list_insert_node_before prepends.
LEMMA PrependRepresents ==
  ASSUME NEW l \in List, NEW s \in Seq(Node), Represents(l, s),
         NEW new \in Node, new \notin Range(s)
  PROVE  /\ InsertNodeBefore(l, NULL, new) \in List
         /\ Represents(InsertNodeBefore(l, NULL, new), InsertAt(s, 1, new))
         /\ SamePointers(l, InsertNodeBefore(l, NULL, new),
                         Node \ (Range(s) \union {new}))
  <1>1. NULL \in Ptr
    BY DEF Ptr
  <1>2. CASE s = << >>
    <2>1. InsertAt(s, 1, new) = <<new>>
      <3> DEFINE t == InsertAt(s, 1, new)
                 u == <<new>>
      <3>1. Len(s) = 0 /\ 1 \in 1 .. Len(s) + 1
        BY <1>2
      <3>2. t \in Seq(Node) /\ Len(t) = 1 /\ t[1] = new
        <4>1. \A k \in 1 .. Len(s) + 1 :
                 /\ InsertAt(s, k, new) \in Seq(Node)
                 /\ Len(InsertAt(s, k, new)) = Len(s) + 1
                 /\ InsertAt(s, k, new)[k] = new
          BY InsertAtProperties
        <4> QED
          BY <3>1, <4>1
      <3>3. u \in Seq(Node) /\ Len(u) = 1 /\ u[1] = new
        OBVIOUS
      <3> HIDE DEF t, u
      <3>4. Len(t) = Len(u) /\ \A i \in 1 .. Len(t) : t[i] = u[i]
        BY <3>1, <3>2, <3>3
      <3>5. t = u
        BY <3>2, <3>3, <3>4, SeqEqual
      <3> QED
        BY <3>5 DEF t, u
    <2>2. Range(s) = {}
      BY <1>2 DEF Range
    <2>3. /\ CreateList(l, new) \in List
          /\ InsertNodeBefore(l, NULL, new) = CreateList(l, new)
          /\ Represents(CreateList(l, new), <<new>>)
          /\ SamePointers(l, CreateList(l, new), Node \ {new})
      BY <1>1, <1>2, CreateRepresents
    <2>4. Node \ (Range(s) \union {new}) = Node \ {new}
      BY <2>2
    <2> QED
      BY <2>1, <2>2, <2>3, <2>4
  <1>3. CASE s # << >>
    <2>1. PICK n \in Nat : n = Len(s)
      BY LenProperties
    <2>2. n # 0 /\ 1 \in 1 .. Len(s)
      BY <2>1, <1>3, EmptySeq
    <2> QED
      BY <1>1, <2>2, InsertBeforeRepresents
  <1> QED
    BY <1>2, <1>3

\* Removing the first element leaves the tail.
LEMMA RemoveAtHead ==
  ASSUME NEW S, NEW s \in Seq(S), s # << >>
  PROVE  RemoveAt(s, 1) = Tail(s)
  <1> DEFINE t == RemoveAt(s, 1)
             u == Tail(s)
  <1>1. PICK n \in Nat \ {0} : n = Len(s)
    BY LenProperties, EmptySeq
  <1>2. 1 \in 1 .. Len(s)
    BY <1>1
  <1>3. /\ t \in Seq(S) /\ Len(t) = Len(s) - 1
        /\ \A i \in 1 .. Len(s) - 1 : t[i] = IF i < 1 THEN s[i] ELSE s[i + 1]
    BY <1>2, RemoveAtProperties
  <1>4. /\ u \in Seq(S) /\ Len(u) = Len(s) - 1
        /\ \A i \in 1 .. Len(u) : u[i] = s[i + 1]
    BY HeadTailProperties
  <1> HIDE DEF t, u
  <1>5. ASSUME NEW i \in 1 .. n - 1 PROVE t[i] = u[i]
    BY <1>1, <1>3, <1>4
  <1>6. Len(t) = Len(u) /\ \A i \in 1 .. Len(t) : t[i] = u[i]
    BY <1>1, <1>3, <1>4, <1>5
  <1>7. t = u
    BY <1>3, <1>4, <1>6, SeqEqual
  <1> QED
    BY <1>7 DEF t, u

\* The head of a queue leaves it: the request behind it becomes the head.
LEMMA RemoveHeadRepresents ==
  ASSUME NEW l \in List, NEW s \in Seq(Node), Represents(l, s), s # << >>
  PROVE  /\ l.head = Head(s) /\ Head(s) \in Range(s)
         /\ RemoveNode(l, Head(s)) \in List
         /\ Represents(RemoveNode(l, Head(s)), Tail(s))
         /\ Unlinked(RemoveNode(l, Head(s)), {Head(s)})
         /\ SamePointers(l, RemoveNode(l, Head(s)), Node \ Range(s))
         /\ Range(Tail(s)) = Range(s) \ {Head(s)}
  <1>1. PICK n \in Nat : n = Len(s)
    BY LenProperties
  <1>2. n # 0 /\ 1 \in 1 .. Len(s) /\ DOMAIN s = 1 .. Len(s)
    BY <1>1, EmptySeq, LenProperties
  <1>3. IsInjective(s) /\ l.head = s[1]
    BY DEF Represents
  <1>4. Head(s) = s[1] /\ s[1] \in Range(s)
    BY <1>2 DEF Range
  <1>5. RemoveAt(s, 1) = Tail(s)
    BY RemoveAtHead
  <1> QED
    BY <1>2, <1>3, <1>4, <1>5, RemoveRepresents, RemoveAtInjective

------------------------------------------------------------------------------
\* What the array loop has yet to link is not linked, and comes once.
ArrayAhead == IsInjective(todo) /\ Range(order) \intersect Range(todo) = {}

IInv ==
  /\ list \in List
  /\ order \in Seq(Node)
  /\ todo \in Seq(Node)
  /\ ArrayAhead
  /\ RingInOrder
  /\ FreeNodesUnlinked

\* A call that inserts new where Represents says keeps the invariant.
LEMMA InsertKeepsInv ==
  ASSUME IInv, todo = << >>, todo' = todo,
         NEW new \in Node, new \notin Range(order),
         list' \in List, order' \in Seq(Node), Represents(list, order)',
         SamePointers(list, list', Node \ (Range(order) \union {new})),
         Range(order') = Range(order) \union {new}
  PROVE  IInv'
  <1>1. Range(todo) = {}
    BY DEF Range
  <1>2. FreeNodesUnlinked'
    BY <1>1 DEF IInv, FreeNodesUnlinked, Unlinked, SamePointers
  <1>3. ArrayAhead'
    BY <1>1 DEF IInv, ArrayAhead
  <1> QED
    BY <1>2, <1>3 DEF IInv, RingInOrder

LEMMA InitInv == Init => IInv
  <1> SUFFICES ASSUME Init PROVE IInv
    OBVIOUS
  <1>1. Range(order) = {} /\ Range(todo) = {} /\ Len(order) = 0
    BY DEF Init, Range
  <1>2. list \in List
    BY DEF Init, EmptyList, List, Ptr
  <1>3. IsInjective(todo) /\ IsInjective(order)
    BY DEF Init, IsInjective
  <1>4. Represents(list, order)
    BY <1>1, <1>3 DEF Init, EmptyList, Represents
  <1>5. FreeNodesUnlinked
    BY DEF Init, EmptyList, FreeNodesUnlinked, Unlinked
  <1> QED
    BY <1>1, <1>2, <1>3, <1>4, <1>5 DEF Init, IInv, ArrayAhead, RingInOrder

LEMMA NextInv == IInv /\ [Next]_vars => IInv'
  <1> SUFFICES ASSUME IInv, [Next]_vars PROVE IInv'
    OBVIOUS
  <1>1. list \in List /\ order \in Seq(Node) /\ Represents(list, order)
    BY DEF IInv, RingInOrder
  <1>2. ASSUME NEW new \in Node, CallAppend(new) PROVE IInv'
    <2>1. /\ list' \in List /\ Represents(list, order)'
          /\ SamePointers(list, list', Node \ (Range(order) \union {new}))
          /\ Range(order') = Range(order) \union {new}
      BY <1>1, <1>2, AppendRepresents DEF CallAppend, Free
    <2>2. order' \in Seq(Node)
      BY <1>1, <1>2 DEF CallAppend
    <2> QED
      BY <1>2, <2>1, <2>2, InsertKeepsInv DEF CallAppend, Free
  <1>3. ASSUME NEW new \in Node, CallPrepend(new) PROVE IInv'
    <2>1. 1 \in 1 .. Len(order) + 1 /\ IsInjective(order)
      BY <1>1, LenProperties DEF Represents
    <2>2. /\ list' \in List /\ Represents(list, order)'
          /\ SamePointers(list, list', Node \ (Range(order) \union {new}))
      BY <1>1, <1>3, PrependRepresents DEF CallPrepend, Free
    <2>3. \A k \in 1 .. Len(order) + 1 :
             /\ InsertAt(order, k, new) \in Seq(Node)
             /\ Range(InsertAt(order, k, new)) = Range(order) \union {new}
      BY <1>1, <1>3, <2>1, InsertAtProperties, InsertAtInjective DEF CallPrepend, Free
    <2>4. order' \in Seq(Node) /\ Range(order') = Range(order) \union {new}
      BY <1>3, <2>1, <2>3 DEF CallPrepend
    <2> QED
      BY <1>3, <2>2, <2>4, InsertKeepsInv DEF CallPrepend, Free
  <1>4. ASSUME NEW new \in Node, NEW k \in DOMAIN order, CallInsertAfter(k, new)
        PROVE  IInv'
    <2>1. /\ k \in 1 .. Len(order) /\ k + 1 \in 1 .. Len(order) + 1
          /\ order[k] \in Ptr /\ IsInjective(order)
      BY <1>1, LenProperties, ElementOfSeq DEF Represents, Ptr
    <2>2. /\ list' \in List /\ Represents(list, order)'
          /\ SamePointers(list, list', Node \ (Range(order) \union {new}))
      BY <1>1, <1>4, <2>1, InsertAfterRepresents DEF CallInsertAfter, Free
    <2>3. order' \in Seq(Node) /\ Range(order') = Range(order) \union {new}
      BY <1>1, <1>4, <2>1, InsertAtProperties, InsertAtInjective
      DEF CallInsertAfter, Free
    <2> QED
      BY <1>4, <2>2, <2>3, InsertKeepsInv DEF CallInsertAfter, Free
  <1>5. ASSUME NEW new \in Node, NEW k \in DOMAIN order, CallInsertBefore(k, new)
        PROVE  IInv'
    <2>1. /\ k \in 1 .. Len(order) /\ k \in 1 .. Len(order) + 1
          /\ order[k] \in Ptr /\ IsInjective(order)
      BY <1>1, LenProperties, ElementOfSeq DEF Represents, Ptr
    <2>2. /\ list' \in List /\ Represents(list, order)'
          /\ SamePointers(list, list', Node \ (Range(order) \union {new}))
      BY <1>1, <1>5, <2>1, InsertBeforeRepresents DEF CallInsertBefore, Free
    <2>3. order' \in Seq(Node) /\ Range(order') = Range(order) \union {new}
      BY <1>1, <1>5, <2>1, InsertAtProperties, InsertAtInjective
      DEF CallInsertBefore, Free
    <2> QED
      BY <1>5, <2>2, <2>3, InsertKeepsInv DEF CallInsertBefore, Free
  <1>6. ASSUME NEW k \in DOMAIN order, CallRemove(k) PROVE IInv'
    <2>1. k \in 1 .. Len(order) /\ IsInjective(order) /\ order[k] \in Range(order)
      BY <1>1, LenProperties DEF Represents, Range
    <2>2. /\ list' \in List /\ Represents(list, order)'
          /\ Unlinked(list', {order[k]})
          /\ SamePointers(list, list', Node \ Range(order))
      BY <1>1, <1>6, <2>1, RemoveRepresents DEF CallRemove
    <2>3. order' \in Seq(Node) /\ Range(order') = Range(order) \ {order[k]}
      BY <1>1, <1>6, <2>1, RemoveAtProperties, RemoveAtInjective DEF CallRemove
    <2>4. todo = << >> /\ todo' = todo /\ Range(todo) = {}
      BY <1>6 DEF CallRemove, Range
    <2>5. FreeNodesUnlinked'
      BY <2>2, <2>3, <2>4 DEF IInv, FreeNodesUnlinked, Unlinked, SamePointers
    <2> QED
      BY <2>2, <2>3, <2>4, <2>5 DEF IInv, ArrayAhead, RingInOrder
  <1>7. ASSUME NEW array \in Arrays, CallInitFromArray(array) PROVE IInv'
    <2>1. array \in Seq(Node) /\ IsInjective(array)
      BY ArraysAssumption
    <2>2. /\ list' \in List /\ list'.head = NULL
          /\ list'.next = list.next /\ list'.prev = list.prev
      BY <1>1, <1>7 DEF CallInitFromArray, List, Ptr
    <2>3. order' = << >> /\ todo' = array /\ Range(order') = {} /\ Len(order') = 0
      BY <1>7 DEF CallInitFromArray, Range
    <2>4. Represents(list, order)'
      BY <2>2, <2>3 DEF Represents, IsInjective
    <2>5. FreeNodesUnlinked'
      <3>1. Node \ (Range(order') \union Range(todo'))
              \subseteq Node \ (Range(order) \union Range(todo))
        BY <1>7, <2>3 DEF CallInitFromArray, Range
      <3> QED
        BY <2>2, <3>1 DEF IInv, FreeNodesUnlinked, Unlinked
    <2> QED
      BY <2>1, <2>2, <2>3, <2>4, <2>5 DEF IInv, ArrayAhead, RingInOrder
  <1>8. CASE InitFromArrayStep
    <2> DEFINE h == Head(todo)
               l == InitNode(list, h)
    <2>1. /\ todo # << >> /\ todo \in Seq(Node) /\ IsInjective(todo)
          /\ h \in Node /\ h \in Range(todo) /\ h \notin Range(order)
          /\ todo' \in Seq(Node) /\ IsInjective(todo')
          /\ Range(todo') = Range(todo) \ {h}
      <3>1. todo # << >> /\ todo \in Seq(Node) /\ IsInjective(todo)
        BY <1>8 DEF IInv, ArrayAhead, InitFromArrayStep
      <3>2. PICK n \in Nat : n = Len(todo)
        BY <3>1, LenProperties
      <3>3. n # 0 /\ DOMAIN todo = 1 .. n /\ h = todo[1] /\ 1 \in 1 .. n
        BY <3>1, <3>2, EmptySeq, LenProperties
      <3>4. h \in Node /\ h \in Range(todo)
        BY <3>1, <3>2, <3>3, ElementOfSeq DEF Range
      <3>5. RemoveAt(todo, 1) = Tail(todo)
        BY <3>1, RemoveAtHead
      <3>6. todo' = Tail(todo)
        BY <1>8 DEF InitFromArrayStep
      <3>7. \A k \in 1 .. Len(todo) :
               /\ RemoveAt(todo, k) \in Seq(Node) /\ IsInjective(RemoveAt(todo, k))
               /\ Range(RemoveAt(todo, k)) = Range(todo) \ {todo[k]}
        BY <3>1, RemoveAtProperties, RemoveAtInjective
      <3> QED
        BY <3>1, <3>2, <3>3, <3>4, <3>5, <3>6, <3>7 DEF IInv, ArrayAhead
    <2>2. /\ l \in List
          /\ SamePointers(list, l, Node \ {h}) /\ l.head = list.head
      BY <1>1, <2>1 DEF InitNode, List, Ptr, SamePointers
    <2> HIDE DEF l, h
    <2>3. Represents(l, order)
      <3>1. \A i \in 1 .. Len(order) : order[i] \in Node \ {h}
        BY <1>1, <2>1, LenProperties, ElementOfSeq DEF Range
      <3>2. \A i \in 1 .. Len(order) :
               l.next[order[i]] = list.next[order[i]] /\ l.prev[order[i]] = list.prev[order[i]]
        BY <2>2, <3>1 DEF SamePointers
      <3>3. PICK n \in Nat : n = Len(order)
        BY <1>1, LenProperties
      <3>4. \A i \in 1 .. n - 1 : i \in 1 .. n /\ i + 1 \in 1 .. n
        BY <3>3
      <3>5. order # << >> => 1 \in 1 .. n /\ n \in 1 .. n
        BY <1>1, <3>3, EmptySeq
      <3> QED
        BY <1>1, <2>2, <3>2, <3>3, <3>4, <3>5 DEF Represents
    <2>4. list' = InsertNodeAfter(l, NULL, h) /\ order' = Append(order, h)
      BY <1>8 DEF InitFromArrayStep, l, h
    <2>5. /\ list' \in List /\ Represents(list, order)'
          /\ SamePointers(l, list', Node \ (Range(order) \union {h}))
          /\ Range(order') = Range(order) \union {h}
      BY <1>1, <2>1, <2>2, <2>3, <2>4, AppendRepresents
    <2>6. order' \in Seq(Node)
      BY <1>1, <2>1, <2>4
    <2>7. FreeNodesUnlinked'
      <3>1. Node \ (Range(order') \union Range(todo'))
              = Node \ (Range(order) \union Range(todo))
        BY <2>1, <2>5
      <3> QED
        BY <2>1, <2>2, <2>5, <3>1
        DEF IInv, FreeNodesUnlinked, Unlinked, SamePointers
    <2>8. ArrayAhead'
      BY <2>1, <2>5 DEF IInv, ArrayAhead
    <2> QED
      BY <2>1, <2>5, <2>6, <2>7, <2>8 DEF IInv, RingInOrder
  <1>9. CASE UNCHANGED vars
    BY <1>9 DEF vars, IInv, ArrayAhead, RingInOrder, FreeNodesUnlinked
  <1> QED
    BY <1>2, <1>3, <1>4, <1>5, <1>6, <1>7, <1>8, <1>9 DEF Next

\* Represents, and the ring it describes, gives the other properties.
LEMMA InvImplies == IInv => TypeOK /\ TraversalEnds
  <1> SUFFICES ASSUME IInv PROVE TypeOK /\ TraversalEnds
    OBVIOUS
  <1>1. /\ list \in List /\ order \in Seq(Node) /\ todo \in Seq(Node)
        /\ Represents(list, order)
    BY DEF IInv, RingInOrder
  <1>2. PICK n \in Nat : n = Len(order)
    BY <1>1, LenProperties
  <1>3. DOMAIN order = 1 .. n /\ \A i \in 1 .. n : order[i] \in Node
    BY <1>1, <1>2, LenProperties, ElementOfSeq
  <1>4. \A i, j \in 1 .. n : order[i] = order[j] => i = j
    BY <1>1, <1>3 DEF Represents, IsInjective
  <1>5. ASSUME n # 0
        PROVE  /\ list.head = order[1] /\ 1 \in 1 .. n /\ n \in 1 .. n
               /\ list.next[order[n]] = order[1] /\ list.prev[order[1]] = order[n]
               /\ \A i \in 1 .. n - 1 : /\ list.next[order[i]] = order[i + 1]
                                        /\ list.prev[order[i + 1]] = order[i]
    BY <1>1, <1>2, <1>5, EmptySeq DEF Represents
  <1>6. TypeOK
    <2>1. n = 0 => list.head = NULL
      BY <1>1, <1>2, EmptySeq DEF Represents
    <2> QED
      BY <2>1, <1>1, <1>3, <1>5 DEF TypeOK
  <1>7. ASSUME NEW i \in 1 .. n
        PROVE  /\ NextNode(list, order[i]) = IF i = n THEN NULL ELSE order[i + 1]
               /\ PrevNode(list, order[i]) = IF i = 1 THEN NULL ELSE order[i - 1]
               /\ ListTail(list) = order[n]
    <2>1. n # 0 /\ list.head # NULL
      BY <1>3, <1>5, NullAssumption
    <2>2. NextNode(list, order[i]) = IF i = n THEN NULL ELSE order[i + 1]
      <3>1. CASE i = n
        BY <2>1, <3>1, <1>5 DEF NextNode
      <3>2. CASE i # n
        <4>1. i \in 1 .. n - 1 /\ i + 1 \in 1 .. n /\ i + 1 # 1
          BY <3>2
        <4> QED
          BY <2>1, <3>2, <4>1, <1>4, <1>5 DEF NextNode
      <3> QED
        BY <3>1, <3>2
    <2>3. PrevNode(list, order[i]) = IF i = 1 THEN NULL ELSE order[i - 1]
      <3>1. CASE i = 1
        BY <2>1, <3>1, <1>5 DEF PrevNode
      <3>2. CASE i # 1
        <4>1. i - 1 \in 1 .. n - 1 /\ (i - 1) + 1 = i
          BY <3>2
        <4>2. order[i] # order[1] /\ list.prev[order[i]] = order[i - 1]
          BY <2>1, <3>2, <4>1, <1>4, <1>5
        <4> QED
          BY <2>1, <3>2, <4>2, <1>5 DEF PrevNode
      <3> QED
        BY <3>1, <3>2
    <2>4. ListTail(list) = order[n]
      BY <2>1, <1>5 DEF ListTail
    <2> QED
      BY <2>2, <2>3, <2>4
  <1>8. TraversalEnds
    BY <1>2, <1>3, <1>7 DEF TraversalEnds
  <1> QED
    BY <1>6, <1>8

\* The pointers form the ring the calls asked for, in every reachable state
\* of list_mgr.c's client, however many nodes it owns.
THEOREM ListInOrder == Spec => []RingInOrder
  <1>1. Spec => []IInv
    BY InitInv, NextInv, PTL DEF Spec
  <1>2. IInv => RingInOrder
    BY DEF IInv
  <1> QED
    BY <1>1, <1>2, PTL

\* A node off the list holds null pointers (list_node_init).
THEOREM ListUnlinked == Spec => []FreeNodesUnlinked
  <1>1. Spec => []IInv
    BY InitInv, NextInv, PTL DEF Spec
  <1>2. IInv => FreeNodesUnlinked
    BY DEF IInv
  <1> QED
    BY <1>1, <1>2, PTL

\* The state is well formed and the traversal macros of list_mgr.h visit the
\* list in order and end.
THEOREM ListTraversal == Spec => [](TypeOK /\ TraversalEnds)
  <1>1. Spec => []IInv
    BY InitInv, NextInv, PTL DEF Spec
  <1> QED
    BY <1>1, InvImplies, PTL
==============================================================================
