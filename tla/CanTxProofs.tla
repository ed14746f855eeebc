----------------------------- MODULE CanTxProofs -----------------------------
(***************************************************************************)
(* Proofs about CanTx, for any requests, any waits and any number of       *)
(* frames: what is waiting in the mailboxes continues what was sent, and a *)
(* request's mailbox answers for it.  They carry over to CanLoop, where    *)
(* the receiving side and its handlers are at work as well; and there, for *)
(* any identifiers and any lists of them, every frame sent is told of in   *)
(* its place, waits, was overwritten or was filtered out as it should be.  *)
(***************************************************************************)
EXTENDS CanLoop, SequenceTheorems, TLAPS

Inside == {"tme0", "tme1", "tme2", "retry", "fill", "txrq"}

\* Sent and waiting frames, element by element.
OrderInv ==
  /\ Len(wire) + Len(pend) = accepted
  /\ \A i \in 1 .. Len(wire) : wire[i] = i
  /\ \A i \in 1 .. Len(pend) : frame[pend[i]] = Len(wire) + i

\* A mailbox waits once, and its flag is down while it waits.
PendInv ==
  /\ \A i, j \in 1 .. Len(pend) : pend[i] = pend[j] => i = j
  /\ \A i \in 1 .. Len(pend) : pend[i] \notin rqcp

\* The mailbox a call has found stays free until the call asks to send it.
CallInv ==
  /\ pc # "idle" => cur \in Req
  /\ pc \in Inside => accepted < MaxFrames
  /\ pc \in {"tme0", "tme1", "tme2", "retry"} => mbIdx[cur] = Invalid
  /\ pc \in {"fill", "txrq"} =>
       mbIdx[cur] \in Mailbox /\ \A i \in 1 .. Len(pend) : pend[i] # mbIdx[cur]
  /\ pc = "txrq" => frame[mbIdx[cur]] = accepted + 1
  /\ pc \in {"check", "or", "clear"} => mbIdx[cur] \in Mailbox

Sent(n, w) == \E i \in 1 .. Len(w) : w[i] = n

\* What was accepted for a request has been sent, or is what its mailbox holds.
TrackInv ==
  \A r \in Req : mbIdx[r] \in Mailbox /\ ~(r = cur /\ pc \in {"fill", "txrq"}) =>
    \/ Sent(nth[r], wire)
    \/ \E i \in 1 .. Len(pend) : pend[i] = mbIdx[r] /\ frame[pend[i]] = nth[r]

ToldInv == \A r \in Req : told[r] = "done" => Sent(nth[r], wire)

IInv ==
  /\ TypeOK /\ OrderInv /\ PendInv /\ CallInv /\ TrackInv /\ ToldInv
------------------------------------------------------------------------------
LEMMA RemoveHead ==
  ASSUME NEW S, NEW s \in Seq(S), 1 \in DOMAIN s
  PROVE  /\ RemoveAt(s, 1) \in Seq(S) /\ Len(RemoveAt(s, 1)) = Len(s) - 1
         /\ \A i \in 1 .. Len(s) - 1 : RemoveAt(s, 1)[i] = s[i + 1]
  <1>1. Len(s) \in Nat /\ Len(s) >= 1 /\ s # << >>
    BY LenProperties
  <1>2. SubSeq(s, 1, 0) = << >> /\ SubSeq(s, 2, Len(s)) = Tail(s)
    BY <1>1, SubSeqEmpty, TailIsSubSeq
  <1>3. Tail(s) \in Seq(S)
    BY <1>1, HeadTailProperties
  <1>4. RemoveAt(s, 1) = Tail(s)
    BY <1>2, <1>3, ConcatEmptySeq DEF RemoveAt
  <1> QED
    BY <1>1, <1>4, HeadTailProperties

LEMMA InitHolds == ASSUME CanTxAssumption, Init PROVE IInv
  <1>1. /\ Len(wire) = 0 /\ Len(pend) = 0 /\ wire \in Seq(Frame) /\ pend \in Seq(Mailbox)
    BY DEF Init
  <1>2. TypeOK
    BY <1>1 DEF Init, TypeOK, Frame
  <1> QED
    BY <1>1, <1>2 DEF Init, IInv, OrderInv, PendInv, CallInv, TrackInv, ToldInv, Inside,
       Mailbox, Invalid

\* The processor and the controller work on different sides of the mailboxes.
LEMMA TransmitKeeps ==
  ASSUME CanTxAssumption, IInv, Transmit
  PROVE  IInv'
  <1>1. /\ pend \in Seq(Mailbox) /\ 1 \in DOMAIN pend
        /\ pend' = RemoveAt(pend, 1)
        /\ wire' = Append(wire, frame[pend[1]])
        /\ rqcp' = rqcp \union {pend[1]}
        /\ UNCHANGED <<frame, mbIdx, pc, cur, left, snap, told, nth, accepted>>
    BY DEF IInv, TypeOK, Transmit, TransmitFifo
  <1>2. /\ Len(pend) \in Nat /\ 1 <= Len(pend)
        /\ pend' \in Seq(Mailbox) /\ Len(pend') = Len(pend) - 1
        /\ \A i \in 1 .. Len(pend) - 1 : pend'[i] = pend[i + 1]
    BY <1>1, RemoveHead, LenProperties
  <1>3. /\ frame[pend[1]] = Len(wire) + 1 /\ frame[pend[1]] \in Frame
        /\ pend[1] \in Mailbox /\ wire \in Seq(Frame) /\ Len(wire) \in Nat
    BY <1>1, <1>2, LenProperties DEF IInv, TypeOK, OrderInv
  <1>4. /\ wire' \in Seq(Frame) /\ Len(wire') = Len(wire) + 1
        /\ \A i \in 1 .. Len(wire) : wire'[i] = wire[i]
        /\ wire'[Len(wire) + 1] = frame[pend[1]]
    BY <1>1, <1>3, AppendProperties
  <1>5. TypeOK'
    BY <1>1, <1>2, <1>3, <1>4 DEF IInv, TypeOK
  <1>6. OrderInv'
    <2>1. Len(wire') + Len(pend') = accepted'
      <3>1. Len(wire) + Len(pend) = accepted /\ accepted' = accepted
        BY <1>1 DEF IInv, OrderInv
      <3>2. (Len(wire) + 1) + (Len(pend) - 1) = Len(wire) + Len(pend)
        BY <1>2, <1>3
      <3> QED
        BY <1>2, <1>4, <3>1, <3>2
    <2>2. ASSUME NEW i \in 1 .. Len(wire')
          PROVE  wire'[i] = i
      <3>1. CASE i = Len(wire) + 1
        BY <1>3, <1>4, <3>1
      <3>2. CASE i \in 1 .. Len(wire)
        BY <1>4, <3>2 DEF IInv, OrderInv
      <3> QED
        BY <1>3, <1>4, <3>1, <3>2
    <2>3. ASSUME NEW i \in 1 .. Len(pend')
          PROVE  frame'[pend'[i]] = Len(wire') + i
      <3>1. i + 1 \in 1 .. Len(pend) /\ pend'[i] = pend[i + 1]
        BY <1>2
      <3>2. frame[pend[i + 1]] = Len(wire) + (i + 1)
        BY <3>1 DEF IInv, OrderInv
      <3> QED
        BY <1>1, <1>3, <1>4, <3>1, <3>2
    <2> QED
      BY <2>1, <2>2, <2>3 DEF OrderInv
  <1>7. \A i \in 1 .. Len(pend') : i + 1 \in 1 .. Len(pend) /\ pend'[i] = pend[i + 1]
    BY <1>2
  <1>8. PendInv' /\ CallInv'
    <2>1. ASSUME NEW i \in 1 .. Len(pend'), NEW k \in 1 .. Len(pend'), pend'[i] = pend'[k]
          PROVE  i = k
      <3>1. i + 1 = k + 1
        BY <1>7, <2>1 DEF IInv, PendInv
      <3> QED
        BY <1>2, <3>1
    <2>2. ASSUME NEW i \in 1 .. Len(pend')
          PROVE  pend'[i] \notin rqcp'
      <3>1. i + 1 # 1 /\ 1 \in 1 .. Len(pend)
        BY <1>2
      <3> QED
        BY <1>1, <1>7, <3>1 DEF IInv, PendInv
    <2>3. CallInv'
      BY <1>1, <1>7 DEF IInv, CallInv
    <2> QED
      BY <2>1, <2>2, <2>3 DEF PendInv
  <1>9. \A n : Sent(n, wire) => Sent(n, wire')
    BY <1>3, <1>4 DEF Sent
  <1>10. Sent(frame[pend[1]], wire')
    <2>1. Len(wire) + 1 \in 1 .. Len(wire')
      BY <1>3, <1>4
    <2> QED
      BY <1>4, <2>1 DEF Sent
  <1>11. TrackInv'
    <2> SUFFICES ASSUME NEW r \in Req, mbIdx[r] \in Mailbox, ~(r = cur /\ pc \in {"fill", "txrq"}),
                        ~Sent(nth[r], wire')
                 PROVE  \E i \in 1 .. Len(pend') : pend'[i] = mbIdx[r] /\ frame[pend'[i]] = nth[r]
      BY <1>1 DEF TrackInv
    <2>1. PICK i \in 1 .. Len(pend) : pend[i] = mbIdx[r] /\ frame[pend[i]] = nth[r]
      BY <1>1, <1>9 DEF IInv, TrackInv
    <2>2. i # 1
      BY <1>1, <1>10, <2>1
    <2>3. i - 1 \in 1 .. Len(pend') /\ pend'[i - 1] = pend[i]
      BY <1>2, <2>2
    <2> QED
      BY <2>1, <2>3
  <1>12. ToldInv'
    BY <1>1, <1>9 DEF IInv, ToldInv
  <1> QED
    BY <1>5, <1>6, <1>8, <1>11, <1>12 DEF IInv

LEMMA SendKeeps ==
  ASSUME NEW r \in Req, NEW wait \in 0 .. MaxWait, CanTxAssumption, IInv, Send(r, wait)
  PROVE  IInv'
  <1>1. TypeOK'
    BY DEF IInv, TypeOK, Send, regVars
  <1>2. OrderInv' /\ PendInv' /\ ToldInv'
    BY DEF IInv, OrderInv, PendInv, ToldInv, Send, regVars
  <1>3. CallInv'
    BY DEF IInv, TypeOK, CallInv, Send
  <1>4. TrackInv'
    BY DEF IInv, TrackInv, Mailbox, Invalid, Send, regVars
  <1> QED
    BY <1>1, <1>2, <1>3, <1>4 DEF IInv

LEMMA ScanKeeps ==
  ASSUME NEW m \in Mailbox, CanTxAssumption, IInv, Scan(m)
  PROVE  IInv'
  <1>1. TypeOK'
    <2>1. mbIdx' \in [Req -> Mailbox \union {Invalid}]
      BY DEF IInv, TypeOK, CallInv, Scan
    <2>2. m \in {0, 1, 2}
      BY DEF Mailbox
    <2>3. pc' \in {"fill", "retry", "tme1", "tme2"}
      BY <2>2 DEF Scan, Label, Mailbox
    <2> QED
      BY <2>1, <2>3 DEF IInv, TypeOK, Scan, regVars
  <1>2. OrderInv' /\ PendInv' /\ ToldInv'
    BY DEF IInv, OrderInv, PendInv, ToldInv, Scan, regVars
  <1>3. CallInv'
    BY DEF IInv, TypeOK, CallInv, Inside, Mailbox, Scan, Label, Empty, Range, regVars
  <1>4. TrackInv'
    BY DEF IInv, TypeOK, TrackInv, Mailbox, Scan, Label, regVars
  <1> QED
    BY <1>1, <1>2, <1>3, <1>4 DEF IInv

LEMMA RetryKeeps ==
  ASSUME CanTxAssumption, IInv, Retry
  PROVE  IInv'
  <1>1. TypeOK'
    BY DEF IInv, TypeOK, Retry, regVars
  <1>2. OrderInv' /\ PendInv' /\ ToldInv'
    BY DEF IInv, OrderInv, PendInv, ToldInv, Retry, regVars
  <1>3. CallInv'
    BY DEF IInv, CallInv, Inside, Retry
  <1>4. TrackInv'
    BY DEF IInv, TrackInv, Retry, regVars
  <1> QED
    BY <1>1, <1>2, <1>3, <1>4 DEF IInv

LEMMA FillKeeps ==
  ASSUME CanTxAssumption, IInv, Fill
  PROVE  IInv'
  <1>1. TypeOK'
    BY DEF IInv, TypeOK, CallInv, Inside, Frame, Fill
  <1>2. OrderInv' /\ PendInv' /\ ToldInv'
    BY DEF IInv, CallInv, OrderInv, PendInv, ToldInv, Fill
  <1>3. CallInv'
    BY DEF IInv, TypeOK, CallInv, Inside, Fill
  <1>4. TrackInv'
    BY DEF IInv, CallInv, TrackInv, Fill
  <1> QED
    BY <1>1, <1>2, <1>3, <1>4 DEF IInv

LEMMA RequestTxKeeps ==
  ASSUME CanTxAssumption, IInv, RequestTx
  PROVE  IInv'
  <1> DEFINE m == mbIdx[cur]
  <1>1. /\ cur \in Req /\ m \in Mailbox /\ frame[m] = accepted + 1
        /\ accepted + 1 \in Frame /\ accepted \in Nat
        /\ \A i \in 1 .. Len(pend) : pend[i] # m
    BY DEF IInv, TypeOK, CallInv, Frame, RequestTx
  <1>2. /\ pend' = Append(pend, m) /\ rqcp' = rqcp \ {m} /\ accepted' = accepted + 1
        /\ pc = "txrq" /\ pc' = "idle"
        /\ nth' = [nth EXCEPT ![cur] = accepted + 1]
        /\ told' = [told EXCEPT ![cur] = "nothing"]
        /\ UNCHANGED <<frame, mbIdx, cur, left, snap, wire>>
    BY DEF RequestTx
  <1>3. pend \in Seq(Mailbox) /\ Len(pend) \in Nat /\ Len(wire) \in Nat
    BY LenProperties DEF IInv, TypeOK
  <1> HIDE DEF m
  <1>4. /\ pend' \in Seq(Mailbox) /\ Len(pend') = Len(pend) + 1
        /\ \A i \in 1 .. Len(pend) : pend'[i] = pend[i]
        /\ pend'[Len(pend) + 1] = m
    BY <1>1, <1>2, <1>3, AppendProperties
  <1>5. TypeOK'
    BY <1>1, <1>2, <1>4 DEF IInv, TypeOK
  <1>6. OrderInv'
    <2>1. Len(wire') + Len(pend') = accepted' /\ Len(pend) + 1 + Len(wire) = accepted + 1
      BY <1>1, <1>2, <1>3, <1>4 DEF IInv, OrderInv
    <2>2. ASSUME NEW i \in 1 .. Len(pend')
          PROVE  frame[pend'[i]] = Len(wire) + i
      <3>1. CASE i = Len(pend) + 1
        BY <1>1, <1>3, <1>4, <2>1, <3>1
      <3>2. CASE i \in 1 .. Len(pend)
        BY <1>4, <3>2 DEF IInv, OrderInv
      <3> QED
        BY <1>3, <1>4, <3>1, <3>2
    <2> QED
      BY <1>2, <2>1, <2>2 DEF IInv, OrderInv
  <1>7. PendInv'
    BY <1>1, <1>2, <1>3, <1>4 DEF IInv, PendInv
  <1>8. CallInv'
    BY <1>2 DEF CallInv, Inside
  <1>9. TrackInv'
    <2> SUFFICES ASSUME NEW r \in Req, mbIdx[r] \in Mailbox, ~Sent(nth'[r], wire)
                 PROVE  \E i \in 1 .. Len(pend') : pend'[i] = mbIdx[r] /\ frame[pend'[i]] = nth'[r]
      BY <1>2 DEF TrackInv
    <2>1. CASE r = cur
      <3>1. nth'[r] = accepted + 1 /\ mbIdx[r] = m /\ Len(pend) + 1 \in 1 .. Len(pend')
        BY <1>1, <1>2, <1>3, <1>4, <2>1 DEF IInv, TypeOK, m
      <3> QED
        BY <1>1, <1>4, <3>1
    <2>2. CASE r # cur
      <3>1. nth'[r] = nth[r]
        BY <1>2, <2>2 DEF IInv, TypeOK
      <3>2. PICK i \in 1 .. Len(pend) : pend[i] = mbIdx[r] /\ frame[pend[i]] = nth[r]
        BY <2>2, <3>1 DEF IInv, TrackInv
      <3>3. i \in 1 .. Len(pend') /\ pend'[i] = pend[i]
        BY <1>3, <1>4
      <3> QED
        BY <3>1, <3>2, <3>3
    <2> QED
      BY <2>1, <2>2
  <1>10. ToldInv'
    BY <1>1, <1>2 DEF IInv, TypeOK, ToldInv
  <1> QED
    BY <1>5, <1>6, <1>7, <1>8, <1>9, <1>10 DEF IInv

LEMMA CheckKeeps ==
  ASSUME NEW r \in Req, CanTxAssumption, IInv, Check(r)
  PROVE  IInv'
  <1>1. TypeOK'
    BY DEF IInv, TypeOK, Check, regVars
  <1>2. OrderInv' /\ PendInv' /\ ToldInv'
    BY DEF IInv, OrderInv, PendInv, ToldInv, Check, regVars
  <1>3. CallInv'
    BY DEF IInv, TypeOK, CallInv, Inside, Check
  <1>4. TrackInv'
    BY DEF IInv, TrackInv, Check, regVars
  <1> QED
    BY <1>1, <1>2, <1>3, <1>4 DEF IInv

LEMMA ReadStatusKeeps ==
  ASSUME CanTxAssumption, IInv, ReadStatus
  PROVE  IInv'
  <1>1. TypeOK'
    BY DEF IInv, TypeOK, ReadStatus, regVars
  <1>2. OrderInv' /\ PendInv'
    BY DEF IInv, OrderInv, PendInv, ReadStatus, regVars
  <1>3. mbIdx[cur] \in rqcp => Sent(nth[cur], wire)
    BY DEF IInv, CallInv, PendInv, TrackInv, ReadStatus
  <1>4. ToldInv'
    BY <1>3 DEF IInv, ToldInv, ReadStatus
  <1>5. CallInv'
    BY DEF IInv, CallInv, Inside, ReadStatus
  <1>6. TrackInv'
    BY DEF IInv, TrackInv, ReadStatus, regVars
  <1> QED
    BY <1>1, <1>2, <1>4, <1>5, <1>6 DEF IInv

LEMMA ReadFlagsKeeps ==
  ASSUME CanTxAssumption, IInv, ReadFlags
  PROVE  IInv'
  <1>1. TypeOK'
    BY DEF IInv, TypeOK, ReadFlags, regVars
  <1>2. OrderInv' /\ PendInv' /\ ToldInv'
    BY DEF IInv, OrderInv, PendInv, ToldInv, ReadFlags, regVars
  <1>3. CallInv'
    BY DEF IInv, CallInv, Inside, ReadFlags
  <1>4. TrackInv'
    <2>1. pc = "or" /\ pc' = "clear" /\ UNCHANGED <<frame, pend, mbIdx, cur, nth, wire>>
      BY DEF ReadFlags, regVars
    <2> QED
      BY <2>1 DEF IInv, TrackInv
  <1> QED
    BY <1>1, <1>2, <1>3, <1>4 DEF IInv

LEMMA ClearFlagsKeeps ==
  ASSUME CanTxAssumption, IInv, ClearFlags
  PROVE  IInv'
  <1>1. TypeOK'
    BY DEF IInv, TypeOK, ClearFlags
  <1>2. OrderInv' /\ PendInv' /\ ToldInv'
    BY DEF IInv, OrderInv, PendInv, ToldInv, ClearFlags
  <1>3. CallInv'
    BY DEF CallInv, Inside, ClearFlags
  <1>4. TrackInv'
    BY DEF IInv, TrackInv, ClearFlags
  <1> QED
    BY <1>1, <1>2, <1>3, <1>4 DEF IInv

LEMMA StutterKeeps ==
  ASSUME IInv, UNCHANGED vars
  PROVE  IInv'
  <1>1. TypeOK'
    BY DEF IInv, TypeOK, vars, regVars
  <1>2. OrderInv' /\ PendInv' /\ CallInv'
    BY DEF IInv, OrderInv, PendInv, CallInv, vars, regVars
  <1>3. TrackInv' /\ ToldInv'
    BY DEF IInv, TrackInv, ToldInv, vars, regVars
  <1> QED
    BY <1>1, <1>2, <1>3 DEF IInv

LEMMA NextKeeps ==
  ASSUME CanTxAssumption, IInv, [Next]_vars
  PROVE  IInv'
  <1>1. CASE Step
    <2>1. CASE \E m \in Mailbox : Scan(m)
      BY <2>1, ScanKeeps
    <2>2. CASE Retry \/ Fill \/ RequestTx
      BY <2>2, RetryKeeps, FillKeeps, RequestTxKeeps
    <2>3. CASE ReadStatus
      BY <2>3, ReadStatusKeeps
    <2>4. CASE ReadFlags
      BY <2>4, ReadFlagsKeeps
    <2>5. CASE ClearFlags
      BY <2>5, ClearFlagsKeeps
    <2> QED
      BY <1>1, <2>1, <2>2, <2>3, <2>4, <2>5 DEF Step
  <1>2. CASE \E r \in Req : Check(r) \/ \E wait \in 0 .. MaxWait : Send(r, wait)
    BY <1>2, CheckKeeps, SendKeeps
  <1>3. CASE Done \/ UNCHANGED vars
    BY <1>3, StutterKeeps DEF Done
  <1> QED
    BY <1>1, <1>2, <1>3, TransmitKeeps DEF Next

THEOREM Inductive == Spec => []IInv
  <1>1. Init => IInv
    BY InitHolds, CanTxAssumption
  <1>2. IInv /\ [Next]_vars => IInv'
    BY NextKeeps, CanTxAssumption
  <1> QED
    BY <1>1, <1>2, PTL DEF Spec

\* What the invariant says of the properties that the model checker checks.
LEMMA InvImplies == IInv => TypeOK /\ SentOnceInOrder /\ DoneMeansSent
  <1>1. ASSUME IInv
        PROVE  SentOnceInOrder
    <2> DEFINE waiting == [i \in DOMAIN pend |-> frame[pend[i]]]
               all == wire \o waiting
               count == [i \in 1 .. accepted |-> i]
    <2>1. /\ wire \in Seq(Frame) /\ pend \in Seq(Mailbox) /\ frame \in [Mailbox -> Frame]
          /\ Len(wire) \in Nat /\ Len(pend) \in Nat /\ DOMAIN pend = 1 .. Len(pend)
          /\ accepted \in Nat
      BY <1>1, LenProperties DEF IInv, TypeOK, Frame
    <2>2. waiting \in Seq(Frame) /\ Len(waiting) = Len(pend)
      BY <2>1
    <2> HIDE DEF waiting
    <2>3. /\ all \in Seq(Frame) /\ Len(all) = accepted
          /\ \A i \in 1 .. accepted : all[i] = IF i <= Len(wire) THEN wire[i] ELSE waiting[i - Len(wire)]
      BY <1>1, <2>1, <2>2, ConcatProperties DEF IInv, OrderInv
    <2>4. ASSUME NEW i \in 1 .. accepted
          PROVE  all[i] = i
      <3>1. CASE i <= Len(wire)
        <4>1. i \in 1 .. Len(wire)
          BY <2>1, <3>1
        <4> QED
          BY <1>1, <2>3, <3>1, <4>1 DEF IInv, OrderInv
      <3>2. CASE ~(i <= Len(wire))
        <4> DEFINE k == i - Len(wire)
        <4>1. k \in 1 .. Len(pend) /\ i = Len(wire) + k
          BY <1>1, <2>1, <3>2 DEF IInv, OrderInv
        <4>2. waiting[k] = frame[pend[k]]
          BY <2>1, <4>1 DEF waiting
        <4>3. frame[pend[k]] = Len(wire) + k
          BY <1>1, <4>1 DEF IInv, OrderInv
        <4> QED
          BY <2>3, <3>2, <4>1, <4>2, <4>3
      <3> QED
        BY <3>1, <3>2
    <2> HIDE DEF all
    <2>5. count \in Seq(Nat) /\ Len(count) = accepted
      BY <2>1
    <2>6. all \in Seq(Nat)
      <3>1. Frame \subseteq Nat
        BY CanTxAssumption DEF CanTxAssumption, Frame
      <3> QED
        BY <2>3, <3>1, SeqMonotonic
    <2>7. all = count
      BY <2>3, <2>4, <2>5, <2>6, SeqEqual
    <2> QED
      BY <2>7 DEF SentOnceInOrder, all, waiting
  <1>2. IInv => DoneMeansSent
    BY LenProperties DEF IInv, TypeOK, ToldInv, Sent, DoneMeansSent, Range
  <1>3. IInv => TypeOK
    BY DEF IInv
  <1> QED
    BY <1>1, <1>2, <1>3

\* can_tx_req: every accepted frame is sent once, unchanged, and in the order
\* of acceptance, for any number of frames and of request objects.
THEOREM FramesInOrder == Spec => []SentOnceInOrder
  BY InvImplies, Inductive, PTL

\* can_check_tx_complete: CAN_TX_DONE is never the answer for another frame.
THEOREM DoneIsSent == Spec => []DoneMeansSent
  BY InvImplies, Inductive, PTL
------------------------------------------------------------------------------
\* What the receiving side does, its handlers' interruptions included, is for
\* the sending side a step of its own or none.
LEMMA LoopStepIsStep == [LoopNext]_LoopVars => [Next]_vars
  <1>1. ASSUME LoopBack \/ MainStep
        PROVE  [Next]_vars
    BY <1>1 DEF LoopBack, MainStep, Next
  <1>2. ASSUME Handler
        PROVE  UNCHANGED vars
    BY <1>2 DEF Handler, Handle, Release
  <1>3. ASSUME UNCHANGED LoopVars
        PROVE  UNCHANGED vars
    BY <1>3 DEF LoopVars
  <1>4. ASSUME \/ \E r \in Req : Check(r) \/ \E wait \in 0 .. MaxWait : Send(r, wait)
               \/ Done
        PROVE  Next
    BY <1>4 DEF Next
  <1> QED
    BY <1>1, <1>2, <1>3, <1>4 DEF LoopNext

LEMMA LoopInductive == LoopSpec => []IInv
  <1>1. LoopInit => IInv
    BY InitHolds, CanTxAssumption DEF LoopInit
  <1>2. IInv /\ [LoopNext]_LoopVars => IInv'
    BY LoopStepIsStep, NextKeeps, CanTxAssumption
  <1> QED
    BY <1>1, <1>2, PTL DEF LoopSpec

\* The state of can_tx_req and can_check_tx_complete in loopback.
THEOREM LoopTyped == LoopSpec => []TypeOK
  BY InvImplies, LoopInductive, PTL

\* In loopback too every accepted frame is sent once and in order, whatever the
\* handlers do between the steps of can_tx_req.
THEOREM LoopFramesInOrder == LoopSpec => []SentOnceInOrder
  BY InvImplies, LoopInductive, PTL

\* In loopback too CAN_TX_DONE is never said of a frame that was not sent.
THEOREM LoopDoneIsSent == LoopSpec => []DoneMeansSent
  BY InvImplies, LoopInductive, PTL
------------------------------------------------------------------------------
(***************************************************************************)
(* The receiving side.  First the filter banks: the words that             *)
(* can_filter_init_ex writes are those the controller compares, and no two *)
(* identifiers share one.                                                  *)
(***************************************************************************)
\* A standard or an extended identifier, and nothing else.
LEMMA Kinds ==
  ASSUME NEW i \in Identifier
  PROVE  /\ i = [id |-> i.id, ext |-> i.ext]
         /\ \/ i.ext = TRUE /\ i.id \in ExtId
            \/ i.ext = FALSE /\ i.id \in StdId
         /\ i.id \in Nat
  <1>1. /\ i = [id |-> i.id, ext |-> i.ext]
        /\ \/ i.ext = TRUE /\ i.id \in ExtId
           \/ i.ext = FALSE /\ i.id \in StdId
    BY Zenon DEF Identifier
  <1>2. StdId \subseteq Nat /\ ExtId \subseteq Nat
    BY SMT DEF StdId, ExtId
  <1> QED
    BY <1>1, <1>2

\* can_filter_init_ex puts an identifier where the controller compares the one
\* that can_tx_req sends.
LEMMA ComparedWord ==
  ASSUME NEW i \in Identifier
  PROVE  Compared(Mir(i)) = FilterWord(i)
  <1> DEFINE m == Mir(i)
  <1>1. CASE i.ext = FALSE /\ i.id \in StdId
    <2>1. i.id \in Nat /\ i.id < 2048
      BY <1>1 DEF StdId
    <2>2. m.ide = FALSE /\ m.exid = 0 /\ m.stid = i.id % 2048
      BY <1>1, SMT DEF Mir
    <2>3. m.stid = i.id
      BY <2>1, <2>2, SMT
    <2>4. /\ (0 % 32) * 8 + 0 = 0 /\ (0 \div 32) % 256 = 0 /\ 0 \div 8192 = 0
          /\ (i.id % 8) * 32 + 0 = (i.id % 8) * 32
      BY <2>1, SMT
    <2> HIDE DEF m
    <2>5. Compared(m) = <<0, 0, (i.id % 8) * 32, i.id \div 8>>
      BY <2>2, <2>3, <2>4, SMT DEF Compared
    <2> QED
      BY <1>1, <2>5, SMT DEF m, FilterWord
  <1>2. CASE i.ext = TRUE /\ i.id \in ExtId
    <2> DEFINE e == i.id % 262144
               s == (i.id \div 262144) % 2048
    <2>1. i.id \in Nat /\ i.id < 536870912
      BY <1>2, SMT DEF ExtId
    <2>2. m.ide = TRUE /\ m.exid = e /\ m.stid = s
      BY <1>2, SMT DEF Mir
    <2>4. e % 32 = i.id % 32 /\ (e \div 32) % 256 = (i.id \div 32) % 256
      BY <2>1, SMT
    <2>5. s = i.id \div 262144 /\ s \div 8 = i.id \div 2097152
      BY <2>1, SMT
    <2>6. (s % 8) * 32 + (e \div 8192) = (i.id \div 8192) % 256
      BY <2>1, SMT
    <2> HIDE DEF e, s, m
    <2>7. Compared(m) = <<(i.id % 32) * 8 + 4, (i.id \div 32) % 256, (i.id \div 8192) % 256,
                          i.id \div 2097152>>
      BY <2>2, <2>4, <2>5, <2>6, SMT DEF Compared
    <2> QED
      BY <1>2, <2>7, SMT DEF m, FilterWord
  <1> QED
    BY <1>1, <1>2, Kinds

\* Two identifiers have two words.
LEMMA WordsDiffer ==
  ASSUME NEW i \in Identifier, NEW j \in Identifier, FilterWord(i) = FilterWord(j)
  PROVE  i = j
  <1>1. i.id \in Nat /\ j.id \in Nat
    BY Kinds
  <1>2. CASE i.ext = TRUE /\ j.ext = TRUE
    <2>1. /\ (i.id % 32) * 8 + 4 = (j.id % 32) * 8 + 4
          /\ (i.id \div 32) % 256 = (j.id \div 32) % 256
          /\ (i.id \div 8192) % 256 = (j.id \div 8192) % 256
          /\ i.id \div 2097152 = j.id \div 2097152
      BY <1>2, SMT DEF FilterWord
    <2>2. \A n \in Nat : n = 2097152 * (n \div 2097152) + 8192 * ((n \div 8192) % 256)
                              + 32 * ((n \div 32) % 256) + (n % 32)
      BY SMT
    <2>3. i.id % 32 = j.id % 32
      <3>1. i.id % 32 \in Nat /\ j.id % 32 \in Nat
        BY <1>1
      <3> QED
        BY <2>1, <3>1
    <2>4. i.id = j.id
      BY <1>1, <2>1, <2>2, <2>3, SMT
    <2> QED
      BY <1>2, <2>4, Kinds
  <1>3. CASE i.ext = FALSE /\ j.ext = FALSE
    <2>1. (i.id % 8) * 32 = (j.id % 8) * 32 /\ i.id \div 8 = j.id \div 8
      BY <1>3, SMT DEF FilterWord
    <2>2. i.id = j.id
      BY <1>1, <2>1
    <2> QED
      BY <1>3, <2>2, Kinds
  <1>4. \A n \in Nat : (n % 32) * 8 + 4 # 0
    BY SMT
  <1>5. i.ext = j.ext
    <2>1. i.ext = TRUE /\ j.ext = FALSE => (i.id % 32) * 8 + 4 = 0
      BY SMT DEF FilterWord
    <2>2. j.ext = TRUE /\ i.ext = FALSE => (j.id % 32) * 8 + 4 = 0
      BY SMT DEF FilterWord
    <2> QED
      BY <1>1, <1>4, <2>1, <2>2, Kinds
  <1> QED
    BY <1>2, <1>3, <1>5, Kinds

\* The register that is not written holds the word of the standard identifier 0.
LEMMA ZeroWord ==
  LET i == [id |-> 0, ext |-> FALSE]
  IN  i \in Identifier /\ FilterWord(i) = Zero
  <1>1. 0 \in StdId
    BY DEF StdId
  <1>2. (0 % 8) * 32 = 0 /\ 0 \div 8 = 0
    BY SMT
  <1> DEFINE i == [id |-> 0, ext |-> FALSE]
  <1>3. i \in Identifier /\ i.ext = FALSE /\ i.id = 0
    BY <1>1 DEF Identifier
  <1> HIDE DEF i
  <1>4. FilterWord(i) = Zero
    BY <1>2, <1>3, SMT DEF FilterWord, Zero
  <1> QED
    BY <1>3, <1>4 DEF i

\* The mailbox gives back the identifier.
LEMMA MailboxKeepsId ==
  ASSUME NEW i \in Identifier
  PROVE  MsgId(Mir(i)) = i.id
  <1> DEFINE m == Mir(i)
  <1>1. CASE i.ext = FALSE /\ i.id \in StdId
    <2>1. m.ide = FALSE /\ m.stid = i.id % 2048
      BY <1>1, SMT DEF Mir
    <2>2. i.id % 2048 = i.id
      BY <1>1, SMT DEF StdId
    <2> HIDE DEF m
    <2> QED
      BY <2>1, <2>2, SMT DEF m, MsgId
  <1>2. CASE i.ext = TRUE /\ i.id \in ExtId
    <2>1. m.ide = TRUE /\ m.exid = i.id % 262144 /\ m.stid = (i.id \div 262144) % 2048
      BY <1>2, SMT DEF Mir
    <2>2. (i.id % 262144) + ((i.id \div 262144) % 2048) * 262144 = i.id
      BY <1>2, SMT DEF ExtId
    <2> HIDE DEF m
    <2> QED
      BY <2>1, <2>2, SMT DEF m, MsgId
  <1> QED
    BY <1>1, <1>2, Kinds

\* A frame passes if some bank in use matches.
LEMMA Passes ==
  ASSUME NEW n
  PROVE  /\ Route(n) # -1 <=> \E b \in filter.active : Matches(b, Mir(Ident[n]))
         /\ Route(n) \in {-1, 0, 1}
  BY DEF Route

\* How many identifiers can_filter_init_ex takes, and the banks they fill.
Taken(ids) == IF Len(ids) <= MAX_IDS THEN Len(ids) ELSE MAX_IDS

\* Never more than are given, nor than MAX_IDS.
LEMMA TakenRange ==
  ASSUME CanLoopAssumption, NEW ids \in Seq(Identifier)
  PROVE  /\ Taken(ids) \in Nat /\ Taken(ids) <= Len(ids) /\ Taken(ids) <= MAX_IDS
         /\ Len(ids) \in Nat /\ DOMAIN ids = 1 .. Len(ids)
         /\ \A k \in 1 .. Taken(ids) : ids[k] \in Identifier
         /\ Listed(ids) = {ids[k] : k \in 1 .. Taken(ids)}
  <1>1. Len(ids) \in Nat /\ DOMAIN ids = 1 .. Len(ids) /\ MAX_IDS \in Nat
    BY LenProperties DEF CanLoopAssumption
  <1>2. Taken(ids) \in Nat /\ Taken(ids) <= Len(ids) /\ Taken(ids) <= MAX_IDS
    BY <1>1 DEF Taken
  <1>3. ASSUME NEW k \in 1 .. Taken(ids) PROVE ids[k] \in Identifier
    <2>1. k \in 1 .. Len(ids)
      BY <1>1, <1>2
    <2> QED
      BY <2>1, ElementOfSeq
  <1>4. {k \in DOMAIN ids : k <= MAX_IDS} = 1 .. Taken(ids)
    BY <1>1, <1>2 DEF Taken
  <1> QED
    BY <1>1, <1>2, <1>3, <1>4 DEF Listed

\* Two identifiers to a bank, in the order of the list.
LEMMA Banks ==
  ASSUME CanLoopAssumption, NEW ids \in Seq(Identifier),
         filter = can_filter_init_ex(AfterReset, ids)
  PROVE  LET banks == {k \div 2 : k \in 0 .. Taken(ids) - 1}
         IN  /\ filter.active = banks /\ filter.list = banks
             /\ \A b \in banks :
                  /\ Held(filter.fr1, b) = FilterWord(ids[2 * b + 1])
                  /\ Held(filter.fr2, b) =
                       IF 2 * b + 1 < Taken(ids) THEN FilterWord(ids[2 * b + 2]) ELSE Zero
  <1> DEFINE n == Taken(ids)
             banks == {k \div 2 : k \in 0 .. n - 1}
  <1> HIDE DEF n, banks
  <1>1. filter = [fr1 |-> [b \in banks |-> FilterWord(ids[2 * b + 1])],
                  fr2 |-> [b \in {k \in banks : 2 * k + 1 < n} |-> FilterWord(ids[2 * b + 2])],
                  list |-> {} \union banks, single |-> {} \union banks,
                  active |-> {} \union banks,
                  fifo1 |-> {} \union {k \in banks : 2 * k + 1 < n}]
    BY DEF can_filter_init_ex, AfterReset, Taken, n, banks
  <1>2. /\ filter.fr1 = [b \in banks |-> FilterWord(ids[2 * b + 1])]
        /\ filter.fr2 = [b \in {k \in banks : 2 * k + 1 < n} |-> FilterWord(ids[2 * b + 2])]
        /\ filter.list = banks /\ filter.active = banks
    BY <1>1
  <1>3. \A b \in banks : Held(filter.fr1, b) = FilterWord(ids[2 * b + 1])
    BY <1>2 DEF Held
  <1>4. \A b \in banks :
          Held(filter.fr2, b) = IF 2 * b + 1 < n THEN FilterWord(ids[2 * b + 2]) ELSE Zero
    BY <1>2 DEF Held
  <1> QED
    BY <1>2, <1>3, <1>4 DEF n, banks

\* The list lets through what is on it, and an odd list the standard 0 as well.
LEMMA ListPasses ==
  ASSUME CanLoopAssumption, NEW ids \in Seq(Identifier),
         filter = can_filter_init_ex(AfterReset, ids),
         NEW f \in 1 .. MaxFrames
  PROVE  Route(f) # -1 <=> Ident[f] \in Listed(ids) \union OddSlot(ids)
  <1> DEFINE n == Taken(ids)
             banks == {k \div 2 : k \in 0 .. n - 1}
             i == Ident[f]
             zero == [id |-> 0, ext |-> FALSE]
  <1>1. i \in Identifier /\ MAX_IDS \in Nat /\ MAX_IDS % 2 = 0
    BY DEF CanLoopAssumption
  <1>2. /\ n \in Nat /\ n <= Len(ids) /\ n <= MAX_IDS /\ Len(ids) \in Nat
        /\ \A k \in 1 .. n : ids[k] \in Identifier
        /\ Listed(ids) = {ids[k] : k \in 1 .. n}
    BY TakenRange
  <1>3. \A b \in banks : b \in Nat /\ 2 * b + 1 \in 1 .. n
    BY <1>2
  <1>4. OddSlot(ids) = IF n % 2 = 1 THEN {zero} ELSE {}
    <2>1. n = IF Len(ids) <= MAX_IDS THEN Len(ids) ELSE MAX_IDS
      BY DEF Taken
    <2> HIDE DEF n
    <2>2. Len(ids) % 2 = 1 /\ Len(ids) < MAX_IDS <=> n % 2 = 1
      <3>1. \A l, k, c \in Nat : k % 2 = 0 /\ c = (IF l <= k THEN l ELSE k)
              => (l % 2 = 1 /\ l < k <=> c % 2 = 1)
        BY SMT
      <3> QED
        BY <1>1, <1>2, <2>1, <3>1, Zenon
    <2> QED
      BY <2>2 DEF OddSlot
  <1>5. \A j \in Identifier : Compared(Mir(i)) = FilterWord(j) <=> i = j
    BY <1>1, ComparedWord, WordsDiffer
  <1>6. zero \in Identifier /\ FilterWord(zero) = Zero
    BY ZeroWord
  <1> HIDE DEF i, n, zero
  <1>7. /\ filter.active = banks
        /\ \A b \in banks : Matches(b, Mir(i)) <=>
             \/ Compared(Mir(i)) = FilterWord(ids[2 * b + 1])
             \/ Compared(Mir(i)) = IF 2 * b + 1 < n THEN FilterWord(ids[2 * b + 2]) ELSE Zero
    BY Banks DEF Matches, n
  <1> HIDE DEF banks
  <1>8. \A b \in banks : Matches(b, Mir(i)) <=>
          \/ i = ids[2 * b + 1]
          \/ 2 * b + 1 < n /\ i = ids[2 * b + 2]
          \/ ~(2 * b + 1 < n) /\ i = zero
    <2> TAKE b \in banks
    <2>1. b \in Nat /\ 2 * b + 1 \in 1 .. n
      BY <1>3
    <2>2. ids[2 * b + 1] \in Identifier
      BY <1>2, <2>1
    <2>3. CASE 2 * b + 1 < n
      <3>1. 2 * b + 2 \in 1 .. n
        BY <1>2, <2>1, <2>3
      <3>2. ids[2 * b + 2] \in Identifier
        BY <1>2, <3>1
      <3> QED
        BY <1>5, <1>7, <2>2, <2>3, <3>2
    <2>4. CASE ~(2 * b + 1 < n)
      BY <1>5, <1>6, <1>7, <2>2, <2>4
    <2> QED
      BY <2>3, <2>4
  <1>9. ASSUME NEW b \in banks, Matches(b, Mir(i))
        PROVE  i \in Listed(ids) \union OddSlot(ids)
    <2>1. b \in Nat /\ 2 * b + 1 \in 1 .. n
      BY <1>3
    <2>2. CASE i = ids[2 * b + 1]
      BY <1>2, <2>1, <2>2
    <2>3. CASE 2 * b + 1 < n /\ i = ids[2 * b + 2]
      <3>1. 2 * b + 2 \in 1 .. n
        BY <1>2, <2>1, <2>3
      <3> QED
        BY <1>2, <2>3, <3>1
    <2>4. CASE ~(2 * b + 1 < n) /\ i = zero
      <3>1. n = 2 * b + 1
        BY <1>2, <2>1, <2>4
      <3>2. n % 2 = 1
        BY <2>1, <3>1
      <3> QED
        BY <1>4, <2>4, <3>2
    <2> QED
      BY <1>8, <1>9, <2>2, <2>3, <2>4
  <1>10. ASSUME i \in Listed(ids) \union OddSlot(ids)
         PROVE  \E b \in banks : Matches(b, Mir(i))
    <2>1. CASE i \in Listed(ids)
      <3>1. PICK k \in 1 .. n : i = ids[k]
        BY <1>2, <2>1
      <3> DEFINE b == (k - 1) \div 2
      <3>2. k - 1 \in 0 .. n - 1 /\ b \in Nat /\ (k = 2 * b + 1 \/ k = 2 * b + 2)
        BY <1>2
      <3>3. b \in banks
        BY <3>2 DEF banks
      <3> HIDE DEF b
      <3>4. CASE k = 2 * b + 1
        BY <1>8, <3>1, <3>3, <3>4
      <3>5. CASE k = 2 * b + 2
        <4>1. 2 * b + 1 < n
          BY <1>2, <3>2, <3>5
        <4> QED
          BY <1>8, <3>1, <3>3, <3>5, <4>1
      <3> QED
        BY <3>2, <3>4, <3>5
    <2>2. CASE i \in OddSlot(ids)
      <3> DEFINE b == (n - 1) \div 2
      <3>1. n % 2 = 1 /\ i = zero
        BY <1>4, <2>2
      <3>2. n - 1 \in 0 .. n - 1 /\ b \in Nat /\ ~(2 * b + 1 < n)
        BY <1>2, <3>1
      <3>3. b \in banks
        BY <3>2 DEF banks
      <3> HIDE DEF b
      <3> QED
        BY <1>8, <3>1, <3>2, <3>3
    <2> QED
      BY <1>10, <2>1, <2>2
  <1> QED
    BY <1>7, <1>9, <1>10, Passes DEF i

\* With its mask of zeros bank 0 lets everything through.
LEMMA AllPass ==
  ASSUME filter = can_filter_init(AfterReset), NEW n
  PROVE  Route(n) # -1
  <1>1. 0 \in filter.active /\ filter.list = {}
    BY DEF can_filter_init, AfterReset
  <1> QED
    BY <1>1, Passes DEF Matches

------------------------------------------------------------------------------
(***************************************************************************)
(* Then the FIFOs: what a frame that arrives does to the frames told of    *)
(* and waiting, taken as one sequence.                                     *)
(***************************************************************************)
Increasing(s) == \A i, j \in DOMAIN s : i < j => s[i] < s[j]

\* A frame later than all of a FIFO's goes behind them.
LEMMA AppendLater ==
  ASSUME NEW s \in Seq(Nat), Increasing(s), NEW n \in Nat, \A x \in Range(s) : x < n
  PROVE  /\ Append(s, n) \in Seq(Nat) /\ Increasing(Append(s, n))
         /\ Range(Append(s, n)) = Range(s) \union {n}
  <1> DEFINE t == Append(s, n)
  <1>1. Len(s) \in Nat /\ DOMAIN s = 1 .. Len(s) /\ \A i \in 1 .. Len(s) : s[i] \in Nat
    BY LenProperties
  <1>2. /\ t \in Seq(Nat) /\ Len(t) = Len(s) + 1
        /\ \A i \in 1 .. Len(s) : t[i] = s[i]
        /\ t[Len(s) + 1] = n
    BY AppendProperties
  <1> HIDE DEF t
  <1>3. DOMAIN t = 1 .. Len(s) + 1
    BY <1>2, LenProperties
  <1>4. Range(t) = Range(s) \union {n}
    BY <1>1, <1>2, <1>3 DEF Range
  <1>5. Increasing(t)
    <2> SUFFICES ASSUME NEW i \in 1 .. Len(s) + 1, NEW j \in 1 .. Len(s) + 1, i < j
                 PROVE  t[i] < t[j]
      BY <1>3 DEF Increasing
    <2>1. i \in 1 .. Len(s) /\ t[i] = s[i]
      BY <1>1, <1>2
    <2>2. CASE j = Len(s) + 1
      BY <1>1, <1>2, <2>1, <2>2 DEF Range
    <2>3. CASE j \in 1 .. Len(s)
      BY <1>1, <1>2, <2>1, <2>3 DEF Increasing
    <2> QED
      BY <1>1, <2>2, <2>3
  <1> QED
    BY <1>2, <1>4, <1>5 DEF t

\* Or in the place of the last of them.
LEMMA ReplaceLast ==
  ASSUME NEW s \in Seq(Nat), s # << >>, Increasing(s), NEW n \in Nat,
         \A x \in Range(s) : x < n,
         NEW t \in Seq(Nat), Len(t) = Len(s), t[Len(s)] = n,
         \A i \in 1 .. Len(s) - 1 : t[i] = s[i]
  PROVE  Increasing(t) /\ Range(t) = (Range(s) \ {s[Len(s)]}) \union {n}
  <1>1. Len(s) \in Nat /\ DOMAIN s = 1 .. Len(s) /\ \A i \in 1 .. Len(s) : s[i] \in Nat
    BY LenProperties
  <1>2. Len(s) >= 1
    BY <1>1, EmptySeq
  <1>3. DOMAIN t = 1 .. Len(s)
    BY LenProperties
  <1>4. Increasing(t)
    <2> SUFFICES ASSUME NEW i \in 1 .. Len(s), NEW j \in 1 .. Len(s), i < j
                 PROVE  t[i] < t[j]
      BY <1>3 DEF Increasing
    <2>1. i \in 1 .. Len(s) - 1 /\ t[i] = s[i]
      BY <1>1
    <2>2. CASE j = Len(s)
      BY <1>1, <2>1, <2>2 DEF Range
    <2>3. CASE j \in 1 .. Len(s) - 1
      BY <1>1, <2>1, <2>3 DEF Increasing
    <2> QED
      BY <1>1, <2>2, <2>3
  <1>5. \A i \in 1 .. Len(s) - 1 : s[i] # s[Len(s)]
    <2> TAKE i \in 1 .. Len(s) - 1
    <2>1. i \in DOMAIN s /\ Len(s) \in DOMAIN s /\ i < Len(s)
      BY <1>1, <1>2
    <2>2. s[i] < s[Len(s)]
      BY <2>1 DEF Increasing
    <2> QED
      BY <1>1, <2>1, <2>2
  <1>6. \A i : i \in 1 .. Len(s) <=> i = Len(s) \/ i \in 1 .. Len(s) - 1
    BY <1>1, <1>2
  <1>7. \A x : x \in Range(s) <=> x = s[Len(s)] \/ \E i \in 1 .. Len(s) - 1 : x = s[i]
    BY <1>1, <1>6, Zenon DEF Range
  <1>8. \A x : x \in Range(t) <=> x = n \/ \E i \in 1 .. Len(s) - 1 : x = s[i]
    BY <1>3, <1>6, Zenon DEF Range
  <1>9. Range(t) = (Range(s) \ {s[Len(s)]}) \union {n}
    BY <1>5, <1>7, <1>8
  <1> QED
    BY <1>4, <1>9

\* What the two sides have in hand.
RxTyped ==
  /\ isr \in Fifo \union {-1}
  /\ fifo \in [Fifo -> Seq(Nat)] /\ heard \in [Fifo -> Seq([id : Nat, frame : Nat])]
  /\ \A f \in Fifo : Len(fifo[f]) <= FifoDepth /\ (isr = f => fifo[f] # << >>)
  /\ lost \subseteq Range(wire)

\* The filter banks are written once, before the first frame.
FilterInv ==
  \/ filter = can_filter_init(AfterReset)
  \/ \E ids \in IdLists : filter = can_filter_init_ex(AfterReset, ids)

\* What ToldInOrder says of one FIFO, where there is a callback.
OneInOrder(f) ==
  /\ Range(Told(f)) = {n \in Range(wire) : Route(n) = f /\ n \notin lost}
  /\ Increasing(Told(f))
  /\ \A i \in DOMAIN heard[f] : heard[f][i].id = Ident[heard[f][i].frame].id

AllInOrder == \A f \in Fifo : OneInOrder(f)

\* With a callback, and without.
RxInv == rx_cb /\ RxTyped /\ FilterInv /\ AllInOrder
MuteInv == ~rx_cb /\ FilterInv /\ \A f \in Fifo : heard[f] = << >>

\* The frames the callback of a FIFO was passed.
Got(f) == [i \in DOMAIN heard[f] |-> heard[f][i].frame]

\* What Told is made of.
LEMMA ToldShape ==
  ASSUME RxTyped, NEW f \in Fifo
  PROVE  /\ Got(f) \in Seq(Nat) /\ Len(Got(f)) = Len(heard[f])
         /\ Untold(f) \in Seq(Nat)
         /\ Told(f) = Got(f) \o Untold(f) /\ Told(f) \in Seq(Nat)
  <1>1. /\ heard[f] \in Seq([id : Nat, frame : Nat]) /\ fifo[f] \in Seq(Nat)
        /\ isr = f => fifo[f] # << >>
    BY DEF RxTyped
  <1>2. /\ Len(heard[f]) \in Nat /\ DOMAIN heard[f] = 1 .. Len(heard[f])
        /\ \A i \in 1 .. Len(heard[f]) : heard[f][i] \in [id : Nat, frame : Nat]
    BY <1>1, LenProperties, ElementOfSeq
  <1>3. \A i \in 1 .. Len(heard[f]) : heard[f][i].frame \in Nat
    BY <1>2
  <1>4. Got(f) \in Seq(Nat) /\ Len(Got(f)) = Len(heard[f])
    BY <1>2, <1>3 DEF Got
  <1>5. Untold(f) \in Seq(Nat)
    BY <1>1, HeadTailProperties DEF Untold
  <1>6. Told(f) = Got(f) \o Untold(f)
    BY DEF Told, Got
  <1> QED
    BY <1>4, <1>5, <1>6, ConcatProperties

\* The frames sent are the first ones.
LEMMA WireFrames ==
  ASSUME CanTxAssumption, IInv
  PROVE  /\ Len(wire) \in Nat /\ Range(wire) = 1 .. Len(wire)
         /\ Len(wire) <= MaxFrames /\ MaxFrames \in Nat
  <1>1. /\ Len(wire) \in Nat /\ DOMAIN wire = 1 .. Len(wire) /\ Len(pend) \in Nat
    BY LenProperties DEF IInv, TypeOK
  <1>2. \A i \in 1 .. Len(wire) : wire[i] = i
    BY DEF IInv, OrderInv
  <1>3. Range(wire) = 1 .. Len(wire)
    BY <1>1, <1>2, Zenon DEF Range
  <1>4. accepted \in 0 .. MaxFrames /\ Len(wire) + Len(pend) = accepted /\ MaxFrames \in Nat
    BY DEF IInv, OrderInv, TypeOK, Frame, CanTxAssumption
  <1>5. Len(wire) <= MaxFrames
    BY <1>1, <1>4
  <1> QED
    BY <1>1, <1>3, <1>4, <1>5

\* The frame sent is the next one.
LEMMA NextFrame ==
  ASSUME CanTxAssumption, IInv, Transmit
  PROVE  /\ wire'[Len(wire')] = Len(wire) + 1
         /\ Range(wire') = Range(wire) \union {Len(wire) + 1}
         /\ Len(wire) + 1 \in 1 .. MaxFrames
  <1>1. IInv'
    BY TransmitKeeps
  <1>2. /\ Len(wire') \in Nat /\ Range(wire') = 1 .. Len(wire') /\ Len(wire') <= MaxFrames
        /\ Len(wire) \in Nat /\ Range(wire) = 1 .. Len(wire) /\ MaxFrames \in Nat
    <2>1. CanTxAssumption'
      BY DEF CanTxAssumption
    <2>2. /\ Len(wire') \in Nat /\ DOMAIN wire' = 1 .. Len(wire') /\ Len(pend') \in Nat
      BY <1>1, LenProperties DEF IInv, TypeOK
    <2>3. \A i \in 1 .. Len(wire') : wire'[i] = i
      BY <1>1 DEF IInv, OrderInv
    <2>4. Range(wire') = 1 .. Len(wire')
      BY <2>2, <2>3, Zenon DEF Range
    <2>5. accepted' \in 0 .. MaxFrames /\ Len(wire') + Len(pend') = accepted' /\ MaxFrames \in Nat
      BY <1>1 DEF IInv, OrderInv, TypeOK, Frame, CanTxAssumption
    <2>6. Len(wire') <= MaxFrames
      BY <2>2, <2>5
    <2> QED
      BY <2>2, <2>4, <2>6, WireFrames
  <1>3. Len(wire') = Len(wire) + 1
    <2>1. PICK i \in DOMAIN pend : wire' = Append(wire, frame[pend[i]])
      BY DEF Transmit
    <2>2. wire \in Seq(Frame) /\ pend[i] \in Mailbox /\ frame[pend[i]] \in Frame
      BY LenProperties, ElementOfSeq DEF IInv, TypeOK
    <2> QED
      BY <2>1, <2>2, AppendProperties
  <1>4. \A i \in 1 .. Len(wire') : wire'[i] = i
    BY <1>1 DEF IInv, OrderInv
  <1>5. Len(wire') \in 1 .. Len(wire') /\ Len(wire) + 1 \in 1 .. MaxFrames
    BY <1>2, <1>3
  <1>6. 1 .. Len(wire) + 1 = (1 .. Len(wire)) \union {Len(wire) + 1}
    BY <1>2
  <1> QED
    BY <1>2, <1>3, <1>4, <1>5, <1>6

\* One sequence behind another.
LEMMA Joined ==
  ASSUME NEW g \in Seq(Nat), NEW z \in Seq(Nat)
  PROVE  /\ g \o z \in Seq(Nat) /\ Len(g \o z) = Len(g) + Len(z)
         /\ \A i \in 1 .. Len(g) + Len(z) :
              (g \o z)[i] = IF i <= Len(g) THEN g[i] ELSE z[i - Len(g)]
  BY ConcatProperties


\* Two sequences that differ in their last element, behind the same front.
LEMMA LastOfConcat ==
  ASSUME NEW g \in Seq(Nat), NEW w \in Seq(Nat), NEW z \in Seq(Nat),
         Len(w) \in {2, 3}, Len(z) = Len(w), \A i \in 1 .. Len(w) - 1 : z[i] = w[i]
  PROVE  /\ g \o w # << >> /\ g \o z \in Seq(Nat) /\ Len(g \o z) = Len(g \o w)
         /\ (g \o z)[Len(g \o w)] = z[Len(w)] /\ (g \o w)[Len(g \o w)] = w[Len(w)]
         /\ \A i \in 1 .. Len(g \o w) - 1 : (g \o z)[i] = (g \o w)[i]
  <1> DEFINE T == g \o w
             U == g \o z
  <1>1. /\ Len(g) \in Nat /\ T \in Seq(Nat) /\ Len(T) = Len(g) + Len(w)
        /\ \A i \in 1 .. Len(g) + Len(w) : T[i] = IF i <= Len(g) THEN g[i] ELSE w[i - Len(g)]
    BY ConcatProperties, LenProperties
  <1>2. /\ U \in Seq(Nat) /\ Len(U) = Len(g) + Len(w)
        /\ \A i \in 1 .. Len(g) + Len(w) : U[i] = IF i <= Len(g) THEN g[i] ELSE z[i - Len(g)]
    <2>1. /\ U \in Seq(Nat) /\ Len(U) = Len(g) + Len(z)
          /\ \A i \in 1 .. Len(g) + Len(z) : U[i] = IF i <= Len(g) THEN g[i] ELSE z[i - Len(g)]
      BY Joined
    <2> QED
      BY <2>1, Zenon
  <1>0. Len(w) \in Nat /\ Len(w) >= 1
    OBVIOUS
  <1> HIDE DEF T, U
  <1>3. /\ Len(T) - Len(g) = Len(w) /\ ~(Len(T) <= Len(g)) /\ Len(T) \in 1 .. Len(g) + Len(w)
    <2>1. \A k, l, m \in Nat : m >= 1 /\ k = l + m => k - l = m /\ ~(k <= l) /\ k \in 1 .. l + m
      OBVIOUS
    <2>2. Len(T) \in Nat
      BY <1>1, LenProperties
    <2> QED
      BY <1>0, <1>1, <2>1, <2>2, Zenon
  <1>4. T # << >>
    BY <1>1, <1>3, EmptySeq
  <1>5. U[Len(T)] = z[Len(w)] /\ T[Len(T)] = w[Len(w)]
    BY <1>1, <1>2, <1>3
  <1>6. ASSUME NEW i \in 1 .. Len(T) - 1
        PROVE  U[i] = T[i]
    <2>1. i \in 1 .. Len(g) + Len(w) /\ i \in Nat
      BY <1>1, <1>3
    <2>2. CASE i <= Len(g)
      BY <1>1, <1>2, <2>1, <2>2
    <2>3. CASE ~(i <= Len(g))
      <3>1. i - Len(g) \in 1 .. Len(w) - 1
        BY <1>1, <2>1, <2>3
      <3> QED
        BY <1>1, <1>2, <2>1, <2>3, <3>1
    <2> QED
      BY <2>2, <2>3
  <1> QED
    BY <1>1, <1>2, <1>4, <1>5, <1>6 DEF T, U

\* z is w but for its last element.
OneApart(w, z) ==
  /\ Len(w) \in {2, 3} /\ Len(z) = Len(w)
  /\ \A i \in 1 .. Len(w) - 1 : z[i] = w[i]

\* The last frame of a FIFO, read or not, makes place for the frame n.
LEMMA LastGivesWay ==
  ASSUME NEW g \in Seq(Nat), NEW w \in Seq(Nat), NEW z \in Seq(Nat), OneApart(w, z),
         NEW n \in Nat, z[Len(w)] = n, Increasing(g \o w), \A y \in Range(g \o w) : y < n
  PROVE  /\ Increasing(g \o z) /\ w[Len(w)] \in Range(g \o w)
         /\ Range(g \o z) = (Range(g \o w) \ {w[Len(w)]}) \union {n}
  <1> DEFINE T == g \o w
             U == g \o z
  <1>1. /\ T # << >> /\ U \in Seq(Nat) /\ Len(U) = Len(T)
        /\ U[Len(T)] = n /\ T[Len(T)] = w[Len(w)]
        /\ \A i \in 1 .. Len(T) - 1 : U[i] = T[i]
    <2>1. Len(w) \in {2, 3} /\ Len(z) = Len(w) /\ \A i \in 1 .. Len(w) - 1 : z[i] = w[i]
      BY DEF OneApart
    <2> QED
      BY <2>1, LastOfConcat
  <1>2. T \in Seq(Nat) /\ Increasing(T) /\ \A y \in Range(T) : y < n
    BY Joined
  <1> HIDE DEF T, U
  <1>3. Increasing(U) /\ Range(U) = (Range(T) \ {T[Len(T)]}) \union {n}
    BY <1>1, <1>2, ReplaceLast
  <1>4. Len(T) \in DOMAIN T
    BY <1>1, <1>2, LenProperties, EmptySeq
  <1>5. T[Len(T)] \in Range(T)
    BY <1>4 DEF Range
  <1> QED
    BY <1>1, <1>3, <1>5 DEF T, U

\* A frame with the number n, later than all before it, joins those of the FIFO
\* it goes to.
LEMMA Joins ==
  ASSUME RxInv, NEW f \in Fifo, NEW n \in Nat, \A x \in Range(wire) : x \in Nat /\ x < n,
         Route(n) = f, (Route(n))' = Route(n), \A x \in Range(wire) : (Route(x))' = Route(x),
         Range(wire') = Range(wire) \union {n}, lost' = lost,
         Untold(f)' = Append(Untold(f), n), Got(f)' = Got(f), Told(f)' = Got(f)' \o Untold(f)'
  PROVE  /\ Range(Told(f)') = {m \in Range(wire') : (Route(m))' = f /\ m \notin lost'}
         /\ Increasing(Told(f)')
  <1> DEFINE T == Told(f)
  <1>1. T \in Seq(Nat) /\ Increasing(T)
        /\ Range(T) = {m \in Range(wire) : Route(m) = f /\ m \notin lost}
    BY ToldShape DEF RxInv, AllInOrder, OneInOrder
  <1>2. Told(f)' = Append(T, n)
    <2>1. Got(f) \in Seq(Nat) /\ Untold(f) \in Seq(Nat) /\ <<n>> \in Seq(Nat)
      BY ToldShape DEF RxInv
    <2>2. /\ Append(Untold(f), n) = Untold(f) \o <<n>>
          /\ Append(Got(f) \o Untold(f), n) = (Got(f) \o Untold(f)) \o <<n>>
      BY <2>1, AppendIsConcat, ConcatProperties
    <2>3. T = Got(f) \o Untold(f)
      BY ToldShape DEF RxInv
    <2> HIDE DEF T
    <2> QED
      BY <2>1, <2>2, <2>3, ConcatAssociative
  <1> HIDE DEF T
  <1>3. \A x \in Range(T) : x < n
    BY <1>1
  <1>4. Increasing(Append(T, n)) /\ Range(Append(T, n)) = Range(T) \union {n}
    BY <1>1, <1>3, AppendLater
  <1>5. n \notin lost
    BY DEF RxInv, RxTyped
  <1> QED
    BY <1>1, <1>2, <1>4, <1>5

\* Or takes the place of the last of them.
LEMMA Overwrites ==
  ASSUME RxInv, NEW f \in Fifo, NEW n \in Nat, \A x \in Range(wire) : x \in Nat /\ x < n,
         Route(n) = f, (Route(n))' = Route(n), \A x \in Range(wire) : (Route(x))' = Route(x),
         Range(wire') = Range(wire) \union {n},
         Len(fifo[f]) = FifoDepth, lost' = lost \union {fifo[f][FifoDepth]},
         fifo'[f] = [fifo[f] EXCEPT ![FifoDepth] = n], isr' = isr,
         Got(f)' = Got(f), Told(f)' = Got(f)' \o Untold(f)'
  PROVE  /\ Range(Told(f)') = {m \in Range(wire') : (Route(m))' = f /\ m \notin lost'}
         /\ Increasing(Told(f)')
         /\ fifo[f][FifoDepth] \in Range(wire) /\ Route(fifo[f][FifoDepth]) = f
  <1> DEFINE T == Told(f)
             u == Untold(f)
             v == Untold(f)'
             x == fifo[f][FifoDepth]
  <1>1. T \in Seq(Nat) /\ Increasing(T)
        /\ Range(T) = {m \in Range(wire) : Route(m) = f /\ m \notin lost}
    BY ToldShape DEF RxInv, AllInOrder, OneInOrder
  <1>2. /\ fifo[f] \in Seq(Nat) /\ fifo[f] # << >> /\ Len(fifo[f]) = 3
        /\ fifo'[f] = [fifo[f] EXCEPT ![3] = n]
    BY EmptySeq DEF RxInv, RxTyped, FifoDepth
  <1>3. /\ fifo'[f] \in Seq(Nat) /\ Len(fifo'[f]) = 3 /\ fifo'[f] # << >>
        /\ fifo'[f][1] = fifo[f][1] /\ fifo'[f][2] = fifo[f][2] /\ fifo'[f][3] = n
    <2>1. fifo'[f] \in Seq(Nat) /\ Len(fifo'[f]) = 3
      BY <1>2, ExceptSeq
    <2>2. DOMAIN fifo[f] = 1 .. 3
      BY <1>2, LenProperties
    <2> QED
      BY <1>2, <2>1, <2>2, EmptySeq
  <1>4. /\ u \in Seq(Nat) /\ v \in Seq(Nat) /\ Len(u) \in {2, 3} /\ Len(v) = Len(u)
        /\ u[Len(u)] = x /\ v[Len(u)] = n
        /\ \A i \in 1 .. Len(u) - 1 : v[i] = u[i]
    <2>1. CASE isr = f
      <3>1. u = Tail(fifo[f]) /\ v = Tail(fifo'[f])
        BY <2>1 DEF Untold
      <3> HIDE DEF u, v
      <3>2. /\ u \in Seq(Nat) /\ Len(u) = 3 - 1 /\ v \in Seq(Nat) /\ Len(v) = 3 - 1
            /\ \A i \in 1 .. Len(u) : u[i] = fifo[f][i + 1]
            /\ \A i \in 1 .. Len(v) : v[i] = fifo'[f][i + 1]
        BY <1>2, <1>3, <3>1, HeadTailProperties
      <3>3. u[1] = fifo[f][2] /\ u[2] = fifo[f][3] /\ v[1] = fifo'[f][2] /\ v[2] = fifo'[f][3]
        BY <3>2
      <3>4. Len(u) = 2 /\ \A i \in 1 .. 2 - 1 : i = 1
        BY <3>2
      <3> QED
        BY <1>3, <3>2, <3>3, <3>4 DEF FifoDepth
    <2>2. CASE isr # f
      <3>1. u = fifo[f] /\ v = fifo'[f]
        BY <2>2 DEF Untold
      <3>2. \A i \in 1 .. 3 - 1 : i = 1 \/ i = 2
        OBVIOUS
      <3> QED
        BY <1>2, <1>3, <3>1, <3>2 DEF FifoDepth
    <2> QED
      BY <2>1, <2>2
  <1> DEFINE g == Got(f)
             S == Told(f)'
  <1>5. g \in Seq(Nat) /\ T = g \o u /\ S = g \o v
    BY ToldShape DEF RxInv
  <1> HIDE DEF T, u, v, x, g, S
  <1>6. PICK h, w, z \in Seq(Nat) : h = g /\ w = u /\ z = v
    BY <1>4, <1>5
  <1>7. OneApart(w, z) /\ w[Len(w)] = x /\ z[Len(w)] = n
    BY <1>4, <1>6 DEF OneApart
  <1>8. T = h \o w /\ S = h \o z
    BY <1>5, <1>6
  <1>9. Increasing(h \o w) /\ \A y \in Range(h \o w) : y < n
    BY <1>1, <1>8
  <1>10. /\ Increasing(h \o z) /\ w[Len(w)] \in Range(h \o w)
         /\ Range(h \o z) = (Range(h \o w) \ {w[Len(w)]}) \union {n}
    <2> \A k, l, m \in Seq(Nat) :
          /\ OneApart(l, m) /\ m[Len(l)] = n /\ Increasing(k \o l)
          /\ \A y \in Range(k \o l) : y < n
          => /\ Increasing(k \o m) /\ l[Len(l)] \in Range(k \o l)
             /\ Range(k \o m) = (Range(k \o l) \ {l[Len(l)]}) \union {n}
      BY LastGivesWay
    <2> QED
      BY <1>7, <1>9, Zenon
  <1>14. Increasing(S) /\ x \in Range(T) /\ Range(S) = (Range(T) \ {x}) \union {n}
    BY <1>7, <1>8, <1>10
  <1>11. n \notin lost /\ x # n
    BY <1>1, <1>14 DEF RxInv, RxTyped
  <1>12. lost' = lost \union {x}
    BY DEF x
  <1>13. Range(S) = {m \in Range(wire') : (Route(m))' = f /\ m \notin lost'}
    BY <1>1, <1>11, <1>12, <1>14
  <1> QED
    BY <1>1, <1>13, <1>14 DEF S, x

\* Where a frame goes is for the filter banks alone to say.
LEMMA RouteStays ==
  ASSUME NEW n, filter' = filter
  PROVE  (Route(n))' = Route(n)
  BY DEF Route, Matches

LEMMA TailOfAppend ==
  ASSUME NEW s \in Seq(Nat), s # << >>, NEW n \in Nat
  PROVE  Tail(Append(s, n)) = Append(Tail(s), n)
  BY HeadTailAppend

\* A FIFO that a step leaves alone.
LEMMA FifoAlone ==
  ASSUME NEW f \in Fifo, OneInOrder(f), Told(f)' = Told(f), heard'[f] = heard[f],
         \A n : n \in Range(wire') /\ (Route(n))' = f /\ n \notin lost'
            <=> n \in Range(wire) /\ Route(n) = f /\ n \notin lost
  PROVE  OneInOrder(f)'
  <1>1. {n \in Range(wire') : (Route(n))' = f /\ n \notin lost'}
          = {n \in Range(wire) : Route(n) = f /\ n \notin lost}
    OBVIOUS
  <1>2. Range(Told(f)') = {n \in Range(wire') : (Route(n))' = f /\ n \notin lost'}
    BY <1>1 DEF OneInOrder
  <1>3. Increasing(Told(f)')
    BY DEF OneInOrder
  <1>4. \A i \in DOMAIN heard'[f] : heard'[f][i].id = Ident[heard'[f][i].frame].id
    BY DEF OneInOrder
  <1> QED
    BY <1>2, <1>3, <1>4 DEF OneInOrder

\* In a step that leaves the frames sent, the filter and the overwritten alone.
LEMMA NothingArrives ==
  ASSUME NEW f \in Fifo, OneInOrder(f), Told(f)' = Told(f), heard'[f] = heard[f],
         wire' = wire, filter' = filter, lost' = lost
  PROVE  OneInOrder(f)'
  BY FifoAlone, RouteStays

\* And nothing writes them any more.
LEMMA FilterKept ==
  ASSUME FilterInv, filter' = filter
  PROVE  FilterInv'
  BY DEF FilterInv

LEMMA LoopBackKeeps ==
  ASSUME CanTxAssumption, IInv, RxInv, LoopBack
  PROVE  RxInv'
  <1>1. PICK n \in Nat : n = Len(wire) + 1
    BY WireFrames
  <1>2. /\ Transmit /\ filter' = filter /\ rx_cb' = rx_cb /\ isr' = isr /\ heard' = heard
        /\ Arrive(wire'[Len(wire')])
    BY DEF LoopBack
  <1>3. /\ wire'[Len(wire')] = n /\ Range(wire') = Range(wire) \union {n}
        /\ \A x \in Range(wire) : x \in Nat /\ x < n
    BY <1>1, <1>2, NextFrame, WireFrames
  <1>4. PICK r \in {-1, 0, 1} : r = Route(n)
    BY Passes
  <1>5. /\ (Route(n))' = r /\ \A x : (Route(x))' = Route(x)
        /\ \A f \in Fifo : Got(f)' = Got(f)
    BY <1>2, <1>4, RouteStays DEF Got
  <1>6. /\ r = -1 => fifo' = fifo /\ lost' = lost
        /\ r # -1 /\ Len(fifo[r]) < FifoDepth
             => fifo' = [fifo EXCEPT ![r] = Append(@, n)] /\ lost' = lost
        /\ r # -1 /\ ~(Len(fifo[r]) < FifoDepth)
             => /\ lost' = lost \union {fifo[r][FifoDepth]}
                /\ fifo' = [fifo EXCEPT ![r][FifoDepth] = n]
    BY <1>2, <1>3, <1>4 DEF Arrive
  <1>7. /\ RxTyped /\ isr \in Fifo \union {-1}
        /\ fifo \in [Fifo -> Seq(Nat)] /\ heard \in [Fifo -> Seq([id : Nat, frame : Nat])]
        /\ lost \subseteq Range(wire) /\ n \notin Range(wire) /\ n \notin lost
    BY <1>3 DEF RxInv, RxTyped
  <1>8. \A f \in Fifo : OneInOrder(f)
    BY DEF RxInv, AllInOrder
  <1>9. /\ rx_cb' /\ FilterInv' /\ isr' \in Fifo \union {-1} /\ heard' \in [Fifo -> Seq([id : Nat, frame : Nat])]
    BY <1>2, <1>7, FilterKept DEF RxInv
  <1>10. \A f \in Fifo : Told(f)' = Got(f)' \o Untold(f)'
    BY DEF Told, Got
  <1>11. \A f \in Fifo : fifo'[f] = fifo[f] => Untold(f)' = Untold(f) /\ Told(f)' = Told(f)
    BY <1>2 DEF Untold, Told
  <1>12. \A f \in Fifo : \A i \in DOMAIN heard'[f] :
           heard'[f][i].id = Ident[heard'[f][i].frame].id
    BY <1>2, <1>8 DEF OneInOrder
  <1>13. -1 \notin Fifo /\ (r # -1 => r \in Fifo) /\ FifoDepth = 3
    BY <1>4 DEF Fifo, FifoDepth
  <1>14. CASE r = -1
    <2>1. \A f \in Fifo : OneInOrder(f)'
      <3> TAKE f \in Fifo
      <3>1. \A x : x \in Range(wire') /\ (Route(x))' = f /\ x \notin lost'
               <=> x \in Range(wire) /\ Route(x) = f /\ x \notin lost
        BY <1>3, <1>4, <1>5, <1>6, <1>13, <1>14
      <3>2. Told(f)' = Told(f) /\ heard'[f] = heard[f] /\ OneInOrder(f)
        BY <1>2, <1>6, <1>8, <1>11, <1>14
      <3> QED
        BY <3>1, <3>2, FifoAlone
    <2>2. RxTyped'
      BY <1>2, <1>3, <1>6, <1>7, <1>14 DEF RxTyped
    <2> QED
      BY <1>9, <2>1, <2>2 DEF RxInv, AllInOrder
  <1>15. CASE r # -1 /\ Len(fifo[r]) < FifoDepth
    <2>1. /\ r \in Fifo /\ fifo' = [fifo EXCEPT ![r] = Append(@, n)] /\ lost' = lost
          /\ fifo[r] \in Seq(Nat) /\ fifo'[r] = Append(fifo[r], n)
          /\ \A f \in Fifo : f # r => fifo'[f] = fifo[f]
      BY <1>6, <1>7, <1>13, <1>15
    <2>2. /\ fifo'[r] \in Seq(Nat) /\ Len(fifo'[r]) = Len(fifo[r]) + 1 /\ Len(fifo[r]) \in Nat
      BY <2>1, AppendProperties, LenProperties
    <2>3. fifo'[r] # << >> /\ Len(fifo'[r]) <= FifoDepth
      BY <1>13, <1>15, <2>2, EmptySeq
    <2>4. RxTyped'
      <3>1. fifo' \in [Fifo -> Seq(Nat)]
        BY <1>7, <2>1, <2>2
      <3>2. \A f \in Fifo : Len(fifo'[f]) <= FifoDepth /\ (isr' = f => fifo'[f] # << >>)
        BY <1>2, <1>7, <2>1, <2>3 DEF RxTyped
      <3> QED
        BY <1>3, <1>7, <1>9, <2>1, <3>1, <3>2 DEF RxTyped
    <2>5. Untold(r)' = Append(Untold(r), n)
      <3>1. CASE isr = r
        <4>1. fifo[r] # << >>
          BY <1>7, <2>1, <3>1 DEF RxTyped
        <4> QED
          BY <1>2, <2>1, <3>1, <4>1, TailOfAppend DEF Untold
      <3>2. CASE isr # r
        BY <1>2, <2>1, <3>2 DEF Untold
      <3> QED
        BY <3>1, <3>2
    <2>6. /\ Range(Told(r)') = {m \in Range(wire') : (Route(m))' = r /\ m \notin lost'}
          /\ Increasing(Told(r)')
      BY <1>3, <1>4, <1>5, <1>10, <2>1, <2>5, Joins
    <2>7. OneInOrder(r)'
      BY <1>12, <2>1, <2>6 DEF OneInOrder
    <2>8. ASSUME NEW f \in Fifo, f # r
          PROVE  OneInOrder(f)'
      <3>1. \A x : x \in Range(wire') /\ (Route(x))' = f /\ x \notin lost'
               <=> x \in Range(wire) /\ Route(x) = f /\ x \notin lost
        BY <1>3, <1>4, <1>5, <2>1, <2>8
      <3>2. Told(f)' = Told(f) /\ heard'[f] = heard[f] /\ OneInOrder(f)
        BY <1>2, <1>8, <1>11, <2>1, <2>8
      <3> QED
        BY <3>1, <3>2, FifoAlone
    <2>9. AllInOrder'
      BY <2>7, <2>8 DEF AllInOrder
    <2> QED
      BY <1>9, <2>4, <2>9 DEF RxInv
  <1>16. CASE r # -1 /\ ~(Len(fifo[r]) < FifoDepth)
    <2> DEFINE y == fifo[r][FifoDepth]
    <2>1. /\ r \in Fifo /\ fifo' = [fifo EXCEPT ![r][FifoDepth] = n] /\ lost' = lost \union {y}
          /\ fifo[r] \in Seq(Nat) /\ fifo'[r] = [fifo[r] EXCEPT ![FifoDepth] = n]
          /\ \A f \in Fifo : f # r => fifo'[f] = fifo[f]
      BY <1>6, <1>7, <1>13, <1>16
    <2>2. Len(fifo[r]) = FifoDepth
      <3>1. Len(fifo[r]) \in Nat /\ 3 \in Nat
        BY <2>1, LenProperties
      <3>2. Len(fifo[r]) <= FifoDepth
        BY <1>7, <2>1, Zenon DEF RxTyped
      <3>3. \A k, l \in Nat : k <= l /\ ~(k < l) => k = l
        OBVIOUS
      <3> QED
        BY <1>13, <1>16, <3>1, <3>2, <3>3, Zenon
    <2>3. /\ fifo'[r] \in Seq(Nat) /\ Len(fifo'[r]) = FifoDepth
      BY <1>13, <2>1, <2>2, ExceptSeq
    <2>4. fifo'[r] # << >> /\ Len(fifo'[r]) <= FifoDepth
      BY <1>13, <2>3, EmptySeq
    <2>5. /\ Range(Told(r)') = {m \in Range(wire') : (Route(m))' = r /\ m \notin lost'}
          /\ Increasing(Told(r)')
          /\ y \in Range(wire) /\ Route(y) = r
      BY <1>2, <1>3, <1>4, <1>5, <1>10, <2>1, <2>2, Overwrites
    <2> HIDE DEF y
    <2>6. RxTyped'
      <3>1. fifo' \in [Fifo -> Seq(Nat)]
        <4>1. DOMAIN fifo' = Fifo /\ fifo' = [f \in Fifo |-> fifo'[f]]
          BY <1>7, <2>1
        <4> QED
          BY <1>7, <2>1, <2>3, <4>1
      <3>2. \A f \in Fifo : Len(fifo'[f]) <= FifoDepth /\ (isr' = f => fifo'[f] # << >>)
        BY <1>2, <1>7, <2>1, <2>4 DEF RxTyped
      <3>3. lost' \subseteq Range(wire')
        BY <1>3, <1>7, <2>1, <2>5
      <3> QED
        BY <1>9, <3>1, <3>2, <3>3 DEF RxTyped
    <2>7. OneInOrder(r)'
      BY <1>12, <2>1, <2>5 DEF OneInOrder
    <2>8. ASSUME NEW f \in Fifo, f # r
          PROVE  OneInOrder(f)'
      <3>1. \A x : x \in Range(wire') /\ (Route(x))' = f /\ x \notin lost'
               <=> x \in Range(wire) /\ Route(x) = f /\ x \notin lost
        BY <1>3, <1>4, <1>5, <2>1, <2>5, <2>8
      <3>2. Told(f)' = Told(f) /\ heard'[f] = heard[f] /\ OneInOrder(f)
        BY <1>2, <1>8, <1>11, <2>1, <2>8
      <3> QED
        BY <3>1, <3>2, FifoAlone
    <2>9. AllInOrder'
      BY <2>7, <2>8 DEF AllInOrder
    <2> QED
      BY <1>9, <2>6, <2>9 DEF RxInv
  <1> QED
    BY <1>14, <1>15, <1>16

\* The handler takes over the first frame of its FIFO.
LEMMA Handed ==
  ASSUME NEW g \in Seq(Nat), NEW s \in Seq(Nat), s # << >>
  PROVE  Append(g, Head(s)) \o Tail(s) = g \o s /\ Head(s) \in Range(s)
  <1> DEFINE h == Head(s)
             t == Tail(s)
  <1>1. h \in Nat /\ t \in Seq(Nat) /\ <<h>> \in Seq(Nat)
    BY HeadTailProperties
  <1>2. s = <<h>> \o t
    BY HeadTailProperties
  <1>3. Append(g, h) = g \o <<h>>
    BY <1>1, AppendIsConcat
  <1>4. (g \o <<h>>) \o t = g \o (<<h>> \o t)
    BY <1>1, ConcatAssociative
  <1>5. 1 \in DOMAIN s /\ s[1] = h
    <2>1. Len(s) \in Nat /\ DOMAIN s = 1 .. Len(s) /\ Len(s) # 0
      BY LenProperties, EmptySeq
    <2> QED
      BY <2>1
  <1>6. h \in Range(s)
    BY <1>5 DEF Range
  <1> QED
    BY <1>2, <1>3, <1>4, <1>6

LEMMA InRangeOfConcat ==
  ASSUME NEW g \in Seq(Nat), NEW s \in Seq(Nat), NEW x \in Range(s)
  PROVE  x \in Range(g \o s)
  <1>1. Len(g) \in Nat /\ Len(s) \in Nat /\ DOMAIN s = 1 .. Len(s)
    BY LenProperties
  <1>2. PICK i \in 1 .. Len(s) : x = s[i]
    BY <1>1, Zenon DEF Range
  <1>3. Len(g) + i \in 1 .. Len(g) + Len(s) /\ ~(Len(g) + i <= Len(g)) /\ Len(g) + i - Len(g) = i
    BY <1>1
  <1>4. /\ g \o s \in Seq(Nat) /\ Len(g \o s) = Len(g) + Len(s)
        /\ (g \o s)[Len(g) + i] = s[i]
    BY <1>3, Joined
  <1>5. DOMAIN (g \o s) = 1 .. Len(g) + Len(s)
    BY <1>4, LenProperties
  <1> QED
    BY <1>2, <1>3, <1>4, <1>5 DEF Range

LEMMA HandleKeeps ==
  ASSUME CanTxAssumption, CanLoopAssumption, IInv, RxInv, NEW f \in Fifo, Handle(f)
  PROVE  RxInv'
  <1> DEFINE n == Head(fifo[f])
             e == Heard(n)
  <1>1. /\ isr = -1 /\ fifo[f] # << >> /\ isr' = f /\ wire' = wire
        /\ heard' = [heard EXCEPT ![f] = Append(@, e)]
        /\ filter' = filter /\ rx_cb' /\ fifo' = fifo /\ lost' = lost
    BY DEF Handle, vars, RxInv
  <1>2. /\ RxTyped /\ fifo[f] \in Seq(Nat)
        /\ heard \in [Fifo -> Seq([id : Nat, frame : Nat])]
        /\ heard[f] \in Seq([id : Nat, frame : Nat])
    BY DEF RxInv, RxTyped
  <1>3. /\ Got(f) \in Seq(Nat) /\ Len(Got(f)) = Len(heard[f]) /\ Untold(f) = fifo[f]
        /\ Told(f) = Got(f) \o fifo[f] /\ n \in Nat /\ Tail(fifo[f]) \in Seq(Nat)
    <2>1. Untold(f) = fifo[f]
      BY <1>1 DEF Untold, Fifo
    <2>2. n \in Nat /\ Tail(fifo[f]) \in Seq(Nat)
      BY <1>1, <1>2, HeadTailProperties
    <2> QED
      BY <1>2, <2>1, <2>2, ToldShape
  <1>4. Append(Got(f), n) \o Tail(fifo[f]) = Got(f) \o fifo[f] /\ n \in Range(Told(f))
    BY <1>1, <1>2, <1>3, Handed, InRangeOfConcat
  <1>5. \A g \in Fifo : OneInOrder(g)
    BY DEF RxInv, AllInOrder
  <1>6. n \in 1 .. MaxFrames
    BY <1>4, <1>5, WireFrames DEF OneInOrder
  <1>7. Ident[n] \in Identifier
    BY <1>6 DEF CanLoopAssumption
  <1>8. e.id = Ident[n].id /\ e.frame = n /\ e \in [id : Nat, frame : Nat]
    BY <1>3, <1>7, MailboxKeepsId, Kinds DEF Heard
  <1> HIDE DEF e, n
  <1>9. /\ heard'[f] = Append(heard[f], e)
        /\ \A g \in Fifo : g # f => heard'[g] = heard[g]
    BY <1>1, <1>2
  <1>10. /\ heard'[f] \in Seq([id : Nat, frame : Nat])
         /\ Len(heard[f]) \in Nat
         /\ DOMAIN heard[f] = 1 .. Len(heard[f])
         /\ DOMAIN heard'[f] = 1 .. Len(heard[f]) + 1
         /\ \A i \in 1 .. Len(heard[f]) : heard'[f][i] = heard[f][i]
         /\ heard'[f][Len(heard[f]) + 1] = e
    <2>1. /\ heard'[f] \in Seq([id : Nat, frame : Nat]) /\ Len(heard'[f]) = Len(heard[f]) + 1
          /\ \A i \in 1 .. Len(heard[f]) : heard'[f][i] = heard[f][i]
          /\ heard'[f][Len(heard[f]) + 1] = e
      BY <1>2, <1>8, <1>9, AppendProperties
    <2>2. DOMAIN heard'[f] = 1 .. Len(heard'[f])
      BY <2>1, LenProperties
    <2>3. Len(heard[f]) \in Nat /\ DOMAIN heard[f] = 1 .. Len(heard[f])
      BY <1>2, LenProperties
    <2> QED
      BY <2>1, <2>2, <2>3
  <1>11. RxTyped'
    <2>1. heard' \in [Fifo -> Seq([id : Nat, frame : Nat])]
      BY <1>1, <1>2, <1>8, AppendProperties
    <2>2. \A g \in Fifo : Len(fifo'[g]) <= FifoDepth /\ (isr' = g => fifo'[g] # << >>)
      BY <1>1, <1>2 DEF RxTyped
    <2> QED
      BY <1>1, <1>2, <2>1, <2>2 DEF RxTyped
  <1>12. Got(f)' = Append(Got(f), n)
    <2> DEFINE G == Got(f)
               H == Got(f)'
    <2>1. H \in Seq(Nat) /\ Len(H) = Len(heard[f]) + 1
          /\ \A i \in 1 .. Len(heard[f]) + 1 : H[i] = heard'[f][i].frame
      <3>1. H = [i \in 1 .. Len(heard[f]) + 1 |-> heard'[f][i].frame]
        BY <1>10 DEF Got
      <3>2. \A i \in 1 .. Len(heard[f]) + 1 : heard'[f][i] \in [id : Nat, frame : Nat]
        BY <1>10, ElementOfSeq, LenProperties
      <3> QED
        BY <1>10, <3>1, <3>2
    <2>2. G \in Seq(Nat) /\ Len(G) = Len(heard[f])
          /\ \A i \in 1 .. Len(heard[f]) : G[i] = heard[f][i].frame
      BY <1>3, <1>10 DEF Got
    <2> HIDE DEF G, H
    <2>3. /\ Append(G, n) \in Seq(Nat) /\ Len(Append(G, n)) = Len(heard[f]) + 1
          /\ \A i \in 1 .. Len(heard[f]) : Append(G, n)[i] = G[i]
          /\ Append(G, n)[Len(heard[f]) + 1] = n
      BY <1>3, <2>2, AppendProperties
    <2>4. \A i \in 1 .. Len(heard[f]) + 1 : H[i] = Append(G, n)[i]
      <3> TAKE i \in 1 .. Len(heard[f]) + 1
      <3>1. CASE i = Len(heard[f]) + 1
        BY <1>8, <1>10, <2>1, <2>3, <3>1
      <3>2. CASE i \in 1 .. Len(heard[f])
        BY <1>10, <2>1, <2>2, <2>3, <3>2
      <3>3. \A k \in Nat : \A j \in 1 .. k + 1 : j = k + 1 \/ j \in 1 .. k
        OBVIOUS
      <3> QED
        BY <1>10, <3>1, <3>2, <3>3, Zenon
    <2>5. H = Append(G, n)
      BY <2>1, <2>3, <2>4, SeqEqual
    <2> QED
      BY <2>5 DEF G, H
  <1>13. Told(f)' = Told(f)
    <2>1. Untold(f)' = Tail(fifo[f])
      BY <1>1 DEF Untold
    <2>2. Told(f)' = Got(f)' \o Untold(f)'
      BY DEF Told, Got
    <2> QED
      BY <1>3, <1>4, <1>12, <2>1, <2>2
  <1>14. OneInOrder(f)'
    <2>1. Range(Told(f)') = {m \in Range(wire') : (Route(m))' = f /\ m \notin lost'}
      <3>1. \A m : (Route(m))' = Route(m)
        BY <1>1, RouteStays
      <3> QED
        BY <1>1, <1>5, <1>13, <3>1 DEF OneInOrder
    <2>2. \A i \in DOMAIN heard'[f] : heard'[f][i].id = Ident[heard'[f][i].frame].id
      <3> TAKE i \in DOMAIN heard'[f]
      <3>1. CASE i = Len(heard[f]) + 1
        BY <1>8, <1>10, <3>1
      <3>2. CASE i \in 1 .. Len(heard[f])
        <4>1. i \in DOMAIN heard[f] /\ heard'[f][i] = heard[f][i]
          BY <1>10, <3>2
        <4>2. heard[f][i].id = Ident[heard[f][i].frame].id
          BY <1>5, <4>1, Zenon DEF OneInOrder
        <4> QED
          BY <4>1, <4>2
      <3>3. \A k \in Nat : \A j \in 1 .. k + 1 : j = k + 1 \/ j \in 1 .. k
        OBVIOUS
      <3> QED
        BY <1>10, <3>1, <3>2, <3>3, Zenon
    <2>3. Increasing(Told(f)')
      BY <1>5, <1>13 DEF OneInOrder
    <2> QED
      BY <2>1, <2>2, <2>3 DEF OneInOrder
  <1>15. ASSUME NEW g \in Fifo, g # f
         PROVE  OneInOrder(g)'
    <2>1. Untold(g)' = Untold(g)
      BY <1>1, <1>15 DEF Untold, Fifo
    <2>2. heard'[g] = heard[g]
      BY <1>9, <1>15
    <2>3. Told(g)' = Told(g)
      BY <2>1, <2>2 DEF Told
    <2> QED
      BY <1>1, <1>5, <2>2, <2>3, NothingArrives
  <1>16. AllInOrder'
    BY <1>14, <1>15 DEF AllInOrder
  <1>17. FilterInv'
    BY <1>1, FilterKept DEF RxInv
  <1> QED
    BY <1>1, <1>11, <1>16, <1>17 DEF RxInv

LEMMA ReleaseKeeps ==
  ASSUME RxInv, Release
  PROVE  RxInv'
  <1>1. /\ isr # -1 /\ isr' = -1 /\ fifo' = [fifo EXCEPT ![isr] = Tail(@)]
        /\ wire' = wire /\ filter' = filter /\ rx_cb' /\ heard' = heard /\ lost' = lost
    BY DEF Release, vars, RxInv
  <1>2. /\ RxTyped /\ isr \in Fifo /\ fifo \in [Fifo -> Seq(Nat)]
        /\ fifo[isr] \in Seq(Nat) /\ fifo[isr] # << >>
    BY <1>1 DEF RxInv, RxTyped
  <1>3. /\ fifo'[isr] = Tail(fifo[isr])
        /\ \A f \in Fifo : f # isr => fifo'[f] = fifo[f]
    BY <1>1, <1>2
  <1>4. /\ Tail(fifo[isr]) \in Seq(Nat) /\ Len(Tail(fifo[isr])) = Len(fifo[isr]) - 1
        /\ Len(fifo[isr]) \in Nat
    BY <1>2, HeadTailProperties, LenProperties
  <1>5. RxTyped'
    <2>1. fifo' \in [Fifo -> Seq(Nat)]
      BY <1>1, <1>2, <1>4
    <2>2. \A f \in Fifo : Len(fifo'[f]) <= FifoDepth
      <3> TAKE f \in Fifo
      <3>1. CASE f = isr
        <4>1. Len(fifo[isr]) <= 3
          BY <1>2 DEF RxTyped, FifoDepth
        <4>2. \A k \in Nat : k <= 3 => k - 1 <= 3
          OBVIOUS
        <4>3. Len(Tail(fifo[isr])) <= 3
          BY <1>4, <4>1, <4>2, Zenon
        <4> QED
          BY <1>3, <3>1, <4>3, Zenon DEF FifoDepth
      <3>2. CASE f # isr
        BY <1>2, <1>3, <3>2 DEF RxTyped
      <3> QED
        BY <3>1, <3>2
    <2>3. \A f \in Fifo : isr' # f
      BY <1>1 DEF Fifo
    <2> QED
      BY <1>1, <1>2, <2>1, <2>2, <2>3 DEF RxTyped
  <1>6. ASSUME NEW f \in Fifo
        PROVE  OneInOrder(f)'
    <2>1. isr' # f
      BY <1>1 DEF Fifo
    <2>2. Untold(f)' = Untold(f)
      BY <1>3, <2>1 DEF Untold
    <2>3. Told(f)' = Told(f)
      BY <1>1, <2>2 DEF Told
    <2>4. OneInOrder(f)
      BY DEF RxInv, AllInOrder
    <2> QED
      BY <1>1, <2>3, <2>4, NothingArrives
  <1>7. AllInOrder'
    BY <1>6 DEF AllInOrder
  <1>8. FilterInv'
    BY <1>1, FilterKept DEF RxInv
  <1> QED
    BY <1>1, <1>5, <1>7, <1>8 DEF RxInv

\* The main loop does not touch what the receiving side keeps.
LEMMA RxUntouched ==
  ASSUME RxInv, UNCHANGED rxVars, wire' = wire
  PROVE  RxInv'
  <1>1. /\ filter' = filter /\ rx_cb' /\ fifo' = fifo /\ isr' = isr
        /\ heard' = heard /\ lost' = lost
    BY DEF rxVars, RxInv
  <1>2. RxTyped'
    BY <1>1 DEF RxInv, RxTyped
  <1>3. ASSUME NEW f \in Fifo
        PROVE  OneInOrder(f)'
    <2>1. Told(f)' = Told(f)
      BY <1>1 DEF Told, Untold
    <2>2. OneInOrder(f)
      BY DEF RxInv, AllInOrder
    <2> QED
      BY <1>1, <2>1, <2>2, NothingArrives
  <1>4. AllInOrder'
    BY <1>3 DEF AllInOrder
  <1>5. FilterInv'
    BY <1>1, FilterKept DEF RxInv
  <1> QED
    BY <1>1, <1>2, <1>4, <1>5 DEF RxInv

LEMMA RxInitHolds ==
  ASSUME LoopInit, rx_cb
  PROVE  RxInv
  <1>1. /\ fifo = [f \in Fifo |-> << >>] /\ isr = -1 /\ heard = [f \in Fifo |-> << >>]
        /\ lost = {} /\ wire = << >>
    BY DEF LoopInit, Init
  <1>2. /\ << >> \in Seq(Nat) /\ << >> \in Seq([id : Nat, frame : Nat])
        /\ Len(<< >>) = 0 /\ DOMAIN << >> = {}
    BY EmptySeq
  <1>3. RxTyped
    BY <1>1, <1>2 DEF RxTyped, Fifo, FifoDepth
  <1>4. FilterInv
    BY DEF LoopInit, FilterInv
  <1>5. ASSUME NEW f \in Fifo
        PROVE  OneInOrder(f)
    <2>1. heard[f] = << >> /\ Untold(f) = << >>
      BY <1>1 DEF Untold, Fifo
    <2>2. Got(f) \in Seq(Nat) /\ Len(Got(f)) = 0 /\ Told(f) = Got(f) \o << >>
      BY <1>2, <1>3, <2>1, ToldShape
    <2>3. Told(f) \in Seq(Nat) /\ Len(Told(f)) = 0
      BY <1>2, <2>2, Joined
    <2>4. DOMAIN Told(f) = {}
      BY <2>3, LenProperties
    <2>5. Range(Told(f)) = {} /\ Range(wire) = {}
      BY <1>1, <1>2, <2>4 DEF Range
    <2> QED
      BY <1>2, <2>1, <2>4, <2>5 DEF OneInOrder, Increasing
  <1> QED
    BY <1>3, <1>4, <1>5 DEF RxInv, AllInOrder

LEMMA RxNextKeeps ==
  ASSUME CanTxAssumption, CanLoopAssumption, IInv, RxInv, [LoopNext]_LoopVars
  PROVE  RxInv'
  <1>1. CASE MainStep
    <2>1. wire' = wire /\ UNCHANGED rxVars
      BY <1>1 DEF MainStep, Step, Scan, Retry, Fill, RequestTx, ReadStatus, ReadFlags, ClearFlags
    <2> QED
      BY <2>1, RxUntouched
  <1>2. CASE /\ isr = -1 /\ UNCHANGED rxVars
             /\ \E r \in Req : Check(r) \/ \E wait \in 0 .. MaxWait : Send(r, wait)
    <2>1. wire' = wire
      BY <1>2 DEF Check, Send
    <2> QED
      BY <1>2, <2>1, RxUntouched
  <1>3. CASE LoopBack
    BY <1>3, LoopBackKeeps
  <1>4. CASE Handler
    BY <1>4, HandleKeeps, ReleaseKeeps DEF Handler
  <1>5. CASE Done /\ fifo = [f \in Fifo |-> << >>] /\ UNCHANGED rxVars
    <2>1. wire' = wire
      BY <1>5 DEF Done, vars
    <2> QED
      BY <1>5, <2>1, RxUntouched
  <1>6. CASE UNCHANGED LoopVars
    <2>1. wire' = wire /\ UNCHANGED rxVars
      BY <1>6 DEF LoopVars, vars
    <2> QED
      BY <2>1, RxUntouched
  <1> QED
    BY <1>1, <1>2, <1>3, <1>4, <1>5, <1>6 DEF LoopNext

\* Without a callback nothing is told, whatever arrives.
LEMMA MuteKeeps ==
  ASSUME MuteInv, [LoopNext]_LoopVars
  PROVE  MuteInv'
  <1>1. filter' = filter /\ rx_cb' = rx_cb /\ heard' = heard
    BY DEF MuteInv, LoopNext, MainStep, LoopBack, Handler, Handle, Release, LoopVars, rxVars
  <1> QED
    BY <1>1, FilterKept DEF MuteInv

LEMMA RxInductive == LoopSpec => [](IInv /\ (RxInv \/ MuteInv))
  <1>1. LoopInit => RxInv \/ MuteInv
    <2>1. LoopInit /\ ~rx_cb => MuteInv
      BY DEF LoopInit, MuteInv, FilterInv
    <2> QED
      BY <2>1, RxInitHolds
  <1>2. IInv /\ (RxInv \/ MuteInv) /\ [LoopNext]_LoopVars => (RxInv \/ MuteInv)'
    BY RxNextKeeps, MuteKeeps, CanTxAssumption, CanLoopAssumption
  <1> QED
    BY <1>1, <1>2, LoopInductive, PTL DEF LoopSpec

\* Every frame that passed the filter was told once, in the order the frames
\* were sent and with its own identifier, or waits in its FIFO, or was
\* overwritten there (CAN1_RX0_ISR, CAN1_RX1_ISR and can_rx_msg); and nothing is
\* told where can_init was given no callback.
THEOREM LoopToldInOrder == LoopSpec => []ToldInOrder
  <1>1. RxInv \/ MuteInv => ToldInOrder
    BY DEF RxInv, MuteInv, AllInOrder, OneInOrder, ToldInOrder, Increasing
  <1> QED
    BY <1>1, RxInductive, PTL

\* The filter banks let through the identifiers that can_filter_init_ex was
\* given, the standard 0 for the odd one, and no other; after can_filter_init all.
THEOREM LoopAcceptsListed == LoopSpec => []AcceptsListed
  <1>1. ASSUME IInv, FilterInv
        PROVE  AcceptsListed
    <2> SUFFICES ASSUME NEW n \in Range(wire)
                 PROVE  (Route(n) # -1) <=>
                          \/ filter = can_filter_init(AfterReset)
                          \/ \E ids \in IdLists :
                               /\ filter = can_filter_init_ex(AfterReset, ids)
                               /\ Ident[n] \in Listed(ids) \union OddSlot(ids)
      BY DEF AcceptsListed
    <2>1. n \in 1 .. MaxFrames
      BY <1>1, CanTxAssumption, WireFrames
    <2>2. \A ids \in IdLists : filter = can_filter_init_ex(AfterReset, ids)
            => (Route(n) # -1 <=> Ident[n] \in Listed(ids) \union OddSlot(ids))
      BY <2>1, CanLoopAssumption, ListPasses DEF CanLoopAssumption
    <2>3. filter = can_filter_init(AfterReset) => Route(n) # -1
      BY AllPass
    <2> QED
      BY <1>1, <2>2, <2>3, Zenon DEF FilterInv
  <1>2. IInv /\ (RxInv \/ MuteInv) => AcceptsListed
    BY <1>1 DEF RxInv, MuteInv
  <1> QED
    BY <1>2, RxInductive, PTL
==============================================================================
