------------------------- MODULE BoundedQueueProofs -------------------------
(***************************************************************************)
(* For every capacity and every number of messages, the thread-mode ring   *)
(* delivers what was pushed, in order, and implements FifoChannel.  The    *)
(* inductive invariant is TypeOK, RingInv, FifoDelivery and HighWater      *)
(* together: delivery rests on the slots in flight being intact (RingInv), *)
(* and a refill spares them because the producer's loaded head is never    *)
(* ahead of the real one.                                                  *)
(***************************************************************************)
EXTENDS BoundedQueue, TLAPS

IInv == TypeOK /\ RingInv /\ FifoDelivery /\ HighWater

\* A power of two is positive.
LEMMA CapacityPositive == Capacity \in Nat \ {0}
BY CapacityAssumption

\* Division with remainder, stated with the product the next lemmas need.
LEMMA DivMod ==
  ASSUME NEW k \in Nat
  PROVE  /\ k \div Capacity \in Nat
         /\ k % Capacity \in 0..(Capacity - 1)
         /\ k = Capacity * (k \div Capacity) + (k % Capacity)
BY CapacityPositive, SMT

\* Every index is masked into the buffer.
LEMMA SlotRange ==
  ASSUME NEW k \in Nat
  PROVE  Slot(k) \in Slots
BY DivMod DEF Slot, Slots

\* Messages less than a capacity apart never share a slot: their indices
\* would differ by a multiple of the capacity.
LEMMA SlotDistinct ==
  ASSUME NEW i \in Nat, NEW j \in Nat, i < j, j - i < Capacity
  PROVE  Slot(i) # Slot(j)
<1> SUFFICES ASSUME i % Capacity = j % Capacity PROVE FALSE
  BY DEF Slot
<1> DEFINE C == Capacity
           qi == i \div C
           qj == j \div C
<1>1. /\ C \in Nat \ {0} /\ qi \in Nat /\ qj \in Nat /\ i % C \in Nat
      /\ i = C * qi + (i % C) /\ j = C * qj + (i % C) /\ j - i < C
  BY CapacityPositive, DivMod
<1> HIDE DEF C, qi, qj
<1>2. ~(qj <= qi)
  <2>1. C * (qi - qj) = C * qi - C * qj
    BY <1>1, SMT
  <2>2. qi >= qj => C * (qi - qj) >= 0
    BY <1>1, SMT
  <2> QED BY <1>1, <2>1, <2>2
<1>3. ~(qj >= qi + 1)
  <2>1. C * (qj - qi - 1) = C * qj - C * qi - C
    BY <1>1, SMT
  <2>2. qj - qi - 1 >= 0 => C * (qj - qi - 1) >= 0
    BY <1>1, SMT
  <2> QED BY <1>1, <2>1, <2>2
<1> QED BY <1>1, <1>2, <1>3

\* The empty queue satisfies the inductive invariant.
LEMMA InitIInv == Init => IInv
<1> SUFFICES ASSUME Init PROVE IInv
  OBVIOUS
<1> USE CapacityPositive DEF Init, Empty
<1>1. TypeOK
  <2>1. buf \in [Slots -> Int] /\ c_value \in Int
    OBVIOUS
  <2>2. out \in Seq(Int)
    OBVIOUS
  <2> QED BY <2>1, <2>2 DEF TypeOK
<1>2. RingInv
  BY DEF RingInv, InFlight, ProducerView, ConsumerView
<1>3. FifoDelivery
  BY DEF FifoDelivery
<1>4. HighWater
  BY DEF HighWater
<1> QED BY <1>1, <1>2, <1>3, <1>4 DEF IInv

\* Every step of either stage, and of requestStop, keeps the types.
LEMMA NextTypeOK == TypeOK /\ [Next]_vars => TypeOK'
<1> SUFFICES ASSUME TypeOK, [Next]_vars PROVE TypeOK'
  OBVIOUS
<1> USE DEF TypeOK, shared, producer, consumer
<1>1. CASE ProducerLeaves
  BY <1>1 DEF ProducerLeaves
<1>2. CASE PushCheckClosed
  BY <1>2 DEF PushCheckClosed
<1>3. CASE PushLoad
  BY <1>3 DEF PushLoad
<1>4. CASE PushWrite
  BY <1>4, SlotRange DEF PushWrite
<1>5. CASE PushMark
  BY <1>5 DEF PushMark
<1>6. CASE PushPublish
  BY <1>6 DEF PushPublish
<1>7. CASE PushFull
  BY <1>7 DEF PushFull
<1>8. CASE ProducerClose
  BY <1>8 DEF ProducerClose
<1>9. CASE ConsumerLeaves
  BY <1>9 DEF ConsumerLeaves
<1>10. CASE PopLoad
  BY <1>10 DEF PopLoad
<1>11. CASE PopRead
  BY <1>11, SlotRange DEF PopRead
<1>12. CASE PopAdvance
  BY <1>12 DEF PopAdvance
<1>13. CASE PopCheckClosed
  BY <1>13 DEF PopCheckClosed
<1>14. CASE PopCheckStop
  BY <1>14 DEF PopCheckStop
<1>15. CASE RequestStop
  BY <1>15 DEF RequestStop, RaiseStop, CloseAfterStop
<1>16. CASE UNCHANGED vars
  BY <1>16 DEF vars
<1> QED
  BY <1>1, <1>2, <1>3, <1>4, <1>5, <1>6, <1>7, <1>8, <1>9, <1>10, <1>11,
     <1>12, <1>13, <1>14, <1>15, <1>16 DEF Next, Producer, Consumer

\* Every step keeps the invariant.  Only a write, a publish and an advance
\* touch the slots in flight; the other steps move a program counter.
LEMMA NextIInv == IInv /\ [Next]_vars => IInv'
<1> SUFFICES ASSUME IInv, [Next]_vars PROVE IInv'
  OBVIOUS
<1>0. TypeOK'
  BY NextTypeOK DEF IInv
<1> USE CapacityPositive DEF IInv, TypeOK, RingInv, InFlight, ProducerView,
        ConsumerView, FifoDelivery, HighWater, shared, producer, consumer
<1>1. CASE ProducerLeaves
  BY <1>0, <1>1 DEF ProducerLeaves
<1>2. CASE PushCheckClosed
  BY <1>0, <1>2 DEF PushCheckClosed
<1>3. CASE PushLoad
  BY <1>0, <1>3 DEF PushLoad
<1>4. CASE PushWrite
  <2>1. \A k \in head..(tail - 1) : Slot(k) # Slot(tail)
    BY SlotDistinct, <1>4 DEF PushWrite
  <2>2. \A k \in head..tail : Slot(k) \in Slots
    BY SlotRange
  <2>3. InFlight'
    BY <1>4, <2>1, <2>2 DEF PushWrite
  <2>4. ProducerView'
    BY <1>4, <2>2 DEF PushWrite
  <2> QED BY <1>0, <1>4, <2>3, <2>4 DEF PushWrite
<1>5. CASE PushMark
  BY <1>0, <1>5 DEF PushMark
<1>6. CASE PushPublish
  <2>1. InFlight'
    BY <1>6 DEF PushPublish
  <2> QED BY <1>0, <1>6, <2>1 DEF PushPublish
<1>7. CASE PushFull
  BY <1>0, <1>7 DEF PushFull
<1>8. CASE ProducerClose
  BY <1>0, <1>8 DEF ProducerClose
<1>9. CASE ConsumerLeaves
  BY <1>0, <1>9 DEF ConsumerLeaves
<1>10. CASE PopLoad
  BY <1>0, <1>10 DEF PopLoad
<1>11. CASE PopRead
  BY <1>0, <1>11 DEF PopRead
<1>12. CASE PopAdvance
  <2>1. FifoDelivery'
    BY <1>12 DEF PopAdvance
  <2>2. RingInv'
    BY <1>12 DEF PopAdvance
  <2> QED BY <1>0, <1>12, <2>1, <2>2 DEF PopAdvance
<1>13. CASE PopCheckClosed
  BY <1>0, <1>13 DEF PopCheckClosed
<1>14. CASE PopCheckStop
  BY <1>0, <1>14 DEF PopCheckStop
<1>15. CASE RequestStop
  <2>1. UNCHANGED <<buf, head, tail, max_len, producer, consumer>>
    BY <1>15 DEF RequestStop, RaiseStop, CloseAfterStop
  <2> QED BY <1>0, <2>1
<1>16. CASE UNCHANGED vars
  BY <1>0, <1>16 DEF vars
<1> HIDE DEF IInv, TypeOK, RingInv, InFlight, ProducerView, ConsumerView,
        FifoDelivery, HighWater
<1> QED
  BY <1>1, <1>2, <1>3, <1>4, <1>5, <1>6, <1>7, <1>8, <1>9, <1>10, <1>11,
     <1>12, <1>13, <1>14, <1>15, <1>16 DEF Next, Producer, Consumer

\* The inductive invariant holds in every reachable state.
LEMMA SpecIInv == Spec => []IInv
BY InitIInv, NextIInv, PTL DEF Spec

\* The state of the ring and of both stages keeps its types.
THEOREM QueueTypes == Spec => []TypeOK
BY SpecIInv, PTL DEF IInv

\* The ring never hands out a message twice, out of order, or a slot that
\* the producer has overwritten (queue.zig push/pop).
THEOREM QueueDelivers == Spec => []FifoDelivery
BY SpecIInv, PTL DEF IInv

\* max_len bounds the true length at every instant and never exceeds the
\* configured depth.
THEOREM QueueHighWater == Spec => []HighWater
BY SpecIInv, PTL DEF IInv

\* Every behaviour of the ring is a behaviour of the bounded channel.
THEOREM QueueImplementsChannel == Spec => ChannelSpec
<1>1. Init => Channel!ChannelInit
  BY DEF Init, Channel!ChannelInit
<1>2. IInv /\ [Next]_vars => [Channel!ChannelNext]_(Channel!channelVars)
  <2> SUFFICES ASSUME IInv, [Next]_vars
               PROVE  Channel!ChannelNext \/ UNCHANGED <<tail, out>>
    BY DEF Channel!channelVars
  <2> USE DEF shared, producer, consumer
  <2>1. CASE PushPublish
    BY <2>1, CapacityPositive DEF PushPublish, Channel!ChannelNext, Channel!Send, IInv, TypeOK,
       RingInv, ProducerView, FifoDelivery
  <2>2. CASE PopAdvance
    BY <2>2 DEF PopAdvance, Channel!ChannelNext, Channel!Receive, IInv, TypeOK,
       RingInv, ConsumerView, FifoDelivery
  <2>3. CASE Producer /\ ~PushPublish
    BY <2>3 DEF Producer, ProducerLeaves, PushCheckClosed, PushLoad, PushWrite,
       PushMark, PushFull, ProducerClose
  <2>4. CASE Consumer /\ ~PopAdvance
    BY <2>4 DEF Consumer, ConsumerLeaves, PopLoad, PopRead, PopCheckClosed,
       PopCheckStop
  <2>5. CASE RequestStop
    BY <2>5 DEF RequestStop, RaiseStop, CloseAfterStop
  <2>6. CASE UNCHANGED vars
    BY <2>6 DEF vars
  <2> QED BY <2>1, <2>2, <2>3, <2>4, <2>5, <2>6 DEF Next
<1> QED BY <1>1, <1>2, SpecIInv, PTL DEF Spec, ChannelSpec, Channel!ChannelSpec
=============================================================================
