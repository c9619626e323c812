---------------------------- MODULE BoundedQueue ----------------------------
(***************************************************************************)
(* The in-process ring that joins two stages of the thread-mode payment    *)
(* pipeline (payment_pipeline/queue.zig), one step per access to a shared  *)
(* atomic.  One stage thread pushes, the next one pops; `stop' and         *)
(* `closed' may be raised by a third thread in requestStop.                *)
(*                                                                         *)
(* A message is the number of the push call that offers it: the queue      *)
(* never looks inside a message.  usize does not wrap: tail counts the     *)
(* messages of one run and is at most event_count.                         *)
(***************************************************************************)
EXTENDS Integers, Sequences, TLC

CONSTANTS
  Capacity,   \* buf.len
  Events      \* config.event_count: the most messages a stage offers

\* PaymentPipelineState.init refuses every other queue_depth.
ASSUME CapacityAssumption ==
  /\ Capacity \in Nat \ {0}
  /\ \E k \in 0..Capacity : Capacity = 2^k

ASSUME EventsAssumption == Events \in Nat

VARIABLES
  buf, head, tail, closed, max_len, stop,  \* shared
  ppc, offset, p_head,                     \* producer: where, value, loaded head
  cpc, c_value,                            \* consumer: where, value read
  out                                      \* history: values pop has returned

shared == <<buf, head, tail, closed, max_len, stop>>
producer == <<ppc, offset, p_head>>
consumer == <<cpc, c_value, out>>
vars == <<buf, head, tail, closed, max_len, stop,
          ppc, offset, p_head, cpc, c_value, out>>

Slots == 0..(Capacity - 1)
Empty == -1   \* a slot of the freshly allocated buffer

\* tail & (buf.len - 1), for a power-of-two length
Slot(k) == k % Capacity

Init ==
  /\ buf = [s \in Slots |-> Empty]
  /\ head = 0 /\ tail = 0
  /\ closed = FALSE /\ stop = FALSE
  /\ max_len = 0
  /\ ppc = "push" /\ offset = 0 /\ p_head = 0
  /\ cpc = "pop" /\ c_value = Empty
  /\ out = <<>>

-----------------------------------------------------------------------------
(* Wrong variants of the steps below, each a slip that is easy to make in  *)
(* queue.zig.  PROJECT.json pairs each with the property that catches it.  *)

\* the length without the message being pushed
PushMarkOffByOne ==
  /\ ppc = "mark"
  /\ LET len == tail - p_head
     IN max_len' = IF len > max_len THEN len ELSE max_len
  /\ ppc' = "publish"
  /\ UNCHANGED <<buf, head, tail, closed, stop, offset, p_head, consumer>>

\* the emptiness test is dropped
PopLoadBlind ==
  /\ cpc = "pop"
  /\ cpc' = "read"
  /\ UNCHANGED <<shared, producer, c_value, out>>

\* head is advanced before the slot is read
PopReadLate ==
  /\ cpc = "read"
  /\ c_value' = buf[Slot(head + 1)]
  /\ cpc' = "advance"
  /\ UNCHANGED <<shared, producer, out>>

\* closed is not looked at, only stop
PopIgnoresClosed ==
  /\ cpc = "empty"
  /\ cpc' = "open"
  /\ UNCHANGED <<shared, producer, c_value, out>>

-----------------------------------------------------------------------------
(* push: the producing stage *)

\* The stage's own loop ends (input exhausted, stop seen, or a failure):
\* its deferred close is all that is left.
ProducerLeaves ==
  /\ ppc = "push"
  /\ ppc' = "close"
  /\ UNCHANGED <<shared, offset, p_head, consumer>>

PushCheckClosed ==
  /\ ppc = "push"
  /\ offset < Events
  /\ ppc' = IF closed THEN "close" ELSE "load"
  /\ UNCHANGED <<shared, offset, p_head, consumer>>

PushLoad ==
  /\ ppc = "load"
  /\ p_head' = head
  /\ ppc' = IF tail - head < Capacity THEN "write" ELSE "full"
  /\ UNCHANGED <<shared, offset, consumer>>

PushWrite ==
  /\ ppc = "write"
  /\ buf' = [buf EXCEPT ![Slot(tail)] = offset]
  /\ ppc' = "mark"
  /\ UNCHANGED <<head, tail, closed, max_len, stop, offset, p_head, consumer>>

\* updateMaxUsize: the producer is the only writer of max_len, so the
\* compare-exchange loop succeeds at once.
PushMark ==
  /\ ppc = "mark"
  /\ LET len == tail - p_head + 1
     IN max_len' = IF len > max_len THEN len ELSE max_len
  /\ ppc' = "publish"
  /\ UNCHANGED <<buf, head, tail, closed, stop, offset, p_head, consumer>>

PushPublish ==
  /\ ppc = "publish"
  /\ tail' = tail + 1
  /\ offset' = offset + 1
  /\ ppc' = "push"
  /\ UNCHANGED <<buf, head, closed, max_len, stop, p_head, consumer>>

\* push_waits only counts; the wait ends when stop is up.
PushFull ==
  /\ ppc = "full"
  /\ ppc' = IF stop THEN "close" ELSE "push"
  /\ UNCHANGED <<shared, offset, p_head, consumer>>

\* defer queue.close() of the stage function
ProducerClose ==
  /\ ppc = "close"
  /\ closed' = TRUE
  /\ ppc' = "done"
  /\ UNCHANGED <<buf, head, tail, max_len, stop, offset, p_head, consumer>>

Producer ==
  \/ ProducerLeaves \/ PushCheckClosed \/ PushLoad \/ PushWrite
  \/ PushMark \/ PushPublish \/ PushFull \/ ProducerClose

-----------------------------------------------------------------------------
(* pop: the consuming stage *)

\* The stage leaves its loop because its own push downstream failed; the
\* downstream queue is closed under it only by requestStop.
ConsumerLeaves ==
  /\ cpc = "pop"
  /\ stop
  /\ cpc' = "done"
  /\ UNCHANGED <<shared, producer, c_value, out>>

PopLoad ==
  /\ cpc = "pop"
  /\ cpc' = IF head # tail THEN "read" ELSE "empty"
  /\ UNCHANGED <<shared, producer, c_value, out>>

PopRead ==
  /\ cpc = "read"
  /\ c_value' = buf[Slot(head)]
  /\ cpc' = "advance"
  /\ UNCHANGED <<shared, producer, out>>

PopAdvance ==
  /\ cpc = "advance"
  /\ head' = head + 1
  /\ out' = Append(out, c_value)
  /\ cpc' = "pop"
  /\ UNCHANGED <<buf, tail, closed, max_len, stop, producer, c_value>>

PopCheckClosed ==
  /\ cpc = "empty"
  /\ cpc' = IF closed THEN "done" ELSE "open"
  /\ UNCHANGED <<shared, producer, c_value, out>>

PopCheckStop ==
  /\ cpc = "open"
  /\ cpc' = IF stop THEN "done" ELSE "pop"
  /\ UNCHANGED <<shared, producer, c_value, out>>

Consumer ==
  \/ ConsumerLeaves \/ PopLoad \/ PopRead \/ PopAdvance
  \/ PopCheckClosed \/ PopCheckStop

-----------------------------------------------------------------------------
(* requestStop, called by a failing tile or by the supervisor: stop first, *)
(* then the queues are closed.                                             *)

RaiseStop ==
  /\ stop' = TRUE
  /\ UNCHANGED <<buf, head, tail, closed, max_len, producer, consumer>>

CloseAfterStop ==
  /\ stop
  /\ closed' = TRUE
  /\ UNCHANGED <<buf, head, tail, max_len, stop, producer, consumer>>

RequestStop == RaiseStop \/ CloseAfterStop

Next == Producer \/ Consumer \/ RequestStop

\* Both stages are OS threads that never block: a waiting one yields.
Fairness == WF_vars(Producer) /\ WF_vars(Consumer)

Spec == Init /\ [][Next]_vars /\ Fairness

-----------------------------------------------------------------------------
(* Properties *)

\* Every variable has its type; no index leaves the buffer (push, pop).
TypeOK ==
  /\ buf \in [Slots -> Int]
  /\ head \in Nat /\ tail \in Nat /\ max_len \in Nat
  /\ closed \in BOOLEAN /\ stop \in BOOLEAN
  /\ ppc \in {"push", "load", "write", "mark", "publish", "full", "close", "done"}
  /\ offset \in Nat /\ p_head \in Nat
  /\ cpc \in {"pop", "read", "advance", "empty", "open", "done"}
  /\ c_value \in Int
  /\ out \in Seq(Int)

\* pop returns the messages push accepted, each once and in order, although
\* the producer refills slots while the consumer reads them.
FifoDelivery ==
  /\ Len(out) = head
  /\ \A k \in 1..Len(out) : out[k] = k - 1

\* max_len is a true high-water mark at every instant, not only between
\* pushes: it is raised before the tail that it accounts for is visible.
HighWater == tail - head <= max_len /\ max_len <= Capacity

\* Every message between head and tail still sits in its slot: a refill
\* never lands on a message that pop has yet to copy out.  The producer
\* works from a head it loaded earlier, the consumer from a slot it has
\* not released yet; this says what each may rely on meanwhile.
InFlight == \A k \in head..(tail - 1) : buf[Slot(k)] = k

ProducerView ==
  /\ offset = tail
  /\ p_head <= head
  /\ ppc \in {"write", "mark", "publish"} => tail - p_head < Capacity
  /\ ppc \in {"mark", "publish"} => buf[Slot(tail)] = offset
  /\ ppc = "publish" => tail - p_head + 1 <= max_len

ConsumerView ==
  /\ cpc \in {"read", "advance"} => head < tail
  /\ cpc = "advance" => c_value = head

\* The inductive core of queue.zig: every message between head and tail sits
\* in its own slot, and what either side has loaded is still good enough.
RingInv ==
  /\ head <= tail /\ tail <= head + Capacity
  /\ InFlight
  /\ ProducerView
  /\ ConsumerView

\* The ring implements the abstract channel: tail is the number of accepted
\* messages.
Channel == INSTANCE FifoChannel WITH sent <- tail

\* push and pop implement a bounded FIFO channel that sends when tail moves
\* and receives when head moves.
ChannelSpec == Channel!ChannelSpec

\* Neither stage is left spinning: whatever the order of the last push, the
\* close, a stop and a full ring, both stage loops return.
BothReturn == <>(ppc = "done" /\ cpc = "done")
=============================================================================
