----------------------------- MODULE TangoLink ------------------------------
(***************************************************************************)
(* A process-mode link between two tiles (runtime/link/producer.zig and    *)
(* consumer.zig) over Firedancer's Tango shared memory: a metadata ring    *)
(* (mcache), a payload slot per line (dcache) and the consumer's progress  *)
(* counter (fseq), which is the only thing that tells the producer that a  *)
(* slot may be reused.  The two tiles are processes: each may die at any   *)
(* step, and the supervisor may raise HALT at any time.                    *)
(*                                                                         *)
(* One step per store or load of shared memory, in program order: the      *)
(* code's fences stop the compiler, and the target keeps stores in order.  *)
(* A payload is two words, so a copy can be caught half way.  A message is *)
(* its sequence number; Torn is a copy whose parts belong to no single     *)
(* message.  u64 sequence numbers start at 0 and do not wrap in one run.   *)
(***************************************************************************)
EXTENDS Integers, Sequences

CONSTANTS
  Depth,      \* channel depth
  Events,     \* cfg.event_count: how many messages either tile handles
  Lossy,      \* TRUE: publishLossy, FALSE: publish
  Oversized   \* messages whose payload exceeds the link's mtu

\* create() asserts a power of two; the mcache has no smaller depth than 1.
ASSUME DepthAssumption ==
  /\ Depth \in Nat \ {0}
  /\ \E k \in 0..Depth : Depth = 2^k

ASSUME EventsAssumption == Events \in Nat

ASSUME ModeAssumption == Lossy \in BOOLEAN /\ Oversized \subseteq Nat

VARIABLES
  m_seq, m_body,                   \* mcache: sequence number and the rest of a line
  d_lo, d_hi,                      \* dcache: the two words of each line's slot
  fseq,                            \* consumer progress as the producer sees it
  halt,                            \* cnc signal is HALT
  ppc, p_seq, cr_avail, dropped,   \* producer
  cpc, c_seq, c_body, c_lo, c_hi,  \* consumer
  out                              \* history: what consume has returned

memory == <<m_seq, m_body, d_lo, d_hi, fseq>>
producer == <<ppc, p_seq, cr_avail, dropped>>
consumer == <<cpc, c_seq, c_body, c_lo, c_hi, out>>
vars == <<m_seq, m_body, d_lo, d_hi, fseq, halt, ppc, p_seq, cr_avail, dropped,
          cpc, c_seq, c_body, c_lo, c_hi, out>>

Lines == 0..(Depth - 1)
Torn == -1
Unset == -2   \* freshly formatted payload or metadata body

\* fd_mcache_line_idx without interleaving: seq & (depth - 1)
Line(seq) == seq % Depth

\* Wrong variant: the receiver is registered with twice the ring's depth.
CrMaxDoubled == 2 * Depth

\* cfgRxAdd(depth) then cfgDone(1, 0, 0, 0): one receiver of Depth credits
CrMax == Depth
CrBurst == 1

Max2(a, b) == IF a >= b THEN a ELSE b
Min2(a, b) == IF a <= b THEN a ELSE b

\* Wrong variant: what is in flight is not subtracted.
CrQueryAll(tx_seq, rx_seq) == CrMax

\* fd_fctl_cr_query for the one receiver
CrQuery(tx_seq, rx_seq) ==
  Min2(CrMax, Max2(CrMax - Max2(tx_seq - rx_seq, 0), 0))

\* fd_mcache_new stamps line l with l - 1, which no consumer waits for there.
Init ==
  /\ m_seq = [l \in Lines |-> l - 1]
  /\ m_body = [l \in Lines |-> Unset]
  /\ d_lo = [l \in Lines |-> Unset] /\ d_hi = [l \in Lines |-> Unset]
  /\ fseq = 0
  /\ halt = FALSE
  /\ ppc = "top" /\ p_seq = 0 /\ cr_avail = CrMax /\ dropped = 0
  /\ cpc = "top" /\ c_seq = 0 /\ c_body = Unset /\ c_lo = Unset /\ c_hi = Unset
  /\ out = <<>>

-----------------------------------------------------------------------------
(* Wrong variants of the steps below, each a slip that is easy to make in  *)
(* the link code.  PROJECT.json pairs each with the property it breaks.    *)

\* the wait for credits does not look at HALT
PublishWaitDeaf ==
  /\ ppc = "wait"
  /\ ppc' = "ready"
  /\ UNCHANGED <<memory, halt, p_seq, cr_avail, dropped, consumer>>

\* counts only once the consumer is already a message behind the ring
PublishLossyOffByOne ==
  /\ ppc = "ready" /\ Lossy
  /\ dropped' = IF p_seq - fseq > Depth THEN dropped + 1 ELSE dropped
  /\ ppc' = "slot"
  /\ UNCHANGED <<memory, halt, p_seq, cr_avail, consumer>>

\* waits for room instead of overwriting
PublishLossyWaits ==
  /\ ppc = "ready" /\ Lossy
  /\ ppc' = IF p_seq - fseq >= Depth THEN "wait" ELSE "slot"
  /\ UNCHANGED <<memory, halt, p_seq, cr_avail, dropped, consumer>>

\* the line is stamped before it is filled
MarkLineStamped ==
  /\ ppc = "mark"
  /\ m_seq' = [m_seq EXCEPT ![Line(p_seq)] = p_seq]
  /\ ppc' = "fill"
  /\ UNCHANGED <<m_body, d_lo, d_hi, fseq, halt, p_seq, cr_avail, dropped, consumer>>

\* the credit is returned for the message still to come
ReturnCreditEarly ==
  /\ cpc = "credit"
  /\ fseq' = c_seq + 1
  /\ cpc' = "top"
  /\ UNCHANGED <<m_seq, m_body, d_lo, d_hi, halt, producer, c_seq, c_body,
                 c_lo, c_hi, out>>

\* the credit is not returned
ReturnCreditNever ==
  /\ cpc = "credit"
  /\ cpc' = "top"
  /\ UNCHANGED <<memory, halt, producer, c_seq, c_body, c_lo, c_hi, out>>

-----------------------------------------------------------------------------
(* Producer tile *)

\* The stage loop: one message per iteration, HALT checked in between.
ProducerLoop ==
  /\ ppc = "top"
  /\ ppc' = IF p_seq = Events \/ halt THEN "done" ELSE "ready"
  /\ UNCHANGED <<memory, halt, p_seq, cr_avail, dropped, consumer>>

\* publish: cached credits first, the consumer's fseq only when they run out
PublishCredit ==
  /\ ppc = "ready" /\ ~Lossy
  /\ cr_avail' = IF cr_avail >= CrBurst THEN cr_avail ELSE CrQuery(p_seq, fseq)
  /\ ppc' = IF cr_avail' >= CrBurst THEN "slot" ELSE "wait"
  /\ UNCHANGED <<memory, halt, p_seq, dropped, consumer>>

\* the idle branch of publish: counts, heartbeats, leaves on HALT
PublishWait ==
  /\ ppc = "wait"
  /\ ppc' = IF halt THEN "done" ELSE "ready"
  /\ UNCHANGED <<memory, halt, p_seq, cr_avail, dropped, consumer>>

\* publishLossy: never waits, only counts when it may overwrite
PublishLossy ==
  /\ ppc = "ready" /\ Lossy
  /\ dropped' = IF p_seq - fseq >= Depth THEN dropped + 1 ELSE dropped
  /\ ppc' = "slot"
  /\ UNCHANGED <<memory, halt, p_seq, cr_avail, consumer>>

\* writeSlot refuses a payload above the mtu and the stage gives up;
\* otherwise it copies the payload, here its first word.
WriteSlotLo ==
  /\ ppc = "slot"
  /\ IF p_seq \in Oversized
       THEN /\ ppc' = "done"
            /\ UNCHANGED d_lo
       ELSE /\ ppc' = "slot2"
            /\ d_lo' = [d_lo EXCEPT ![Line(p_seq)] = p_seq]
  /\ UNCHANGED <<m_seq, m_body, d_hi, fseq, halt, p_seq, cr_avail, dropped, consumer>>

WriteSlotHi ==
  /\ ppc = "slot2"
  /\ d_hi' = [d_hi EXCEPT ![Line(p_seq)] = p_seq]
  /\ ppc' = "mark"
  /\ UNCHANGED <<m_seq, m_body, d_lo, fseq, halt, p_seq, cr_avail, dropped, consumer>>

\* fd_mcache_publish: invalidate the line, fill it, stamp it
MarkLine ==
  /\ ppc = "mark"
  /\ m_seq' = [m_seq EXCEPT ![Line(p_seq)] = p_seq - 1]
  /\ ppc' = "fill"
  /\ UNCHANGED <<m_body, d_lo, d_hi, fseq, halt, p_seq, cr_avail, dropped, consumer>>

FillLine ==
  /\ ppc = "fill"
  /\ m_body' = [m_body EXCEPT ![Line(p_seq)] = p_seq]
  /\ ppc' = "stamp"
  /\ UNCHANGED <<m_seq, d_lo, d_hi, fseq, halt, p_seq, cr_avail, dropped, consumer>>

StampLine ==
  /\ ppc = "stamp"
  /\ m_seq' = [m_seq EXCEPT ![Line(p_seq)] = p_seq]
  /\ p_seq' = p_seq + 1
  /\ cr_avail' = IF Lossy THEN cr_avail ELSE cr_avail - 1
  /\ ppc' = "top"
  /\ UNCHANGED <<m_body, d_lo, d_hi, fseq, halt, dropped, consumer>>

\* The process dies; nothing restarts it within a run.
ProducerCrash ==
  /\ ppc \notin {"done", "dead"}
  /\ ppc' = "dead"
  /\ UNCHANGED <<memory, halt, p_seq, cr_avail, dropped, consumer>>

Producer ==
  \/ ProducerLoop \/ PublishCredit \/ PublishWait \/ PublishLossy
  \/ WriteSlotLo \/ WriteSlotHi \/ MarkLine \/ FillLine \/ StampLine

-----------------------------------------------------------------------------
(* Consumer tile *)

ConsumerLoop ==
  /\ cpc = "top"
  /\ cpc' = IF c_seq = Events \/ halt THEN "done" ELSE "poll"
  /\ UNCHANGED <<memory, halt, producer, c_seq, c_body, c_lo, c_hi, out>>

\* tryConsume looks at the one line its next message will appear in.
Poll ==
  /\ cpc = "poll"
  /\ cpc' = IF m_seq[Line(c_seq)] = c_seq THEN "meta" ELSE "idle"
  /\ UNCHANGED <<memory, halt, producer, c_seq, c_body, c_lo, c_hi, out>>

\* the idle branch of consume: counts, heartbeats, leaves on HALT
Idle ==
  /\ cpc = "idle"
  /\ cpc' = IF halt THEN "done" ELSE "poll"
  /\ UNCHANGED <<memory, halt, producer, c_seq, c_body, c_lo, c_hi, out>>

ReadMeta ==
  /\ cpc = "meta"
  /\ c_body' = m_body[Line(c_seq)]
  /\ cpc' = "copy"
  /\ UNCHANGED <<memory, halt, producer, c_seq, c_lo, c_hi, out>>

CopyLo ==
  /\ cpc = "copy"
  /\ c_lo' = d_lo[Line(c_seq)]
  /\ cpc' = "copy2"
  /\ UNCHANGED <<memory, halt, producer, c_seq, c_body, c_hi, out>>

CopyHi ==
  /\ cpc = "copy2"
  /\ c_hi' = d_hi[Line(c_seq)]
  /\ cpc' = "recheck"
  /\ UNCHANGED <<memory, halt, producer, c_seq, c_body, c_lo, out>>

\* The message that the copied parts make up
Copied == IF c_body = c_lo /\ c_lo = c_hi THEN c_body ELSE Torn

Recheck ==
  /\ cpc = "recheck"
  /\ IF m_seq[Line(c_seq)] = c_seq
       THEN /\ c_seq' = c_seq + 1
            /\ out' = Append(out, Copied)
            /\ cpc' = "credit"
       ELSE /\ cpc' = "idle"
            /\ UNCHANGED <<c_seq, out>>
  /\ UNCHANGED <<memory, halt, producer, c_body, c_lo, c_hi>>

\* fd_fctl_rx_cr_return
ReturnCredit ==
  /\ cpc = "credit"
  /\ fseq' = c_seq
  /\ cpc' = "top"
  /\ UNCHANGED <<m_seq, m_body, d_lo, d_hi, halt, producer, c_seq, c_body,
                 c_lo, c_hi, out>>

ConsumerCrash ==
  /\ cpc \notin {"done", "dead"}
  /\ cpc' = "dead"
  /\ UNCHANGED <<memory, halt, producer, c_seq, c_body, c_lo, c_hi, out>>

Consumer ==
  \/ ConsumerLoop \/ Poll \/ Idle \/ ReadMeta \/ CopyLo \/ CopyHi
  \/ Recheck \/ ReturnCredit

-----------------------------------------------------------------------------
\* The supervisor's stopProcess
RaiseHalt ==
  /\ ~halt
  /\ halt' = TRUE
  /\ UNCHANGED <<memory, producer, consumer>>

Crash == ProducerCrash \/ ConsumerCrash

Next == Producer \/ Consumer \/ Crash \/ RaiseHalt

\* A live tile process keeps being scheduled; waits are bounded sleeps.
Fairness == WF_vars(Producer) /\ WF_vars(Consumer)

Spec == Init /\ [][Next]_vars /\ Fairness

-----------------------------------------------------------------------------
(* Properties *)

ProducerPlaces ==
  {"top", "ready", "wait", "slot", "slot2", "mark", "fill", "stamp", "done", "dead"}
ConsumerPlaces ==
  {"top", "poll", "idle", "meta", "copy", "copy2", "recheck", "credit", "done", "dead"}

\* Every variable has its type; credits are never negative (publish).
TypeOK ==
  /\ m_seq \in [Lines -> Int] /\ m_body \in [Lines -> Int]
  /\ d_lo \in [Lines -> Int] /\ d_hi \in [Lines -> Int]
  /\ fseq \in Nat /\ halt \in BOOLEAN
  /\ ppc \in ProducerPlaces /\ p_seq \in Nat /\ cr_avail \in Nat /\ dropped \in Nat
  /\ cpc \in ConsumerPlaces /\ c_seq \in Nat
  /\ c_body \in Int /\ c_lo \in Int /\ c_hi \in Int
  /\ out \in Seq(Int)

\* A reliable link hands over every message whole, once and in order, with
\* both tiles dying or being halted at any step.
ReliableDelivery ==
  ~Lossy => /\ Len(out) = c_seq
            /\ \A k \in 1..Len(out) : out[k] = k - 1

\* Cached credits are conservative: spending all of them without another
\* look at fseq cannot reach a slot the consumer has not released.
CreditsConservative ==
  ~Lossy => p_seq + cr_avail <= fseq + CrMax

\* What a reliable link's shared memory holds: each message between the
\* consumer's returned progress and the producer is intact in its line, and
\* no line carries a number that has not been published yet.
InFlight ==
  \A k \in fseq..(p_seq - 1) :
    /\ m_seq[Line(k)] = k /\ m_body[Line(k)] = k
    /\ d_lo[Line(k)] = k /\ d_hi[Line(k)] = k

NotYet == \A k \in p_seq..(p_seq + Depth - 1) : m_seq[Line(k)] < k

Writing ==
  /\ ppc \in {"slot", "slot2", "mark", "fill", "stamp"} => cr_avail >= CrBurst
  /\ ppc \in {"slot2", "mark", "fill", "stamp"} => d_lo[Line(p_seq)] = p_seq
  /\ ppc \in {"mark", "fill", "stamp"} => d_hi[Line(p_seq)] = p_seq
  /\ ppc = "stamp" => m_body[Line(p_seq)] = p_seq

Reading ==
  /\ fseq <= c_seq /\ c_seq <= fseq + 1 /\ c_seq <= p_seq
  /\ cpc \notin {"credit", "dead"} => fseq = c_seq
  /\ cpc \in {"meta", "copy", "copy2", "recheck"} => c_seq < p_seq
  /\ cpc \in {"copy", "copy2", "recheck"} => c_body = c_seq
  /\ cpc \in {"copy2", "recheck"} => c_lo = c_seq
  /\ cpc = "recheck" => c_hi = c_seq

\* The credit protocol keeps the producer's writes away from the line the
\* consumer is copying, in the middle of a write and of a copy alike.
LinkInv == ~Lossy => InFlight /\ NotYet /\ Writing /\ Reading

\* A reliable link implements the abstract channel.
Channel == INSTANCE FifoChannel WITH Capacity <- Depth, sent <- p_seq

\* publish and consume implement a bounded FIFO channel that sends when the
\* line is stamped and receives when the re-check passes.
ChannelSpec == Channel!ChannelSpec

Gone(pc) == pc \in {"done", "dead"}

\* Short of a HALT and of the consumer's death, every message arrives: all of
\* them, those before the one that writeSlot refuses, or those that were stamped
\* when the producer died. The credit cache never starves the producer, and no
\* stamped line is missed.
AllDelivered ==
  <>(\/ halt \/ cpc = "dead"
     \/ Len(out) \in Oversized \cup {Events}
     \/ ppc = "dead" /\ Len(out) = p_seq)

\* HALT gets both tiles out of their waits, also when the peer is dead and
\* the link full or empty for good.
HaltReleases == halt ~> (Gone(ppc) /\ Gone(cpc))

\* A lossy producer never waits for its consumer.
LossyNeverWaits == <>(Gone(ppc))

\* The dropped counter accounts for every message that was overwritten
\* before the consumer took it.
DroppedCoversLoss == Lossy => p_seq - Depth - c_seq <= dropped

=============================================================================
