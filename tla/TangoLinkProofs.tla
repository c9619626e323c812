-------------------------- MODULE TangoLinkProofs ---------------------------
(***************************************************************************)
(* For every depth and every number of messages, a reliable Tango link     *)
(* delivers each message whole and in order and implements FifoChannel,    *)
(* with either tile dying or being halted at any step.  The inductive      *)
(* invariant adds to the delivery property what the shared memory holds    *)
(* between fseq and the producer (LinkInv), and that the cached credits    *)
(* never reach past the consumer's returned progress.                      *)
(***************************************************************************)
EXTENDS TangoLink, TLAPS

\* Division with remainder, stated with the product the proofs need.
LEMMA DivMod ==
  ASSUME NEW C \in Nat \ {0}, NEW k \in Nat
  PROVE  /\ k \div C \in Nat
         /\ k % C \in Nat
         /\ k % C \in 0..(C - 1)
         /\ k = C * (k \div C) + (k % C)
BY SMT

\* No multiple of C lies strictly between 0 and C.
LEMMA NoSmallMultiple ==
  ASSUME NEW C \in Nat \ {0}, NEW q \in Int, 0 < C * q, C * q < C
  PROVE  FALSE
<1>1. CASE q <= 0
  BY <1>1, SMT
<1>2. CASE q >= 1
  <2>1. C * q = C + C * (q - 1)
    BY SMT
  <2>2. C * (q - 1) >= 0
    BY <1>2, SMT
  <2> QED BY <2>1, <2>2, SMT
<1> QED BY <1>1, <1>2

\* Counters less than C apart fall into different slots of a ring of C.
LEMMA ModDistinct ==
  ASSUME NEW C \in Nat \ {0}, NEW i \in Nat, NEW j \in Nat, i < j, j - i < C
  PROVE  i % C # j % C
<1> SUFFICES ASSUME i % C = j % C PROVE FALSE
  OBVIOUS
<1> DEFINE qi == i \div C
           qj == j \div C
<1>1. /\ qi \in Nat /\ qj \in Nat
      /\ i = C * qi + (i % C) /\ j = C * qj + (j % C)
      /\ i % C \in Nat /\ j % C \in Nat
  BY DivMod
<1> HIDE DEF qi, qj
<1>2. C * (qj - qi) = C * qj - C * qi
  BY <1>1, SMT
<1>3. C * (qj - qi) = j - i
  BY <1>1, <1>2, SMT
<1> DEFINE q == qj - qi
<1>4. q \in Int
  BY <1>1
<1>5. 0 < C * q /\ C * q < C
  BY <1>3
<1> HIDE DEF q
<1> QED BY <1>4, <1>5, NoSmallMultiple

\* A counter comes back to its slot C steps later.
LEMMA ModShift ==
  ASSUME NEW C \in Nat \ {0}, NEW k \in Nat
  PROVE  (k + C) % C = k % C
<1> DEFINE a == k \div C
           b == (k + C) \div C
           r == k % C
           t == (k + C) % C
<1>1. /\ a \in Nat /\ r \in 0..(C - 1) /\ k = C * a + r
  BY DivMod
<1>2. k + C \in Nat
  OBVIOUS
<1>3. /\ b \in Nat /\ t \in 0..(C - 1) /\ k + C = C * b + t
  BY <1>2, DivMod
<1> HIDE DEF a, b, r, t
<1> DEFINE q == b - a - 1
<1>4. q \in Int
  BY <1>1, <1>3
<1>5. C * q = C * b - C * a - C
  BY <1>1, <1>3, SMT
<1>6. C * q = r - t
  BY <1>1, <1>3, <1>5, SMT
<1>7. C * (-q) = t - r
  BY <1>4, <1>6, <1>1, <1>3, SMT
<1>8. -q \in Int
  BY <1>4
<1> HIDE DEF q
<1>9. ~(r > t)
  BY <1>4, <1>6, <1>1, <1>3, NoSmallMultiple
<1>10. ~(t > r)
  BY <1>8, <1>7, <1>1, <1>3, NoSmallMultiple
<1>11. r = t
  BY <1>9, <1>10, <1>1, <1>3
<1> QED BY <1>11 DEF r, t

IInv == TypeOK /\ LinkInv /\ ReliableDelivery /\ CreditsConservative

\* A power of two is positive.
LEMMA DepthPositive == Depth \in Nat \ {0}
BY DepthAssumption

\* fd_mcache_line_idx stays inside the ring.
LEMMA LineRange ==
  ASSUME NEW k \in Nat
  PROVE  Line(k) \in Lines
BY DepthPositive, DivMod DEF Line, Lines

\* Sequence numbers less than a depth apart never share a line.
LEMMA LineDistinct ==
  ASSUME NEW i \in Nat, NEW j \in Nat, i < j, j - i < Depth
  PROVE  Line(i) # Line(j)
BY DepthPositive, ModDistinct, Zenon DEF Line

\* The line of a number comes round again Depth numbers later.
LEMMA LineWraps ==
  ASSUME NEW k \in Nat
  PROVE  Line(k + Depth) = Line(k)
BY DepthPositive, ModShift, Zenon DEF Line

\* Delivering one more message keeps the type of the history.
LEMMA AppendTyped ==
  ASSUME NEW s \in Seq(Int), NEW e \in Int
  PROVE  Append(s, e) \in Seq(Int)
OBVIOUS

\* Appending extends a sequence by one place and leaves the others alone.
LEMMA AppendPlaces ==
  ASSUME NEW s \in Seq(Int), NEW e \in Int
  PROVE  /\ Len(Append(s, e)) = Len(s) + 1
         /\ \A k \in 1..(Len(s) + 1) :
              Append(s, e)[k] = IF k <= Len(s) THEN s[k] ELSE e
OBVIOUS

\* A freshly formatted link satisfies the inductive invariant.
LEMMA InitIInv == Init => IInv
<1> SUFFICES ASSUME Init PROVE IInv
  OBVIOUS
<1> USE DepthPositive DEF Init, Unset, CrMax
<1>1. TypeOK
  <2>1. m_seq \in [Lines -> Int]
    BY DEF Lines
  <2>2. m_body \in [Lines -> Int] /\ d_lo \in [Lines -> Int] /\ d_hi \in [Lines -> Int]
    OBVIOUS
  <2>3. out \in Seq(Int)
    OBVIOUS
  <2>4. c_body \in Int /\ c_lo \in Int /\ c_hi \in Int
    OBVIOUS
  <2> QED BY <2>1, <2>2, <2>3, <2>4, Zenon DEF TypeOK, ProducerPlaces, ConsumerPlaces
<1>2. NotYet
  <2> SUFFICES ASSUME NEW k \in 0..(Depth - 1) PROVE m_seq[Line(k)] < k
    BY DEF NotYet
  <2>1. Line(k) = k
    BY DEF Line
  <2> QED BY <2>1 DEF Lines
<1>3. LinkInv
  BY <1>2 DEF LinkInv, InFlight, Writing, Reading
<1>4. ReliableDelivery /\ CreditsConservative
  BY DEF ReliableDelivery, CreditsConservative
<1> QED BY <1>1, <1>3, <1>4 DEF IInv

\* Every step of a tile or the supervisor keeps the types, given LinkInv.
LEMMA NextTypeOK == TypeOK /\ LinkInv /\ [Next]_vars => TypeOK'
<1> SUFFICES ASSUME TypeOK, LinkInv, [Next]_vars PROVE TypeOK'
  OBVIOUS
<1> USE DepthPositive, ModeAssumption
    DEF TypeOK, ProducerPlaces, ConsumerPlaces, memory, producer, consumer
<1>1. CASE ProducerLoop
  BY <1>1 DEF ProducerLoop
<1>2. CASE PublishCredit
  <2>1. CrQuery(p_seq, fseq) \in Nat
    BY DEF CrQuery, Min2, Max2, CrMax
  <2> QED BY <1>2, <2>1 DEF PublishCredit
<1>3. CASE PublishWait
  BY <1>3 DEF PublishWait
<1>4. CASE PublishLossy
  BY <1>4 DEF PublishLossy
<1>5. CASE WriteSlotLo
  <2>1. d_lo' \in [Lines -> Int]
    <3>1. d_lo' = d_lo \/ d_lo' = [d_lo EXCEPT ![Line(p_seq)] = p_seq]
      BY <1>5 DEF WriteSlotLo
    <3>2. d_lo \in [Lines -> Int] /\ p_seq \in Int
      OBVIOUS
    <3> HIDE DEF TypeOK
    <3> QED BY <3>1, <3>2
  <2>2. ppc' \in ProducerPlaces
    BY <1>5 DEF WriteSlotLo
  <2> QED BY <1>5, <2>1, <2>2 DEF WriteSlotLo
<1>6. CASE WriteSlotHi
  BY <1>6, LineRange, SMTT(30) DEF WriteSlotHi
<1>7. CASE MarkLine
  BY <1>7, LineRange, SMTT(30) DEF MarkLine
<1>8. CASE FillLine
  BY <1>8, LineRange, SMTT(30) DEF FillLine
<1>9. CASE StampLine
  <2>1. ~Lossy => cr_avail >= 1
    BY <1>9 DEF StampLine, LinkInv, Writing, CrBurst
  <2> QED BY <1>9, <2>1, LineRange, SMTT(30) DEF StampLine
<1>10. CASE Crash
  BY <1>10 DEF Crash, ProducerCrash, ConsumerCrash
<1>11. CASE ConsumerLoop
  BY <1>11 DEF ConsumerLoop
<1>12. CASE Poll
  BY <1>12 DEF Poll
<1>13. CASE Idle
  BY <1>13 DEF Idle
<1>14. CASE ReadMeta
  BY <1>14, LineRange, SMTT(30) DEF ReadMeta
<1>15. CASE CopyLo
  BY <1>15, LineRange, SMTT(30) DEF CopyLo
<1>16. CASE CopyHi
  BY <1>16, LineRange, SMTT(30) DEF CopyHi
<1>17. CASE Recheck
  <2>1. Copied \in Int
    BY DEF Copied, Torn
  <2>2. out' \in Seq(Int)
    <3>1. out' = Append(out, Copied) \/ out' = out
      BY <1>17 DEF Recheck
    <3>2. out \in Seq(Int)
      OBVIOUS
    <3> QED BY <2>1, <3>1, <3>2, AppendTyped, Zenon
  <2>3. c_seq' \in Nat /\ cpc' \in ConsumerPlaces
    BY <1>17 DEF Recheck
  <2> QED BY <1>17, <2>2, <2>3 DEF Recheck
<1>18. CASE ReturnCredit
  BY <1>18 DEF ReturnCredit
<1>19. CASE RaiseHalt
  BY <1>19 DEF RaiseHalt
<1>20. CASE UNCHANGED vars
  BY <1>20 DEF vars
<1> QED
  BY <1>1, <1>2, <1>3, <1>4, <1>5, <1>6, <1>7, <1>8, <1>9, <1>10, <1>11, <1>12,
     <1>13, <1>14, <1>15, <1>16, <1>17, <1>18, <1>19, <1>20
  DEF Next, Producer, Consumer

\* The lines of unreleased messages are not the line being written: the
\* credit held while writing says so.
LEMMA WriteSpares ==
  ASSUME ~Lossy, TypeOK, CreditsConservative, cr_avail >= CrBurst
  PROVE  /\ \A k \in fseq..(p_seq - 1) : Line(k) # Line(p_seq)
         /\ \A k \in (p_seq + 1)..(p_seq + Depth - 1) : Line(k) # Line(p_seq)
<1> USE DepthPositive DEF TypeOK
<1>1. p_seq - fseq < Depth
  BY DEF CreditsConservative, CrMax, CrBurst
<1>2. ASSUME NEW k \in fseq..(p_seq - 1) PROVE Line(k) # Line(p_seq)
  BY <1>1, LineDistinct
<1>3. ASSUME NEW k \in (p_seq + 1)..(p_seq + Depth - 1)
      PROVE  Line(k) # Line(p_seq)
  BY LineDistinct
<1> QED BY <1>2, <1>3

\* A step of the producer keeps the invariant.
LEMMA ProducerIInv ==
  ASSUME IInv, ~Lossy, TypeOK', Producer
  PROVE  LinkInv' /\ ReliableDelivery' /\ CreditsConservative'
<1>s. ppc \in {"slot", "slot2", "mark", "fill", "stamp"} =>
        /\ \A k \in fseq..(p_seq - 1) : Line(k) # Line(p_seq)
        /\ \A k \in (p_seq + 1)..(p_seq + Depth - 1) : Line(k) # Line(p_seq)
  <2> HAVE ppc \in {"slot", "slot2", "mark", "fill", "stamp"}
  <2>1. cr_avail >= CrBurst
    BY DEF IInv, LinkInv, Writing
  <2>2. TypeOK /\ CreditsConservative
    BY DEF IInv
  <2> QED BY <2>1, <2>2, WriteSpares
<1> USE DepthPositive
    DEF IInv, TypeOK, LinkInv, InFlight, NotYet, Writing, Reading,
        ReliableDelivery, CreditsConservative, memory, consumer
<1>0. /\ \A k \in fseq..p_seq : Line(k) \in Lines
      /\ \A k \in p_seq..(p_seq + Depth) : Line(k) \in Lines
  <2>1. \A k \in fseq..p_seq : k \in Nat
    OBVIOUS
  <2>2. \A k \in p_seq..(p_seq + Depth) : k \in Nat
    OBVIOUS
  <2> HIDE DEF IInv, TypeOK
  <2> QED BY <2>1, <2>2, LineRange, Zenon
<1>1. CASE ProducerLoop
  BY <1>1 DEF ProducerLoop
<1>2. CASE PublishCredit
  BY <1>2 DEF PublishCredit, CrQuery, Min2, Max2, CrMax, CrBurst
<1>3. CASE PublishWait
  BY <1>3 DEF PublishWait
<1>4. CASE WriteSlotLo
  <2>1. \A k \in fseq..(p_seq - 1) : Line(k) # Line(p_seq)
    BY <1>4, <1>s DEF WriteSlotLo
  <2>2. InFlight'
    <3>1. CASE p_seq \in Oversized
      BY <1>4, <3>1 DEF WriteSlotLo
    <3>2. CASE p_seq \notin Oversized
      <4>1. d_lo' = [d_lo EXCEPT ![Line(p_seq)] = p_seq]
        BY <1>4, <3>2 DEF WriteSlotLo
      <4>2. UNCHANGED <<m_seq, m_body, d_hi, fseq, p_seq>>
        BY <1>4 DEF WriteSlotLo
      <4> QED BY <1>0, <2>1, <4>1, <4>2
    <3> HIDE DEF InFlight
    <3> QED BY <3>1, <3>2
  <2>3. Writing'
    BY <1>0, <1>4 DEF WriteSlotLo
  <2> QED BY <1>4, <2>2, <2>3 DEF WriteSlotLo
<1>5. CASE WriteSlotHi
  <2>1. \A k \in fseq..(p_seq - 1) : Line(k) # Line(p_seq)
    BY <1>5, <1>s DEF WriteSlotHi
  <2>2. InFlight'
    BY <1>0, <1>5, <2>1 DEF WriteSlotHi
  <2>3. Writing'
    BY <1>0, <1>5 DEF WriteSlotHi
  <2> QED BY <1>5, <2>2, <2>3 DEF WriteSlotHi
<1>6. CASE MarkLine
  <2>1. \A k \in fseq..(p_seq - 1) : Line(k) # Line(p_seq)
    BY <1>6, <1>s DEF MarkLine
  <2>2. InFlight'
    BY <1>0, <1>6, <2>1 DEF MarkLine
  <2>3. NotYet'
    <3> SUFFICES ASSUME NEW k \in p_seq..(p_seq + Depth - 1)
                 PROVE  m_seq'[Line(k)] < k
      BY <1>6 DEF MarkLine
    <3>1. CASE k = p_seq
      BY <1>0, <1>6, <3>1 DEF MarkLine
    <3>2. CASE k # p_seq
      BY <1>0, <1>6, <3>2, <1>s DEF MarkLine
    <3> QED BY <3>1, <3>2
  <2> QED BY <1>6, <2>2, <2>3 DEF MarkLine
<1>7. CASE FillLine
  <2>1. \A k \in fseq..(p_seq - 1) : Line(k) # Line(p_seq)
    BY <1>7, <1>s DEF FillLine
  <2>2. InFlight'
    BY <1>0, <1>7, <2>1 DEF FillLine
  <2>3. Writing'
    BY <1>0, <1>7 DEF FillLine
  <2> QED BY <1>7, <2>2, <2>3 DEF FillLine
<1>8. CASE StampLine
  <2>1. \A k \in fseq..(p_seq - 1) : Line(k) # Line(p_seq)
    BY <1>8, <1>s DEF StampLine
  <2>2. InFlight'
    <3>1. /\ m_seq' = [m_seq EXCEPT ![Line(p_seq)] = p_seq]
          /\ p_seq' = p_seq + 1
          /\ UNCHANGED <<m_body, d_lo, d_hi, fseq>>
      BY <1>8 DEF StampLine
    <3>2. \A k \in fseq..(p_seq - 1) : m_seq'[Line(k)] = k
      BY <1>0, <2>1, <3>1
    <3>3. /\ m_seq'[Line(p_seq)] = p_seq /\ m_body[Line(p_seq)] = p_seq
          /\ d_lo[Line(p_seq)] = p_seq /\ d_hi[Line(p_seq)] = p_seq
      BY <1>0, <1>8, <3>1 DEF StampLine
    <3>4. \A k \in fseq..p_seq : k \in fseq..(p_seq - 1) \/ k = p_seq
      OBVIOUS
    <3>5. (p_seq + 1) - 1 = p_seq
      OBVIOUS
    <3>6. InFlight
      OBVIOUS
    <3> HIDE DEF IInv, TypeOK, LinkInv, NotYet, Writing, Reading,
            ReliableDelivery, CreditsConservative
    <3> QED BY <3>1, <3>2, <3>3, <3>4, <3>5, <3>6
  <2>3. NotYet'
    <3> SUFFICES ASSUME NEW k \in (p_seq + 1)..(p_seq + Depth)
                 PROVE  m_seq'[Line(k)] < k
      BY <1>8 DEF StampLine
    <3>1. CASE k = p_seq + Depth
      BY <1>0, <1>8, <3>1, LineWraps DEF StampLine
    <3>2. CASE k # p_seq + Depth
      <4>1. Line(k) # Line(p_seq)
        BY <1>8, <3>2, <1>s DEF StampLine
      <4> QED BY <1>0, <1>8, <3>2, <4>1 DEF StampLine
    <3> QED BY <3>1, <3>2
  <2>4. Writing' /\ CreditsConservative'
    BY <1>8 DEF StampLine, CrBurst, CrMax
  <2> QED BY <1>8, <2>2, <2>3, <2>4 DEF StampLine
<1>9. CASE PublishLossy
  BY <1>9 DEF PublishLossy
<1> HIDE DEF IInv, TypeOK, LinkInv, InFlight, NotYet, Writing, Reading,
        ReliableDelivery, CreditsConservative
<1> QED
  BY <1>1, <1>2, <1>3, <1>4, <1>5, <1>6, <1>7, <1>8, <1>9 DEF Producer

\* A step of the consumer keeps the invariant.
LEMMA ConsumerIInv ==
  ASSUME IInv, ~Lossy, TypeOK', Consumer
  PROVE  LinkInv' /\ ReliableDelivery' /\ CreditsConservative'
<1> USE DepthPositive
    DEF IInv, TypeOK, LinkInv, InFlight, NotYet, Writing, Reading,
        ReliableDelivery, CreditsConservative, memory, producer
<1>1. CASE ConsumerLoop
  BY <1>1 DEF ConsumerLoop
<1>2. CASE Poll
  <2>1. m_seq[Line(c_seq)] = c_seq => c_seq < p_seq
    BY <1>2 DEF Poll
  <2> QED BY <1>2, <2>1 DEF Poll
<1>3. CASE Idle
  BY <1>3 DEF Idle
<1>4. CASE ReadMeta
  BY <1>4 DEF ReadMeta
<1>5. CASE CopyLo
  BY <1>5 DEF CopyLo
<1>6. CASE CopyHi
  BY <1>6 DEF CopyHi
<1>7. CASE Recheck
  <2>0. cpc = "recheck" /\ c_seq \in fseq..(p_seq - 1)
    BY <1>7 DEF Recheck
  <2>1. m_seq[Line(c_seq)] = c_seq /\ Copied = c_seq
    <3>1. m_seq[Line(c_seq)] = c_seq
      BY <2>0
    <3>2. c_body = c_seq /\ c_lo = c_seq /\ c_hi = c_seq
      BY <2>0
    <3> QED BY <3>1, <3>2 DEF Copied
  <2>2. c_seq' = c_seq + 1 /\ out' = Append(out, c_seq) /\ cpc' = "credit"
    BY <1>7, <2>1 DEF Recheck
  <2>3. UNCHANGED <<m_seq, m_body, d_lo, d_hi, fseq, ppc, p_seq, cr_avail, c_body>>
    BY <1>7 DEF Recheck
  <2>4. ReliableDelivery'
    <3>1. out \in Seq(Int) /\ c_seq \in Int /\ Len(out) = c_seq
      OBVIOUS
    <3>2. /\ Len(out') = c_seq + 1
          /\ \A k \in 1..(c_seq + 1) :
               out'[k] = IF k <= c_seq THEN out[k] ELSE c_seq
      <4> HIDE DEF IInv, TypeOK, LinkInv, InFlight, NotYet, Writing, Reading,
              ReliableDelivery, CreditsConservative
      <4> QED BY <2>2, <3>1, AppendPlaces
    <3>3. \A k \in 1..(c_seq + 1) : out'[k] = k - 1
      <4> TAKE k \in 1..(c_seq + 1)
      <4>1. CASE k <= c_seq
        <5>1. out[k] = k - 1
          BY <3>1, <4>1
        <5> QED BY <3>1, <3>2, <4>1, <5>1
      <4>2. CASE k = c_seq + 1
        BY <3>1, <3>2, <4>2
      <4> QED BY <3>1, <4>1, <4>2
    <3> HIDE DEF IInv, TypeOK, LinkInv, InFlight, NotYet, Writing, Reading
    <3> QED BY <2>2, <3>2, <3>3
  <2>5. InFlight' /\ NotYet' /\ Writing' /\ CreditsConservative'
    BY <2>3
  <2>6. Reading'
    BY <2>0, <2>2, <2>3
  <2> HIDE DEF InFlight, NotYet, Writing, Reading, ReliableDelivery, CreditsConservative
  <2> QED BY <2>4, <2>5, <2>6
<1>8. CASE ReturnCredit
  <2>1. InFlight'
    BY <1>8 DEF ReturnCredit
  <2>2. Reading'
    BY <1>8 DEF ReturnCredit
  <2>3. CreditsConservative'
    BY <1>8 DEF ReturnCredit, CrMax
  <2> QED BY <1>8, <2>1, <2>2, <2>3 DEF ReturnCredit
<1> HIDE DEF IInv, TypeOK, LinkInv, InFlight, NotYet, Writing, Reading,
        ReliableDelivery, CreditsConservative
<1> QED
  BY <1>1, <1>2, <1>3, <1>4, <1>5, <1>6, <1>7, <1>8 DEF Consumer

\* Every step preserves the inductive invariant.
LEMMA NextIInv == IInv /\ [Next]_vars => IInv'
<1> SUFFICES ASSUME IInv, [Next]_vars PROVE IInv'
  OBVIOUS
<1>0. TypeOK'
  BY NextTypeOK DEF IInv
<1>1. CASE Lossy
  BY <1>0, <1>1 DEF IInv, LinkInv, ReliableDelivery, CreditsConservative
<1>2. CASE ~Lossy
  <2>1. CASE Producer
    BY <1>0, <1>2, <2>1, ProducerIInv DEF IInv
  <2>2. CASE Consumer
    BY <1>0, <1>2, <2>2, ConsumerIInv DEF IInv
  <2> USE DEF LinkInv, InFlight, NotYet, Writing, Reading, ReliableDelivery,
          CreditsConservative, memory, producer, consumer
  <2>3. CASE Crash
    BY <1>0, <2>3 DEF IInv, Crash, ProducerCrash, ConsumerCrash
  <2>4. CASE RaiseHalt
    BY <1>0, <2>4 DEF IInv, RaiseHalt
  <2>5. CASE UNCHANGED vars
    BY <1>0, <2>5 DEF IInv, vars
  <2> QED BY <2>1, <2>2, <2>3, <2>4, <2>5 DEF Next
<1> QED BY <1>1, <1>2

\* The inductive invariant holds in every reachable state.
LEMMA SpecIInv == Spec => []IInv
BY InitIInv, NextIInv, PTL DEF Spec

\* The shared memory and both tiles' registers keep their types.
THEOREM LinkTypes == Spec => []TypeOK
BY SpecIInv, PTL DEF IInv

\* Credits and sequence stamps keep the producer off every line the
\* consumer has not released, at every point of a write and of a copy.
THEOREM LinkRing == Spec => []LinkInv
BY SpecIInv, PTL DEF IInv

\* A reliable link hands over every message whole, once and in order
\* (producer.zig publish, consumer.zig tryConsume).
THEOREM LinkDelivers == Spec => []ReliableDelivery
BY SpecIInv, PTL DEF IInv

\* Cached credits never promise a slot the consumer has not released
\* (producer.zig publish, fd_fctl_cr_query).
THEOREM LinkCredits == Spec => []CreditsConservative
BY SpecIInv, PTL DEF IInv

\* Every behaviour of a reliable link is a behaviour of the bounded channel.
THEOREM LinkImplementsChannel == ASSUME ~Lossy PROVE Spec => ChannelSpec
<1>1. Init => Channel!ChannelInit
  BY DEF Init, Channel!ChannelInit
<1>2. IInv /\ [Next]_vars => [Channel!ChannelNext]_(Channel!channelVars)
  <2> SUFFICES ASSUME IInv, [Next]_vars
               PROVE  Channel!ChannelNext \/ UNCHANGED <<p_seq, out>>
    BY DEF Channel!channelVars
  <2> USE DEF memory, producer, consumer
  <2>1. CASE StampLine
    BY <2>1, DepthPositive DEF StampLine, Channel!ChannelNext, Channel!Send, IInv,
       TypeOK, LinkInv, Writing, Reading, ReliableDelivery, CreditsConservative,
       CrMax, CrBurst
  <2>2. CASE Recheck
    <3>1. cpc = "recheck" /\ Copied = c_seq /\ c_seq < p_seq /\ Len(out) = c_seq
      BY <2>2 DEF Recheck, Copied, IInv, LinkInv, Reading, ReliableDelivery
    <3>2. out' = Append(out, Len(out)) \/ out' = out
      BY <2>2, <3>1 DEF Recheck
    <3>3. p_seq' = p_seq
      BY <2>2 DEF Recheck
    <3> QED BY <3>1, <3>2, <3>3 DEF Channel!ChannelNext, Channel!Receive
  <2>3. CASE Producer /\ ~StampLine
    BY <2>3, SMTT(30) DEF Producer, ProducerLoop, PublishCredit, PublishWait, PublishLossy,
       WriteSlotLo, WriteSlotHi, MarkLine, FillLine
  <2>4. CASE Consumer /\ ~Recheck
    BY <2>4 DEF Consumer, ConsumerLoop, Poll, Idle, ReadMeta, CopyLo, CopyHi,
       ReturnCredit
  <2>5. CASE Crash
    BY <2>5 DEF Crash, ProducerCrash, ConsumerCrash
  <2>6. CASE RaiseHalt
    BY <2>6 DEF RaiseHalt
  <2>7. CASE UNCHANGED vars
    BY <2>7 DEF vars
  <2> QED BY <2>1, <2>2, <2>3, <2>4, <2>5, <2>6, <2>7 DEF Next
<1> QED BY <1>1, <1>2, SpecIInv, PTL DEF Spec, ChannelSpec, Channel!ChannelSpec

-----------------------------------------------------------------------------
(* The lossy link *)

\* While a message is being written its overwrite is already counted; and the
\* consumer has come at least as far as the progress it returned.
LossInv ==
  /\ fseq <= c_seq
  /\ Lossy => p_seq - Depth - c_seq <= dropped
  /\ Lossy /\ ppc \in {"slot", "slot2", "mark", "fill", "stamp"} =>
       p_seq + 1 - Depth - c_seq <= dropped

\* A step of the link counts before it overwrites.
LEMMA LossStep == TypeOK /\ LossInv /\ [Next]_vars => LossInv'
<1> SUFFICES ASSUME TypeOK, LossInv, [Next]_vars PROVE LossInv'
  OBVIOUS
<1>0. Depth \in Nat /\ fseq \in Nat /\ p_seq \in Nat /\ dropped \in Nat /\ c_seq \in Nat
  BY DepthPositive DEF TypeOK
<1> USE DEF LossInv, memory, producer, consumer
\* A step that leaves the counters alone and does not begin a write
<1>1. ASSUME UNCHANGED <<fseq, p_seq, dropped, c_seq>>,
             ppc' \in {"slot", "slot2", "mark", "fill", "stamp"} =>
               ppc \in {"slot", "slot2", "mark", "fill", "stamp"} \/ ~Lossy
      PROVE  LossInv'
  BY <1>1
<1>2. CASE ProducerLoop \/ PublishCredit \/ PublishWait
  BY <1>1, <1>2 DEF ProducerLoop, PublishCredit, PublishWait
<1>3. CASE PublishLossy
  <2>1. UNCHANGED <<fseq, p_seq, c_seq>>
    BY <1>3 DEF PublishLossy
  <2>2. CASE p_seq - fseq >= Depth
    <3>1. dropped' = dropped + 1
      BY <1>3, <2>2 DEF PublishLossy
    <3>2. Lossy => p_seq + 1 - Depth - c_seq <= dropped + 1
      BY <1>0
    <3> QED BY <1>0, <2>1, <3>1, <3>2
  <2>3. CASE ~(p_seq - fseq >= Depth)
    <3>1. dropped' = dropped
      BY <1>3, <2>3 DEF PublishLossy
    <3>2. p_seq + 1 - Depth - c_seq <= 0
      BY <1>0, <2>3
    <3> QED BY <1>0, <2>1, <3>1, <3>2
  <2> QED BY <2>2, <2>3
<1>4. CASE WriteSlotLo \/ WriteSlotHi \/ MarkLine \/ FillLine
  BY <1>1, <1>4 DEF WriteSlotLo, WriteSlotHi, MarkLine, FillLine
<1>5. CASE StampLine
  <2>1. p_seq' = p_seq + 1 /\ ppc = "stamp" /\ ppc' = "top" /\ UNCHANGED <<fseq, dropped, c_seq>>
    BY <1>5 DEF StampLine
  <2> QED BY <1>0, <2>1
<1>6. CASE ConsumerLoop \/ Poll \/ Idle \/ ReadMeta \/ CopyLo \/ CopyHi
  BY <1>1, <1>6 DEF ConsumerLoop, Poll, Idle, ReadMeta, CopyLo, CopyHi
<1>7. CASE Recheck
  <2>1. UNCHANGED <<fseq, p_seq, dropped, ppc>> /\ (c_seq' = c_seq \/ c_seq' = c_seq + 1)
    BY <1>7 DEF Recheck
  <2>2. CASE c_seq' = c_seq
    BY <1>1, <2>1, <2>2
  <2>3. CASE c_seq' = c_seq + 1
    <3>1. /\ fseq <= c_seq => fseq <= c_seq + 1
          /\ p_seq - Depth - c_seq <= dropped => p_seq - Depth - (c_seq + 1) <= dropped
          /\ p_seq + 1 - Depth - c_seq <= dropped =>
               p_seq + 1 - Depth - (c_seq + 1) <= dropped
      BY <1>0
    <3> QED BY <2>1, <2>3, <3>1
  <2> QED BY <2>1, <2>2, <2>3
<1>8. CASE ReturnCredit
  <2>1. fseq' = c_seq /\ UNCHANGED <<c_seq, p_seq, dropped, ppc>>
    BY <1>8 DEF ReturnCredit
  <2> QED BY <1>0, <2>1
<1>9. CASE Crash \/ RaiseHalt
  BY <1>1, <1>9 DEF Crash, ProducerCrash, ConsumerCrash, RaiseHalt
<1>10. CASE UNCHANGED vars
  BY <1>1, <1>10 DEF vars
<1> QED
  BY <1>2, <1>3, <1>4, <1>5, <1>6, <1>7, <1>8, <1>9, <1>10, Zenon
  DEF Next, Producer, Consumer

\* A lossy link's dropped counter accounts for every message overwritten
\* before the consumer took it, for every depth and number of messages
\* (producer.zig publishLossy).
THEOREM LinkDropsCounted == Spec => []DroppedCoversLoss
<1>1. Init => LossInv
  BY DepthPositive DEF Init, LossInv
<1>2. LossInv => DroppedCoversLoss
  BY DEF LossInv, DroppedCoversLoss
<1> QED
  BY <1>1, <1>2, LossStep, LinkTypes, PTL DEF Spec
==============================================================================
