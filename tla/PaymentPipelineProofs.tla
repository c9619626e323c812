----------------------- MODULE PaymentPipelineProofs ------------------------
(***************************************************************************)
(* The theorems about PaymentPipeline, for every event count, queue depth, *)
(* policy limit, injected duplicate, malformed event and crash, and with   *)
(* or without a stop by the supervisor.  The inductive invariant has two   *)
(* halves: what flows through the tiles (the types, the queues, tkdedu's   *)
(* table, the audit log and the counters), and how a run ends.             *)
(***************************************************************************)
EXTENDS PaymentPipeline, TLAPS

\* What is used about the size of the set of divergent sequence numbers.  A
\* fact about intervals, carried with the invariant and derived from the
\* theorems on finite sets at the end of the module.
Counting ==
  /\ Cardinality({}) = 0
  /\ \A D \in SUBSET (0..(N - 1)) : Cardinality(D) \in Nat

-----------------------------------------------------------------------------
(* The stages' work keeps the messages' types *)

LEMMA RawType ==
  ASSUME NEW k \in Nat
  PROVE  /\ syntheticPayment(k) \in RawPayments
         /\ syntheticPayment(k).idempotency_key \in Int
<1>1. CanonicalOffset(k) \in Nat
  BY DEF CanonicalOffset
<1>2. CanonicalOffset(k) % 17 \in Int
  BY <1>1
<1>3. (InjectMalformed /\ k = MalformedOffset) \in BOOLEAN
  OBVIOUS
<1> QED
  BY <1>1, <1>2, <1>3, ConfigAssumption DEF syntheticPayment, RawPayments

LEMMA HashType ==
  ASSUME NEW raw \in RawPayments
  PROVE  stableEventHash(raw) \in Hashes
BY DEF stableEventHash, RawPayments, Hashes

LEMMA IngestedType ==
  ASSUME NEW k \in Nat
  PROVE  Ingested(k) \in Messages
<1>1. syntheticPayment(k) \in RawPayments
  BY RawType
<1> QED
  BY <1>1 DEF Ingested, Messages, Hashes, Decisions

LEMMA NormalizeFields ==
  ASSUME NEW msg \in Messages
  PROVE  /\ Normalize(msg) \in Messages
         /\ Normalize(msg).raw = msg.raw
         /\ Normalize(msg).event_hash = stableEventHash(msg.raw)
         /\ Normalize(msg).decision =
              IF validFraming(msg.raw) THEN msg.decision ELSE "malformed_drop"
         /\ Normalize(msg).decided_by =
              IF validFraming(msg.raw) THEN msg.decided_by ELSE "tknorm"
<1> DEFINE hop == [msg EXCEPT !.pipeline_hops = @ + 1]
           hashed == [hop EXCEPT !.event_hash = stableEventHash(msg.raw)]
           dropped == [hashed EXCEPT !.decision = "malformed_drop"]
           signed == [dropped EXCEPT !.decided_by = "tknorm"]
<1>1. /\ hop \in Messages /\ hop.raw = msg.raw
      /\ hop.decision = msg.decision /\ hop.decided_by = msg.decided_by
  BY DEF Messages
<1>2. stableEventHash(msg.raw) \in Hashes
  BY HashType DEF Messages
<1>3. Normalize(msg) = IF validFraming(msg.raw) THEN hashed ELSE signed
  BY DEF Normalize
<1> HIDE DEF hop
<1>4. /\ hashed \in Messages /\ hashed.raw = msg.raw
      /\ hashed.event_hash = stableEventHash(msg.raw)
      /\ hashed.decision = msg.decision /\ hashed.decided_by = msg.decided_by
  BY <1>1, <1>2 DEF Messages
<1> HIDE DEF hashed
<1>5. /\ dropped \in Messages /\ dropped.raw = msg.raw
      /\ dropped.event_hash = stableEventHash(msg.raw)
      /\ dropped.decision = "malformed_drop"
  BY <1>4 DEF Messages, Decisions
<1> HIDE DEF dropped
<1>6. /\ signed \in Messages /\ signed.raw = msg.raw
      /\ signed.event_hash = stableEventHash(msg.raw)
      /\ signed.decision = "malformed_drop" /\ signed.decided_by = "tknorm"
  BY <1>5 DEF Messages
<1> HIDE DEF signed
<1> QED
  BY <1>3, <1>4, <1>6

LEMMA MarkFields ==
  ASSUME NEW msg \in Messages, NEW duplicate \in BOOLEAN
  PROVE  /\ Mark(msg, duplicate) \in Messages
         /\ Mark(msg, duplicate).raw = msg.raw
         /\ Mark(msg, duplicate).event_hash = msg.event_hash
         /\ Mark(msg, duplicate).decision = msg.decision
         /\ Mark(msg, duplicate).decided_by = msg.decided_by
         /\ Mark(msg, duplicate).duplicate = duplicate
<1> DEFINE hop == [msg EXCEPT !.pipeline_hops = @ + 1]
<1>1. /\ hop \in Messages /\ hop.raw = msg.raw /\ hop.event_hash = msg.event_hash
      /\ hop.decision = msg.decision /\ hop.decided_by = msg.decided_by
  BY DEF Messages
<1>2. Mark(msg, duplicate) = [hop EXCEPT !.duplicate = duplicate]
  BY DEF Mark
<1> HIDE DEF hop
<1> QED
  BY <1>1, <1>2 DEF Messages

LEMMA DecideFields ==
  ASSUME NEW msg \in Messages
  PROVE  /\ Decide(msg) \in Messages
         /\ Decide(msg).raw = msg.raw
         /\ Decide(msg).event_hash = msg.event_hash
         /\ Decide(msg).decision =
              IF msg.decision = "malformed_drop" THEN "malformed_drop"
              ELSE IF msg.duplicate THEN "duplicate_drop"
              ELSE IF msg.raw.amount_cents > Limit THEN "deny"
              ELSE "allow"
         /\ Decide(msg).decided_by =
              IF msg.decision = "malformed_drop" THEN msg.decided_by ELSE "tkpoly"
<1> DEFINE hop == [msg EXCEPT !.pipeline_hops = @ + 1]
           signed == [hop EXCEPT !.decided_by = "tkpoly"]
           verdict == IF msg.duplicate THEN "duplicate_drop"
                      ELSE IF msg.raw.amount_cents > Limit THEN "deny"
                      ELSE "allow"
           decided == [signed EXCEPT !.decision = verdict]
<1>1. /\ hop \in Messages /\ hop.raw = msg.raw /\ hop.event_hash = msg.event_hash
      /\ hop.decision = msg.decision /\ hop.decided_by = msg.decided_by
  BY DEF Messages
<1>2. Decide(msg) = IF msg.decision = "malformed_drop" THEN hop ELSE decided
  BY DEF Decide
<1>3. verdict \in Decisions
  BY DEF Decisions
<1> HIDE DEF hop, verdict
<1>4. /\ signed \in Messages /\ signed.raw = msg.raw
      /\ signed.event_hash = msg.event_hash /\ signed.decided_by = "tkpoly"
  BY <1>1 DEF Messages
<1> HIDE DEF signed
<1>5. /\ decided \in Messages /\ decided.raw = msg.raw
      /\ decided.event_hash = msg.event_hash /\ decided.decided_by = "tkpoly"
      /\ decided.decision = verdict
  BY <1>3, <1>4 DEF Messages
<1> HIDE DEF decided
<1> QED
  BY <1>1, <1>2, <1>5 DEF verdict

LEMMA RecordType ==
  ASSUME NEW msg \in Messages, NEW seq \in Nat
  PROVE  Record(seq, msg.raw, msg.event_hash, msg.decision, msg.decided_by) \in Records
BY DEF Record, Records, Messages, RawPayments

-----------------------------------------------------------------------------
(* Type correctness *)

LEMMA Line ==
  /\ Out["tkings"] = 1 /\ Out["tknorm"] = 2 /\ Out["tkdedu"] = 3 /\ Out["tkpoly"] = 4
  /\ In["tknorm"] = 1 /\ In["tkdedu"] = 2 /\ In["tkpoly"] = 3 /\ In["tkaudt"] = 4
  /\ \A t \in Lines : Out[t] \in Queues
  /\ \A t \in Poppers : In[t] \in Queues
BY DEF Out, In, Lines, Poppers, Queues

LEMMA CallType ==
  ASSUME TypeOK, NEW c
  PROVE  [stopping EXCEPT ![c] = 1] \in [Callers -> 0..StopDone]
<1>1. 1 \in 0..StopDone
  BY DEF StopDone
<1>2. stopping \in [Callers -> 0..StopDone]
  BY DEF TypeOK
<1> QED
  BY Zenon, <1>1, <1>2

LEMMA CountType ==
  ASSUME TypeOK
  PROVE  /\ [counters EXCEPT !.produced = @ + 1] \in [CounterNames -> Nat]
         /\ [counters EXCEPT !.sandbox_failures = @ + 1] \in [CounterNames -> Nat]
         /\ [counters EXCEPT !.normalized = @ + 1] \in [CounterNames -> Nat]
         /\ [counters EXCEPT !.invalid = @ + 1] \in [CounterNames -> Nat]
         /\ [counters EXCEPT !.duplicates = @ + 1] \in [CounterNames -> Nat]
         /\ [counters EXCEPT !.denied = @ + 1] \in [CounterNames -> Nat]
         /\ [counters EXCEPT !.allowed = @ + 1] \in [CounterNames -> Nat]
         /\ [counters EXCEPT !.audited = @ + 1] \in [CounterNames -> Nat]
<1>1. counters \in [CounterNames -> Nat]
  BY DEF TypeOK
<1> QED
  BY <1>1 DEF CounterNames

LEMMA FrontType ==
  ASSUME TypeOK, NEW t \in Poppers, Take(t)
  PROVE  /\ Front(t) \in Messages
         /\ head' \in [Queues -> Nat] /\ UNCHANGED <<log, closed>>
<1>1. In[t] \in Queues
  BY Line
<1>2. log[In[t]] \in Seq(Messages) /\ head[In[t]] \in Nat
  BY <1>1 DEF TypeOK
<1>3. head[In[t]] + 1 \in 1..Len(log[In[t]])
  BY <1>2 DEF Take
<1> QED
  BY <1>1, <1>2, <1>3 DEF Take, Front, TypeOK

LEMMA DivergencesType ==
  ASSUME TypeOK, Counting
  PROVE  deterministicReplayDivergences \in Nat
<1> DEFINE D == {seq \in 0..(N - 1) : Divergent(seq)}
<1>1. D \in SUBSET (0..(N - 1))
  OBVIOUS
<1>2. Cardinality(D) \in Nat
  BY Zenon, <1>1 DEF Counting
<1>3. Len(audit) \in Nat
  BY DEF TypeOK
<1> HIDE DEF D
<1>4. Cardinality(D) + (IF N > Len(audit) THEN N - Len(audit) ELSE Len(audit) - N) \in Nat
  BY <1>2, <1>3, ConfigAssumption
<1> QED
  BY <1>4 DEF deterministicReplayDivergences, D

LEMMA TypeInit == Init => TypeOK
<1> SUFFICES ASSUME Init PROVE TypeOK
  OBVIOUS
<1>1. Ingested(0) \in Messages
  BY IngestedType
<1>2. counters \in [CounterNames -> Nat]
  BY DEF Init, CounterNames
<1>3. pc \in [Threads -> Places]
  BY DEF Init, Places
<1>4. held \in [Lines -> Messages]
  BY <1>1 DEF Init
<1>5. log \in [Queues -> Seq(Messages)] /\ seen \in Seq(Int \X Hashes)
      /\ audit \in Seq(Records)
  BY DEF Init
<1>6. /\ head \in [Queues -> Nat]
      /\ closed \in [Queues -> BOOLEAN]
      /\ stopping \in [Callers -> 0..StopDone]
  BY DEF Init, StopDone
<1> QED
  BY Zenon, <1>2, <1>3, <1>4, <1>5, <1>6 DEF Init, TypeOK

\* The steps, one action at a time
LEMMA Steps ==
  ASSUME [Next]_vars
  PROVE  \/ \E t \in Lines : PushClosed(t) \/ PushRoom(t) \/ PushFull(t) \/ Close(t)
         \/ \E t \in Poppers : PopEmpty(t) \/ PopRetry(t)
         \/ \E c \in Callers : RequestStop(c)
         \/ IngestLoop \/ IngestCrash \/ IngestStopped \/ IngestCount
         \/ NormalizeTake \/ DedupeTake \/ PolicyTake \/ AuditTake \/ AuditFinish
         \/ ReplayWait \/ ReplayUnfinished \/ ReplayAbort \/ ReplayCompare
         \/ ReplayPublish
         \/ \E t \in Observers : Snapshot(t)
         \/ SupervisorStop
         \/ UNCHANGED vars
<1>1. CASE Supervisor
  BY <1>1 DEF Supervisor, Callers
<1>2. ASSUME NEW t \in Threads, Thread(t)
      PROVE  \/ Push(t) \/ Pop(t) \/ (t \in Callers /\ RequestStop(t)) \/ Ingest
             \/ NormalizeTake \/ DedupeTake \/ PolicyTake \/ Audit \/ Replay
             \/ Snapshot(t)
  BY <1>2, Zenon DEF Thread
<1>3. ASSUME NEW t, Push(t) \/ Pop(t)
      PROVE  \/ t \in Lines /\ (PushClosed(t) \/ PushRoom(t) \/ PushFull(t) \/ Close(t))
             \/ t \in Poppers /\ (PopEmpty(t) \/ PopRetry(t))
  BY <1>3, Zenon DEF Push, Pop, PushClosed, PushRoom, PushFull, Close, PopEmpty, PopRetry
<1>4. ASSUME NEW t, Snapshot(t)
      PROVE  t \in Observers
  BY <1>4 DEF Snapshot
<1> QED
  BY <1>1, <1>2, <1>3, <1>4, Zenon DEF Next, Ingest, Audit, Replay

LEMMA TypeStep == TypeOK /\ Counting /\ [Next]_vars => TypeOK'
<1> SUFFICES ASSUME TypeOK, Counting, [Next]_vars PROVE TypeOK'
  OBVIOUS
<1> USE Line
<1>1. ASSUME NEW t \in Lines, PushClosed(t) \/ PushFull(t)
      PROVE  TypeOK'
  BY Zenon, <1>1 DEF TypeOK, PushClosed, PushFull, Goto, Places, queues, replay
<1>2. ASSUME NEW t \in Lines, PushRoom(t)
      PROVE  TypeOK'
  <2>1. Append(log[Out[t]], held[t]) \in Seq(Messages)
    BY DEF TypeOK
  <2>2. log' \in [Queues -> Seq(Messages)]
    BY Zenon, <1>2, <2>1 DEF TypeOK, PushRoom
  <2>3. pc' \in [Threads -> Places]
    BY Zenon, <1>2 DEF TypeOK, PushRoom, Goto, Places
  <2> QED
    BY <1>2, <2>2, <2>3 DEF TypeOK, PushRoom, replay
<1>3. ASSUME NEW t \in Lines, Close(t)
      PROVE  TypeOK'
  BY Zenon, <1>3 DEF TypeOK, Close, Goto, Places, replay
<1>4. ASSUME NEW t \in Poppers, PopEmpty(t) \/ PopRetry(t)
      PROVE  TypeOK'
  BY Zenon, <1>4 DEF TypeOK, PopEmpty, PopRetry, Goto, Places, queues, replay
<1>5. ASSUME NEW c \in Callers, RequestStop(c)
      PROVE  TypeOK'
  <2>1. stopping[c] \in 0..StopDone
    BY DEF TypeOK
  <2>2. stopping' \in [Callers -> 0..StopDone]
    BY <1>5, <2>1 DEF TypeOK, RequestStop, StopDone
  <2>3. closed' \in [Queues -> BOOLEAN] /\ stop' \in BOOLEAN
    BY Zenon, <1>5, <2>1 DEF TypeOK, RequestStop
  <2> QED
    BY <1>5, <2>2, <2>3 DEF TypeOK, RequestStop, replay
<1>6. ASSUME IngestLoop
      PROVE  TypeOK'
  <2>1. Ingested(offset) \in Messages
    BY IngestedType DEF TypeOK
  <2>2. pc' \in [Threads -> Places]
    BY Zenon, <1>6 DEF TypeOK, IngestLoop, Goto, Places
  <2>3. held' \in [Lines -> Messages]
    BY <1>6, <2>1 DEF TypeOK, IngestLoop
  <2> QED
    BY <1>6, <2>2, <2>3 DEF TypeOK, IngestLoop, queues, replay
<1>7. ASSUME IngestCrash \/ IngestStopped \/ IngestCount
      PROVE  TypeOK'
  <2>1. stopping' \in [Callers -> 0..StopDone]
    BY Zenon, <1>7, CallType DEF TypeOK, IngestCrash, IngestStopped, IngestCount
  <2>2. pc' \in [Threads -> Places]
    BY Zenon, <1>7 DEF TypeOK, IngestCrash, IngestStopped, IngestCount, Goto, Places
  <2>3. counters' \in [CounterNames -> Nat]
    BY Zenon, <1>7, CountType DEF TypeOK, IngestCrash, IngestStopped, IngestCount
  <2> QED
    BY <1>7, <2>1, <2>2, <2>3
       DEF TypeOK, IngestCrash, IngestStopped, IngestCount, queues, replay

<1>8. ASSUME NormalizeTake
      PROVE  TypeOK'
  <2> DEFINE msg == Front("tknorm")
  <2>1. msg \in Messages /\ head' \in [Queues -> Nat] /\ UNCHANGED <<log, closed>>
    BY <1>8, FrontType DEF NormalizeTake, Poppers
  <2>2. Normalize(msg) \in Messages
    BY <2>1, NormalizeFields
  <2> HIDE DEF msg
  <2>3. held' \in [Lines -> Messages]
    BY Zenon, <1>8, <2>2 DEF TypeOK, NormalizeTake, msg
  <2>4. pc' \in [Threads -> Places]
    BY Zenon, <1>8 DEF TypeOK, NormalizeTake, Goto, Places
  <2>5. counters' \in [CounterNames -> Nat]
    BY Zenon, <1>8, CountType DEF TypeOK, NormalizeTake
  <2> QED
    BY Zenon, <1>8, <2>1, <2>3, <2>4, <2>5 DEF TypeOK, NormalizeTake, replay
<1>9. ASSUME DedupeTake
      PROVE  TypeOK'
  <2> DEFINE msg == Front("tkdedu")
             duplicate == msg.decision # "malformed_drop" /\ Seen(msg)
  <2>1. msg \in Messages /\ head' \in [Queues -> Nat] /\ UNCHANGED <<log, closed>>
    BY <1>9, FrontType DEF DedupeTake, Poppers
  <2>2. duplicate \in BOOLEAN
    OBVIOUS
  <2> HIDE DEF msg, duplicate
  <2>3. Mark(msg, duplicate) \in Messages
    BY <2>1, <2>2, MarkFields
  <2>4. held' \in [Lines -> Messages]
    BY Zenon, <1>9, <2>3 DEF TypeOK, DedupeTake, msg, duplicate
  <2>5. <<msg.raw.idempotency_key, msg.event_hash>> \in Int \X Hashes
    BY <2>1 DEF Messages, RawPayments
  <2>6. seen' \in Seq(Int \X Hashes)
    BY <1>9, <2>5 DEF TypeOK, DedupeTake, msg
  <2>7. pc' \in [Threads -> Places]
    BY Zenon, <1>9 DEF TypeOK, DedupeTake, Goto, Places
  <2>8. counters' \in [CounterNames -> Nat]
    BY Zenon, <1>9, CountType DEF TypeOK, DedupeTake
  <2> QED
    BY Zenon, <1>9, <2>1, <2>4, <2>6, <2>7, <2>8 DEF TypeOK, DedupeTake, replay
<1>10. ASSUME PolicyTake
       PROVE  TypeOK'
  <2> DEFINE msg == Front("tkpoly")
  <2>1. msg \in Messages /\ head' \in [Queues -> Nat] /\ UNCHANGED <<log, closed>>
    BY <1>10, FrontType DEF PolicyTake, Poppers
  <2>2. Decide(msg) \in Messages
    BY <2>1, DecideFields
  <2> HIDE DEF msg
  <2>3. held' \in [Lines -> Messages]
    BY Zenon, <1>10, <2>2 DEF TypeOK, PolicyTake, msg
  <2>4. pc' \in [Threads -> Places]
    BY Zenon, <1>10 DEF TypeOK, PolicyTake, Goto, Places
  <2>5. counters' \in [CounterNames -> Nat]
    BY Zenon, <1>10, CountType DEF TypeOK, PolicyTake
  <2> QED
    BY Zenon, <1>10, <2>1, <2>3, <2>4, <2>5 DEF TypeOK, PolicyTake, replay
<1>11. ASSUME AuditTake
       PROVE  TypeOK'
  <2> DEFINE msg == Front("tkaudt")
             record == Record(Len(audit), msg.raw, msg.event_hash, msg.decision,
                              msg.decided_by)
  <2>1. msg \in Messages /\ head' \in [Queues -> Nat] /\ UNCHANGED <<log, closed>>
    BY <1>11, FrontType DEF AuditTake, Poppers
  <2>2. record \in Records
    BY <2>1, RecordType DEF TypeOK
  <2> HIDE DEF record
  <2>3. audit' \in Seq(Records)
    <3>1. Append(audit, record) \in Seq(Records)
      BY <2>2 DEF TypeOK
    <3>2. audit' = audit \/ audit' = Append(audit, record)
      BY <1>11 DEF AuditTake, record
    <3> QED
      BY Zenon, <3>1, <3>2 DEF TypeOK
  <2>4. pc' \in [Threads -> Places]
    BY Zenon, <1>11 DEF TypeOK, AuditTake, Goto, Places
  <2>5. counters' \in [CounterNames -> Nat]
    BY <1>11, CountType DEF TypeOK, AuditTake
  <2>6. stopping' \in [Callers -> 0..StopDone]
    BY Zenon, <1>11, CallType DEF TypeOK, AuditTake
  <2>7. crashed_tile' \in {NoCrash, "tkings", "tkaudt"}
    BY <1>11 DEF TypeOK, AuditTake
  <2> QED
    BY <1>11, <2>1, <2>3, <2>4, <2>5, <2>6, <2>7 DEF TypeOK, AuditTake, replay
<1>12. ASSUME AuditFinish
       PROVE  TypeOK'
  BY Zenon, <1>12 DEF TypeOK, AuditFinish, Goto, Places, queues, replay
<1>13. ASSUME ReplayWait \/ ReplayUnfinished
       PROVE  TypeOK'
  BY Zenon, <1>13 DEF TypeOK, ReplayWait, ReplayUnfinished, Goto, Places, queues, replay
<1>14. ASSUME ReplayAbort \/ ReplayPublish
       PROVE  TypeOK'
  BY Zenon, <1>14 DEF TypeOK, ReplayAbort, ReplayPublish, Goto, Places, queues, replay
<1>15. ASSUME ReplayCompare
       PROVE  TypeOK'
  BY Zenon, <1>15, DivergencesType DEF TypeOK, ReplayCompare, Goto, Places, queues
<1>16. ASSUME NEW t \in Observers, Snapshot(t)
       PROVE  TypeOK'
  BY Zenon, <1>16 DEF TypeOK, Snapshot, Goto, Places, queues, replay
<1>17. ASSUME SupervisorStop
       PROVE  TypeOK'
  BY <1>17, CallType DEF TypeOK, SupervisorStop, queues, replay
<1>18. CASE UNCHANGED vars
  BY <1>18 DEF TypeOK, vars
<1> HIDE DEF TypeOK
<1> QED
  BY Steps, <1>1, <1>2, <1>3, <1>4, <1>5, <1>6, <1>7, <1>8, <1>9, <1>10, <1>11, <1>12,
     <1>13, <1>14, <1>15, <1>16, <1>17, <1>18, Zenon

-----------------------------------------------------------------------------
(* The inductive invariant.  What the queues hold: event k as the           *)
(* configuration makes it, at every stage.                                 *)

Valid(k) == validFraming(syntheticPayment(k))

Key(k) == <<syntheticPayment(k).idempotency_key, stableEventHash(syntheticPayment(k))>>

Duplicate(k) ==
  Valid(k) /\ replayDuplicate(k, syntheticPayment(k).idempotency_key,
                              stableEventHash(syntheticPayment(k)))

\* The message of event k as it lies in queue q
Stage(q, k) ==
  IF q = 1 THEN Ingested(k)
  ELSE IF q = 2 THEN Normalize(Ingested(k))
  ELSE IF q = 3 THEN Mark(Normalize(Ingested(k)), Duplicate(k))
  ELSE Decide(Mark(Normalize(Ingested(k)), Duplicate(k)))

Middle == {"tknorm", "tkdedu", "tkpoly"}
Pushing == {"push", "room", "full"}
Leaving == {"close", "done"}

IngestPlaces == {"loop", "crash", "stopping", "count"} \cup Pushing \cup Leaving
MiddlePlaces == {"pop", "empty"} \cup Pushing \cup Leaving
AuditPlaces == {"pop", "empty"} \cup Leaving
ReplayPlaces == {"poll", "unfinished", "compare", "publish", "abort", "abort2", "done"}

PlacesOK ==
  /\ pc["tkings"] \in IngestPlaces
  /\ \A t \in Middle : pc[t] \in MiddlePlaces
  /\ pc["tkaudt"] \in AuditPlaces
  /\ pc["tkrepl"] \in ReplayPlaces

\* The first queue holds the events below offset, or one more while tkings
\* is about to count it.
IngestFlow ==
  /\ offset <= N
  /\ pc["tkings"] \in {"push", "room", "full", "count", "crash", "stopping"} => offset < N
  /\ pc["tkings"] \in Pushing => held["tkings"] = Stage(1, offset)
  /\ pc["tkings"] \in {"loop", "crash"} \cup Pushing => Len(log[1]) = offset
  /\ pc["tkings"] = "count" => Len(log[1]) = offset + 1
  /\ pc["tkings"] \in {"stopping"} \cup Leaving => Len(log[1]) <= offset

\* A stage has pushed what it took, but for the message in hand.
StageFlow(t) ==
  /\ pc[t] \in Pushing => /\ Len(log[Out[t]]) + 1 = head[In[t]]
                          /\ held[t] = Stage(Out[t], Len(log[Out[t]]))
  /\ pc[t] \in {"pop", "empty"} => Len(log[Out[t]]) = head[In[t]]
  /\ pc[t] \in Leaving => Len(log[Out[t]]) <= head[In[t]]

QueueFlow(q) ==
  /\ head[q] <= Len(log[q])
  /\ \A k \in 1..Len(log[q]) : log[q][k] = Stage(q, k - 1)

\* tkdedu's table holds the keys of the valid events it took, one entry at
\* most for each.
SeenFlow ==
  /\ Len(seen) <= head[2]
  /\ \A k \in 1..Len(seen) : \E j \in 0..(head[2] - 1) : Valid(j) /\ seen[k] = Key(j)
  /\ \A j \in 0..(head[2] - 1) : Valid(j) => \E k \in 1..Len(seen) : seen[k] = Key(j)

AuditFlow ==
  /\ Len(audit) = head[4]
  /\ AuditPrefix

CountersFlow ==
  /\ counters.produced = offset
  /\ counters.normalized + counters.invalid = head[1]
  /\ counters.audited = head[4]

\* How the events move: the first half of the inductive invariant
Flow ==
  /\ PlacesOK
  /\ IngestFlow
  /\ \A t \in Middle : StageFlow(t)
  /\ \A q \in Queues : QueueFlow(q)
  /\ SeenFlow
  /\ AuditFlow
  /\ CountersFlow

LEMMA MiddleLine ==
  /\ \A t \in Middle : /\ t \in Lines /\ t \in Poppers /\ t \in Threads /\ t # "tkings"
                       /\ t # "tkaudt" /\ t # "tkrepl"
                       /\ Out[t] \in Queues /\ In[t] \in Queues
                       /\ Out[t] # 1 /\ In[t] # 4
  /\ \A t, u \in Middle : t # u => Out[t] # Out[u] /\ In[t] # In[u]
  /\ \A t \in Lines : t = "tkings" \/ t \in Middle
  /\ \A t \in Poppers : t = "tkaudt" \/ t \in Middle
  /\ {"tkings", "tkaudt", "tkrepl"} \subseteq Threads
BY Line DEF Middle, Lines, Poppers, Threads

LEMMA StageType ==
  ASSUME NEW q \in Queues, NEW k \in Nat
  PROVE  Stage(q, k) \in Messages
<1>1. Duplicate(k) \in BOOLEAN
  BY DEF Duplicate
<1>2. Ingested(k) \in Messages
  BY IngestedType
<1>3. Normalize(Ingested(k)) \in Messages
  BY <1>2, NormalizeFields
<1>4. Mark(Normalize(Ingested(k)), Duplicate(k)) \in Messages
  BY <1>1, <1>3, MarkFields
<1>5. Decide(Mark(Normalize(Ingested(k)), Duplicate(k))) \in Messages
  BY <1>4, DecideFields
<1> QED
  BY <1>2, <1>3, <1>4, <1>5 DEF Stage

\* What tkdedu sees of event k
LEMMA StageNormalized ==
  ASSUME NEW k \in Nat
  PROVE  /\ Stage(2, k).raw = syntheticPayment(k)
         /\ Stage(2, k).event_hash = stableEventHash(syntheticPayment(k))
         /\ Stage(2, k).decision = IF Valid(k) THEN "allow" ELSE "malformed_drop"
         /\ Stage(2, k).decided_by = IF Valid(k) THEN "tkpoly" ELSE "tknorm"
<1>1. Ingested(k) \in Messages
  BY IngestedType
<1>2. /\ Ingested(k).raw = syntheticPayment(k)
      /\ Ingested(k).decision = "allow" /\ Ingested(k).decided_by = "tkpoly"
  BY DEF Ingested
<1>3. Stage(2, k) = Normalize(Ingested(k))
  BY DEF Stage
<1> QED
  BY <1>1, <1>2, <1>3, NormalizeFields DEF Valid

\* What tkaudt records of event k is what tkrepl expects of it.
LEMMA StageExpected ==
  ASSUME NEW k \in Nat
  PROVE  Record(k, Stage(4, k).raw, Stage(4, k).event_hash, Stage(4, k).decision,
                Stage(4, k).decided_by) = Expected(k)
<1> DEFINE n == Stage(2, k)
           m == Stage(3, k)
           d == Stage(4, k)
<1>1. Duplicate(k) \in BOOLEAN
  BY DEF Duplicate
<1>2. n \in Messages /\ m \in Messages
  BY StageType DEF Queues
<1>3. m = Mark(n, Duplicate(k)) /\ d = Decide(m)
  BY DEF Stage
<1> HIDE DEF n, m, d
<1>4. /\ m.raw = n.raw /\ m.event_hash = n.event_hash /\ m.decision = n.decision
      /\ m.decided_by = n.decided_by /\ m.duplicate = Duplicate(k)
  BY <1>1, <1>2, <1>3, MarkFields
<1>5. /\ d.raw = m.raw /\ d.event_hash = m.event_hash
      /\ d.decision = IF m.decision = "malformed_drop" THEN "malformed_drop"
                      ELSE IF m.duplicate THEN "duplicate_drop"
                      ELSE IF m.raw.amount_cents > Limit THEN "deny"
                      ELSE "allow"
      /\ d.decided_by = IF m.decision = "malformed_drop" THEN m.decided_by ELSE "tkpoly"
  BY <1>2, <1>3, DecideFields
<1>6. /\ n.raw = syntheticPayment(k)
      /\ n.event_hash = stableEventHash(syntheticPayment(k))
      /\ n.decision = IF Valid(k) THEN "allow" ELSE "malformed_drop"
      /\ n.decided_by = IF Valid(k) THEN "tkpoly" ELSE "tknorm"
  BY StageNormalized DEF n
<1>7. /\ d.raw = syntheticPayment(k)
      /\ d.event_hash = stableEventHash(syntheticPayment(k))
      /\ d.decision = IF ~Valid(k) THEN "malformed_drop"
                      ELSE IF Duplicate(k) THEN "duplicate_drop"
                      ELSE IF syntheticPayment(k).amount_cents > Limit THEN "deny"
                      ELSE "allow"
      /\ d.decided_by = IF Valid(k) THEN "tkpoly" ELSE "tknorm"
  BY <1>4, <1>5, <1>6
<1> QED
  BY <1>7 DEF Expected, Record, Valid, Duplicate, d

-----------------------------------------------------------------------------
(* Flow is inductive *)

LEMMA QueueType ==
  ASSUME TypeOK, NEW q \in Queues
  PROVE  /\ log[q] \in Seq(Messages) /\ Len(log[q]) \in Nat
         /\ head[q] \in Nat /\ closed[q] \in BOOLEAN
BY DEF TypeOK

LEMMA Chain ==
  ASSUME TypeOK, Flow
  PROVE  /\ head[4] <= Len(log[4]) /\ Len(log[4]) <= head[3]
         /\ head[3] <= Len(log[3]) /\ Len(log[3]) <= head[2]
         /\ head[2] <= Len(log[2]) /\ Len(log[2]) <= head[1]
         /\ head[1] <= Len(log[1]) /\ Len(log[1]) <= N
         /\ Len(log[1]) <= offset + 1
         /\ pc["tkings"] \in {"stopping"} \cup Leaving => Len(log[1]) <= offset
<1>1. ASSUME NEW q \in Queues
      PROVE  head[q] <= Len(log[q])
  BY DEF Flow, QueueFlow
<1>2. ASSUME NEW t \in Middle
      PROVE  Len(log[Out[t]]) <= head[In[t]]
  <2>1. StageFlow(t) /\ pc[t] \in MiddlePlaces
    BY DEF Flow, PlacesOK
  <2>2. Len(log[Out[t]]) \in Nat /\ head[In[t]] \in Nat
    BY MiddleLine, QueueType
  <2> QED
    BY <2>1, <2>2 DEF StageFlow, MiddlePlaces
<1>3. /\ Len(log[4]) <= head[3] /\ Len(log[3]) <= head[2] /\ Len(log[2]) <= head[1]
  BY <1>2, Line DEF Middle
<1>4. Len(log[1]) \in Nat /\ offset \in Nat /\ N \in Nat
  BY QueueType, ConfigAssumption DEF TypeOK, Queues
<1>5. pc["tkings"] \in IngestPlaces /\ IngestFlow
  BY DEF Flow, PlacesOK
<1>6. /\ Len(log[1]) <= N /\ Len(log[1]) <= offset + 1
      /\ pc["tkings"] \in {"stopping"} \cup Leaving => Len(log[1]) <= offset
  BY <1>4, <1>5 DEF IngestFlow, IngestPlaces, Pushing, Leaving
<1> QED
  BY <1>1, <1>3, <1>6 DEF Queues

\* The same, across the whole line
LEMMA HeadsOrdered ==
  ASSUME TypeOK, Flow
  PROVE  /\ Len(log[4]) <= N /\ head[2] <= N /\ head[4] <= N
         /\ head[4] <= head[1] /\ head[1] <= offset + 1
         /\ pc["tkings"] \in {"stopping"} \cup Leaving => head[4] <= offset /\ head[1] <= offset
<1>1. /\ head[1] \in Nat /\ head[2] \in Nat /\ head[3] \in Nat /\ head[4] \in Nat
      /\ Len(log[1]) \in Nat /\ Len(log[2]) \in Nat /\ Len(log[3]) \in Nat
      /\ Len(log[4]) \in Nat /\ offset \in Nat /\ N \in Nat
  BY QueueType, ConfigAssumption DEF Queues, TypeOK
<1>2. /\ head[4] <= Len(log[4]) /\ Len(log[4]) <= head[3] /\ head[3] <= Len(log[3])
      /\ Len(log[3]) <= head[2] /\ head[2] <= Len(log[2]) /\ Len(log[2]) <= head[1]
      /\ head[1] <= Len(log[1]) /\ Len(log[1]) <= N /\ Len(log[1]) <= offset + 1
      /\ pc["tkings"] \in {"stopping"} \cup Leaving => Len(log[1]) <= offset
  BY Chain, Zenon
<1> DEFINE h1 == head[1]  h2 == head[2]  h3 == head[3]  h4 == head[4]
           l1 == Len(log[1])  l2 == Len(log[2])  l3 == Len(log[3])  l4 == Len(log[4])
<1>3. /\ h1 \in Nat /\ h2 \in Nat /\ h3 \in Nat /\ h4 \in Nat
      /\ l1 \in Nat /\ l2 \in Nat /\ l3 \in Nat /\ l4 \in Nat
      /\ h4 <= l4 /\ l4 <= h3 /\ h3 <= l3 /\ l3 <= h2 /\ h2 <= l2 /\ l2 <= h1
      /\ h1 <= l1 /\ l1 <= N /\ l1 <= offset + 1
  BY <1>1, <1>2, Zenon
<1> HIDE DEF h1, h2, h3, h4, l1, l2, l3, l4
<1>4. /\ l4 <= N /\ h2 <= N /\ h4 <= N /\ h4 <= h1 /\ h1 <= offset + 1
      /\ l1 <= offset => h4 <= offset /\ h1 <= offset
  BY <1>1, <1>3
<1> QED
  BY <1>2, <1>4, Zenon DEF h1, h2, h4, l1, l4

\* The message a stage takes is the one its queue holds for the next event.
LEMMA FrontStage ==
  ASSUME TypeOK, Flow, NEW t \in Poppers, Take(t)
  PROVE  /\ Front(t) = Stage(In[t], head[In[t]])
         /\ head[In[t]] \in Nat /\ head[In[t]] + 1 <= Len(log[In[t]])
         /\ head' = [head EXCEPT ![In[t]] = @ + 1] /\ UNCHANGED <<log, closed>>
<1>1. In[t] \in Queues
  BY Line
<1>2. head[In[t]] \in Nat /\ Len(log[In[t]]) \in Nat
  BY <1>1, QueueType
<1>3. head[In[t]] + 1 \in 1..Len(log[In[t]])
  BY <1>2 DEF Take
<1>4. QueueFlow(In[t])
  BY <1>1 DEF Flow
<1>5. log[In[t]][head[In[t]] + 1] = Stage(In[t], (head[In[t]] + 1) - 1)
  BY <1>3, <1>4 DEF QueueFlow
<1>6. (head[In[t]] + 1) - 1 = head[In[t]]
  BY <1>2
<1> QED
  BY <1>2, <1>3, <1>5, <1>6 DEF Front, Take

LEMMA FlowInit == Init => Flow
<1> SUFFICES ASSUME Init PROVE Flow
  OBVIOUS
<1>1. \A q \in Queues : Len(log[q]) = 0 /\ head[q] = 0
  BY DEF Init
<1>2. /\ pc["tkings"] = "loop" /\ \A t \in Middle : pc[t] = "pop"
      /\ pc["tkaudt"] = "pop" /\ pc["tkrepl"] = "poll"
  BY MiddleLine DEF Init, Poppers
<1>3. PlacesOK
  BY <1>2 DEF PlacesOK, IngestPlaces, MiddlePlaces, AuditPlaces, ReplayPlaces
<1>4. IngestFlow
  BY <1>1, <1>2, ConfigAssumption DEF Init, IngestFlow, Pushing, Leaving, Queues
<1>5. \A t \in Middle : StageFlow(t)
  BY <1>1, <1>2, MiddleLine DEF StageFlow, Pushing, Leaving
<1>6. \A q \in Queues : QueueFlow(q)
  BY <1>1 DEF QueueFlow
<1>7. SeenFlow /\ AuditFlow
  BY <1>1 DEF Init, SeenFlow, AuditFlow, AuditPrefix, Queues
<1>8. CountersFlow
  BY <1>1 DEF Init, CountersFlow, Queues
<1> QED
  BY <1>3, <1>4, <1>5, <1>6, <1>7, <1>8 DEF Flow

data == <<log, head, offset, held, seen, audit, counters>>

LEMMA FlowStutter == Flow /\ UNCHANGED data /\ UNCHANGED pc => Flow'
BY DEF data, Flow, PlacesOK, IngestFlow, StageFlow, QueueFlow, SeenFlow, AuditFlow,
       AuditPrefix, CountersFlow

\* A thread goes on to another place and touches no data.
LEMMA FlowGoto ==
  ASSUME TypeOK, Flow, UNCHANGED data,
         NEW t \in Threads, NEW place, pc' = [pc EXCEPT ![t] = place],
         \/ pc[t] \in Pushing /\ place \in Pushing \cup {"close"}
         \/ pc[t] = "close" /\ place = "done"
         \/ pc[t] \in {"pop", "empty"} /\ place \in {"pop", "empty", "close"}
         \/ t = "tkings" /\ pc[t] = "loop" /\ place = "close"
         \/ t = "tkings" /\ pc[t] = "loop" /\ place = "crash" /\ offset < N
         \/ t = "tkings" /\ pc[t] = "stopping" /\ place = "close"
         \/ t = "tkrepl" /\ place \in ReplayPlaces
         \/ t \in Observers
  PROVE  Flow'
<1>1. /\ \A u \in Threads : u # t => pc'[u] = pc[u]
      /\ pc'[t] = place
  BY DEF TypeOK
<1>2. "tkings" \in Threads /\ "tkaudt" \in Threads /\ "tkrepl" \in Threads
      /\ Middle \subseteq Threads
  BY DEF Threads, Lines, Middle
<1>3. t \in Observers => t # "tkings" /\ t # "tkaudt" /\ t # "tkrepl" /\ t \notin Middle
  BY ConfigAssumption DEF Middle
<1>4. /\ \A u \in Middle : pc[u] \in MiddlePlaces
      /\ pc["tkings"] \in IngestPlaces /\ pc["tkaudt"] \in AuditPlaces
      /\ pc["tkrepl"] \in ReplayPlaces
  BY DEF Flow, PlacesOK
<1> USE DEF Pushing, Leaving, IngestPlaces, MiddlePlaces, AuditPlaces, ReplayPlaces
<1>5. pc'["tkings"] \in IngestPlaces
  BY <1>1, <1>2, <1>3, <1>4
<1>6. ASSUME NEW u \in Middle
      PROVE  pc'[u] \in MiddlePlaces
  <2>1. u # "tkings" /\ u # "tkrepl"
    BY DEF Middle
  <2>2. CASE u # t
    BY <1>1, <1>2, <1>4, <2>2
  <2>3. CASE u = t
    BY <1>1, <1>3, <1>4, <2>1, <2>3
  <2> QED
    BY <2>2, <2>3
<1>7. pc'["tkaudt"] \in AuditPlaces
  BY <1>1, <1>2, <1>3, <1>4
<1>8. pc'["tkrepl"] \in ReplayPlaces
  BY <1>1, <1>2, <1>3, <1>4
<1>9. PlacesOK'
  BY <1>5, <1>6, <1>7, <1>8 DEF PlacesOK
<1>10. IngestFlow'
  <2>1. IngestFlow /\ UNCHANGED <<log, offset, held>>
    BY DEF Flow, data
  <2>2. CASE t # "tkings"
    <3>1. pc'["tkings"] = pc["tkings"]
      BY <1>1, <1>2, <2>2
    <3> QED
      BY <2>1, <3>1 DEF IngestFlow
  <2>3. CASE t = "tkings"
    <3>1. offset \in Nat /\ Len(log[1]) \in Nat /\ N \in Nat
      BY QueueType, ConfigAssumption DEF TypeOK, Queues
    <3> QED
      BY <1>1, <1>3, <1>4, <2>1, <2>3, <3>1 DEF IngestFlow
  <2> QED
    BY <2>2, <2>3
<1>11. ASSUME NEW u \in Middle
       PROVE  StageFlow(u)'
  <2>1. StageFlow(u) /\ UNCHANGED <<log, head, held>>
    BY DEF Flow, data
  <2>2. CASE t # u
    <3>1. pc'[u] = pc[u]
      BY <1>1, <1>2, <2>2
    <3> QED
      BY <2>1, <3>1 DEF StageFlow
  <2>3. CASE t = u
    <3>1. Len(log[Out[u]]) \in Nat /\ head[In[u]] \in Nat
      BY MiddleLine, QueueType
    <3>2. u # "tkings" /\ u # "tkrepl" /\ u \notin Observers
      BY <1>3, <2>3, MiddleLine
    <3>3. \/ pc[u] \in Pushing /\ pc'[u] \in Pushing \cup {"close"}
          \/ pc[u] = "close" /\ pc'[u] = "done"
          \/ pc[u] \in {"pop", "empty"} /\ pc'[u] \in {"pop", "empty", "close"}
      BY <1>1, <2>3, <3>2
    <3> QED
      BY <2>1, <3>1, <3>3 DEF StageFlow
  <2> QED
    BY <2>2, <2>3
<1>12. (\A q \in Queues : QueueFlow(q))' /\ SeenFlow' /\ AuditFlow' /\ CountersFlow'
  BY DEF data, Flow, QueueFlow, SeenFlow, AuditFlow, AuditPrefix, CountersFlow
<1> QED
  BY <1>9, <1>10, <1>11, <1>12 DEF Flow

LEMMA FlowPush ==
  ASSUME TypeOK, Flow, NEW t \in Lines, PushRoom(t)
  PROVE  Flow'
<1> DEFINE q == Out[t]
<1>1. q \in Queues /\ t \in Threads
  BY Line DEF Threads
<1>2. log[q] \in Seq(Messages) /\ Len(log[q]) \in Nat /\ head[q] \in Nat
  BY <1>1, QueueType
<1>3. pc[t] = "room" /\ UNCHANGED <<head, offset, held, seen, audit, counters>>
  BY DEF PushRoom
<1>4. CASE ~(Len(log[q]) - head[q] < Capacity)
  <2>1. UNCHANGED log /\ pc' = [pc EXCEPT ![t] = "full"]
    BY <1>4 DEF PushRoom, Goto
  <2> QED
    BY Zenon, <1>1, <1>3, <2>1, FlowGoto DEF data, Pushing
<1>5. CASE Len(log[q]) - head[q] < Capacity
  <2>1. /\ log' = [log EXCEPT ![q] = Append(@, held[t])]
        /\ pc' = [pc EXCEPT ![t] = IF t = "tkings" THEN "count" ELSE "pop"]
    BY <1>5 DEF PushRoom, Goto
  <2>2. held[t] \in Messages
    BY DEF TypeOK
  <2>3. /\ log'[q] = Append(log[q], held[t])
        /\ \A p \in Queues : p # q => log'[p] = log[p]
    BY <1>1, <2>1 DEF TypeOK
  <2>4. /\ pc'[t] = IF t = "tkings" THEN "count" ELSE "pop"
        /\ \A u \in Threads : u # t => pc'[u] = pc[u]
    BY <1>1, <2>1 DEF TypeOK
  <2>5. /\ Len(log'[q]) = Len(log[q]) + 1
        /\ log'[q][Len(log[q]) + 1] = held[t]
        /\ \A k \in 1..Len(log[q]) : log'[q][k] = log[q][k]
    BY <1>2, <2>2, <2>3
  <2> HIDE DEF q
  <2>6. held[t] = Stage(q, Len(log[q]))
    <3>1. CASE t = "tkings"
      <4>1. q = 1 /\ held[t] = Stage(1, offset) /\ Len(log[1]) = offset
        BY <1>3, <3>1, Line DEF Flow, IngestFlow, Pushing, q
      <4> QED
        BY <4>1
    <3>2. CASE t \in Middle
      <4>1. StageFlow(t)
        BY <3>2 DEF Flow
      <4> QED
        BY <1>3, <4>1 DEF StageFlow, Pushing, q
    <3> QED
      BY <3>1, <3>2, MiddleLine
  <2>7. PlacesOK'
    <3>1. /\ "tkings" \in Threads /\ "tkaudt" \in Threads /\ "tkrepl" \in Threads
          /\ Middle \subseteq Threads /\ t # "tkaudt" /\ t # "tkrepl"
      BY DEF Threads, Lines, Middle
    <3>2. t \in Middle => t # "tkings"
      BY DEF Middle
    <3>3. PlacesOK
      BY DEF Flow
    <3>4. pc'["tkings"] \in IngestPlaces /\ pc'["tkaudt"] \in AuditPlaces
          /\ pc'["tkrepl"] \in ReplayPlaces
      BY <2>4, <3>1, <3>3 DEF PlacesOK, IngestPlaces
    <3>5. \A u \in Middle : pc'[u] \in MiddlePlaces
      BY <2>4, <3>1, <3>2, <3>3 DEF PlacesOK, MiddlePlaces
    <3> QED
      BY <3>4, <3>5 DEF PlacesOK
  <2>8. IngestFlow'
    <3>1. IngestFlow
      BY DEF Flow
    <3>2. CASE t = "tkings"
      <4>1. q = 1 /\ pc'["tkings"] = "count" /\ Len(log[1]) = offset /\ offset < N
        BY <1>3, <2>4, <3>1, <3>2, Line DEF IngestFlow, Pushing, q
      <4> QED
        BY <1>3, <2>5, <3>1, <4>1 DEF IngestFlow, Pushing, Leaving
    <3>3. CASE t # "tkings"
      <4>1. q # 1 /\ pc'["tkings"] = pc["tkings"]
        BY <2>4, <3>3, MiddleLine DEF q
      <4>2. log'[1] = log[1]
        BY <2>3, <4>1 DEF Queues
      <4> QED
        BY <1>3, <3>1, <4>1, <4>2 DEF IngestFlow
    <3> QED
      BY <3>2, <3>3
  <2>9. ASSUME NEW u \in Middle
        PROVE  StageFlow(u)'
    <3>1. StageFlow(u)
      BY DEF Flow
    <3>2. CASE u = t
      <4>1. pc'[u] = "pop" /\ Len(log[q]) + 1 = head[In[u]] /\ q = Out[u]
        BY <1>3, <2>4, <3>1, <3>2, MiddleLine DEF StageFlow, Pushing, q
      <4> QED
        BY <1>3, <2>5, <4>1 DEF StageFlow, Pushing, Leaving
    <3>3. CASE u # t
      <4>1. Out[u] # q /\ Out[u] \in Queues
        BY <3>3, MiddleLine, Line DEF q
      <4>2. pc'[u] = pc[u] /\ log'[Out[u]] = log[Out[u]]
        BY <2>3, <2>4, <3>3, <4>1, MiddleLine
      <4> QED
        BY <1>3, <3>1, <4>2 DEF StageFlow
    <3> QED
      BY <3>2, <3>3
  <2>10. ASSUME NEW p \in Queues
         PROVE  QueueFlow(p)'
    <3>1. QueueFlow(p)
      BY DEF Flow
    <3>2. CASE p # q
      BY <1>3, <2>3, <3>1, <3>2 DEF QueueFlow
    <3>3. CASE p = q
      <4>1. head[q] <= Len(log'[q])
        BY <1>2, <2>5, <3>1, <3>3 DEF QueueFlow
      <4>2. ASSUME NEW k \in 1..Len(log'[q])
            PROVE  log'[q][k] = Stage(q, k - 1)
        <5>1. CASE k = Len(log[q]) + 1
          <6>1. k - 1 = Len(log[q])
            BY <1>2, <5>1
          <6> QED
            BY <2>5, <2>6, <5>1, <6>1
        <5>2. CASE k \in 1..Len(log[q])
          BY <2>5, <3>1, <3>3, <5>2 DEF QueueFlow
        <5> QED
          BY <1>2, <2>5, <5>1, <5>2
      <4> QED
        BY <1>3, <3>3, <4>1, <4>2 DEF QueueFlow
    <3> QED
      BY <3>2, <3>3
  <2>11. SeenFlow' /\ AuditFlow' /\ CountersFlow'
    BY <1>3 DEF Flow, SeenFlow, AuditFlow, AuditPrefix, CountersFlow
  <2> QED
    BY <2>7, <2>8, <2>9, <2>10, <2>11 DEF Flow
<1> QED
  BY <1>4, <1>5

LEMMA FlowIngest ==
  ASSUME TypeOK, Flow, IngestLoop \/ IngestCrash \/ IngestStopped \/ IngestCount
  PROVE  Flow'
<1>1. offset \in Nat /\ N \in Nat /\ Len(log[1]) \in Nat
  BY QueueType, ConfigAssumption DEF TypeOK, Queues
<1>2. /\ "tkings" \in Threads /\ "tkings" \in Lines /\ "tkaudt" # "tkings"
      /\ "tkrepl" # "tkings" /\ "tkings" \notin Middle
      /\ \A u \in Middle : u \in Threads /\ u \in Lines
  BY DEF Threads, Lines, Middle
<1>3. IngestFlow /\ PlacesOK
  BY DEF Flow
\* What does not depend on tkings
<1>4. ASSUME NEW place, pc' = [pc EXCEPT !["tkings"] = place], place \in IngestPlaces,
             UNCHANGED <<log, head, seen, audit>>,
             \A u \in Middle : held'[u] = held[u],
             IngestFlow', CountersFlow'
      PROVE  Flow'
  <2>1. pc'["tkings"] = place /\ \A u \in Threads : u # "tkings" => pc'[u] = pc[u]
    BY <1>2, <1>4 DEF TypeOK
  <2>2. PlacesOK'
    BY <1>2, <1>3, <1>4, <2>1, MiddleLine DEF PlacesOK
  <2>3. \A u \in Middle : pc'[u] = pc[u]
    BY <1>2, <2>1
  <2>4. (\A u \in Middle : StageFlow(u))'
    BY <1>4, <2>3 DEF Flow, StageFlow
  <2>5. (\A q \in Queues : QueueFlow(q))' /\ SeenFlow' /\ AuditFlow'
    BY <1>4 DEF Flow, QueueFlow, SeenFlow, AuditFlow, AuditPrefix
  <2> QED
    BY <1>4, <2>2, <2>4, <2>5 DEF Flow
<1>5. CASE IngestLoop
  <2>1. pc["tkings"] = "loop" /\ UNCHANGED <<log, head, offset, seen, audit, counters>>
    BY <1>5 DEF IngestLoop, queues
  <2>2. Len(log[1]) = offset /\ offset <= N
    BY <1>3, <2>1 DEF IngestFlow
  <2>3. CASE offset = N \/ stop
    BY <1>2, <1>5, <2>1, <2>3, FlowGoto DEF IngestLoop, Goto, data
  <2>4. CASE ~(offset = N \/ stop) /\ offset = FailAt
    <3>1. offset < N
      BY <1>1, <2>2, <2>4
    <3> QED
      BY <1>2, <1>5, <2>1, <2>4, <3>1, FlowGoto DEF IngestLoop, Goto, data
  <2>5. CASE ~(offset = N \/ stop) /\ offset # FailAt
    <3>1. /\ pc' = [pc EXCEPT !["tkings"] = "push"]
          /\ held' = [held EXCEPT !["tkings"] = Ingested(offset)]
      BY <1>5, <2>5 DEF IngestLoop, Goto
    <3>2. offset < N
      BY <1>1, <2>2, <2>5
    <3>3. pc'["tkings"] = "push" /\ held'["tkings"] = Stage(1, offset)
      BY <1>2, <3>1 DEF TypeOK, Stage
    <3>4. IngestFlow'
      BY <2>1, <2>2, <3>2, <3>3 DEF IngestFlow, Pushing, Leaving
    <3>5. \A u \in Middle : held'[u] = held[u]
      BY <1>2, <3>1 DEF TypeOK
    <3>6. CountersFlow'
      BY <2>1 DEF Flow, CountersFlow
    <3> QED
      BY Zenon, <1>4, <2>1, <3>1, <3>4, <3>5, <3>6 DEF IngestPlaces, Pushing
  <2> QED
    BY <2>3, <2>4, <2>5
<1>6. CASE IngestCrash
  <2>1. /\ pc["tkings"] = "crash" /\ UNCHANGED <<log, head, offset, held, seen, audit>>
        /\ pc' = [pc EXCEPT !["tkings"] = "stopping"]
        /\ counters' = [counters EXCEPT !.sandbox_failures = @ + 1]
    BY <1>6 DEF IngestCrash, Goto, queues
  <2>2. pc'["tkings"] = "stopping"
    BY <1>2, <2>1 DEF TypeOK
  <2>3. IngestFlow'
    BY <1>1, <1>3, <2>1, <2>2 DEF IngestFlow, Pushing, Leaving
  <2>4. counters \in [CounterNames -> Nat] /\ CountersFlow
    BY DEF TypeOK, Flow
  <2>5. /\ counters'.produced = counters.produced
        /\ counters'.normalized = counters.normalized
        /\ counters'.invalid = counters.invalid
        /\ counters'.audited = counters.audited
    BY <2>1, <2>4 DEF CounterNames
  <2>6. CountersFlow'
    BY <2>1, <2>4, <2>5 DEF CountersFlow
  <2> QED
    BY Zenon, <1>4, <2>1, <2>3, <2>6 DEF IngestPlaces
<1>7. CASE IngestStopped
  <2>1. /\ pc["tkings"] = "stopping" /\ UNCHANGED data
        /\ pc' = [pc EXCEPT !["tkings"] = "close"]
    BY <1>7 DEF IngestStopped, Goto, queues, data
  <2> QED
    BY Zenon, <1>2, <2>1, FlowGoto
<1>8. CASE IngestCount
  <2>1. /\ pc["tkings"] = "count" /\ UNCHANGED <<log, head, held, seen, audit>>
        /\ pc' = [pc EXCEPT !["tkings"] = "loop"] /\ offset' = offset + 1
        /\ counters' = [counters EXCEPT !.produced = @ + 1]
    BY <1>8 DEF IngestCount, Goto, queues
  <2>2. pc'["tkings"] = "loop"
    BY <1>2, <2>1 DEF TypeOK
  <2>3. IngestFlow'
    BY <1>1, <1>3, <2>1, <2>2 DEF IngestFlow, Pushing, Leaving
  <2>4. counters \in [CounterNames -> Nat] /\ CountersFlow
    BY DEF TypeOK, Flow
  <2>5. /\ counters'.produced = counters.produced + 1
        /\ counters'.normalized = counters.normalized
        /\ counters'.invalid = counters.invalid
        /\ counters'.audited = counters.audited
    BY <2>1, <2>4 DEF CounterNames
  <2>6. CountersFlow'
    BY <2>1, <2>4, <2>5 DEF CountersFlow
  <2> QED
    BY Zenon, <1>4, <2>1, <2>3, <2>6 DEF IngestPlaces
<1> QED
  BY <1>5, <1>6, <1>7, <1>8

\* What a stage's step on one message keeps, whatever it does to its table
\* and counters
LEMMA FlowTake ==
  ASSUME TypeOK, Flow, NEW t \in Middle, Take(t), Goto(t, "push"),
         held' = [held EXCEPT ![t] = Stage(Out[t], head[In[t]])],
         UNCHANGED <<offset, audit>>, SeenFlow', CountersFlow'
  PROVE  Flow'
<1> DEFINE q == In[t]
<1>1. /\ t \in Poppers /\ t \in Lines /\ t \in Threads /\ q \in Queues /\ q # 4
      /\ t # "tkings" /\ t # "tkaudt" /\ t # "tkrepl"
  BY MiddleLine
<1>2. /\ head[q] \in Nat /\ head[q] + 1 <= Len(log[q])
      /\ head' = [head EXCEPT ![q] = @ + 1] /\ UNCHANGED log
  BY <1>1, FrontStage
<1>3. /\ head'[q] = head[q] + 1
      /\ \A p \in Queues : p # q => head'[p] = head[p]
  BY <1>1, <1>2 DEF TypeOK
<1>4. /\ pc[t] = "pop" /\ pc'[t] = "push"
      /\ \A u \in Threads : u # t => pc'[u] = pc[u]
  BY <1>1 DEF Take, Goto, TypeOK
<1>5. /\ held'[t] = Stage(Out[t], head[q])
      /\ \A u \in Lines : u # t => held'[u] = held[u]
  BY <1>1 DEF TypeOK
<1> HIDE DEF q
<1>6. PlacesOK'
  <2>1. PlacesOK /\ "push" \in MiddlePlaces
    BY DEF Flow, MiddlePlaces, Pushing
  <2> QED
    BY <1>1, <1>4, <2>1, MiddleLine, Zenon DEF PlacesOK
<1>7. IngestFlow'
  <2>1. pc'["tkings"] = pc["tkings"] /\ held'["tkings"] = held["tkings"]
    BY <1>1, <1>4, <1>5, MiddleLine DEF Lines
  <2> QED
    BY Zenon, <1>2, <2>1 DEF Flow, IngestFlow
<1>8. ASSUME NEW u \in Middle
      PROVE  StageFlow(u)'
  <2>1. StageFlow(u)
    BY DEF Flow
  <2>2. CASE u = t
    <3>1. Len(log[Out[u]]) = head[q] /\ In[u] = q
      BY <1>4, <2>1, <2>2 DEF StageFlow, q
    <3> QED
      BY <1>2, <1>3, <1>4, <1>5, <2>2, <3>1 DEF StageFlow, Pushing, Leaving
  <2>3. CASE u # t
    <3>1. u \in Threads /\ u \in Lines /\ In[u] \in Queues /\ In[u] # q
      BY <2>3, MiddleLine DEF q
    <3>2. pc'[u] = pc[u] /\ held'[u] = held[u] /\ head'[In[u]] = head[In[u]]
      BY Zenon, <1>3, <1>4, <1>5, <2>3, <3>1
    <3> QED
      BY Zenon, <1>2, <2>1, <3>2 DEF StageFlow
  <2> QED
    BY <2>2, <2>3
<1>9. ASSUME NEW p \in Queues
      PROVE  QueueFlow(p)'
  <2>1. QueueFlow(p)
    BY DEF Flow
  <2>2. head'[p] <= Len(log[p])
    <3>1. CASE p = q
      BY <1>2, <1>3, <3>1
    <3>2. CASE p # q
      BY <1>3, <2>1, <3>2 DEF QueueFlow
    <3> QED
      BY <3>1, <3>2
  <2> QED
    BY <1>2, <2>1, <2>2 DEF QueueFlow
<1>10. AuditFlow'
  <2>1. head'[4] = head[4]
    BY <1>1, <1>3 DEF Queues
  <2> QED
    BY <2>1 DEF Flow, AuditFlow, AuditPrefix
<1> QED
  BY <1>6, <1>7, <1>8, <1>9, <1>10 DEF Flow

LEMMA FlowNormalize ==
  ASSUME TypeOK, Flow, NormalizeTake
  PROVE  Flow'
<1>1. /\ "tknorm" \in Poppers /\ "tknorm" \in Middle /\ Take("tknorm")
      /\ In["tknorm"] = 1 /\ Out["tknorm"] = 2
  BY Line DEF NormalizeTake, Poppers, Middle
<1>2. /\ Front("tknorm") = Stage(1, head[1]) /\ head[1] \in Nat
      /\ head' = [head EXCEPT ![1] = @ + 1]
  BY <1>1, FrontStage
<1>3. Normalize(Front("tknorm")) = Stage(2, head[1])
  BY <1>2 DEF Stage
<1>4. held' = [held EXCEPT !["tknorm"] = Stage(Out["tknorm"], head[In["tknorm"]])]
  BY Zenon, <1>1, <1>3 DEF NormalizeTake
<1>5. head'[1] = head[1] + 1 /\ head'[2] = head[2] /\ head'[4] = head[4]
  BY <1>2 DEF TypeOK, Queues
<1>6. SeenFlow'
  BY <1>5 DEF NormalizeTake, Flow, SeenFlow
<1>7. CountersFlow'
  <2>1. counters \in [CounterNames -> Nat] /\ CountersFlow /\ UNCHANGED offset
    BY DEF TypeOK, Flow, NormalizeTake
  <2>2. \/ counters' = [counters EXCEPT !.normalized = @ + 1]
        \/ counters' = [counters EXCEPT !.invalid = @ + 1]
    BY DEF NormalizeTake
  <2>3. /\ counters'.produced = counters.produced /\ counters'.audited = counters.audited
        /\ counters'.normalized + counters'.invalid
             = counters.normalized + counters.invalid + 1
    <3>1. CASE counters' = [counters EXCEPT !.normalized = @ + 1]
      BY <2>1, <3>1 DEF CounterNames
    <3>2. CASE counters' = [counters EXCEPT !.invalid = @ + 1]
      BY <2>1, <3>2 DEF CounterNames
    <3> QED
      BY <2>2, <3>1, <3>2
  <2> QED
    BY <1>5, <2>1, <2>3 DEF CountersFlow
<1> QED
  BY Zenon, <1>1, <1>4, <1>6, <1>7, FlowTake DEF NormalizeTake

LEMMA FlowPolicy ==
  ASSUME TypeOK, Flow, PolicyTake
  PROVE  Flow'
<1>1. /\ "tkpoly" \in Poppers /\ "tkpoly" \in Middle /\ Take("tkpoly")
      /\ In["tkpoly"] = 3 /\ Out["tkpoly"] = 4
  BY Line DEF PolicyTake, Poppers, Middle
<1>2. /\ Front("tkpoly") = Stage(3, head[3]) /\ head[3] \in Nat
      /\ head' = [head EXCEPT ![3] = @ + 1]
  BY <1>1, FrontStage
<1>3. Decide(Front("tkpoly")) = Stage(4, head[3])
  BY <1>2 DEF Stage
<1>4. held' = [held EXCEPT !["tkpoly"] = Stage(Out["tkpoly"], head[In["tkpoly"]])]
  BY Zenon, <1>1, <1>3 DEF PolicyTake
<1>5. head'[1] = head[1] /\ head'[2] = head[2] /\ head'[4] = head[4]
  BY <1>2 DEF TypeOK, Queues
<1>6. SeenFlow'
  BY <1>5 DEF PolicyTake, Flow, SeenFlow
<1>7. CountersFlow'
  <2>1. counters \in [CounterNames -> Nat] /\ CountersFlow /\ UNCHANGED offset
    BY DEF TypeOK, Flow, PolicyTake
  <2>2. \/ counters' = [counters EXCEPT !.denied = @ + 1]
        \/ counters' = [counters EXCEPT !.allowed = @ + 1]
        \/ counters' = counters
    BY DEF PolicyTake
  <2>3. /\ counters'.produced = counters.produced /\ counters'.audited = counters.audited
        /\ counters'.normalized = counters.normalized
        /\ counters'.invalid = counters.invalid
    <3>1. CASE counters' = [counters EXCEPT !.denied = @ + 1]
      BY <2>1, <3>1 DEF CounterNames
    <3>2. CASE counters' = [counters EXCEPT !.allowed = @ + 1]
      BY <2>1, <3>2 DEF CounterNames
    <3> QED
      BY <2>2, <3>1, <3>2
  <2> QED
    BY <1>5, <2>1, <2>3 DEF CountersFlow
<1> QED
  BY Zenon, <1>1, <1>4, <1>6, <1>7, FlowTake DEF PolicyTake

\* tkdedu finds in its table exactly the duplicates that tkrepl computes
\* from the configuration.
LEMMA SeenIsDuplicate ==
  ASSUME TypeOK, SeenFlow, Valid(head[2]), NEW msg,
         <<msg.raw.idempotency_key, msg.event_hash>> = Key(head[2])
  PROVE  Seen(msg) <=> Duplicate(head[2])
<1> DEFINE h == head[2]
           key(k) == syntheticPayment(k).idempotency_key
           hash(k) == stableEventHash(syntheticPayment(k))
<1>1. Duplicate(h) <=> \E j \in 0..(h - 1) : Valid(j) /\ key(j) = key(h) /\ hash(j) = hash(h)
  BY Zenon DEF Duplicate, replayDuplicate, Valid
<1>2. \A j : Key(j) = Key(h) <=> key(j) = key(h) /\ hash(j) = hash(h)
  BY DEF Key
<1>3. Duplicate(h) <=> \E j \in 0..(h - 1) : Valid(j) /\ Key(j) = Key(h)
  BY <1>1, <1>2
<1>4. Seen(msg) <=> \E k \in 1..Len(seen) : seen[k] = Key(h)
  BY DEF Seen
<1>5. ASSUME Seen(msg)
      PROVE  Duplicate(h)
  <2>1. PICK k \in 1..Len(seen) : seen[k] = Key(h)
    BY <1>4, <1>5
  <2>2. PICK j \in 0..(h - 1) : Valid(j) /\ seen[k] = Key(j)
    BY DEF SeenFlow
  <2> QED
    BY <1>3, <2>1, <2>2
<1>6. ASSUME Duplicate(h)
      PROVE  Seen(msg)
  <2>1. PICK j \in 0..(h - 1) : Valid(j) /\ Key(j) = Key(h)
    BY <1>3, <1>6
  <2>2. PICK k \in 1..Len(seen) : seen[k] = Key(j)
    BY <2>1 DEF SeenFlow
  <2> QED
    BY <1>4, <2>1, <2>2
<1> QED
  BY <1>5, <1>6

LEMMA FlowDedupe ==
  ASSUME TypeOK, Flow, DedupeTake
  PROVE  Flow'
<1> DEFINE h == head[2]
           msg == Front("tkdedu")
           duplicate == msg.decision # "malformed_drop" /\ Seen(msg)
<1>1. /\ "tkdedu" \in Poppers /\ "tkdedu" \in Middle /\ Take("tkdedu")
      /\ In["tkdedu"] = 2 /\ Out["tkdedu"] = 3
  BY Line DEF DedupeTake, Poppers, Middle
<1>2. /\ msg = Stage(2, h) /\ h \in Nat /\ head' = [head EXCEPT ![2] = @ + 1]
  BY <1>1, FrontStage
<1>3. head'[1] = head[1] /\ head'[2] = h + 1 /\ head'[4] = head[4]
  BY <1>2 DEF TypeOK, Queues
<1> HIDE DEF h, msg
<1>4. /\ <<msg.raw.idempotency_key, msg.event_hash>> = Key(h)
      /\ msg.decision # "malformed_drop" <=> Valid(h)
  BY <1>2, StageNormalized DEF Key
<1>5. SeenFlow
  BY DEF Flow
<1>6. duplicate = Duplicate(h)
  <2>1. duplicate \in BOOLEAN /\ Duplicate(h) \in BOOLEAN
    BY DEF Duplicate
  <2>2. Valid(h) => (Seen(msg) <=> Duplicate(h))
    BY <1>4, <1>5, SeenIsDuplicate DEF h
  <2>3. ~Valid(h) => ~Duplicate(h)
    BY DEF Duplicate
  <2> QED
    BY <1>4, <2>1, <2>2, <2>3
<1>7. Mark(msg, duplicate) = Stage(3, h)
  <2> HIDE DEF duplicate
  <2> QED
    BY <1>2, <1>6 DEF Stage
<1>8. held' = [held EXCEPT !["tkdedu"] = Stage(Out["tkdedu"], head[In["tkdedu"]])]
  BY Zenon, <1>1, <1>7 DEF DedupeTake, msg, h
<1>9. SeenFlow'
  <2>1. seen \in Seq(Int \X Hashes) /\ Len(seen) \in Nat /\ Len(seen) <= h
    BY <1>5 DEF TypeOK, SeenFlow, h
  <2>2. CASE Valid(h) /\ ~Seen(msg)
    <3>1. seen' = Append(seen, Key(h))
      BY <1>4, <2>2 DEF DedupeTake, msg
    <3>2. /\ Len(seen') = Len(seen) + 1 /\ seen'[Len(seen) + 1] = Key(h)
          /\ \A k \in 1..Len(seen) : seen'[k] = seen[k]
      BY <2>1, <3>1
    <3>3. ASSUME NEW k \in 1..Len(seen')
          PROVE  \E j \in 0..h : Valid(j) /\ seen'[k] = Key(j)
      <4>1. CASE k = Len(seen) + 1
        BY <1>2, <2>2, <3>2, <4>1
      <4>2. CASE k \in 1..Len(seen)
        <5>1. PICK j \in 0..(h - 1) : Valid(j) /\ seen[k] = Key(j)
          BY <1>5, <4>2 DEF SeenFlow, h
        <5> QED
          BY <1>2, <3>2, <4>2, <5>1
      <4> QED
        BY <2>1, <3>2, <4>1, <4>2
    <3>4. ASSUME NEW j \in 0..h, Valid(j)
          PROVE  \E k \in 1..Len(seen') : seen'[k] = Key(j)
      <4>1. CASE j = h
        <5>1. Len(seen) + 1 \in 1..Len(seen')
          BY <2>1, <3>2
        <5> QED
          BY <3>2, <4>1, <5>1
      <4>2. CASE j \in 0..(h - 1)
        <5>1. PICK k \in 1..Len(seen) : seen[k] = Key(j)
          BY <1>5, <3>4, <4>2 DEF SeenFlow, h
        <5>2. k \in 1..Len(seen')
          BY <2>1, <3>2
        <5> QED
          BY <3>2, <5>1, <5>2
      <4> QED
        BY <1>2, <4>1, <4>2
    <3>5. Len(seen') <= h + 1 /\ (h + 1) - 1 = h
      BY <1>2, <2>1, <3>2
    <3> QED
      BY <1>3, <3>3, <3>4, <3>5 DEF SeenFlow
  <2>3. CASE ~(Valid(h) /\ ~Seen(msg))
    <3>1. seen' = seen
      BY <1>4, <2>3 DEF DedupeTake, msg
    <3>2. ASSUME NEW k \in 1..Len(seen)
          PROVE  \E j \in 0..h : Valid(j) /\ seen[k] = Key(j)
      <4>1. PICK j \in 0..(h - 1) : Valid(j) /\ seen[k] = Key(j)
        BY <1>5 DEF SeenFlow, h
      <4> QED
        BY <1>2, <4>1
    <3>3. ASSUME NEW j \in 0..h, Valid(j)
          PROVE  \E k \in 1..Len(seen) : seen[k] = Key(j)
      <4>1. CASE j = h
        BY <1>4, <2>3, <3>3, <4>1 DEF Seen
      <4>2. CASE j \in 0..(h - 1)
        BY <1>5, <3>3, <4>2 DEF SeenFlow, h
      <4> QED
        BY <1>2, <4>1, <4>2
    <3>4. Len(seen) <= h + 1 /\ (h + 1) - 1 = h
      BY <1>2, <2>1
    <3> QED
      BY <1>3, <3>1, <3>2, <3>3, <3>4 DEF SeenFlow
  <2> QED
    BY <2>2, <2>3
<1>10. CountersFlow'
  <2>1. counters \in [CounterNames -> Nat] /\ CountersFlow /\ UNCHANGED offset
    BY DEF TypeOK, Flow, DedupeTake
  <2>2. counters' = [counters EXCEPT !.duplicates = @ + 1] \/ counters' = counters
    BY DEF DedupeTake
  <2>3. /\ counters'.produced = counters.produced /\ counters'.audited = counters.audited
        /\ counters'.normalized = counters.normalized
        /\ counters'.invalid = counters.invalid
    <3>1. CASE counters' = [counters EXCEPT !.duplicates = @ + 1]
      BY <2>1, <3>1 DEF CounterNames
    <3> QED
      BY <2>2, <3>1
  <2> QED
    BY <1>3, <2>1, <2>3 DEF CountersFlow
<1> QED
  BY Zenon, <1>1, <1>8, <1>9, <1>10, FlowTake DEF DedupeTake

\* The AuditFull branch of tkaudt is never taken: no more than event_count
\* messages ever enter the line.
LEMMA AuditAppends ==
  ASSUME TypeOK, Flow, AuditTake
  PROVE  /\ audit' = Append(audit, Expected(Len(audit)))
         /\ counters' = [counters EXCEPT !.audited = @ + 1]
         /\ head' = [head EXCEPT ![4] = @ + 1]
         /\ head[4] \in Nat /\ head[4] + 1 <= Len(log[4]) /\ pc["tkaudt"] = "pop"
         /\ UNCHANGED <<log, closed, pc, crashed_tile, stopping, stop, offset, held, seen,
                        audit_done, replay>>
<1>1. Take("tkaudt") /\ "tkaudt" \in Poppers /\ In["tkaudt"] = 4
  BY Line DEF AuditTake, Poppers
<1>2. /\ Front("tkaudt") = Stage(4, head[4]) /\ head[4] \in Nat
      /\ head[4] + 1 <= Len(log[4]) /\ head' = [head EXCEPT ![4] = @ + 1]
      /\ UNCHANGED <<log, closed>>
  BY <1>1, FrontStage
<1>3. Len(audit) = head[4]
  BY DEF Flow, AuditFlow
<1>4. ~(Len(audit) >= N)
  <2>1. Len(log[4]) <= N /\ Len(log[4]) \in Nat /\ N \in Nat
    BY HeadsOrdered, QueueType, ConfigAssumption DEF Queues
  <2> QED
    BY <1>2, <1>3, <2>1
<1>5. Record(Len(audit), Front("tkaudt").raw, Front("tkaudt").event_hash,
             Front("tkaudt").decision, Front("tkaudt").decided_by)
        = Expected(Len(audit))
  BY <1>2, <1>3, StageExpected
<1>6. /\ audit' = Append(audit, Record(Len(audit), Front("tkaudt").raw,
                                       Front("tkaudt").event_hash,
                                       Front("tkaudt").decision,
                                       Front("tkaudt").decided_by))
      /\ counters' = [counters EXCEPT !.audited = @ + 1]
      /\ UNCHANGED <<crashed_tile, stopping, pc>>
  BY <1>4, Zenon DEF AuditTake
<1> QED
  BY <1>1, <1>2, <1>5, <1>6 DEF AuditTake, Take

LEMMA FlowAudit ==
  ASSUME TypeOK, Flow, AuditTake
  PROVE  Flow'
<1>1. /\ audit' = Append(audit, Expected(Len(audit)))
      /\ counters' = [counters EXCEPT !.audited = @ + 1]
      /\ head' = [head EXCEPT ![4] = @ + 1]
      /\ head[4] \in Nat /\ head[4] + 1 <= Len(log[4])
      /\ UNCHANGED <<log, pc, offset, held, seen>>
  BY AuditAppends
<1>2. /\ head'[4] = head[4] + 1
      /\ \A q \in Queues : q # 4 => head'[q] = head[q]
  BY <1>1 DEF TypeOK, Queues
<1>3. /\ head'[1] = head[1] /\ head'[2] = head[2]
      /\ \A t \in Middle : head'[In[t]] = head[In[t]]
  BY <1>2, MiddleLine DEF Queues
<1>4. PlacesOK' /\ IngestFlow'
  BY <1>1 DEF Flow, PlacesOK, IngestFlow
<1>5. (\A t \in Middle : StageFlow(t))'
  BY <1>1, <1>3 DEF Flow, StageFlow
<1>6. ASSUME NEW q \in Queues
      PROVE  QueueFlow(q)'
  <2>1. QueueFlow(q)
    BY DEF Flow
  <2>2. head'[q] <= Len(log[q])
    BY <1>1, <1>2, <2>1 DEF QueueFlow
  <2> QED
    BY <1>1, <2>1, <2>2 DEF QueueFlow
<1>7. SeenFlow'
  BY <1>1, <1>3 DEF Flow, SeenFlow
<1>8. AuditFlow'
  <2>1. audit \in Seq(Records) /\ Len(audit) = head[4] /\ AuditPrefix
    BY DEF TypeOK, Flow, AuditFlow
  <2>2. /\ Len(audit') = Len(audit) + 1
        /\ audit'[Len(audit) + 1] = Expected(Len(audit))
        /\ \A k \in 1..Len(audit) : audit'[k] = audit[k]
    BY <1>1, <2>1
  <2>3. ASSUME NEW k \in 1..Len(audit')
        PROVE  audit'[k] = Expected(k - 1)
    <3>1. CASE k = Len(audit) + 1
      <4>1. k - 1 = Len(audit)
        BY <1>1, <2>1, <3>1
      <4> QED
        BY <2>2, <3>1, <4>1
    <3>2. CASE k \in 1..Len(audit)
      BY <2>1, <2>2, <3>2 DEF AuditPrefix
    <3> QED
      BY <1>1, <2>1, <2>2, <3>1, <3>2
  <2> QED
    BY <1>2, <2>1, <2>2, <2>3 DEF AuditFlow, AuditPrefix
<1>9. CountersFlow'
  <2>1. counters \in [CounterNames -> Nat] /\ CountersFlow
    BY DEF TypeOK, Flow
  <2>2. /\ counters'.produced = counters.produced
        /\ counters'.audited = counters.audited + 1
        /\ counters'.normalized = counters.normalized
        /\ counters'.invalid = counters.invalid
    BY <1>1, <2>1 DEF CounterNames
  <2> QED
    BY <1>1, <1>2, <1>3, <2>1, <2>2 DEF CountersFlow
<1> QED
  BY <1>4, <1>5, <1>6, <1>7, <1>8, <1>9 DEF Flow

LEMMA FlowStep == TypeOK /\ Flow /\ [Next]_vars => Flow'
<1> SUFFICES ASSUME TypeOK, Flow, [Next]_vars PROVE Flow'
  OBVIOUS
<1>1. ASSUME NEW t \in Lines, PushClosed(t) \/ PushFull(t) \/ Close(t)
      PROVE  Flow'
  <2>1. t \in Threads /\ UNCHANGED data
    BY <1>1 DEF PushClosed, PushFull, Close, data, queues, Threads
  <2>2. PICK place : /\ pc' = [pc EXCEPT ![t] = place]
                     /\ \/ pc[t] \in Pushing /\ place \in Pushing \cup {"close"}
                        \/ pc[t] = "close" /\ place = "done"
    BY Zenon, <1>1 DEF PushClosed, PushFull, Close, Goto, Pushing
  <2> QED
    BY Zenon, <2>1, <2>2, FlowGoto
<1>2. ASSUME NEW t \in Poppers, PopEmpty(t) \/ PopRetry(t)
      PROVE  Flow'
  <2>1. t \in Threads /\ UNCHANGED data
    BY <1>2 DEF PopEmpty, PopRetry, data, queues, Threads, Lines, Poppers
  <2>2. PICK place : /\ pc' = [pc EXCEPT ![t] = place]
                     /\ pc[t] \in {"pop", "empty"} /\ place \in {"pop", "empty", "close"}
    BY <1>2 DEF PopEmpty, PopRetry, Goto
  <2> QED
    BY Zenon, <2>1, <2>2, FlowGoto
<1>3. ASSUME NEW c \in Callers, RequestStop(c)
      PROVE  Flow'
  BY <1>3, FlowStutter DEF RequestStop, data
<1>4. ASSUME AuditFinish
      PROVE  Flow'
  <2>1. "tkaudt" \in Threads /\ UNCHANGED data
    BY <1>4 DEF AuditFinish, data, queues, Threads
  <2>2. pc["tkaudt"] \in AuditPlaces
    BY DEF Flow, PlacesOK
  <2>3. pc["tkaudt"] = "close" /\ pc' = [pc EXCEPT !["tkaudt"] = "done"]
    BY <1>4, <2>2 DEF AuditFinish, Goto, AuditPlaces, Leaving
  <2> QED
    BY Zenon, <2>1, <2>3, FlowGoto
<1>5. ASSUME ReplayWait \/ ReplayUnfinished \/ ReplayAbort \/ ReplayCompare \/ ReplayPublish
      PROVE  Flow'
  <2>1. "tkrepl" \in Threads /\ UNCHANGED data
    BY <1>5 DEF ReplayWait, ReplayUnfinished, ReplayAbort, ReplayCompare, ReplayPublish,
                data, queues, Threads
  <2>2. PICK place \in ReplayPlaces : pc' = [pc EXCEPT !["tkrepl"] = place]
    BY <1>5 DEF ReplayWait, ReplayUnfinished, ReplayAbort, ReplayCompare, ReplayPublish,
                Goto, ReplayPlaces
  <2> QED
    BY Zenon, <2>1, <2>2, FlowGoto
<1>6. ASSUME NEW t \in Observers, Snapshot(t)
      PROVE  Flow'
  <2>1. t \in Threads /\ UNCHANGED data /\ pc' = [pc EXCEPT ![t] = "done"]
    BY <1>6 DEF Snapshot, Goto, data, queues, Threads
  <2> QED
    BY Zenon, <2>1, FlowGoto
<1>7. ASSUME SupervisorStop
      PROVE  Flow'
  BY <1>7, FlowStutter DEF SupervisorStop, data, queues
<1>8. CASE UNCHANGED vars
  BY <1>8, FlowStutter DEF vars, data
<1> QED
  BY Steps, <1>1, <1>2, <1>3, <1>4, <1>5, <1>6, <1>7, <1>8, FlowPush, FlowIngest,
     FlowNormalize, FlowDedupe, FlowPolicy, FlowAudit, Zenon

-----------------------------------------------------------------------------

(* The second half of the inductive invariant: how a run ends *)

\* Only tkings crashes, before its last event, and it has left its loop by
\* the time its requestStop runs.
CrashInv ==
  /\ stopping["tkaudt"] = 0
  /\ crashed_tile \in {NoCrash, "tkings"}
  /\ crashed_tile = "tkings" =>
       offset < N /\ pc["tkings"] \in {"stopping"} \cup Leaving
  /\ pc["tkings"] = "stopping" \/ stopping["tkings"] > 0 => crashed_tile = "tkings"

\* Until stop is up, a queue is closed by its producer alone, and a thread
\* leaves only when the queue before it is closed.
StopInv ==
  /\ stop <=> \E c \in Callers : stopping[c] > 1
  /\ ~stop => /\ \A t \in Lines : closed[Out[t]] => pc[t] = "done"
              /\ \A t \in Poppers : pc[t] \in Leaving => closed[In[t]]

\* What tkrepl knows at each of its places
VerdictInv ==
  /\ audit_done <=> pc["tkaudt"] = "done"
  /\ replay_match => /\ audit_done /\ Len(audit) = N
                     /\ pc["tkrepl"] \in {"publish", "done"}
  /\ pc["tkrepl"] \in {"compare", "publish"} => audit_done
  /\ pc["tkrepl"] = "publish" => (Len(audit) = N => replay_match)
  /\ pc["tkrepl"] \in {"abort", "abort2"} => stop /\ crashed_tile # NoCrash
  /\ pc["tkrepl"] = "done" => \/ stop /\ crashed_tile # NoCrash
                              \/ audit_done /\ (Len(audit) = N => replay_match)
  /\ replay_checked => pc["tkrepl"] \in {"abort2", "done"}

ObservedInv ==
  \A t \in Observers : /\ pc[t] \in {"poll", "done"}
                       /\ pc[t] = "done" => replay_checked \/ stop

\* The inductive invariant
IInv ==
  TypeOK /\ Flow /\ CrashInv /\ StopInv /\ VerdictInv /\ ObservedInv /\ Counting

LEMMA IInvInit == Init /\ Counting => IInv
<1> SUFFICES ASSUME Init, Counting PROVE IInv
  OBVIOUS
<1>1. TypeOK /\ Flow
  BY TypeInit, FlowInit
<1>2. /\ \A c \in Callers : stopping[c] = 0
      /\ stopping["tkaudt"] = 0 /\ stopping["tkings"] = 0
  BY DEF Init, Callers
<1>3. /\ pc["tkings"] = "loop" /\ pc["tkaudt"] = "pop" /\ pc["tkrepl"] = "poll"
      /\ \A t \in Poppers : pc[t] = "pop"
      /\ \A t \in Observers : pc[t] = "poll"
  <2>1. pc["tkings"] = "loop" /\ pc["tkaudt"] = "pop" /\ pc["tkrepl"] = "poll"
    BY DEF Init, Threads, Lines, Poppers
  <2>2. \A t \in Poppers : t \in Threads /\ t # "tkings"
    BY DEF Threads, Lines, Poppers
  <2>3. \A t \in Observers : t \in Threads /\ t # "tkings" /\ t \notin Poppers
    BY ConfigAssumption DEF Threads, Poppers
  <2> QED
    BY <2>1, <2>2, <2>3 DEF Init
<1>4. CrashInv
  BY <1>2, <1>3 DEF Init, CrashInv, NoCrash
<1>5. StopInv
  <2>1. \A t \in Lines : ~closed[Out[t]]
    BY Line DEF Init
  <2>2. ~stop /\ ~\E c \in Callers : stopping[c] > 1
    BY <1>2 DEF Init
  <2>3. \A t \in Poppers : pc[t] \notin Leaving
    BY <1>3 DEF Leaving
  <2> QED
    BY <2>1, <2>2, <2>3 DEF StopInv
<1>6. VerdictInv
  BY <1>3 DEF Init, VerdictInv
<1>7. ObservedInv
  BY <1>3 DEF ObservedInv
<1> QED
  BY <1>1, <1>4, <1>5, <1>6, <1>7 DEF IInv

LEMMA CrashStep == TypeOK /\ Flow /\ CrashInv /\ [Next]_vars => CrashInv'
<1> SUFFICES ASSUME TypeOK, Flow, CrashInv, [Next]_vars PROVE CrashInv'
  OBVIOUS
<1> USE DEF Leaving
<1>1. "tkings" \in Threads
  BY DEF Threads, Lines
\* A step of another thread that calls nothing
<1>2. ASSUME UNCHANGED <<stopping, crashed_tile, offset>>, pc'["tkings"] = pc["tkings"]
      PROVE  CrashInv'
  BY <1>2 DEF CrashInv
<1>3. ASSUME NEW t, NEW place, t # "tkings", Goto(t, place)
      PROVE  pc'["tkings"] = pc["tkings"]
  BY <1>1, <1>3 DEF Goto, TypeOK
\* A step of tkings inside its loop, or out of it
<1>4. ASSUME UNCHANGED <<stopping, crashed_tile, offset>>,
             pc["tkings"] \in {"stopping", "close"} => pc'["tkings"] \in Leaving,
             pc["tkings"] # "done", pc'["tkings"] # "stopping"
      PROVE  CrashInv'
  BY <1>4 DEF CrashInv
<1>5. ASSUME NEW t \in Lines, PushClosed(t) \/ PushRoom(t) \/ PushFull(t) \/ Close(t)
      PROVE  CrashInv'
  <2>1. UNCHANGED <<stopping, crashed_tile, offset>>
    BY Zenon, <1>5 DEF PushClosed, PushRoom, PushFull, Close
  <2>2. PICK place \in {"close", "room", "count", "pop", "full", "push", "done"} :
          Goto(t, place) /\ (pc[t] = "close" => place = "done")
    BY <1>5 DEF PushClosed, PushRoom, PushFull, Close
  <2>3. pc[t] \in {"push", "room", "full", "close"}
    BY Zenon, <1>5 DEF PushClosed, PushRoom, PushFull, Close
  <2>4. CASE t # "tkings"
    BY <1>2, <1>3, <2>1, <2>2, <2>4
  <2>5. CASE t = "tkings"
    <3>1. pc'["tkings"] = place
      BY <1>1, <2>2, <2>5 DEF Goto, TypeOK
    <3> QED
      BY <1>4, <2>1, <2>2, <2>3, <2>5, <3>1
  <2> QED
    BY <2>4, <2>5
<1>6. ASSUME NEW t \in Poppers, PopEmpty(t) \/ PopRetry(t)
      PROVE  CrashInv'
  <2>1. UNCHANGED <<stopping, crashed_tile, offset>> /\ \E place : Goto(t, place)
    BY <1>6 DEF PopEmpty, PopRetry
  <2>2. t # "tkings"
    BY DEF Poppers
  <2> QED
    BY <1>2, <1>3, <2>1, <2>2
<1>7. ASSUME NEW c \in Callers, RequestStop(c)
      PROVE  CrashInv'
  <2>1. /\ UNCHANGED <<crashed_tile, offset, pc>> /\ stopping[c] \in 1..(StopDone - 1)
        /\ stopping' = [stopping EXCEPT ![c] = @ + 1]
    BY <1>7 DEF RequestStop
  <2>2. c # "tkaudt" /\ stopping'["tkaudt"] = stopping["tkaudt"]
    BY <2>1 DEF CrashInv, TypeOK, Callers
  <2>3. stopping'["tkings"] > 0 => stopping["tkings"] > 0
    BY <2>1 DEF TypeOK, Callers
  <2> QED
    BY <2>1, <2>2, <2>3 DEF CrashInv
<1>8. ASSUME IngestLoop
      PROVE  CrashInv'
  <2>1. UNCHANGED <<stopping, crashed_tile, offset>> /\ pc["tkings"] = "loop"
    BY <1>8 DEF IngestLoop
  <2>2. pc'["tkings"] # "stopping"
    BY <1>1, <1>8 DEF IngestLoop, Goto, TypeOK
  <2> QED
    BY <1>4, <2>1, <2>2
<1>9. ASSUME IngestCrash
      PROVE  CrashInv'
  <2>1. /\ crashed_tile' = "tkings" /\ offset' = offset /\ pc["tkings"] = "crash"
        /\ pc'["tkings"] = "stopping" /\ stopping'["tkaudt"] = stopping["tkaudt"]
    BY <1>1, <1>9 DEF IngestCrash, Goto, TypeOK, Callers
  <2>2. offset < N
    BY <2>1 DEF Flow, IngestFlow
  <2> QED
    BY <2>1, <2>2 DEF CrashInv
<1>10. ASSUME IngestStopped
       PROVE  CrashInv'
  <2>1. /\ UNCHANGED <<stopping, crashed_tile, offset>> /\ pc["tkings"] = "stopping"
        /\ pc'["tkings"] = "close"
    BY <1>1, <1>10 DEF IngestStopped, Goto, TypeOK
  <2> QED
    BY <1>4, <2>1
<1>11. ASSUME IngestCount
       PROVE  CrashInv'
  <2>1. /\ UNCHANGED <<stopping, crashed_tile>> /\ pc["tkings"] = "count"
        /\ pc'["tkings"] = "loop"
    BY <1>1, <1>11 DEF IngestCount, Goto, TypeOK
  <2> QED
    BY <2>1 DEF CrashInv
<1>12. ASSUME NormalizeTake \/ DedupeTake \/ PolicyTake
       PROVE  CrashInv'
  <2>1. /\ UNCHANGED <<stopping, crashed_tile, offset>>
        /\ \E t \in Middle : Goto(t, "push")
    BY <1>12 DEF NormalizeTake, DedupeTake, PolicyTake, Middle
  <2> QED
    BY <1>2, <1>3, <2>1, MiddleLine
<1>13. ASSUME AuditTake
       PROVE  CrashInv'
  BY <1>2, <1>13, AuditAppends
<1>14. ASSUME AuditFinish
       PROVE  CrashInv'
  <2>1. UNCHANGED <<stopping, crashed_tile, offset>> /\ Goto("tkaudt", "done")
    BY <1>14 DEF AuditFinish
  <2> QED
    BY <1>2, <1>3, <2>1
<1>15. ASSUME ReplayWait \/ ReplayUnfinished \/ ReplayAbort \/ ReplayCompare \/ ReplayPublish
       PROVE  CrashInv'
  <2>1. UNCHANGED <<stopping, crashed_tile, offset>> /\ \E place : Goto("tkrepl", place)
    BY <1>15 DEF ReplayWait, ReplayUnfinished, ReplayAbort, ReplayCompare, ReplayPublish
  <2> QED
    BY <1>2, <1>3, <2>1
<1>16. ASSUME NEW t \in Observers, Snapshot(t)
       PROVE  CrashInv'
  <2>1. UNCHANGED <<stopping, crashed_tile, offset>> /\ Goto(t, "done") /\ t # "tkings"
    BY <1>16, ConfigAssumption DEF Snapshot
  <2> QED
    BY <1>2, <1>3, <2>1
<1>17. ASSUME SupervisorStop
       PROVE  CrashInv'
  <2>1. /\ UNCHANGED <<crashed_tile, offset, pc>>
        /\ stopping'["tkaudt"] = stopping["tkaudt"]
        /\ stopping'["tkings"] = stopping["tkings"]
    BY <1>17 DEF SupervisorStop, TypeOK, Callers
  <2> QED
    BY <2>1 DEF CrashInv
<1>18. CASE UNCHANGED vars
  BY <1>2, <1>18 DEF vars
<1> QED
  BY Steps, <1>5, <1>6, <1>7, <1>8, <1>9, <1>10, <1>11, <1>12, <1>13, <1>14, <1>15, <1>16,
     <1>17, <1>18, Zenon

LEMMA StopStep == TypeOK /\ Flow /\ CrashInv /\ StopInv /\ [Next]_vars => StopInv'
<1> SUFFICES ASSUME TypeOK, Flow, CrashInv, StopInv, [Next]_vars PROVE StopInv'
  OBVIOUS
<1> USE DEF Leaving
<1>1. Lines \subseteq Threads /\ Poppers \subseteq Threads /\ "tkrepl" \in Threads
  BY DEF Threads, Lines, Poppers
<1>2. ASSUME NEW t, NEW place, Goto(t, place)
      PROVE  \A u \in Threads : pc'[u] = IF u = t THEN place ELSE pc[u]
  BY <1>2 DEF Goto, TypeOK
\* A step that stores neither stop nor closed
<1>3. ASSUME UNCHANGED <<stop, stopping, closed>>,
             \A t \in Lines : pc[t] = "done" => pc'[t] = "done",
             \A t \in Poppers : ~stop /\ pc'[t] \in Leaving
                                  => pc[t] \in Leaving \/ closed[In[t]]
      PROVE  StopInv'
  BY <1>3 DEF StopInv
<1>4. ASSUME NEW t \in Lines, PushClosed(t) \/ PushRoom(t) \/ PushFull(t)
      PROVE  StopInv'
  <2>1. UNCHANGED <<stop, stopping, closed>> /\ pc[t] \in Pushing
    BY Zenon, <1>4 DEF PushClosed, PushRoom, PushFull, queues, Pushing
  <2>2. ~stop => ~closed[Out[t]]
    BY <2>1 DEF StopInv, Pushing
  <2>3. PICK place : Goto(t, place) /\ (~stop => place \notin Leaving)
    BY <1>4, <2>2 DEF PushClosed, PushRoom, PushFull
  <2>4. \A u \in Threads : pc'[u] = IF u = t THEN place ELSE pc[u]
    BY <1>2, <2>3
  <2> QED
    BY <1>1, <1>3, <2>1, <2>3, <2>4 DEF Pushing
<1>5. ASSUME NEW t \in Lines, Close(t)
      PROVE  StopInv'
  <2>1. /\ UNCHANGED <<stop, stopping>> /\ pc[t] = "close" /\ Goto(t, "done")
        /\ closed' = [closed EXCEPT ![Out[t]] = TRUE]
    BY <1>5 DEF Close
  <2>2. \A u \in Threads : pc'[u] = IF u = t THEN "done" ELSE pc[u]
    BY <1>2, <2>1
  <2>3. \A q \in Queues : closed'[q] = IF q = Out[t] THEN TRUE ELSE closed[q]
    BY <2>1 DEF TypeOK
  <2>4. \A u \in Lines : Out[u] = Out[t] => u = t
    BY Line DEF Lines
  <2>5. ASSUME ~stop, NEW u \in Lines, closed'[Out[u]]
        PROVE  pc'[u] = "done"
    BY Zenon, <1>1, <2>2, <2>3, <2>4, <2>5, Line DEF StopInv
  <2>6. ASSUME ~stop, NEW u \in Poppers, pc'[u] \in Leaving
        PROVE  closed'[In[u]]
    <3>1. pc[u] \in Leaving
      BY <1>1, <2>1, <2>2, <2>6
    <3> QED
      BY Zenon, <2>3, <2>6, <3>1, Line DEF StopInv
  <2> QED
    BY <2>1, <2>5, <2>6 DEF StopInv
<1>6. ASSUME NEW t \in Poppers, PopEmpty(t) \/ PopRetry(t)
      PROVE  StopInv'
  <2>1. UNCHANGED <<stop, stopping, closed>> /\ pc[t] \in {"pop", "empty"}
    BY <1>6 DEF PopEmpty, PopRetry, queues
  <2>2. PICK place : Goto(t, place) /\ (~stop /\ place \in Leaving => closed[In[t]])
    BY <1>6 DEF PopEmpty, PopRetry
  <2>3. \A u \in Threads : pc'[u] = IF u = t THEN place ELSE pc[u]
    BY <1>2, <2>2
  <2> QED
    BY <1>1, <1>3, <2>1, <2>2, <2>3
<1>7. ASSUME NEW c \in Callers, RequestStop(c)
      PROVE  StopInv'
  <2>1. /\ stopping[c] \in 1..(StopDone - 1) /\ UNCHANGED pc
        /\ stopping' = [stopping EXCEPT ![c] = @ + 1]
    BY <1>7 DEF RequestStop
  <2>2. stopping'[c] > 1
    BY <2>1 DEF TypeOK
  <2>3. stop'
    <3>1. CASE stopping[c] = 1
      BY <1>7, <3>1 DEF RequestStop
    <3>2. CASE stopping[c] # 1
      <4>1. stopping[c] > 1
        BY <2>1, <3>2
      <4> QED
        BY <1>7, <3>2, <4>1 DEF RequestStop, StopInv
    <3> QED
      BY <3>1, <3>2
  <2> QED
    BY <2>2, <2>3 DEF StopInv
<1>8. ASSUME IngestLoop \/ IngestStopped \/ IngestCount
      PROVE  StopInv'
  <2>1. /\ UNCHANGED <<stop, stopping, closed>> /\ pc["tkings"] # "done"
        /\ \E place : Goto("tkings", place)
    BY <1>8 DEF IngestLoop, IngestStopped, IngestCount, queues
  <2>2. \A u \in Threads : u # "tkings" => pc'[u] = pc[u]
    BY <1>2, <2>1
  <2>3. "tkings" \notin Poppers
    BY DEF Poppers
  <2> QED
    BY <1>1, <1>3, <2>1, <2>2, <2>3
<1>9. ASSUME IngestCrash
      PROVE  StopInv'
  <2>1. /\ UNCHANGED <<stop, closed>> /\ pc["tkings"] = "crash"
        /\ stopping' = [stopping EXCEPT !["tkings"] = 1] /\ Goto("tkings", "stopping")
    BY <1>9 DEF IngestCrash, queues
  <2>2. \A u \in Threads : u # "tkings" => pc'[u] = pc[u]
    BY <1>2, <2>1
  <2>3. ~(stopping["tkings"] > 0)
    BY <2>1 DEF CrashInv
  <2>4. ASSUME NEW c \in Callers
        PROVE  stopping'[c] > 1 <=> stopping[c] > 1
    <3>1. stopping[c] \in 0..6 /\ stopping'[c] = IF c = "tkings" THEN 1 ELSE stopping[c]
      BY <2>1 DEF TypeOK, StopDone
    <3> QED
      BY <2>3, <3>1
  <2>5. "tkings" \notin Poppers
    BY DEF Poppers
  <2> QED
    BY <1>1, <2>1, <2>2, <2>4, <2>5 DEF StopInv
<1>10. ASSUME NormalizeTake \/ DedupeTake \/ PolicyTake
       PROVE  StopInv'
  <2>1. PICK t \in Middle : Take(t) /\ Goto(t, "push") /\ UNCHANGED <<stop, stopping>>
    BY <1>10 DEF NormalizeTake, DedupeTake, PolicyTake, Middle
  <2>2. UNCHANGED closed /\ pc[t] = "pop"
    BY <2>1 DEF Take
  <2>3. \A u \in Threads : pc'[u] = IF u = t THEN "push" ELSE pc[u]
    BY Zenon, <1>2, <2>1
  <2> QED
    BY <1>1, <1>3, <2>1, <2>2, <2>3
<1>11. ASSUME AuditTake
       PROVE  StopInv'
  BY <1>3, <1>11, AuditAppends
<1>12. ASSUME AuditFinish
       PROVE  StopInv'
  <2>1. /\ UNCHANGED <<stop, stopping, closed>> /\ Goto("tkaudt", "done")
        /\ pc["tkaudt"] = "close"
    BY <1>12 DEF AuditFinish, queues, Flow, PlacesOK, AuditPlaces
  <2>2. \A u \in Threads : pc'[u] = IF u = "tkaudt" THEN "done" ELSE pc[u]
    BY <1>2, <2>1
  <2> QED
    BY <1>1, <1>3, <2>1, <2>2
<1>13. ASSUME ReplayWait \/ ReplayUnfinished \/ ReplayAbort \/ ReplayCompare \/ ReplayPublish
       PROVE  StopInv'
  <2>1. UNCHANGED <<stop, stopping, closed>> /\ \E place : Goto("tkrepl", place)
    BY <1>13 DEF ReplayWait, ReplayUnfinished, ReplayAbort, ReplayCompare, ReplayPublish,
                 queues
  <2>2. \A u \in Threads : u # "tkrepl" => pc'[u] = pc[u]
    BY <1>2, <2>1
  <2>3. "tkrepl" \notin Lines /\ "tkrepl" \notin Poppers
    BY DEF Lines, Poppers
  <2> QED
    BY <1>1, <1>3, <2>1, <2>2, <2>3
<1>14. ASSUME NEW t \in Observers, Snapshot(t)
       PROVE  StopInv'
  <2>1. UNCHANGED <<stop, stopping, closed>> /\ Goto(t, "done")
    BY <1>14 DEF Snapshot, queues
  <2>2. t \notin Lines /\ t \notin Poppers
    BY ConfigAssumption DEF Lines, Poppers
  <2>3. \A u \in Threads : u # t => pc'[u] = pc[u]
    BY <1>2, <2>1
  <2> QED
    BY <1>1, <1>3, <2>1, <2>2, <2>3
<1>15. ASSUME SupervisorStop
       PROVE  StopInv'
  <2>1. /\ UNCHANGED <<stop, closed, pc>> /\ stopping["supervisor"] = 0
        /\ stopping' = [stopping EXCEPT !["supervisor"] = 1]
    BY <1>15 DEF SupervisorStop, queues
  <2>2. \A c \in Callers : stopping'[c] > 1 <=> stopping[c] > 1
    BY <2>1 DEF TypeOK, StopDone
  <2> QED
    BY <2>1, <2>2 DEF StopInv
<1>16. CASE UNCHANGED vars
  BY <1>3, <1>16 DEF vars
<1> QED
  BY Steps, <1>4, <1>5, <1>6, <1>7, <1>8, <1>9, <1>10, <1>11, <1>12, <1>13, <1>14, <1>15,
     <1>16, Zenon

\* The comparison finds no divergence exactly when the log is complete.
LEMMA NoDivergences ==
  ASSUME TypeOK, Flow, Counting
  PROVE  deterministicReplayDivergences = 0 <=> Len(audit) = N
<1> DEFINE D == {seq \in 0..(N - 1) : Divergent(seq)}
           short == IF N > Len(audit) THEN N - Len(audit) ELSE Len(audit) - N
<1>1. Len(audit) \in Nat /\ N \in Nat /\ AuditPrefix
  BY ConfigAssumption DEF TypeOK, Flow, AuditFlow
<1>2. Cardinality(D) \in Nat
  <2>1. D \in SUBSET (0..(N - 1))
    OBVIOUS
  <2> QED
    BY Zenon, <2>1 DEF Counting
<1>3. ASSUME Len(audit) = N
      PROVE  Cardinality(D) = 0
  <2>1. ASSUME NEW seq \in 0..(N - 1)
        PROVE  ~Divergent(seq)
    <3>1. ASSUME NEW k \in 0..seq
          PROVE  audit[k + 1] = Expected(k)
      <4>1. k + 1 \in 1..Len(audit) /\ (k + 1) - 1 = k
        BY <1>1, <1>3
      <4> QED
        BY <1>1, <4>1 DEF AuditPrefix
    <3>2. ~(seq >= Len(audit))
      BY <1>1, <1>3
    <3> QED
      BY <3>1, <3>2 DEF Divergent
  <2>2. D = {}
    BY <2>1
  <2> QED
    BY <2>2 DEF Counting
<1>4. deterministicReplayDivergences = Cardinality(D) + short
  BY DEF deterministicReplayDivergences
<1>5. /\ short \in Nat
      /\ short = 0 <=> Len(audit) = N
  BY <1>1
<1> HIDE DEF D, short
<1> QED
  BY <1>2, <1>3, <1>4, <1>5

LEMMA VerdictStep ==
  TypeOK /\ Flow /\ CrashInv /\ VerdictInv /\ Counting /\ [Next]_vars => VerdictInv'
<1> SUFFICES ASSUME TypeOK, Flow, CrashInv, VerdictInv, Counting, [Next]_vars PROVE VerdictInv'
  OBVIOUS
<1>1. "tkaudt" \in Threads /\ "tkrepl" \in Threads
  BY DEF Threads
<1>2. ASSUME NEW t, NEW place, Goto(t, place)
      PROVE  \A u \in Threads : pc'[u] = IF u = t THEN place ELSE pc[u]
  BY <1>2 DEF Goto, TypeOK
\* A step of neither tkaudt nor tkrepl
<1>3. ASSUME UNCHANGED <<audit, audit_done, replay_match, replay_checked>>,
             pc'["tkaudt"] = pc["tkaudt"], pc'["tkrepl"] = pc["tkrepl"],
             stop => stop', crashed_tile # NoCrash => crashed_tile' # NoCrash
      PROVE  VerdictInv'
  BY <1>3 DEF VerdictInv
<1>4. ASSUME NEW t, NEW place, Goto(t, place), t # "tkaudt", t # "tkrepl",
             UNCHANGED <<audit, audit_done, replay, stop, crashed_tile>>
      PROVE  VerdictInv'
  BY Zenon, <1>1, <1>2, <1>3, <1>4 DEF replay
<1>5. ASSUME NEW t \in Lines, PushClosed(t) \/ PushRoom(t) \/ PushFull(t) \/ Close(t)
      PROVE  VerdictInv'
  <2>1. /\ UNCHANGED <<audit, audit_done, replay, stop, crashed_tile>>
        /\ \E place : Goto(t, place)
    BY Zenon, <1>5 DEF PushClosed, PushRoom, PushFull, Close
  <2>2. t # "tkaudt" /\ t # "tkrepl"
    BY DEF Lines
  <2> QED
    BY <1>4, <2>1, <2>2
<1>6. ASSUME NEW t \in Poppers, PopEmpty(t) \/ PopRetry(t)
      PROVE  VerdictInv'
  <2>1. /\ UNCHANGED <<audit, audit_done, replay, stop, crashed_tile>>
        /\ pc[t] \in {"pop", "empty"}
        /\ \E place \in {"pop", "empty", "close"} : Goto(t, place)
    BY Zenon, <1>6 DEF PopEmpty, PopRetry
  <2>2. CASE t # "tkaudt"
    <3>1. t # "tkrepl"
      BY DEF Poppers
    <3> QED
      BY <1>4, <2>1, <2>2, <3>1
  <2>3. CASE t = "tkaudt"
    <3>1. pc'["tkaudt"] # "done" /\ pc'["tkrepl"] = pc["tkrepl"]
      BY <1>1, <1>2, <2>1, <2>3
    <3> QED
      BY <2>1, <2>3, <3>1 DEF VerdictInv, replay
  <2> QED
    BY <2>2, <2>3
<1>7. ASSUME NEW c \in Callers, RequestStop(c)
      PROVE  VerdictInv'
  <2>1. /\ UNCHANGED <<audit, audit_done, replay, pc, crashed_tile>>
        /\ stop => stop'
    BY <1>7 DEF RequestStop
  <2> QED
    BY <1>3, <2>1 DEF replay
<1>8. ASSUME IngestLoop \/ IngestStopped \/ IngestCount
      PROVE  VerdictInv'
  <2>1. /\ UNCHANGED <<audit, audit_done, replay, stop, crashed_tile>>
        /\ \E place : Goto("tkings", place)
    BY <1>8 DEF IngestLoop, IngestStopped, IngestCount
  <2> QED
    BY <1>4, <2>1
<1>9. ASSUME IngestCrash
      PROVE  VerdictInv'
  <2>1. /\ UNCHANGED <<audit, audit_done, replay, stop>> /\ crashed_tile' = "tkings"
        /\ Goto("tkings", "stopping")
    BY <1>9 DEF IngestCrash
  <2>2. pc'["tkaudt"] = pc["tkaudt"] /\ pc'["tkrepl"] = pc["tkrepl"]
    BY <1>1, <1>2, <2>1
  <2> QED
    BY <1>3, <2>1, <2>2 DEF replay, NoCrash
<1>10. ASSUME NormalizeTake \/ DedupeTake \/ PolicyTake
       PROVE  VerdictInv'
  <2>1. /\ UNCHANGED <<audit, audit_done, replay, stop, crashed_tile>>
        /\ \E t \in Middle : Goto(t, "push")
    BY <1>10 DEF NormalizeTake, DedupeTake, PolicyTake, Middle
  <2> QED
    BY <1>4, <2>1, MiddleLine
<1>11. ASSUME AuditTake
       PROVE  VerdictInv'
  <2>1. pc["tkaudt"] = "pop" /\ UNCHANGED <<pc, crashed_tile, stop, audit_done, replay>>
    BY <1>11, AuditAppends
  <2> QED
    BY <2>1 DEF VerdictInv, replay
<1>12. ASSUME AuditFinish
       PROVE  VerdictInv'
  <2>1. /\ UNCHANGED <<audit, replay, stop, crashed_tile>> /\ audit_done'
        /\ Goto("tkaudt", "done")
    BY <1>12 DEF AuditFinish
  <2>2. pc'["tkaudt"] = "done" /\ pc'["tkrepl"] = pc["tkrepl"]
    BY <1>1, <1>2, <2>1
  <2> QED
    BY <2>1, <2>2 DEF VerdictInv, replay
<1>13. ASSUME ReplayWait \/ ReplayUnfinished
       PROVE  VerdictInv'
  <2>1. /\ UNCHANGED <<audit, audit_done, replay, stop, crashed_tile>>
        /\ \/ pc["tkrepl"] = "poll" /\ Goto("tkrepl", IF audit_done THEN "compare"
                                                      ELSE "unfinished")
           \/ /\ pc["tkrepl"] = "unfinished"
              /\ Goto("tkrepl", IF stop /\ crashed_tile # NoCrash THEN "abort" ELSE "poll")
    BY <1>13 DEF ReplayWait, ReplayUnfinished
  <2>2. /\ pc'["tkaudt"] = pc["tkaudt"]
        /\ \/ pc'["tkrepl"] = "compare" /\ audit_done
           \/ pc'["tkrepl"] = "abort" /\ stop /\ crashed_tile # NoCrash
           \/ pc'["tkrepl"] \in {"poll", "unfinished"}
    BY <1>1, <1>2, <2>1
  <2>3. ~replay_match /\ ~replay_checked
    BY <2>1 DEF VerdictInv
  <2> QED
    BY <2>1, <2>2, <2>3 DEF VerdictInv, replay
<1>14. ASSUME ReplayAbort
       PROVE  VerdictInv'
  <2>1. /\ UNCHANGED <<audit, audit_done, stop, crashed_tile>>
        /\ \/ /\ pc["tkrepl"] = "abort" /\ Goto("tkrepl", "abort2")
              /\ UNCHANGED replay_match
           \/ pc["tkrepl"] = "abort2" /\ Goto("tkrepl", "done") /\ ~replay_match'
    BY <1>14 DEF ReplayAbort
  <2>2. /\ pc'["tkaudt"] = pc["tkaudt"]
        /\ \/ pc'["tkrepl"] = "abort2"
           \/ pc'["tkrepl"] = "done"
    BY <1>1, <1>2, <2>1
  <2>3. ~replay_match /\ stop /\ crashed_tile # NoCrash
    BY <2>1 DEF VerdictInv
  <2> QED
    BY <2>1, <2>2, <2>3 DEF VerdictInv
<1>15. ASSUME ReplayCompare
       PROVE  VerdictInv'
  <2>1. /\ UNCHANGED <<audit, audit_done, stop, crashed_tile, replay_checked>>
        /\ pc["tkrepl"] = "compare" /\ Goto("tkrepl", "publish")
        /\ replay_match' <=> deterministicReplayDivergences = 0
    BY Zenon, <1>15 DEF ReplayCompare
  <2>2. pc'["tkaudt"] = pc["tkaudt"] /\ pc'["tkrepl"] = "publish"
    BY <1>1, <1>2, <2>1
  <2>3. replay_match' <=> Len(audit) = N
    BY <2>1, NoDivergences
  <2> QED
    BY <2>1, <2>2, <2>3 DEF VerdictInv
<1>16. ASSUME ReplayPublish
       PROVE  VerdictInv'
  <2>1. /\ UNCHANGED <<audit, audit_done, stop, crashed_tile, replay_match>>
        /\ pc["tkrepl"] = "publish" /\ Goto("tkrepl", "done")
    BY <1>16 DEF ReplayPublish
  <2>2. pc'["tkaudt"] = pc["tkaudt"] /\ pc'["tkrepl"] = "done"
    BY <1>1, <1>2, <2>1
  <2> QED
    BY <2>1, <2>2 DEF VerdictInv
<1>17. ASSUME NEW t \in Observers, Snapshot(t)
       PROVE  VerdictInv'
  <2>1. /\ UNCHANGED <<audit, audit_done, replay, stop, crashed_tile>> /\ Goto(t, "done")
        /\ t # "tkaudt" /\ t # "tkrepl"
    BY <1>17, ConfigAssumption DEF Snapshot
  <2> QED
    BY <1>4, <2>1
<1>18. ASSUME SupervisorStop
       PROVE  VerdictInv'
  BY <1>3, <1>18 DEF SupervisorStop, replay
<1>19. CASE UNCHANGED vars
  BY <1>3, <1>19 DEF vars
<1> QED
  BY Steps, <1>5, <1>6, <1>7, <1>8, <1>9, <1>10, <1>11, <1>12, <1>13, <1>14, <1>15, <1>16,
     <1>17, <1>18, <1>19, Zenon

LEMMA ObservedStep ==
  TypeOK /\ Flow /\ VerdictInv /\ ObservedInv /\ [Next]_vars => ObservedInv'
<1> SUFFICES ASSUME TypeOK, Flow, VerdictInv, ObservedInv, [Next]_vars,
                    NEW u \in Observers
             PROVE  pc'[u] \in {"poll", "done"} /\ (pc'[u] = "done" => replay_checked' \/ stop')
  BY DEF ObservedInv
<1> DEFINE Goal == pc'[u] \in {"poll", "done"} /\ (pc'[u] = "done" => replay_checked' \/ stop')
<1>1. /\ u \in Threads /\ u \notin Lines /\ u \notin Poppers /\ u # "tkings"
      /\ u # "tkaudt" /\ u # "tkrepl"
  BY ConfigAssumption DEF Threads, Lines, Poppers
<1>2. /\ pc[u] \in {"poll", "done"}
      /\ pc[u] = "done" => replay_checked \/ stop
  BY DEF ObservedInv
<1>3. ASSUME pc'[u] = pc[u], replay_checked => replay_checked', stop => stop'
      PROVE  Goal
  BY <1>2, <1>3
<1>4. ASSUME NEW t, NEW place, Goto(t, place), t # u, UNCHANGED stop,
             replay_checked => replay_checked'
      PROVE  Goal
  <2>1. pc'[u] = pc[u]
    BY <1>1, <1>4 DEF Goto, TypeOK
  <2> QED
    BY <1>3, <1>4, <2>1
<1> HIDE DEF Goal
<1>5. ASSUME NEW t \in Lines, PushClosed(t) \/ PushRoom(t) \/ PushFull(t) \/ Close(t)
      PROVE  Goal
  <2>1. UNCHANGED <<replay_checked, stop>> /\ \E place : Goto(t, place)
    BY Zenon, <1>5 DEF PushClosed, PushRoom, PushFull, Close, replay
  <2> QED
    BY <1>1, <1>4, <2>1
<1>6. ASSUME NEW t \in Poppers, PopEmpty(t) \/ PopRetry(t)
      PROVE  Goal
  <2>1. UNCHANGED <<replay_checked, stop>> /\ \E place : Goto(t, place)
    BY Zenon, <1>6 DEF PopEmpty, PopRetry, replay
  <2> QED
    BY <1>1, <1>4, <2>1
<1>7. ASSUME NEW c \in Callers, RequestStop(c)
      PROVE  Goal
  <2>1. UNCHANGED <<replay_checked, pc>> /\ (stop => stop')
    BY <1>7 DEF RequestStop, replay
  <2> QED
    BY <1>3, <2>1
<1>8. ASSUME IngestLoop \/ IngestCrash \/ IngestStopped \/ IngestCount
      PROVE  Goal
  <2>1. UNCHANGED <<replay_checked, stop>> /\ \E place : Goto("tkings", place)
    BY <1>8 DEF IngestLoop, IngestCrash, IngestStopped, IngestCount, replay
  <2> QED
    BY <1>1, <1>4, <2>1
<1>9. ASSUME NormalizeTake \/ DedupeTake \/ PolicyTake
      PROVE  Goal
  <2>1. UNCHANGED <<replay_checked, stop>> /\ \E t \in Middle : Goto(t, "push")
    BY <1>9 DEF NormalizeTake, DedupeTake, PolicyTake, Middle, replay
  <2> QED
    BY <1>1, <1>4, <2>1, MiddleLine
<1>10. ASSUME AuditTake
       PROVE  Goal
  BY <1>3, <1>10, AuditAppends DEF replay
<1>11. ASSUME AuditFinish
       PROVE  Goal
  <2>1. UNCHANGED <<replay_checked, stop>> /\ Goto("tkaudt", "done")
    BY <1>11 DEF AuditFinish, replay
  <2> QED
    BY <1>1, <1>4, <2>1
<1>12. ASSUME ReplayWait \/ ReplayUnfinished \/ ReplayAbort \/ ReplayCompare \/ ReplayPublish
       PROVE  Goal
  <2>1. /\ UNCHANGED stop /\ (replay_checked => replay_checked')
        /\ \E place : Goto("tkrepl", place)
    BY <1>12 DEF ReplayWait, ReplayUnfinished, ReplayAbort, ReplayCompare, ReplayPublish,
                 replay
  <2> QED
    BY <1>1, <1>4, <2>1
<1>13. ASSUME NEW t \in Observers, Snapshot(t)
       PROVE  Goal
  <2>1. UNCHANGED <<replay_checked, stop>> /\ Goto(t, "done") /\ (replay_checked \/ stop)
    BY <1>13 DEF Snapshot, replay
  <2>2. CASE t = u
    <3>1. pc'[u] = "done"
      BY <1>1, <2>1, <2>2 DEF Goto, TypeOK
    <3> QED
      BY <2>1, <3>1 DEF Goal
  <2>3. CASE t # u
    BY <1>4, <2>1, <2>3
  <2> QED
    BY <2>2, <2>3
<1>14. ASSUME SupervisorStop
       PROVE  Goal
  BY <1>3, <1>14 DEF SupervisorStop, replay
<1>15. ASSUME UNCHANGED vars
       PROVE  Goal
  BY <1>3, <1>15 DEF vars
<1>16. Goal
  BY Steps, <1>5, <1>6, <1>7, <1>8, <1>9, <1>10, <1>11, <1>12, <1>13, <1>14, <1>15, Zenon
<1> QED
  BY <1>16 DEF Goal

-----------------------------------------------------------------------------
(* What the invariant gives *)

LEMMA TablesFitInv == IInv => TablesFit
<1> SUFFICES ASSUME IInv PROVE TablesFit
  OBVIOUS
<1>1. TypeOK /\ Flow /\ CrashInv
  BY DEF IInv
<1>2. head[2] <= N /\ head[4] <= N
  BY <1>1, HeadsOrdered
<1>3. head[2] \in Nat /\ N \in Nat /\ Len(seen) \in Nat
  BY <1>1, QueueType, ConfigAssumption DEF Queues, TypeOK
<1>4. Len(seen) <= head[2] /\ Len(audit) = head[4]
  BY <1>1 DEF Flow, SeenFlow, AuditFlow
<1>5. crashed_tile # "tkaudt"
  BY <1>1 DEF CrashInv, NoCrash
<1>6. Len(seen) <= N /\ Len(audit) <= N
  BY <1>2, <1>3, <1>4
<1> QED
  BY <1>5, <1>6 DEF TablesFit

LEMMA CountersInv == IInv => CountersOrdered
<1> SUFFICES ASSUME IInv PROVE CountersOrdered
  OBVIOUS
<1>1. TypeOK /\ Flow
  BY DEF IInv
<1>2. /\ head[4] <= head[1] /\ head[1] <= offset + 1
      /\ pc["tkings"] = "done" => head[1] <= offset
  BY <1>1, HeadsOrdered DEF Leaving
<1>3. AllDone => pc["tkings"] = "done"
  BY DEF AllDone, Threads, Lines
<1> QED
  BY <1>1, <1>2, <1>3 DEF Flow, CountersFlow, CountersOrdered

\* A crash cuts the log short: all events are audited only when nothing
\* crashed.
LEMMA CrashCutsShort ==
  ASSUME IInv, Len(audit) = N
  PROVE  crashed_tile = NoCrash
<1> SUFFICES ASSUME crashed_tile # NoCrash PROVE FALSE
  OBVIOUS
<1>1. TypeOK /\ Flow /\ CrashInv
  BY DEF IInv
<1>2. offset < N /\ pc["tkings"] \in {"stopping"} \cup Leaving
  BY <1>1 DEF CrashInv
<1>3. head[4] <= offset
  BY <1>1, <1>2, HeadsOrdered
<1>4. Len(audit) = head[4] /\ offset \in Nat /\ N \in Nat
  BY <1>1, ConfigAssumption DEF Flow, AuditFlow, TypeOK
<1> QED
  BY <1>2, <1>3, <1>4

LEMMA VerdictKept ==
  ASSUME IInv, [Next]_vars, replay_checked
  PROVE  UNCHANGED <<replay_match, divergences, external_effects_disabled>>
<1> DEFINE Kept == UNCHANGED <<replay_match, divergences, external_effects_disabled>>
<1>1. TypeOK /\ Flow /\ VerdictInv
  BY DEF IInv
<1>2. pc["tkrepl"] \in {"abort2", "done"}
  BY <1>1 DEF VerdictInv
<1>3. \A t \in Lines : PushClosed(t) \/ PushRoom(t) \/ PushFull(t) \/ Close(t) => Kept
  BY Zenon DEF PushClosed, PushRoom, PushFull, Close, replay
<1>4. \A t \in Poppers : PopEmpty(t) \/ PopRetry(t) => Kept
  BY Zenon DEF PopEmpty, PopRetry, replay
<1>5. \A c \in Callers : RequestStop(c) => Kept
  BY DEF RequestStop, replay
<1>6. IngestLoop \/ IngestCrash \/ IngestStopped \/ IngestCount => Kept
  BY Zenon DEF IngestLoop, IngestCrash, IngestStopped, IngestCount, replay
<1>7. NormalizeTake \/ DedupeTake \/ PolicyTake \/ AuditTake \/ AuditFinish => Kept
  BY Zenon DEF NormalizeTake, DedupeTake, PolicyTake, AuditTake, AuditFinish, replay
<1>8. ~(ReplayWait \/ ReplayUnfinished \/ ReplayCompare \/ ReplayPublish)
  BY Zenon, <1>2 DEF ReplayWait, ReplayUnfinished, ReplayCompare, ReplayPublish
<1>9. ReplayAbort => Kept
  <2>1. pc["tkrepl"] = "abort2" => replay_match = FALSE
    BY <1>1 DEF VerdictInv, TypeOK
  <2> QED
    BY Zenon, <1>2, <2>1 DEF ReplayAbort
<1>10. \A t \in Observers : Snapshot(t) => Kept
  BY DEF Snapshot, replay
<1>11. SupervisorStop => Kept
  BY DEF SupervisorStop, replay
<1>12. UNCHANGED vars => Kept
  BY DEF vars
<1> HIDE DEF Kept
<1>13. Kept
  BY Steps, <1>3, <1>4, <1>5, <1>6, <1>7, <1>8, <1>9, <1>10, <1>11, <1>12, Zenon
<1> QED
  BY <1>13 DEF Kept

\* A run that nobody stopped drains from the front: once tkaudt is done, so
\* is every tile before it.
LEMMA Drained ==
  ASSUME IInv, ~stop, audit_done
  PROVE  pc["tkaudt"] = "done" /\ \A t \in Lines : pc[t] = "done"
<1>1. pc["tkaudt"] = "done"
  BY DEF IInv, VerdictInv
<1>2. ASSUME NEW t \in Poppers, NEW u \in Lines, In[t] = Out[u], pc[t] = "done"
      PROVE  pc[u] = "done"
  <2>1. closed[In[t]]
    BY <1>2 DEF IInv, StopInv, Leaving
  <2> QED
    BY <1>2, <2>1 DEF IInv, StopInv
<1>3. pc["tkpoly"] = "done"
  BY <1>1, <1>2, Line DEF Poppers, Lines
<1>4. pc["tkdedu"] = "done"
  BY <1>2, <1>3, Line DEF Poppers, Lines
<1>5. pc["tknorm"] = "done"
  BY <1>2, <1>4, Line DEF Poppers, Lines
<1>6. pc["tkings"] = "done"
  BY <1>2, <1>5, Line DEF Poppers, Lines
<1> QED
  BY <1>1, <1>3, <1>4, <1>5, <1>6 DEF Lines

\* An observer that is done before any stop has seen the end of the run.
LEMMA ObserverDrained ==
  ASSUME IInv, ~stop, NEW t \in Observers, pc[t] = "done"
  PROVE  pc["tkaudt"] = "done" /\ \A u \in Lines : pc[u] = "done"
<1>1. replay_checked
  BY DEF IInv, ObservedInv
<1>2. audit_done
  BY <1>1 DEF IInv, VerdictInv
<1> QED
  BY <1>2, Drained

\* The steps that move a counter or record a crash
LEMMA CountingSteps ==
  ASSUME [Next]_vars
  PROVE  \/ UNCHANGED <<counters, crashed_tile>>
         \/ pc["tkings"] \in {"crash", "count"} /\ (IngestCrash \/ IngestCount)
         \/ \E t \in Poppers : Take(t) /\ (NormalizeTake \/ DedupeTake \/ PolicyTake
                                             \/ AuditTake)
<1> DEFINE Kept == UNCHANGED <<counters, crashed_tile>>
<1>1. \A t \in Lines : PushClosed(t) \/ PushRoom(t) \/ PushFull(t) \/ Close(t) => Kept
  BY Zenon DEF PushClosed, PushRoom, PushFull, Close
<1>2. \A t \in Poppers : PopEmpty(t) \/ PopRetry(t) => Kept
  BY DEF PopEmpty, PopRetry
<1>3. \A c \in Callers : RequestStop(c) => Kept
  BY DEF RequestStop
<1>4. IngestLoop \/ IngestStopped \/ AuditFinish \/ SupervisorStop => Kept
  BY DEF IngestLoop, IngestStopped, AuditFinish, SupervisorStop
<1>5. ReplayWait \/ ReplayUnfinished \/ ReplayAbort \/ ReplayCompare \/ ReplayPublish => Kept
  BY DEF ReplayWait, ReplayUnfinished, ReplayAbort, ReplayCompare, ReplayPublish
<1>6. \A t \in Observers : Snapshot(t) => Kept
  BY DEF Snapshot
<1>7. UNCHANGED vars => Kept
  BY DEF vars
<1>8. IngestCrash \/ IngestCount => pc["tkings"] \in {"crash", "count"}
  BY DEF IngestCrash, IngestCount
<1>9. NormalizeTake \/ DedupeTake \/ PolicyTake \/ AuditTake => \E t \in Poppers : Take(t)
  BY DEF NormalizeTake, DedupeTake, PolicyTake, AuditTake, Poppers
<1> HIDE DEF Kept
<1>10. \/ Kept \/ IngestCrash \/ IngestCount \/ NormalizeTake \/ DedupeTake \/ PolicyTake
       \/ AuditTake
  BY Steps, <1>1, <1>2, <1>3, <1>4, <1>5, <1>6, <1>7, Zenon
<1> QED
  BY <1>8, <1>9, <1>10, Zenon DEF Kept

LEMMA MetricsKept ==
  ASSUME "tkmetr" \in Observers, IInv, [Next]_vars, pc["tkmetr"] = "done", ~stop
  PROVE  counters' = counters
<1>1. pc["tkaudt"] = "done" /\ \A u \in Lines : pc[u] = "done"
  BY ObserverDrained
<1>2. pc["tkings"] \notin {"crash", "count"}
  BY <1>1 DEF Lines
<1>3. \A t \in Poppers : ~Take(t)
  BY <1>1 DEF Take, Poppers, Lines
<1> QED
  BY <1>2, <1>3, CountingSteps

LEMMA DiagKept ==
  ASSUME "tkdiag" \in Observers, IInv, [Next]_vars, pc["tkdiag"] = "done",
         stopping["supervisor"] = 0
  PROVE  crashed_tile' = crashed_tile
<1>1. TypeOK /\ Flow /\ CrashInv /\ StopInv
  BY DEF IInv
<1>2. pc["tkings"] # "crash"
  <2>1. CASE ~stop
    <3>1. pc["tkings"] = "done"
      BY <2>1, ObserverDrained DEF Lines
    <3> QED
      BY <3>1
  <2>2. CASE stop
    <3>1. PICK c \in Callers : stopping[c] > 1
      BY <1>1, <2>2 DEF StopInv
    <3>2. c = "tkings"
      BY <1>1, <3>1 DEF CrashInv, Callers
    <3>3. stopping[c] \in 0..6
      BY <1>1 DEF TypeOK, StopDone
    <3>4. stopping["tkings"] > 0
      BY <3>1, <3>2, <3>3
    <3> QED
      BY <1>1, <3>4 DEF CrashInv, Leaving
  <2> QED
    BY <2>1, <2>2
<1>3. ~IngestCrash
  BY <1>2 DEF IngestCrash
<1>4. IngestCount \/ NormalizeTake \/ DedupeTake \/ PolicyTake => UNCHANGED crashed_tile
  BY DEF IngestCount, NormalizeTake, DedupeTake, PolicyTake
<1>5. AuditTake => UNCHANGED crashed_tile
  BY <1>1, AuditAppends
<1> QED
  BY <1>3, <1>4, <1>5, CountingSteps

-----------------------------------------------------------------------------
(* The theorems *)

INSTANCE FiniteSetTheorems

LEMMA CountSequenceNumbers == Counting
<1>1. IsFiniteSet(0..(N - 1))
  BY FS_Interval, ConfigAssumption
<1>2. \A D \in SUBSET (0..(N - 1)) : Cardinality(D) \in Nat
  BY Zenon, <1>1, FS_Subset, FS_CardinalityType
<1> QED
  BY <1>2, FS_EmptySet DEF Counting

\* The inductive invariant holds in every reachable state: the messages in
\* the queues, tkdedu's table, the audit log and the counters are functions
\* of the configuration and of how far each tile has come.
THEOREM Invariance == Spec => []IInv
<1>1. Init => IInv
  BY IInvInit, CountSequenceNumbers
<1>2. IInv /\ [Next]_vars => IInv'
  BY TypeStep, FlowStep, CrashStep, StopStep, VerdictStep, ObservedStep DEF IInv
<1> QED
  BY <1>1, <1>2, PTL DEF Spec

\* Every variable has its type, and requestStop makes its five stores and no
\* more, for every configuration.
THEOREM PipelineTypes == Spec => []TypeOK
BY Invariance, PTL DEF IInv

\* Whatever the interleaving, a crash or a stop, the audit log is a prefix
\* of the decisions that the configuration determines.
THEOREM PipelineAuditPrefix == Spec => []AuditPrefix
<1>1. IInv => AuditPrefix
  BY DEF IInv, Flow, AuditFlow
<1> QED
  BY <1>1, Invariance, PTL

\* tkdedu's table and the audit log, both sized by event_count, are never
\* written past their end, and tkaudt never meets AuditFull.
THEOREM PipelineTablesFit == Spec => []TablesFit
BY TablesFitInv, Invariance, PTL

\* A snapshot of the counters never shows a stage ahead of the one before it
\* by more than the one message tkings has pushed and not yet counted.
THEOREM PipelineCounters == Spec => []CountersOrdered
BY CountersInv, Invariance, PTL

\* A replay match vouches for the whole run: all event_count records, no
\* crash.
THEOREM PipelineMatch == Spec => []MatchMeansComplete
<1>1. IInv => MatchMeansComplete
  BY CrashCutsShort DEF IInv, VerdictInv, MatchMeansComplete
<1> QED
  BY <1>1, Invariance, PTL

\* tkrepl never denies the match to a complete run.
THEOREM PipelineCompleteMatches == Spec => []CompleteMatches
<1>1. IInv => CompleteMatches
  BY DEF IInv, VerdictInv, CompleteMatches
<1> QED
  BY <1>1, Invariance, PTL

\* Once replay_checked is up the verdict, its divergence count and the mark
\* that external effects were off never change again, on the abort path too.
THEOREM PipelineVerdictFinal == Spec => VerdictFinal
BY VerdictKept, Invariance, PTL DEF Spec, VerdictFinal

\* tkmetr's last snapshot of a run that nobody stopped shows the final
\* counters.  The tile has to be there.
THEOREM PipelineLastMetrics ==
  ASSUME "tkmetr" \in Observers
  PROVE  Spec => LastMetricsFinal
BY MetricsKept, Invariance, PTL DEF Spec, LastMetricsFinal

\* tkdiag's last snapshot of a run the supervisor did not stop shows the
\* crash that ended it, if one did.
THEOREM PipelineLastDiag ==
  ASSUME "tkdiag" \in Observers
  PROVE  Spec => LastDiagShowsCrash
BY DiagKept, Invariance, PTL DEF Spec, LastDiagShowsCrash
=============================================================================
