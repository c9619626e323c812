-------------------------- MODULE PaymentPipeline ---------------------------
(***************************************************************************)
(* The thread-mode payment pipeline (tiles/payment_pipeline): eight tile   *)
(* threads over one PaymentPipelineState.  Five of them form a line,       *)
(*   tkings -> tknorm -> tkdedu -> tkpoly -> tkaudt,                       *)
(* joined by four bounded queues; tkrepl recomputes what the audit log     *)
(* should hold; tkmetr and tkdiag take snapshots until the run is over.    *)
(* A crash of tkings, or the supervisor at any time, calls requestStop.    *)
(*                                                                         *)
(* A queue is the log of all messages it accepted with the consumer's head *)
(* (BoundedQueue shows its ring to be such a channel).  push and pop keep  *)
(* the order of their loads: closed, then room, then stop; the tail, then  *)
(* closed.  closed and stop are never reset, so pop's last two loads are   *)
(* one step.  The event hash is taken to be free of collisions.            *)
(***************************************************************************)
EXTENDS Integers, Sequences, FiniteSets

CONSTANTS
  N,                 \* config.event_count
  Capacity,          \* config.queue_depth
  Limit,             \* config.policy_limit_cents
  InjectDuplicate, InjectMalformed,
  FailAt,            \* config.sandbox_fail_at; null is any value from N on
  MayStop,           \* whether Supervisor.stop may be called during the run
  Observers          \* the snapshot tiles that run; no other tile reads what they write

ASSUME ConfigAssumption ==
  /\ N \in Nat
  /\ Capacity \in Nat \ {0}
  /\ Limit \in Int
  /\ InjectDuplicate \in BOOLEAN /\ InjectMalformed \in BOOLEAN
  /\ FailAt \in Nat
  /\ MayStop \in BOOLEAN
  /\ Observers \subseteq {"tkmetr", "tkdiag"}

-----------------------------------------------------------------------------
(* Messages *)

CanonicalOffset(offset) == IF InjectDuplicate /\ offset = 3 THEN 1 ELSE offset

MalformedOffset == IF N = 0 THEN 0 ELSE IF N <= 5 THEN N - 1 ELSE 5

syntheticPayment(offset) ==
  [source_offset |-> offset,
   idempotency_key |-> 10000 + CanonicalOffset(offset),
   account_id |-> 42 + (CanonicalOffset(offset) % 17),
   amount_cents |-> IF offset = 7 THEN Limit + 1 ELSE 1000 + CanonicalOffset(offset),
   currency |-> "USD",
   malformed |-> InjectMalformed /\ offset = MalformedOffset]

stableEventHash(raw) ==
  <<raw.idempotency_key, raw.account_id, raw.amount_cents, raw.currency>>

validFraming(raw) ==
  /\ ~raw.malformed
  /\ raw.currency = "USD"
  /\ raw.amount_cents > 0

\* What tkings pushes: a PaymentMessage with its field defaults
Ingested(offset) ==
  [raw |-> syntheticPayment(offset), event_hash |-> <<>>, pipeline_hops |-> 1,
   duplicate |-> FALSE, decision |-> "allow", decided_by |-> "tkpoly"]

\* The three stages' work on one message.  tkdedu's depends on its table.
Normalize(msg) ==
  LET hashed == [msg EXCEPT !.pipeline_hops = @ + 1,
                            !.event_hash = stableEventHash(msg.raw)]
  IN IF validFraming(msg.raw)
       THEN hashed
       ELSE [hashed EXCEPT !.decision = "malformed_drop", !.decided_by = "tknorm"]

Mark(msg, duplicate) ==
  [msg EXCEPT !.pipeline_hops = @ + 1, !.duplicate = duplicate]

\* Wrong variant: the limit is looked at before the duplicate mark.
DecideLimitFirst(msg) ==
  LET hop == [msg EXCEPT !.pipeline_hops = @ + 1]
  IN IF msg.decision = "malformed_drop"
       THEN hop
       ELSE [hop EXCEPT
               !.decided_by = "tkpoly",
               !.decision = IF msg.raw.amount_cents > Limit THEN "deny"
                            ELSE IF msg.duplicate THEN "duplicate_drop"
                            ELSE "allow"]

Decide(msg) ==
  LET hop == [msg EXCEPT !.pipeline_hops = @ + 1]
  IN IF msg.decision = "malformed_drop"
       THEN hop
       ELSE [hop EXCEPT
               !.decided_by = "tkpoly",
               !.decision = IF msg.duplicate THEN "duplicate_drop"
                            ELSE IF msg.raw.amount_cents > Limit THEN "deny"
                            ELSE "allow"]

\* The audit record of a message; prev_hash chains it to the records before
\* it and is left to Divergent, below.
Record(seq, raw, event_hash, decision, decided_by) ==
  [seq |-> seq, source_offset |-> raw.source_offset, event_hash |-> event_hash,
   decision |-> decision, tile_id |-> decided_by]

-----------------------------------------------------------------------------
(* The replay reference: what tkrepl expects, from the configuration alone *)

replayDuplicate(offset, key, hash) ==
  \E prior \in 0..(offset - 1) :
    LET raw == syntheticPayment(prior)
    IN /\ validFraming(raw)
       /\ raw.idempotency_key = key
       /\ stableEventHash(raw) = hash

Expected(seq) ==
  LET raw == syntheticPayment(seq)
      hash == stableEventHash(raw)
      decision == IF ~validFraming(raw) THEN "malformed_drop"
                  ELSE IF replayDuplicate(seq, raw.idempotency_key, hash)
                         THEN "duplicate_drop"
                  ELSE IF raw.amount_cents > Limit THEN "deny"
                  ELSE "allow"
  IN Record(seq, raw, hash, decision,
            IF validFraming(raw) THEN "tkpoly" ELSE "tknorm")

-----------------------------------------------------------------------------
Queues == 1..4
Lines == {"tkings", "tknorm", "tkdedu", "tkpoly"}   \* threads that push
Poppers == {"tknorm", "tkdedu", "tkpoly", "tkaudt"}
Threads == Lines \cup {"tkaudt", "tkrepl"} \cup Observers

\* The queue a thread pushes to and the queue it pops from
Out == [t \in Lines |-> CASE t = "tkings" -> 1 [] t = "tknorm" -> 2
                          [] t = "tkdedu" -> 3 [] t = "tkpoly" -> 4]
In == [t \in Poppers |-> CASE t = "tknorm" -> 1 [] t = "tkdedu" -> 2
                           [] t = "tkpoly" -> 3 [] t = "tkaudt" -> 4]

\* Who may call requestStop, and how far each call has come: 0 not called,
\* then one store each for stop and the four queues.
Callers == {"tkings", "tkaudt", "supervisor"}
StopDone == 6

NoCrash == "none"

VARIABLES
  log, head, closed,         \* the four queues
  stop, crashed_tile, stopping,
  pc, offset, held,          \* threads: place, tkings' counter, message in hand
  seen,                      \* tkdedu's table of keys and hashes
  audit, audit_done,
  external_effects_disabled, divergences, replay_match, replay_checked,
  counters                   \* produced, normalized, ..., audited

queues == <<log, head, closed>>
replay == <<external_effects_disabled, divergences, replay_match, replay_checked>>
vars == <<pc, stopping, head, log, closed, stop, crashed_tile, offset, held, seen,
          audit, audit_done, external_effects_disabled, divergences, replay_match,
          replay_checked, counters>>

Init ==
  /\ log = [q \in Queues |-> <<>>]
  /\ head = [q \in Queues |-> 0]
  /\ closed = [q \in Queues |-> FALSE]
  /\ stop = FALSE /\ crashed_tile = NoCrash
  /\ stopping = [c \in Callers |-> 0]
  /\ pc = [t \in Threads |-> IF t = "tkings" THEN "loop"
                             ELSE IF t \in Poppers THEN "pop" ELSE "poll"]
  /\ offset = 0
  /\ held = [t \in Lines |-> Ingested(0)]
  /\ seen = <<>>
  /\ audit = <<>> /\ audit_done = FALSE
  /\ external_effects_disabled = FALSE /\ divergences = 0
  /\ replay_match = FALSE /\ replay_checked = FALSE
  /\ counters = [produced |-> 0, normalized |-> 0, invalid |-> 0, duplicates |-> 0,
                 allowed |-> 0, denied |-> 0, audited |-> 0, sandbox_failures |-> 0]

-----------------------------------------------------------------------------
(* Moves shared by the threads *)

Goto(t, place) == pc' = [pc EXCEPT ![t] = place]

\* push, first load: a closed queue refuses
PushClosed(t) ==
  /\ t \in Lines /\ pc[t] = "push"
  /\ Goto(t, IF closed[Out[t]] THEN "close" ELSE "room")
  /\ UNCHANGED <<queues, stop, crashed_tile, stopping, offset, held, seen, audit,
                 audit_done, replay, counters>>

\* Wrong variant: a full queue drops the message.
PushRoomDrops(t) ==
  /\ t \in Lines /\ pc[t] = "room"
  /\ log' = IF Len(log[Out[t]]) - head[Out[t]] < Capacity
              THEN [log EXCEPT ![Out[t]] = Append(@, held[t])]
              ELSE log
  /\ Goto(t, IF t = "tkings" THEN "count" ELSE "pop")
  /\ UNCHANGED <<head, closed, stop, crashed_tile, stopping, offset, held, seen,
                 audit, audit_done, replay, counters>>

\* push, second load: publish when there is room
PushRoom(t) ==
  /\ t \in Lines /\ pc[t] = "room"
  /\ IF Len(log[Out[t]]) - head[Out[t]] < Capacity
       THEN /\ log' = [log EXCEPT ![Out[t]] = Append(@, held[t])]
            /\ Goto(t, IF t = "tkings" THEN "count" ELSE "pop")
       ELSE /\ Goto(t, "full")
            /\ UNCHANGED log
  /\ UNCHANGED <<head, closed, stop, crashed_tile, stopping, offset, held, seen,
                 audit, audit_done, replay, counters>>

\* Wrong variant: a full queue is waited on without another look at closed
\* or stop.
PushFullDeaf(t) ==
  /\ t \in Lines /\ pc[t] = "full"
  /\ Goto(t, "room")
  /\ UNCHANGED <<queues, stop, crashed_tile, stopping, offset, held, seen, audit,
                 audit_done, replay, counters>>

\* push, third load: a full queue is retried unless stop is up
PushFull(t) ==
  /\ t \in Lines /\ pc[t] = "full"
  /\ Goto(t, IF stop THEN "close" ELSE "push")
  /\ UNCHANGED <<queues, stop, crashed_tile, stopping, offset, held, seen, audit,
                 audit_done, replay, counters>>

\* defer queue.close()
Close(t) ==
  /\ t \in Lines /\ pc[t] = "close"
  /\ closed' = [closed EXCEPT ![Out[t]] = TRUE]
  /\ Goto(t, "done")
  /\ UNCHANGED <<log, head, stop, crashed_tile, stopping, offset, held, seen, audit,
                 audit_done, replay, counters>>

\* pop, first load: nothing between head and tail
PopEmpty(t) ==
  /\ t \in Poppers /\ pc[t] = "pop"
  /\ head[In[t]] = Len(log[In[t]])
  /\ Goto(t, "empty")
  /\ UNCHANGED <<queues, stop, crashed_tile, stopping, offset, held, seen, audit,
                 audit_done, replay, counters>>

\* Wrong variant: a closed queue is waited on like an open one.
PopRetryForever(t) ==
  /\ t \in Poppers /\ pc[t] = "empty"
  /\ Goto(t, IF stop THEN "close" ELSE "pop")
  /\ UNCHANGED <<queues, stop, crashed_tile, stopping, offset, held, seen, audit,
                 audit_done, replay, counters>>

\* pop, then closed, then stop: null ends the stage's loop
PopRetry(t) ==
  /\ t \in Poppers /\ pc[t] = "empty"
  /\ Goto(t, IF closed[In[t]] \/ stop THEN "close" ELSE "pop")
  /\ UNCHANGED <<queues, stop, crashed_tile, stopping, offset, held, seen, audit,
                 audit_done, replay, counters>>

\* pop returns the front message and releases its slot
Front(t) == log[In[t]][head[In[t]] + 1]

Take(t) ==
  /\ pc[t] = "pop"
  /\ head[In[t]] < Len(log[In[t]])
  /\ head' = [head EXCEPT ![In[t]] = @ + 1]
  /\ UNCHANGED <<log, closed>>

\* Wrong variant: one store too many.
RequestStopBeyond(c) ==
  /\ stopping[c] \in 1..StopDone
  /\ stopping' = [stopping EXCEPT ![c] = @ + 1]
  /\ IF stopping[c] = 1
       THEN stop' = TRUE /\ UNCHANGED closed
       ELSE closed' = [closed EXCEPT ![stopping[c] - 1] = TRUE] /\ UNCHANGED stop
  /\ UNCHANGED <<log, head, crashed_tile, pc, offset, held, seen, audit, audit_done,
                 replay, counters>>

\* requestStop: one store at a time
RequestStop(c) ==
  /\ stopping[c] \in 1..(StopDone - 1)
  /\ stopping' = [stopping EXCEPT ![c] = @ + 1]
  /\ IF stopping[c] = 1
       THEN stop' = TRUE /\ UNCHANGED closed
       ELSE closed' = [closed EXCEPT ![stopping[c] - 1] = TRUE] /\ UNCHANGED stop
  /\ UNCHANGED <<log, head, crashed_tile, pc, offset, held, seen, audit, audit_done,
                 replay, counters>>

-----------------------------------------------------------------------------
(* tkings *)

\* Wrong variant: one event more than event_count.
IngestLoopBeyond ==
  /\ pc["tkings"] = "loop"
  /\ IF offset > N \/ stop
       THEN Goto("tkings", "close") /\ UNCHANGED held
       ELSE Goto("tkings", "push")
            /\ held' = [held EXCEPT !["tkings"] = Ingested(offset)]
  /\ UNCHANGED <<queues, stop, crashed_tile, stopping, offset, seen, audit, audit_done,
                 replay, counters>>

IngestLoop ==
  /\ pc["tkings"] = "loop"
  /\ IF offset = N \/ stop
       THEN Goto("tkings", "close") /\ UNCHANGED held
     ELSE IF offset = FailAt
       THEN Goto("tkings", "crash") /\ UNCHANGED held
     ELSE Goto("tkings", "push") /\ held' = [held EXCEPT !["tkings"] = Ingested(offset)]
  /\ UNCHANGED <<queues, stop, crashed_tile, stopping, offset, seen, audit, audit_done,
                 replay, counters>>

\* Wrong variant: the topology is stopped first, then the failure recorded.
IngestCrashLate ==
  /\ pc["tkings"] = "crash"
  /\ \/ /\ stopping["tkings"] = 0
        /\ stopping' = [stopping EXCEPT !["tkings"] = 1]
        /\ UNCHANGED <<counters, crashed_tile, pc>>
     \/ /\ stopping["tkings"] = StopDone
        /\ counters' = [counters EXCEPT !.sandbox_failures = @ + 1]
        /\ crashed_tile' = "tkings"
        /\ Goto("tkings", "stopping")
        /\ UNCHANGED stopping
  /\ UNCHANGED <<queues, stop, offset, held, seen, audit, audit_done, replay>>

\* The sandbox failure is recorded first, then the topology is stopped.
IngestCrash ==
  /\ pc["tkings"] = "crash"
  /\ counters' = [counters EXCEPT !.sandbox_failures = @ + 1]
  /\ crashed_tile' = "tkings"
  /\ stopping' = [stopping EXCEPT !["tkings"] = 1]
  /\ Goto("tkings", "stopping")
  /\ UNCHANGED <<queues, stop, offset, held, seen, audit, audit_done, replay>>

IngestStopped ==
  /\ pc["tkings"] = "stopping" /\ stopping["tkings"] = StopDone
  /\ Goto("tkings", "close")
  /\ UNCHANGED <<queues, stop, crashed_tile, stopping, offset, held, seen, audit,
                 audit_done, replay, counters>>

IngestCount ==
  /\ pc["tkings"] = "count"
  /\ counters' = [counters EXCEPT !.produced = @ + 1]
  /\ offset' = offset + 1
  /\ Goto("tkings", "loop")
  /\ UNCHANGED <<queues, stop, crashed_tile, stopping, held, seen, audit, audit_done,
                 replay>>

-----------------------------------------------------------------------------
(* tknorm, tkdedu, tkpoly: take a message, work on it, push it on *)

\* Wrong variant: the malformed branch falls through and counts twice.
NormalizeFallsThrough ==
  /\ Take("tknorm")
  /\ LET msg == Front("tknorm") IN
       /\ held' = [held EXCEPT !["tknorm"] = Normalize(msg)]
       /\ counters' = IF validFraming(msg.raw)
                        THEN [counters EXCEPT !.normalized = @ + 1]
                        ELSE [counters EXCEPT !.invalid = @ + 1, !.normalized = @ + 1]
  /\ Goto("tknorm", "push")
  /\ UNCHANGED <<stop, crashed_tile, stopping, offset, seen, audit, audit_done, replay>>

NormalizeTake ==
  /\ Take("tknorm")
  /\ LET msg == Front("tknorm") IN
       /\ held' = [held EXCEPT !["tknorm"] = Normalize(msg)]
       /\ counters' = IF validFraming(msg.raw)
                        THEN [counters EXCEPT !.normalized = @ + 1]
                        ELSE [counters EXCEPT !.invalid = @ + 1]
  /\ Goto("tknorm", "push")
  /\ UNCHANGED <<stop, crashed_tile, stopping, offset, seen, audit, audit_done, replay>>

\* seenOrRemember looks through the whole table and appends what is new;
\* messages that tknorm rejected are not looked up.
Seen(msg) == \E k \in 1..Len(seen) : seen[k] = <<msg.raw.idempotency_key, msg.event_hash>>

DedupeTake ==
  /\ Take("tkdedu")
  /\ LET msg == Front("tkdedu")
         fresh == msg.decision # "malformed_drop" /\ ~Seen(msg)
         duplicate == msg.decision # "malformed_drop" /\ Seen(msg)
     IN /\ seen' = IF fresh
                     THEN Append(seen, <<msg.raw.idempotency_key, msg.event_hash>>)
                     ELSE seen
        /\ held' = [held EXCEPT !["tkdedu"] = Mark(msg, duplicate)]
        /\ counters' = IF duplicate
                         THEN [counters EXCEPT !.duplicates = @ + 1]
                         ELSE counters
  /\ Goto("tkdedu", "push")
  /\ UNCHANGED <<stop, crashed_tile, stopping, offset, audit, audit_done, replay>>

PolicyTake ==
  /\ Take("tkpoly")
  /\ LET msg == Front("tkpoly") IN
       /\ held' = [held EXCEPT !["tkpoly"] = Decide(msg)]
       /\ counters' = CASE Decide(msg).decision = "deny" ->
                             [counters EXCEPT !.denied = @ + 1]
                        [] Decide(msg).decision = "allow" ->
                             [counters EXCEPT !.allowed = @ + 1]
                        [] OTHER -> counters
  /\ Goto("tkpoly", "push")
  /\ UNCHANGED <<stop, crashed_tile, stopping, offset, seen, audit, audit_done, replay>>

-----------------------------------------------------------------------------
(* tkaudt *)

\* AuditLog.append refuses a record beyond its capacity, event_count.
AuditTake ==
  /\ Take("tkaudt")
  /\ LET msg == Front("tkaudt")
         full == Len(audit) >= N
     IN IF full
          THEN /\ crashed_tile' = "tkaudt"
               /\ stopping' = [stopping EXCEPT !["tkaudt"] = 1]
               /\ Goto("tkaudt", "stopping")
               /\ UNCHANGED <<audit, counters>>
          ELSE /\ audit' = Append(audit, Record(Len(audit), msg.raw, msg.event_hash,
                                                msg.decision, msg.decided_by))
               /\ counters' = [counters EXCEPT !.audited = @ + 1]
               /\ UNCHANGED <<crashed_tile, stopping, pc>>
  /\ UNCHANGED <<stop, offset, held, seen, audit_done, replay>>

AuditFinish ==
  /\ \/ pc["tkaudt"] = "close"
     \/ pc["tkaudt"] = "stopping" /\ stopping["tkaudt"] = StopDone
  /\ audit_done' = TRUE
  /\ Goto("tkaudt", "done")
  /\ UNCHANGED <<queues, stop, crashed_tile, stopping, offset, held, seen, audit, replay,
                 counters>>

-----------------------------------------------------------------------------
(* tkrepl *)

\* Wrong variant: tkrepl does not wait for tkaudt.
ReplayWaitNot ==
  /\ pc["tkrepl"] = "poll"
  /\ Goto("tkrepl", "compare")
  /\ UNCHANGED <<queues, stop, crashed_tile, stopping, offset, held, seen, audit,
                 audit_done, replay, counters>>

\* One round of the wait: is the log complete ...
ReplayWait ==
  /\ pc["tkrepl"] = "poll"
  /\ Goto("tkrepl", IF audit_done THEN "compare" ELSE "unfinished")
  /\ UNCHANGED <<queues, stop, crashed_tile, stopping, offset, held, seen, audit,
                 audit_done, replay, counters>>

\* ... or has a crash stopped the run?  Neither word is ever reset, so the
\* two loads are one step.
ReplayUnfinished ==
  /\ pc["tkrepl"] = "unfinished"
  /\ Goto("tkrepl", IF stop /\ crashed_tile # NoCrash THEN "abort" ELSE "poll")
  /\ UNCHANGED <<queues, stop, crashed_tile, stopping, offset, held, seen, audit,
                 audit_done, replay, counters>>

\* Wrong variant: the abort path does not return.
ReplayAbortGoesOn ==
  /\ \/ /\ pc["tkrepl"] = "abort"
        /\ replay_checked' = TRUE
        /\ Goto("tkrepl", "abort2")
        /\ UNCHANGED replay_match
     \/ /\ pc["tkrepl"] = "abort2"
        /\ replay_match' = FALSE
        /\ Goto("tkrepl", "poll")
        /\ UNCHANGED replay_checked
  /\ UNCHANGED <<queues, stop, crashed_tile, stopping, offset, held, seen, audit,
                 audit_done, external_effects_disabled, divergences, counters>>

\* The abort path stores replay_checked first.
ReplayAbort ==
  /\ \/ /\ pc["tkrepl"] = "abort"
        /\ replay_checked' = TRUE
        /\ Goto("tkrepl", "abort2")
        /\ UNCHANGED replay_match
     \/ /\ pc["tkrepl"] = "abort2"
        /\ replay_match' = FALSE
        /\ Goto("tkrepl", "done")
        /\ UNCHANGED replay_checked
  /\ UNCHANGED <<queues, stop, crashed_tile, stopping, offset, held, seen, audit,
                 audit_done, external_effects_disabled, divergences, counters>>

\* A record differs from the expected one in its own fields or, through
\* prev_hash, because an earlier record did.
Divergent(seq) ==
  \/ seq >= Len(audit)
  \/ \E k \in 0..seq : audit[k + 1] # Expected(k)

\* Wrong variants: only the records that are there are compared; the loop
\* runs one event too far.
DivergencesOfPrefix ==
  Cardinality({seq \in 0..(Len(audit) - 1) : Divergent(seq)})

DivergencesBeyond ==
  Cardinality({seq \in 0..N : Divergent(seq)})
    + (IF N > Len(audit) THEN N - Len(audit) ELSE Len(audit) - N)

\* A missing record is counted once in the loop and once more by the length.
deterministicReplayDivergences ==
  Cardinality({seq \in 0..(N - 1) : Divergent(seq)})
    + (IF N > Len(audit) THEN N - Len(audit) ELSE Len(audit) - N)

ReplayCompare ==
  /\ pc["tkrepl"] = "compare"
  /\ external_effects_disabled' = TRUE
  /\ divergences' = deterministicReplayDivergences
  /\ replay_match' = (divergences' = 0)
  /\ Goto("tkrepl", "publish")
  /\ UNCHANGED <<queues, stop, crashed_tile, stopping, offset, held, seen, audit,
                 audit_done, replay_checked, counters>>

ReplayPublish ==
  /\ pc["tkrepl"] = "publish"
  /\ replay_checked' = TRUE
  /\ Goto("tkrepl", "done")
  /\ UNCHANGED <<queues, stop, crashed_tile, stopping, offset, held, seen, audit,
                 audit_done, external_effects_disabled, divergences, replay_match,
                 counters>>

-----------------------------------------------------------------------------
(* tkmetr and tkdiag: the rounds before the last only count themselves.    *)
(* The last snapshot is taken here as early as it can be.                  *)

Snapshot(t) ==
  /\ t \in Observers /\ pc[t] = "poll"
  /\ replay_checked \/ stop
  /\ Goto(t, "done")
  /\ UNCHANGED <<queues, stop, crashed_tile, stopping, offset, held, seen, audit,
                 audit_done, replay, counters>>

-----------------------------------------------------------------------------
\* Supervisor.stop
SupervisorStop ==
  /\ MayStop /\ stopping["supervisor"] = 0
  /\ stopping' = [stopping EXCEPT !["supervisor"] = 1]
  /\ UNCHANGED <<queues, stop, crashed_tile, pc, offset, held, seen, audit, audit_done,
                 replay, counters>>

Push(t) == PushClosed(t) \/ PushRoom(t) \/ PushFull(t) \/ Close(t)
Pop(t) == PopEmpty(t) \/ PopRetry(t)

Ingest == IngestLoop \/ IngestCrash \/ IngestStopped \/ IngestCount
Audit == AuditTake \/ AuditFinish
Replay == ReplayWait \/ ReplayUnfinished \/ ReplayAbort \/ ReplayCompare \/ ReplayPublish

Thread(t) ==
  \/ Push(t) \/ Pop(t)
  \/ t \in Callers /\ RequestStop(t)
  \/ t = "tkings" /\ Ingest
  \/ t = "tknorm" /\ NormalizeTake
  \/ t = "tkdedu" /\ DedupeTake
  \/ t = "tkpoly" /\ PolicyTake
  \/ t = "tkaudt" /\ Audit
  \/ t = "tkrepl" /\ Replay
  \/ Snapshot(t)

Supervisor == SupervisorStop \/ RequestStop("supervisor")

Next == Supervisor \/ \E t \in Threads : Thread(t)

\* Every tile is an OS thread that never blocks, so each keeps taking the steps
\* of its stage function; a requestStop that has been called runs to its end.
Fairness ==
  /\ WF_vars(RequestStop("tkings") \/ Ingest \/ Push("tkings"))
  /\ WF_vars(NormalizeTake \/ Push("tknorm") \/ Pop("tknorm"))
  /\ WF_vars(DedupeTake \/ Push("tkdedu") \/ Pop("tkdedu"))
  /\ WF_vars(PolicyTake \/ Push("tkpoly") \/ Pop("tkpoly"))
  /\ WF_vars(RequestStop("tkaudt") \/ Audit \/ Pop("tkaudt"))
  /\ WF_vars(Replay)
  /\ \A t \in Observers : WF_vars(Snapshot(t))
  /\ WF_vars(RequestStop("supervisor"))

Spec == Init /\ [][Next]_vars /\ Fairness

-----------------------------------------------------------------------------
(* Properties *)

Hashes == {<<>>} \cup (Int \X Int \X Int \X {"USD"})

RawPayments ==
  [source_offset : Nat, idempotency_key : Int, account_id : Int, amount_cents : Int,
   currency : {"USD"}, malformed : BOOLEAN]

Decisions == {"allow", "deny", "malformed_drop", "duplicate_drop"}

Messages ==
  [raw : RawPayments, event_hash : Hashes, pipeline_hops : Nat, duplicate : BOOLEAN,
   decision : Decisions, decided_by : {"tknorm", "tkpoly"}]

Records ==
  [seq : Nat, source_offset : Nat, event_hash : Hashes, decision : Decisions,
   tile_id : {"tknorm", "tkpoly"}]

Places ==
  {"loop", "crash", "stopping", "count", "push", "room", "full", "close", "pop", "empty",
   "poll", "unfinished", "compare", "publish", "abort", "abort2", "done"}

CounterNames ==
  {"produced", "normalized", "invalid", "duplicates", "allowed", "denied", "audited",
   "sandbox_failures"}

\* Every variable has its type; requestStop makes its five stores and no more.
TypeOK ==
  /\ log \in [Queues -> Seq(Messages)]
  /\ head \in [Queues -> Nat]
  /\ closed \in [Queues -> BOOLEAN]
  /\ stop \in BOOLEAN
  /\ crashed_tile \in {NoCrash, "tkings", "tkaudt"}
  /\ stopping \in [Callers -> 0..StopDone]
  /\ pc \in [Threads -> Places]
  /\ offset \in Nat
  /\ held \in [Lines -> Messages]
  /\ seen \in Seq(Int \X Hashes)
  /\ audit \in Seq(Records)
  /\ audit_done \in BOOLEAN
  /\ external_effects_disabled \in BOOLEAN
  /\ divergences \in Nat
  /\ replay_match \in BOOLEAN /\ replay_checked \in BOOLEAN
  /\ counters \in [CounterNames -> Nat]

AllDone == \A t \in Threads : pc[t] = "done"

\* The audit log is, at every moment and however the run ends, a prefix of
\* the decisions the configuration determines: no record is lost in the
\* middle, repeated, reordered or decided differently.
AuditPrefix == \A k \in 1..Len(audit) : audit[k] = Expected(k - 1)

\* Neither table sized by event_count overflows: seenOrRemember never
\* writes past its end, and the AuditFull crash is never taken.
TablesFit == Len(seen) <= N /\ Len(audit) <= N /\ crashed_tile # "tkaudt"

\* A replay match vouches for a whole run: all N records are there, right,
\* and no tile crashed.
MatchMeansComplete ==
  replay_match => audit_done /\ Len(audit) = N /\ crashed_tile = NoCrash

\* Once every event is audited nothing can spoil the verdict.
CompleteMatches ==
  pc["tkrepl"] = "done" /\ Len(audit) = N /\ crashed_tile = NoCrash => replay_match

\* produced is counted after the push, so a snapshot may see more events
\* normalized than produced, but never by more than one; no later stage
\* gets ahead of the one before it.
CountersOrdered ==
  /\ counters.normalized + counters.invalid <= counters.produced + 1
  /\ counters.audited <= counters.normalized + counters.invalid
  /\ AllDone => counters.normalized + counters.invalid <= counters.produced

\* replay_checked is the flag the other tiles wait for: once it is up, the
\* verdict they read next to it, the count behind it and the mark that
\* external effects were off are final, on the abort path too, which stores
\* the flag before the verdict.
VerdictFinal ==
  [][replay_checked =>
       UNCHANGED <<replay_match, divergences, external_effects_disabled>>]_vars

\* Unless the run was stopped, tkmetr's last snapshot is taken when every
\* counter has its final value.
LastMetricsFinal ==
  [][pc["tkmetr"] = "done" /\ ~stop => counters' = counters]_vars

\* tkdiag's last snapshot shows the crash that ended the run.
LastDiagShowsCrash ==
  [][pc["tkdiag"] = "done" /\ stopping["supervisor"] = 0
       => crashed_tile' = crashed_tile]_vars

\* Supervisor.wait joins every thread: whatever closes or fills up, and also
\* when tkings crashes with messages under way, no tile is left waiting.
AllReturn == <>AllDone

\* "expectEqual(16, audited)" after wait() of a run nobody stopped
CleanRunAuditsAll == AllDone /\ ~stop => Len(audit) = N
=============================================================================
