--------------------------- MODULE TileLifecycle ----------------------------
(***************************************************************************)
(* The life of process-mode tiles and of the supervisor that owns them     *)
(* (app/tickoni/supervisor.zig, runtime/tile_process.zig).  Supervisor and *)
(* tile share one cnc per tile: a signal word and a heartbeat.  Everything *)
(* else the supervisor learns comes from waiting for the child process.    *)
(*                                                                         *)
(* Time is abstracted to what refreshProcessHealth tells apart: a          *)
(* heartbeat younger or older than heartbeat_stale_after_ns.  "boot" is    *)
(* the stamp cnc_new leaves there, taken from the wall clock; the          *)
(* supervisor compares with the monotonic clock, so it never looks old.    *)
(* A tile's work (its pipeline stage) may end at any time, and does end    *)
(* once HALT is up: TangoLink shows that its waits do.                     *)
(***************************************************************************)
EXTENDS Integers, FiniteSets

CONSTANTS
  Tiles,
  StopEarly,   \* may stopProcess be called while a tile is still booting?
  Stuck,       \* tiles with the stuck_tile hook: may block for ever in their work
  Crashing     \* tiles with the crash_after_heartbeats hook

ASSUME HooksAssumption ==
  StopEarly \in BOOLEAN /\ Stuck \subseteq Tiles /\ Crashing \subseteq Tiles

VARIABLES
  proc, exit,          \* the tile process: where it is, how it ended
  sig, heartbeat,      \* its cnc
  handle, because,     \* TileHandle.state and .crashed_because
  child,               \* children[i] is not null
  spc,                 \* where the supervisor is
  stale_before, halted, forced   \* stopProcess's arrays; halted: HALT is written

cnc == <<sig, heartbeat>>
handles == <<handle, because>>
stopVars == <<stale_before, halted, forced>>
vars == <<proc, exit, sig, heartbeat, handle, because, child, spc,
          stale_before, halted, forced>>

Init ==
  /\ proc = [t \in Tiles |-> "none"] /\ exit = [t \in Tiles |-> "none"]
  /\ sig = [t \in Tiles |-> "BOOT"] /\ heartbeat = [t \in Tiles |-> "boot"]
  /\ handle = [t \in Tiles |-> "stopped"] /\ because = [t \in Tiles |-> "none"]
  /\ child = [t \in Tiles |-> FALSE]
  /\ spc = "start"
  /\ stale_before = [t \in Tiles |-> FALSE]
  /\ halted = [t \in Tiles |-> FALSE]
  /\ forced = [t \in Tiles |-> FALSE]

Alive(t) == proc[t] \notin {"none", "exited"}

\* The processes in dying end the way how says; the others keep their state.
End(dying, how) ==
  /\ proc' = [t \in Tiles |-> IF t \in dying THEN "exited" ELSE proc[t]]
  /\ exit' = [t \in Tiles |-> IF t \in dying THEN how ELSE exit[t]]

-----------------------------------------------------------------------------
(* The tile process *)

\* tk_tile_privileged_init, in three accesses to the cnc: heartbeat, query,
\* and the signal that the query decided on.
Join(t) ==
  /\ proc[t] = "boot"
  /\ heartbeat' = [heartbeat EXCEPT ![t] = "fresh"]
  /\ proc' = [proc EXCEPT ![t] = "joined"]
  /\ UNCHANGED <<exit, sig, handles, child, spc, stopVars>>

QuerySignal(t) ==
  /\ proc[t] = "joined"
  /\ proc' = [proc EXCEPT ![t] = IF sig[t] = "HALT" THEN "work" ELSE "checked"]
  /\ UNCHANGED <<exit, cnc, handles, child, spc, stopVars>>

SignalRun(t) ==
  /\ proc[t] = "checked"
  /\ sig' = [sig EXCEPT ![t] = "RUN"]
  /\ proc' = [proc EXCEPT ![t] = "work"]
  /\ UNCHANGED <<exit, heartbeat, handles, child, spc, stopVars>>

\* Waits inside the work heartbeat; a busy stage does not.
WorkBeat(t) ==
  /\ proc[t] = "work"
  /\ heartbeat' = [heartbeat EXCEPT ![t] = "fresh"]
  /\ UNCHANGED <<proc, exit, sig, handles, child, spc, stopVars>>

WorkReturns(t) ==
  /\ proc[t] = "work"
  /\ proc' = [proc EXCEPT ![t] = "loop"]
  /\ UNCHANGED <<exit, cnc, handles, child, spc, stopVars>>

\* maybeBlockForTest
WorkBlocks(t) ==
  /\ t \in Stuck /\ proc[t] = "work"
  /\ proc' = [proc EXCEPT ![t] = "stuck"]
  /\ UNCHANGED <<exit, cnc, handles, child, spc, stopVars>>

\* tk_tile_run's loop without the hook: leave on HALT, heartbeat otherwise
Loop(t) ==
  /\ proc[t] = "loop"
  /\ IF sig[t] = "HALT"
       THEN /\ sig' = [sig EXCEPT ![t] = "BOOT"]
            /\ End({t}, "ok")
            /\ UNCHANGED heartbeat
       ELSE /\ heartbeat' = [heartbeat EXCEPT ![t] = "fresh"]
            /\ UNCHANGED <<proc, exit, sig>>
  /\ UNCHANGED <<handles, child, spc, stopVars>>

\* exit(1): a setup step or the work failed, or the crash hook fired
ExitsWithCode(t) ==
  /\ proc[t] \in {"boot", "work"} \/ (t \in Crashing /\ proc[t] = "loop")
  /\ End({t}, "code")
  /\ UNCHANGED <<cnc, handles, child, spc, stopVars>>

\* Killed from outside
Dies(t) ==
  /\ Alive(t)
  /\ End({t}, "signal")
  /\ UNCHANGED <<cnc, handles, child, spc, stopVars>>

\* Time passes without a heartbeat, also after the process has ended.
Age(t) ==
  /\ heartbeat[t] = "fresh"
  /\ heartbeat' = [heartbeat EXCEPT ![t] = "old"]
  /\ UNCHANGED <<proc, exit, sig, handles, child, spc, stopVars>>

\* What a running tile does by itself
Progress(t) ==
  \/ Join(t) \/ QuerySignal(t) \/ SignalRun(t) \/ Loop(t)
  \/ sig[t] = "HALT" /\ WorkReturns(t)

Tile(t) ==
  \/ Progress(t) \/ WorkBeat(t) \/ WorkReturns(t) \/ WorkBlocks(t)
  \/ ExitsWithCode(t) \/ Dies(t) \/ Age(t)

-----------------------------------------------------------------------------
(* startPaymentPipelineProcess *)

Spawn(t) ==
  /\ spc = "start" /\ proc[t] = "none"
  /\ proc' = [proc EXCEPT ![t] = "boot"]
  /\ handle' = [handle EXCEPT ![t] = "running"]
  /\ child' = [child EXCEPT ![t] = TRUE]
  /\ UNCHANGED <<exit, cnc, because, spc, stopVars>>

Started ==
  /\ spc = "start" /\ \A t \in Tiles : proc[t] # "none"
  /\ spc' = "up"
  /\ UNCHANGED <<proc, exit, cnc, handles, child, stopVars>>

\* Wrong variant: the error path forgets the children
StartFailsLeaves ==
  /\ spc = "start"
  /\ child' = [t \in Tiles |-> FALSE]
  /\ spc' = "failed"
  /\ UNCHANGED <<proc, exit, cnc, handles, stopVars>>

\* A spawn or an affinity call fails: ProcessState.deinit kills and reaps
\* the tiles that are already there; the handles are not touched.
StartFails ==
  /\ spc = "start"
  /\ End({t \in Tiles : child[t] /\ Alive(t)}, "signal")
  /\ child' = [t \in Tiles |-> FALSE]
  /\ spc' = "failed"
  /\ UNCHANGED <<cnc, handles, stopVars>>

-----------------------------------------------------------------------------
(* refreshProcessHealth *)

GoesStale(t) == handle[t] \in {"starting", "running"} /\ heartbeat[t] = "old"

RefreshHandles ==
  /\ handle' = [t \in Tiles |-> IF GoesStale(t) THEN "stale" ELSE handle[t]]
  /\ because' = [t \in Tiles |-> IF GoesStale(t) THEN "stale" ELSE because[t]]

Refresh ==
  /\ spc = "up"
  /\ RefreshHandles
  /\ UNCHANGED <<proc, exit, cnc, child, spc, stopVars>>

-----------------------------------------------------------------------------
(* stopProcess *)

\* Refresh, remember who is stale
StopProcess ==
  /\ spc = "up"
  /\ StopEarly \/ \A t \in Tiles : proc[t] \notin {"boot", "joined", "checked"}
  /\ RefreshHandles
  /\ stale_before' = [t \in Tiles |-> handle'[t] = "stale"]
  /\ spc' = "halt"
  /\ UNCHANGED <<proc, exit, cnc, child, halted, forced>>

SignalHalt(t) ==
  /\ spc = "halt" /\ ~halted[t]
  /\ sig' = [sig EXCEPT ![t] = "HALT"]
  /\ halted' = [halted EXCEPT ![t] = TRUE]
  /\ UNCHANGED <<proc, exit, heartbeat, handles, child, spc, stale_before, forced>>

\* The grace period is for the tiles that were stale before the HALT.
HaltSent ==
  /\ spc = "halt" /\ \A t \in Tiles : halted[t]
  /\ spc' = IF \E t \in Tiles : stale_before[t] THEN "grace" ELSE "kill"
  /\ UNCHANGED <<proc, exit, cnc, handles, child, stopVars>>

\* outcomeFromTerm
Outcome(t) == IF forced[t] THEN "force_terminated" ELSE exit[t]

\* Wrong variant: a signal is filed under exit_code
VerdictCodeOnly(state, outcome) ==
  IF outcome = "ok" THEN <<"stopped", "none">>
  ELSE IF state = "stale" THEN <<"stale", "stale">>
  ELSE <<"crashed", "exit_code">>

\* updateHandleForOutcome: the pair (state, crashed_because) that replaces state
Verdict(state, outcome) ==
  IF outcome = "ok" THEN <<"stopped", "none">>
  ELSE IF state = "stale" THEN <<"stale", "stale">>
  ELSE <<"crashed", IF outcome = "code" THEN "exit_code" ELSE "signal">>

\* The children in done are waited for: their handles get their verdict.
Reaped(done) ==
  /\ handle' = [t \in Tiles |->
       IF t \in done THEN Verdict(handle[t], Outcome(t))[1] ELSE handle[t]]
  /\ because' = [t \in Tiles |->
       IF t \in done THEN Verdict(handle[t], Outcome(t))[2] ELSE because[t]]
  /\ child' = [t \in Tiles |-> child[t] /\ t \notin done]

Exited == {t \in Tiles : child[t] /\ proc[t] = "exited"}

\* reapExitedChildrenNoHang, in the grace loop and once more after it
GraceReap ==
  /\ spc = "grace" /\ Exited # {}
  /\ Reaped(Exited)
  /\ UNCHANGED <<proc, exit, cnc, spc, stopVars>>

\* Wrong variant: the deadline passes and nobody looks once more
GraceOverUnreaped ==
  /\ spc = "grace"
  /\ spc' = "kill"
  /\ UNCHANGED <<proc, exit, cnc, handles, child, stopVars>>

GraceOver ==
  /\ spc = "grace"
  /\ Reaped(Exited)
  /\ spc' = "kill"
  /\ UNCHANGED <<proc, exit, cnc, stopVars>>

\* Wrong variant: stale tiles are given their grace period and nothing else
ForceTerminateNone ==
  /\ spc = "kill"
  /\ spc' = "wait"
  /\ UNCHANGED <<proc, exit, cnc, handles, child, stopVars>>

\* Wrong variant: the tiles that were not stale are waited for first
ForceTerminateLast ==
  /\ spc = "kill"
  /\ \A t \in Tiles : Alive(t) => stale_before[t]
  /\ LET left == {t \in Tiles : stale_before[t] /\ child[t]}
     IN  /\ End({t \in left : Alive(t)}, "signal")
         /\ forced' = [t \in Tiles |-> t \in left]
  /\ spc' = "wait"
  /\ UNCHANGED <<cnc, handles, child, stale_before, halted>>

\* forceTerminate does nothing to a process that has just exited by itself;
\* forced_termination is set all the same.
ForceTerminate ==
  /\ spc = "kill"
  /\ LET left == {t \in Tiles : stale_before[t] /\ child[t]}
     IN  /\ End({t \in left : Alive(t)}, "signal")
         /\ forced' = [t \in Tiles |-> t \in left]
  /\ spc' = "wait"
  /\ UNCHANGED <<cnc, handles, child, stale_before, halted>>

\* waitProcess
WaitChild(t) ==
  /\ spc = "wait" /\ t \in Exited
  /\ Reaped({t})
  /\ UNCHANGED <<proc, exit, cnc, spc, stopVars>>

\* ProcessState.deinit; stopProcess returns
Deinit ==
  /\ spc = "wait" /\ \A t \in Tiles : ~child[t]
  /\ spc' = "down"
  /\ UNCHANGED <<proc, exit, cnc, handles, child, stopVars>>

Stopping ==
  \/ HaltSent \/ GraceOver \/ ForceTerminate \/ Deinit
  \/ \E t \in Tiles : SignalHalt(t) \/ WaitChild(t)

Supervisor ==
  \/ \E t \in Tiles : Spawn(t)
  \/ Started \/ StartFails \/ Refresh \/ StopProcess \/ GraceReap \/ Stopping

Next == Supervisor \/ \E t \in Tiles : Tile(t)

\* A tile that is not blocked keeps running and stopProcess keeps going; the
\* operator may never call it, and nothing bounds the work without a HALT.
Fairness == WF_vars(Stopping) /\ \A t \in Tiles : WF_vars(Progress(t))

Spec == Init /\ [][Next]_vars /\ Fairness

-----------------------------------------------------------------------------
(* Properties *)

\* Every variable has its type.
TypeOK ==
  /\ proc \in [Tiles -> {"none", "boot", "joined", "checked", "work", "stuck",
                          "loop", "exited"}]
  /\ exit \in [Tiles -> {"none", "ok", "code", "signal"}]
  /\ sig \in [Tiles -> {"BOOT", "RUN", "HALT"}]
  /\ heartbeat \in [Tiles -> {"boot", "fresh", "old"}]
  /\ handle \in [Tiles -> {"stopped", "running", "stale", "crashed"}]
  /\ because \in [Tiles -> {"none", "exit_code", "stale", "signal"}]
  /\ child \in [Tiles -> BOOLEAN] /\ stale_before \in [Tiles -> BOOLEAN]
  /\ halted \in [Tiles -> BOOLEAN] /\ forced \in [Tiles -> BOOLEAN]
  /\ spc \in {"start", "failed", "up", "halt", "grace", "kill", "wait", "down"}

\* When the supervisor lets go of the shared workspace (deinit, after a stop
\* or a failed start) no tile process is left that could still use it.
NoOrphans ==
  spc \in {"failed", "down"} => \A t \in Tiles : ~Alive(t)

\* What stopProcess leaves in a handle is never better than the truth: a tile
\* reported stopped exited with 0, a crashed one did not, and the reason tells
\* an exit code from a signal (updateHandleForOutcome, outcomeFromTerm). Only a
\* tile already silent when the stop began may be called stale instead: the
\* silence of a tile that ended later never hides how it ended.
VerdictsTrue ==
  spc = "down" => \A t \in Tiles :
    /\ handle[t] = "stopped" => exit[t] = "ok"
    /\ handle[t] = "crashed" =>
         exit[t] = IF because[t] = "exit_code" THEN "code" ELSE "signal"
    /\ handle[t] = "stale" => stale_before[t]
    /\ handle[t] # "running"

\* The grace period works: a tile that ends with 0 before the deadline, however
\* shortly, is reported stopped in the end, whatever its heartbeat looked like
\* (reapExitedChildrenNoHang in the loop and once more after it).
CleanExitCounts(t) ==
  [](exit[t] = "ok" /\ spc \in {"up", "halt", "grace"} =>
       [](spc = "down" => handle[t] = "stopped"))

GraceHonoured == \A t \in Tiles : CleanExitCounts(t)

\* A tile found stale when the stop began is got rid of, also when the stop
\* itself hangs on another tile: the kill comes before the first wait without
\* limit (stopProcess).
StaleTilesEnd ==
  \A t \in Tiles : (spc = "halt" /\ stale_before[t]) ~> ~Alive(t)

\* stopProcess returns, unless a tile blocked in its work was not yet stale
\* when the stop began: no one kills that one.
StopReturns ==
  (spc = "halt") ~>
    (spc = "down" \/ \E t \in Tiles : proc[t] = "stuck" /\ ~stale_before[t])

=============================================================================
