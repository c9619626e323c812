------------------------ MODULE TileLifecycleProofs -------------------------
(***************************************************************************)
(* What TileLifecycle promises about handles and processes, for every set  *)
(* of tiles and every choice of the hooks.                                 *)
(*                                                                         *)
(* NoOrphans, VerdictsTrue and GraceHonoured speak of the end of a stop;   *)
(* they are inductive once it is said when a handle gets its verdict:      *)
(* exactly when the child is reaped, and then for good (Judged).           *)
(***************************************************************************)
EXTENDS TileLifecycle, TLAPS

\* The handle of a reaped tile says how its process ended.
Judged(t) ==
  /\ proc[t] = "exited"
  /\ handle[t] = "stopped" => exit[t] = "ok"
  /\ handle[t] = "crashed" =>
       exit[t] = IF because[t] = "exit_code" THEN "code" ELSE "signal"
  /\ handle[t] = "stale" => stale_before[t]
  /\ handle[t] # "running"
  /\ exit[t] = "ok" /\ ~forced[t] => handle[t] = "stopped"

\* The inductive invariant, for one tile
TileInv(t) ==
  /\ proc[t] = "exited" <=> exit[t] # "none"
  /\ child[t] => proc[t] # "none" /\ handle[t] \in {"running", "stale"}
  /\ stale_before[t] => spc \notin {"start", "failed", "up"}
  /\ child[t] /\ spc \notin {"start", "failed", "up"} =>
       (stale_before[t] <=> handle[t] = "stale")
  /\ forced[t] => stale_before[t] /\ spc \in {"wait", "down"}
  /\ spc = "start" => (child[t] <=> proc[t] # "none")
  /\ spc = "failed" => ~Alive(t) /\ ~child[t]
  /\ spc = "down" => ~child[t]
  /\ spc \notin {"start", "failed"} /\ ~child[t] => Judged(t)

IInv == TypeOK /\ \A t \in Tiles : TileInv(t)

-----------------------------------------------------------------------------

\* Nothing is spawned, stale or judged at the start.
LEMMA InitIInv == Init => IInv
BY DEF Init, IInv, TypeOK, TileInv, Judged, Alive

\* No step of a tile disturbs the invariant: the tile's own end only matters
\* while its child is not reaped, and a reaped tile takes no step.
LEMMA TileIInv ==
  ASSUME IInv, NEW t \in Tiles, Tile(t)
  PROVE  IInv'
<1> USE DEF IInv, TypeOK, TileInv, Judged, Alive, cnc, handles, stopVars
<1>1. CASE Join(t)
  BY <1>1 DEF Join
<1>2. CASE QuerySignal(t)
  BY <1>2 DEF QuerySignal
<1>3. CASE SignalRun(t)
  BY <1>3 DEF SignalRun
<1>4. CASE WorkBeat(t)
  BY <1>4 DEF WorkBeat
<1>5. CASE WorkReturns(t)
  BY <1>5 DEF WorkReturns
<1>6. CASE WorkBlocks(t)
  BY <1>6 DEF WorkBlocks
<1>7. CASE Loop(t)
  BY <1>7 DEF Loop, End
<1>8. CASE ExitsWithCode(t)
  BY <1>8 DEF ExitsWithCode, End
<1>9. CASE Dies(t)
  BY <1>9 DEF Dies, End
<1>10. CASE Age(t)
  BY <1>10 DEF Age
<1> HIDE DEF IInv, TypeOK, TileInv, Judged, Alive
<1>11. QED
  BY <1>1, <1>2, <1>3, <1>4, <1>5, <1>6, <1>7, <1>8, <1>9, <1>10 DEF Tile, Progress

\* Nor does a step of the supervisor before it stops the tiles.
LEMMA StartIInv ==
  ASSUME IInv, Started \/ StartFails \/ Refresh \/ \E t \in Tiles : Spawn(t)
  PROVE  IInv'
<1> USE DEF IInv, TypeOK, TileInv, Judged, Alive, cnc, handles, stopVars
<1>1. CASE Started
  BY <1>1 DEF Started
<1>2. CASE StartFails
  BY <1>2 DEF StartFails, End
<1>3. CASE Refresh
  BY <1>3 DEF Refresh, RefreshHandles, GoesStale
<1>4. ASSUME NEW t \in Tiles, Spawn(t) PROVE IInv'
  <2>1. TypeOK'
    BY <1>4 DEF Spawn
  <2>2. ASSUME NEW u \in Tiles, u # t PROVE TileInv(u)'
    BY <1>4, <2>2 DEF Spawn
  <2>3. proc[t] = "none" /\ exit[t] = "none"
    BY <1>4 DEF Spawn
  <2>4. TileInv(t)'
    BY <1>4, <2>3 DEF Spawn
  <2>5. QED
    BY <2>1, <2>2, <2>4
<1>5. QED
  BY <1>1, <1>2, <1>3, <1>4

\* Reaping gives every reaped tile its verdict and leaves the others alone.
LEMMA ReapJudges ==
  ASSUME IInv, NEW done \in SUBSET Exited, Reaped(done),
         spc \in {"grace", "wait"}, spc' \in {"grace", "kill", "wait"},
         forced = [t \in Tiles |-> FALSE] \/ spc' = "wait",
         UNCHANGED <<proc, exit, cnc, stopVars>>
  PROVE  IInv'
<1> USE DEF IInv, TypeOK, Alive, cnc, stopVars
<1>1. TypeOK'
  <2>1. \A t \in Tiles :
          /\ Verdict(handle[t], Outcome(t))[1] \in {"stopped", "stale", "crashed"}
          /\ Verdict(handle[t], Outcome(t))[2] \in {"none", "exit_code", "stale", "signal"}
    BY DEF Verdict
  <2>2. QED
    <3>1. handle' \in [Tiles -> {"stopped", "running", "stale", "crashed"}]
      BY <2>1 DEF Reaped
    <3>2. because' \in [Tiles -> {"none", "exit_code", "stale", "signal"}]
      BY <2>1 DEF Reaped
    <3>3. child' \in [Tiles -> BOOLEAN]
      BY DEF Reaped
    <3>4. QED
      BY <3>1, <3>2, <3>3
<1>2. ASSUME NEW t \in Tiles PROVE TileInv(t)'
  <2>1. CASE t \notin done
    BY <2>1 DEF TileInv, Judged, Reaped
  <2>2. CASE t \in done
    <3>1. child[t] /\ proc[t] = "exited" /\ exit[t] \in {"ok", "code", "signal"}
      BY <2>2 DEF Exited, TileInv
    <3>2. /\ handle'[t] = Verdict(handle[t], Outcome(t))[1]
          /\ because'[t] = Verdict(handle[t], Outcome(t))[2]
          /\ ~child'[t]
      BY <2>2 DEF Reaped
    <3>3. forced[t] => handle[t] = "stale"
      BY <3>1 DEF TileInv
    <3>4. QED
      BY <3>1, <3>2, <3>3 DEF TileInv, Judged, Verdict, Outcome
  <2>3. QED
    BY <2>1, <2>2
<1>3. QED
  BY <1>1, <1>2

\* The steps of stopProcess
LEMMA StopIInv ==
  ASSUME IInv, StopProcess \/ GraceReap \/ Stopping
  PROVE  IInv'
<1>0. spc \in {"up", "halt", "grace", "kill"} => forced = [t \in Tiles |-> FALSE]
  BY DEF IInv, TypeOK, TileInv
<1>1. CASE GraceReap
  BY <1>0, <1>1, ReapJudges DEF GraceReap
<1>2. CASE GraceOver
  BY <1>0, <1>2, ReapJudges DEF GraceOver
<1>3. ASSUME NEW t \in Tiles, WaitChild(t) PROVE IInv'
  BY <1>3, ReapJudges DEF WaitChild
<1> USE DEF IInv, TypeOK, TileInv, Judged, Alive, cnc, handles, stopVars
<1>4. CASE StopProcess
  BY <1>0, <1>4 DEF StopProcess, RefreshHandles, GoesStale
<1>5. ASSUME NEW t \in Tiles, SignalHalt(t) PROVE IInv'
  BY <1>5 DEF SignalHalt
<1>6. CASE HaltSent
  BY <1>6 DEF HaltSent
<1>7. CASE ForceTerminate
  BY <1>0, <1>7 DEF ForceTerminate, End
<1>8. CASE Deinit
  BY <1>8 DEF Deinit
<1> HIDE DEF IInv, TypeOK, TileInv, Judged, Alive
<1>9. QED
  BY <1>1, <1>2, <1>3, <1>4, <1>5, <1>6, <1>7, <1>8 DEF Stopping

\* The invariant holds in every reachable state.
LEMMA SpecIInv == Spec => []IInv
<1>1. IInv /\ [Next]_vars => IInv'
  <2>1. IInv /\ UNCHANGED vars => IInv'
    BY DEF IInv, TypeOK, TileInv, Judged, Alive, vars
  <2>2. QED
    BY <2>1, TileIInv, StartIInv, StopIInv DEF Next, Supervisor
<1>2. QED
  BY <1>1, InitIInv, PTL DEF Spec

\* Every variable has its type, for any tiles and hooks.
THEOREM LifecycleTypes == Spec => []TypeOK
BY SpecIInv, PTL DEF IInv

\* When the supervisor lets go of the workspace no tile process is left,
\* after a stop and after a failed start (ProcessState.deinit).
THEOREM LifecycleNoOrphans == Spec => []NoOrphans
<1>1. IInv => NoOrphans
  BY DEF IInv, TileInv, Judged, NoOrphans, Alive
<1>2. QED
  BY <1>1, SpecIInv, PTL

\* What stopProcess leaves in the handles is true (updateHandleForOutcome).
THEOREM LifecycleVerdicts == Spec => []VerdictsTrue
<1>1. IInv => VerdictsTrue
  BY DEF IInv, TileInv, Judged, VerdictsTrue
<1>2. QED
  BY <1>1, SpecIInv, PTL

\* What keeps the promise of the grace period once a tile has ended with 0: the
\* deadline is still to come, or the tile is reaped, or no one will kill it.
Safe(t) ==
  /\ exit[t] = "ok"
  /\ \/ spc \in {"up", "halt", "grace"}
     \/ ~child[t] /\ handle[t] = "stopped"
     \/ child[t] /\ ~stale_before[t] /\ spc \in {"kill", "wait"}

\* A step keeps it: the last look into the process table comes after the
\* deadline and before the kill.
LEMMA SafeStays ==
  ASSUME IInv, NEW t \in Tiles, Safe(t), [Next]_vars
  PROVE  Safe(t)'
<1> USE DEF Safe
<1>0. TileInv(t) /\ TypeOK
  BY DEF IInv
<1>1. proc[t] = "exited"
  BY <1>0 DEF TileInv
<1>2. exit'[t] = "ok"
  <2> USE <1>0, <1>1 DEF TypeOK, End, Alive, cnc
  <2>1. CASE Supervisor
    <3>1. CASE StartFails
      BY <3>1 DEF StartFails
    <3>2. CASE ForceTerminate
      BY <3>2 DEF ForceTerminate
    <3>3. QED
      BY <2>1, <3>1, <3>2 DEF Supervisor, Spawn, Started, Refresh, StopProcess, GraceReap,
         Stopping, HaltSent, GraceOver, Deinit, SignalHalt, WaitChild
  <2>2. ASSUME NEW u \in Tiles, Tile(u) PROVE exit'[t] = "ok"
    BY <2>2 DEF Tile, Progress, Join, QuerySignal, SignalRun, Loop, WorkBeat, WorkReturns,
       WorkBlocks, ExitsWithCode, Dies, Age
  <2>3. QED
    BY <2>1, <2>2 DEF Next, vars
<1>3. ~forced[t] => Verdict(handle[t], Outcome(t)) = <<"stopped", "none">>
  BY DEF Verdict, Outcome
<1>4. ~child[t] /\ ~forced[t] /\ spc \notin {"start", "failed"} => handle[t] = "stopped"
  BY <1>0 DEF TileInv, Judged
<1>5. ~stale_before[t] \/ spc \notin {"wait", "down"} => ~forced[t]
  BY <1>0 DEF TileInv
<1> USE <1>0, <1>1, <1>2 DEF TypeOK, cnc, handles, stopVars
<1>6. ASSUME spc \in {"up", "halt", "grace"}, Stopping \/ StopProcess \/ GraceReap
      PROVE  Safe(t)'
  <2>1. CASE StopProcess \/ GraceReap \/ \E u \in Tiles : SignalHalt(u)
    BY <1>6, <2>1 DEF StopProcess, GraceReap, SignalHalt
  <2>2. CASE HaltSent
    BY <1>4, <1>5, <2>2 DEF HaltSent
  <2>3. CASE GraceOver
    <3>1. CASE child[t]
      BY <1>3, <1>5, <2>3, <3>1 DEF GraceOver, Reaped, Exited
    <3>2. CASE ~child[t]
      BY <1>4, <1>5, <2>3, <3>2 DEF GraceOver, Reaped, Exited
    <3>3. QED
      BY <3>1, <3>2
  <2>4. QED
    BY <1>6, <2>1, <2>2, <2>3 DEF Stopping, ForceTerminate, Deinit, WaitChild
<1>7. ASSUME spc \notin {"up", "halt", "grace"}, Stopping
      PROVE  Safe(t)'
  <2>1. ASSUME NEW u \in Tiles, WaitChild(u) PROVE Safe(t)'
    <3>1. CASE u = t
      BY <1>3, <1>5, <1>7, <2>1, <3>1 DEF WaitChild, Reaped, Exited
    <3>2. CASE u # t
      BY <1>7, <2>1, <3>2 DEF WaitChild, Reaped
    <3>3. QED
      BY <3>1, <3>2
  <2>2. CASE ForceTerminate \/ Deinit
    BY <1>7, <2>2 DEF ForceTerminate, Deinit
  <2>3. QED
    BY <1>7, <2>1, <2>2 DEF Stopping, HaltSent, GraceOver, SignalHalt
<1>8. ASSUME \/ Started \/ StartFails \/ Refresh \/ UNCHANGED vars
             \/ \E u \in Tiles : Spawn(u) \/ Tile(u)
      PROVE  Safe(t)'
  <2>1. CASE Refresh
    BY <2>1 DEF Refresh
  <2>2. CASE UNCHANGED vars \/ \E u \in Tiles : Tile(u)
    BY <2>2 DEF Tile, Progress, Join, QuerySignal, SignalRun, Loop, WorkBeat, WorkReturns,
       WorkBlocks, ExitsWithCode, Dies, Age, vars
  <2>3. spc # "start"
    BY <1>0 DEF TileInv
  <2>4. QED
    BY <1>8, <2>1, <2>2, <2>3 DEF Started, StartFails, Spawn
<1>9. QED
  BY <1>6, <1>7, <1>8 DEF Next, Supervisor, StopProcess, GraceReap

\* A tile that ends with 0 before the deadline is reported stopped.
THEOREM LifecycleGrace == Spec => GraceHonoured
<1>1. ASSUME NEW t \in Tiles PROVE Spec => CleanExitCounts(t)
  <2>1. exit[t] = "ok" /\ spc \in {"up", "halt", "grace"} => Safe(t)
    BY DEF Safe
  <2>2. IInv /\ Safe(t) /\ [Next]_vars => Safe(t)'
    BY SafeStays
  <2>3. IInv /\ Safe(t) => (spc = "down" => handle[t] = "stopped")
    BY DEF Safe
  <2>4. QED
    BY <2>1, <2>2, <2>3, SpecIInv, PTL DEF CleanExitCounts, Spec
<1>2. QED
  BY <1>1 DEF GraceHonoured
=============================================================================
