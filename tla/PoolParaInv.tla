----------------------------- MODULE PoolParaInv ------------------------------
(***************************************************************************)
(* The inductive invariant of the concurrent element pool of fd_pool_para.c, *)
(* and the steps that keep it without moving a shared word: beginning a    *)
(* call, reading, giving up, writing an own link.                          *)
(***************************************************************************)
EXTENDS PoolPara, TLAPS

(***************************************************************************)
(* What a call has read is not newer than ver_top, and as long as the      *)
(* version has not moved it is ver_top.                                    *)
(***************************************************************************)
Stale(t) ==
  /\ seen[t].ver % 2 = 0
  /\ seen[t].ver <= ver_top.ver
  /\ seen[t].ver = ver_top.ver => seen[t].idx = ver_top.idx

Releasing == {"release", "release_next", "release_cas"}
TopLockPlaces == {"lock_lazy", "lock_lazy_or", "lock_undo"}
HoldsTop(t) == pc[t] \in TopLockPlaces \cup {"locked"}
HoldsLazy(t) == lazy /\ pc[t] \in {"locked", "unlock_lazy"}

AcquireInv(t) ==
  /\ pc[t] \in {"acquire_next", "acquire_check", "acquire_cas"} =>
       Stale(t) /\ seen[t].idx \in Ele
  /\ pc[t] = "acquire_check" => seen[t].ver < ver_top.ver
  /\ pc[t] = "acquire_cas" =>
       /\ nxt[t] \in Idx
       /\ seen[t].ver = ver_top.ver => nxt[t] = next[seen[t].idx]
  /\ pc[t] \in {"lazy", "lazy_cas", "unlock_lazy"} \cup TopLockPlaces => lazy
  /\ pc[t] = "lazy_cas" => seen[t].idx \in Ele /\ seen[t].ver % 2 = 0

ReleaseInv(t) ==
  /\ pc[t] \in Releasing =>
       /\ chain[t] # <<>>
       /\ \A i \in DOMAIN chain[t] : chain[t][i] \in held[t]
       /\ \A i, j \in DOMAIN chain[t] : chain[t][i] = chain[t][j] => i = j
       /\ \A i \in DOMAIN chain[t] :
            i < Len(chain[t]) => next[chain[t][i]] = chain[t][i + 1]
  /\ pc[t] \in {"release_next", "release_cas"} => Stale(t)
  /\ pc[t] = "release_cas" => next[chain[t][Len(chain[t])]] = seen[t].idx

LockInv ==
  /\ \A t \in Threads : HoldsTop(t) => Locked(ver_top)
  /\ \A t, u \in Threads : HoldsTop(t) /\ HoldsTop(u) => t = u
  /\ \A t \in Threads : pc[t] \in TopLockPlaces =>
       seen[t].ver + 1 = ver_top.ver /\ seen[t].idx = ver_top.idx
  /\ \A t \in Threads : HoldsLazy(t) => Locked(ver_lazy)
  /\ \A t, u \in Threads : HoldsLazy(t) /\ HoldsLazy(u) => t = u
  /\ ~lazy => ver_lazy = Blank

(***************************************************************************)
(* Every call in progress moves a version by two at most, a held lock has  *)
(* moved it by one: versions stay below VerMod.                            *)
(***************************************************************************)
TopBusy == {t \in Threads : pc[t] \notin {"idle", "unlock_lazy"}}
LazyBusy == {t \in Threads : pc[t] # "idle"}
LockBit(w) == IF Locked(w) THEN 1 ELSE 0
VersionInv ==
  /\ ver_top.ver + 2 * Cardinality(TopBusy) <= 2 * ops + LockBit(ver_top)
  /\ ver_lazy.ver + 2 * Cardinality(LazyBusy) <= 2 * ops + LockBit(ver_lazy)

\* What is used about the number of calls in progress when one begins, goes on
\* or returns.  A fact about the set Threads, carried with the invariant and
\* derived from the theorems on finite sets where Init is treated.
Counting ==
  \A P \in SUBSET Threads, t \in Threads :
    /\ Cardinality(P) \in Nat
    /\ t \notin P => Cardinality(P \cup {t}) = Cardinality(P) + 1
    /\ t \in P => Cardinality(P \ {t}) = Cardinality(P) - 1 /\ Cardinality(P) >= 1

SawInv == \A t \in Threads : pc[t] # "idle" /\ Empty => sawEmpty[t]

CallInv == \A t \in Threads : AcquireInv(t) /\ ReleaseInv(t) /\ pc[t] # "crit"

IInv ==
  /\ TypeOK /\ OnePlaceEach /\ LinksAreStack
  /\ CallInv /\ LockInv /\ VersionInv /\ SawInv /\ Counting

-----------------------------------------------------------------------------
(***************************************************************************)
(* Versions and counting                                                   *)
(***************************************************************************)

\* vidx stores the version it is given while versions fit their width.
LEMMA VidxExact ==
  ASSUME NEW v \in Nat, v < VerMod, NEW i
  PROVE  vidx(v, i) = [ver |-> v, idx |-> i]
<1>1. v % VerMod = v
  BY PoolAssumption, SMT
<1> QED
  BY <1>1 DEF vidx

\* Adding two keeps the lock bit of a version, adding one flips it.
LEMMA Parity ==
  ASSUME NEW v \in Nat
  PROVE  /\ (v + 2) % 2 = v % 2
         /\ v % 2 = 0 => (v + 1) % 2 = 1
         /\ v % 2 = 1 => (v + 1) % 2 = 0
         /\ v % 2 \in {0, 1}
OBVIOUS

\* A busy thread leaves room for two more versions.
LEMMA Room ==
  ASSUME TypeOK, VersionInv, Counting, NEW t \in Threads, pc[t] # "idle"
  PROVE  /\ ver_lazy.ver + 2 < VerMod
         /\ pc[t] # "unlock_lazy" => ver_top.ver + 2 < VerMod
<1> DEFINE T == Cardinality(TopBusy)
           L == Cardinality(LazyBusy)
<1>1. L \in Nat /\ L >= 1
  BY Zenon DEF Counting, LazyBusy
<1>2. T \in Nat /\ (pc[t] # "unlock_lazy" => T >= 1)
  BY Zenon DEF Counting, TopBusy
<1>3. /\ ver_top.ver \in Nat /\ ver_lazy.ver \in Nat /\ ops \in Nat
      /\ ops <= MaxOps /\ MaxOps \in Nat /\ 2 * MaxOps + 2 < VerMod /\ VerMod \in Nat
  BY PoolAssumption DEF TypeOK, Word
<1>4. ver_lazy.ver + 2 * L <= 2 * ops + 1
  BY <1>1, <1>3 DEF VersionInv, LockBit
<1>5. ver_top.ver + 2 * T <= 2 * ops + 1
  BY <1>2, <1>3 DEF VersionInv, LockBit
<1> HIDE DEF T, L
<1> QED
  BY <1>1, <1>2, <1>3, <1>4, <1>5

\* How the counts of busy threads move with one thread's place.
LEMMA BusyStep ==
  ASSUME TypeOK, Counting, NEW t \in Threads, NEW p, pc[t] # "idle",
         pc' = [pc EXCEPT ![t] = p],
         pc[t] = "unlock_lazy" => p = "idle"
  PROVE  /\ Cardinality(TopBusy) \in Nat /\ Cardinality(LazyBusy) \in Nat
         /\ Cardinality(TopBusy)' \in Nat /\ Cardinality(LazyBusy)' \in Nat
         /\ Cardinality(TopBusy)' <= Cardinality(TopBusy)
         /\ Cardinality(LazyBusy)' <= Cardinality(LazyBusy)
         /\ p = "idle" => Cardinality(LazyBusy)' = Cardinality(LazyBusy) - 1
         /\ p \in {"idle", "unlock_lazy"} /\ pc[t] # "unlock_lazy" =>
              Cardinality(TopBusy)' = Cardinality(TopBusy) - 1
<1>1. LazyBusy' = IF p = "idle" THEN LazyBusy \ {t} ELSE LazyBusy
  BY DEF LazyBusy, TypeOK
<1>2. TopBusy' = IF p \in {"idle", "unlock_lazy"} THEN TopBusy \ {t} ELSE TopBusy
  BY DEF TopBusy, TypeOK
<1>3. t \in LazyBusy /\ (pc[t] # "unlock_lazy" <=> t \in TopBusy)
  BY DEF LazyBusy, TopBusy
<1>4. LazyBusy \in SUBSET Threads /\ TopBusy \in SUBSET Threads
  BY DEF LazyBusy, TopBusy
<1>5. /\ Cardinality(LazyBusy) \in Nat
      /\ Cardinality(LazyBusy \ {t}) = Cardinality(LazyBusy) - 1
      /\ Cardinality(LazyBusy) >= 1
  BY <1>3, <1>4 DEF Counting
<1>6. /\ Cardinality(TopBusy) \in Nat
      /\ t \in TopBusy => Cardinality(TopBusy \ {t}) = Cardinality(TopBusy) - 1
      /\ t \in TopBusy => Cardinality(TopBusy) >= 1
  BY Zenon, <1>4 DEF Counting
<1>7. t \notin TopBusy => TopBusy \ {t} = TopBusy
  OBVIOUS
<1>8. Cardinality(LazyBusy)' = IF p = "idle" THEN Cardinality(LazyBusy) - 1 ELSE Cardinality(LazyBusy)
  BY <1>1, <1>5
<1>9. Cardinality(TopBusy)' = IF p \in {"idle", "unlock_lazy"} /\ t \in TopBusy
                              THEN Cardinality(TopBusy) - 1 ELSE Cardinality(TopBusy)
  BY Zenon, <1>2, <1>6, <1>7
<1> QED
  BY <1>3, <1>5, <1>6, <1>8, <1>9

\* Observe keeps the history of emptiness.
LEMMA SawStep ==
  ASSUME TypeOK, Observe
  PROVE  SawInv' /\ sawEmpty' \in [Threads -> BOOLEAN]
<1>1. \A t \in Threads : sawEmpty'[t] = (pc'[t] # "idle" /\ (sawEmpty[t] \/ Empty'))
  BY Zenon DEF Observe
<1>2. SawInv'
  BY Zenon, <1>1 DEF SawInv
<1>3. sawEmpty' \in [Threads -> BOOLEAN]
  BY DEF Observe
<1> QED
  BY <1>2, <1>3

-----------------------------------------------------------------------------
(***************************************************************************)
(* The locals of the threads other than t                                  *)
(***************************************************************************)
SameLocals(u) ==
  /\ pc'[u] = pc[u] /\ seen'[u] = seen[u] /\ nxt'[u] = nxt[u]
  /\ chain'[u] = chain[u]

LocalTypes ==
  /\ pc' \in [Threads -> Places] /\ seen' \in [Threads -> Word]
  /\ nxt' \in [Threads -> Idx \cup {Junk}] /\ chain' \in [Threads -> Seq(Ele)]
  /\ block' \in [Threads -> BOOLEAN]

\* ver_top is newer, or locked, or it is as it was with the link below it.
TopKept ==
  \/ ver_top.ver < ver_top'.ver
  \/ /\ ver_top'.ver = ver_top.ver
     /\ ~Locked(ver_top) => ver_top' = ver_top
     /\ ~Locked(ver_top) /\ ver_top.idx \in Ele =>
          next'[ver_top.idx] = next[ver_top.idx]

\* A call of another thread whose elements keep their links does not notice.
LEMMA OtherCall ==
  ASSUME TypeOK, NEW u \in Threads, AcquireInv(u), ReleaseInv(u),
         SameLocals(u), lazy' = lazy, ver_top' \in Word,
         held'[u] = held[u],
         \A e \in held[u] : next'[e] = next[e],
         TopKept
  PROVE  AcquireInv(u)' /\ ReleaseInv(u)'
<1>1. /\ ver_top.ver \in Nat /\ ver_top'.ver \in Nat /\ seen[u].ver \in Nat
      /\ ver_top.ver <= ver_top'.ver
  BY DEF TypeOK, Word, TopKept
<1>2. Stale(u) => Stale(u)'
  BY <1>1, Parity DEF Stale, SameLocals, TopKept, Locked
<1>3. AcquireInv(u)'
  <2>1. pc[u] = "acquire_cas" /\ seen[u].ver = ver_top'.ver => nxt[u] = next'[seen[u].idx]
    BY <1>1, Parity DEF AcquireInv, Stale, TopKept, Locked
  <2> QED
    BY <1>1, <1>2, <2>1 DEF AcquireInv, SameLocals
<1>4. ReleaseInv(u)'
  <2>1. pc[u] \in Releasing => \A i \in DOMAIN chain[u] : next'[chain[u][i]] = next[chain[u][i]]
    BY DEF ReleaseInv
  <2>2. pc[u] \in Releasing => Len(chain[u]) \in DOMAIN chain[u]
    BY DEF ReleaseInv, TypeOK
  <2>3. pc[u] = "release_cas" => pc[u] \in Releasing
    BY DEF Releasing
  <2> QED
    BY <1>2, <2>1, <2>2, <2>3 DEF ReleaseInv, SameLocals
<1> QED
  BY <1>3, <1>4

\* How far a step may move a version: by two when the call ends its part.
VersionStep(t, p) ==
  /\ ver_top'.ver + LockBit(ver_top) <=
       ver_top.ver + LockBit(ver_top)' +
         (IF p \in {"idle", "unlock_lazy"} /\ pc[t] # "unlock_lazy" THEN 2 ELSE 0)
  /\ ver_lazy'.ver + LockBit(ver_lazy) <=
       ver_lazy.ver + LockBit(ver_lazy)' + (IF p = "idle" THEN 2 ELSE 0)

\* The obligations of a step of t inside a call, which takes it to p.
LEMMA StepInv ==
  ASSUME IInv, Observe, NEW t \in Threads, NEW p \in Places \ {"crit"},
         pc[t] # "idle", pc[t] = "unlock_lazy" => p = "idle",
         pc' = [pc EXCEPT ![t] = p], lazy' = lazy, ops' = ops,
         \A u \in Threads \ {t} :
           SameLocals(u) /\ held'[u] = held[u] /\ \A e \in held[u] : next'[e] = next[e],
         TypeOK', OnePlaceEach', LinksAreStack', LockInv',
         TopKept, VersionStep(t, p), AcquireInv(t)', ReleaseInv(t)'
  PROVE  IInv'
<1> USE DEF IInv
<1>1. CallInv'
  <2>1. ASSUME NEW u \in Threads \ {t}
        PROVE  AcquireInv(u)' /\ ReleaseInv(u)' /\ pc'[u] # "crit"
    <3>1. AcquireInv(u) /\ ReleaseInv(u) /\ pc[u] # "crit" /\ SameLocals(u)
      BY DEF CallInv
    <3>2. ver_top' \in Word
      BY DEF TypeOK
    <3> QED
      BY <3>1, <3>2, OtherCall DEF SameLocals
  <2>2. pc'[t] # "crit"
    BY DEF TypeOK
  <2> QED
    BY <2>1, <2>2 DEF CallInv
<1>2. VersionInv'
  <2> DEFINE T == Cardinality(TopBusy)
             L == Cardinality(LazyBusy)
  <2>1. /\ T \in Nat /\ T' \in Nat /\ L \in Nat /\ L' \in Nat /\ T' <= T /\ L' <= L
        /\ p = "idle" => L' = L - 1
        /\ p \in {"idle", "unlock_lazy"} /\ pc[t] # "unlock_lazy" => T' = T - 1
    BY Zenon, BusyStep
  <2>2. /\ ver_top.ver \in Nat /\ ver_lazy.ver \in Nat /\ ops \in Nat
        /\ LockBit(ver_top) \in Nat /\ LockBit(ver_lazy) \in Nat
    BY DEF TypeOK, Word, LockBit
  <2>3. /\ ver_top'.ver \in Nat /\ ver_lazy'.ver \in Nat
        /\ LockBit(ver_top)' \in Nat /\ LockBit(ver_lazy)' \in Nat
    BY DEF TypeOK, Word, LockBit
  <2>4. /\ ver_top.ver + 2 * T <= 2 * ops + LockBit(ver_top)
        /\ ver_lazy.ver + 2 * L <= 2 * ops + LockBit(ver_lazy)
    BY DEF VersionInv
  <2> HIDE DEF T, L
  <2>5. ver_top'.ver + 2 * T' <= 2 * ops' + LockBit(ver_top)'
    BY <2>1, <2>2, <2>3, <2>4 DEF VersionStep
  <2>6. ver_lazy'.ver + 2 * L' <= 2 * ops' + LockBit(ver_lazy)'
    BY <2>1, <2>2, <2>3, <2>4 DEF VersionStep
  <2> QED
    BY <2>5, <2>6 DEF VersionInv, T, L
<1>3. SawInv'
  BY SawStep
<1> QED
  BY <1>1, <1>2, <1>3

\* A step that only changes the locals of t.
LEMMA LocalStep ==
  ASSUME IInv, Observe, NEW t \in Threads, NEW p \in Places \ {"crit", "locked"},
         pc[t] # "idle", pc[t] # "unlock_lazy", p # "unlock_lazy",
         pc' = [pc EXCEPT ![t] = p], LocalTypes,
         \A u \in Threads \ {t} : SameLocals(u),
         UNCHANGED <<lazy, ver_top, ver_lazy, next, held, stack, ops>>,
         p \in TopLockPlaces => pc[t] \in TopLockPlaces /\ seen'[t] = seen[t],
         AcquireInv(t)', ReleaseInv(t)'
  PROVE  IInv'
<1> USE DEF IInv
<1>1. TypeOK'
  BY SawStep DEF TypeOK, LocalTypes
<1>2. OnePlaceEach'
  BY DEF OnePlaceEach, Stacked, LazyFree
<1>3. LinksAreStack'
  BY DEF LinksAreStack
<1>4. LockInv'
  <2>1. \A u \in Threads : HoldsTop(u)' => HoldsTop(u)
    BY DEF HoldsTop, TypeOK, TopLockPlaces
  <2>2. \A u \in Threads : HoldsLazy(u)' => HoldsLazy(u)
    BY DEF HoldsLazy, TypeOK
  <2>3. \A u \in Threads : pc'[u] \in TopLockPlaces => pc[u] \in TopLockPlaces /\ seen'[u] = seen[u]
    BY DEF TypeOK, SameLocals
  <2> QED
    BY <2>1, <2>2, <2>3 DEF LockInv, Locked
<1>5. TopKept
  BY DEF TopKept
<1>6. VersionStep(t, p)
  <2>1. ver_top.ver \in Nat /\ ver_lazy.ver \in Nat
    BY DEF TypeOK, Word
  <2>2. /\ LockBit(ver_top) \in Nat /\ LockBit(ver_lazy) \in Nat
        /\ LockBit(ver_top)' = LockBit(ver_top) /\ LockBit(ver_lazy)' = LockBit(ver_lazy)
    BY DEF LockBit, Locked
  <2> QED
    BY <2>1, <2>2 DEF VersionStep
<1> HIDE DEF IInv
<1> QED
  BY Zenon, <1>1, <1>2, <1>3, <1>4, <1>5, <1>6, StepInv

-----------------------------------------------------------------------------
(***************************************************************************)
(* The steps that leave shared memory alone                                *)
(***************************************************************************)

\* What Return leaves behind.
LEMMA Returned ==
  ASSUME TypeOK, NEW t \in Threads, Return(t)
  PROVE  /\ pc' = [pc EXCEPT ![t] = "idle"]
         /\ LocalTypes
         /\ \A u \in Threads \ {t} : SameLocals(u)
         /\ AcquireInv(t)' /\ ReleaseInv(t)'
<1>1. pc' = [pc EXCEPT ![t] = "idle"] /\ pc'[t] = "idle"
  BY DEF Return, Goto, TypeOK
<1>2. Blank \in Word
  BY PoolAssumption DEF Blank, vidx, Word, Idx
<1>3. LocalTypes
  BY <1>1, <1>2 DEF Return, TypeOK, LocalTypes, Places, Idx
<1>4. \A u \in Threads \ {t} : SameLocals(u)
  BY <1>1 DEF Return, SameLocals, TypeOK
<1>5. AcquireInv(t)' /\ ReleaseInv(t)'
  BY <1>1 DEF AcquireInv, ReleaseInv, Releasing, TopLockPlaces
<1> QED
  BY <1>1, <1>3, <1>4, <1>5

\* What Goto leaves alone when the other locals do not change.
LEMMA Moved ==
  ASSUME TypeOK, NEW t \in Threads, NEW p \in Places, Goto(t, p),
         UNCHANGED <<seen, nxt, chain, block>>
  PROVE  /\ pc' = [pc EXCEPT ![t] = p]
         /\ pc'[t] = p
         /\ LocalTypes
         /\ \A u \in Threads \ {t} : SameLocals(u)
BY DEF Goto, TypeOK, LocalTypes, SameLocals

\* A call that gives up and returns without having changed anything.
LEMMA GiveUp ==
  ASSUME IInv, Observe, NEW t \in Threads, pc[t] \notin {"idle", "unlock_lazy"},
         Return(t), UNCHANGED <<lazy, ver_top, ver_lazy, next, held, stack, ops>>
  PROVE  IInv'
<1>1. "idle" \in Places \ {"crit", "locked"} /\ "idle" \notin TopLockPlaces
  BY DEF Places, TopLockPlaces
<1>2. TypeOK
  BY DEF IInv
<1> QED
  BY <1>1, <1>2, Returned, LocalStep

\* A call that goes to another place with the same locals.
LEMMA Retry ==
  ASSUME IInv, Observe, NEW t \in Threads,
         NEW p \in {"acquire", "lazy", "lock", "lock_or", "release"},
         pc[t] \notin {"idle", "unlock_lazy"},
         p = "lazy" => lazy,
         p = "release" => ReleaseInv(t)',
         Goto(t, p), UNCHANGED <<seen, nxt, chain, block>>,
         UNCHANGED <<lazy, ver_top, ver_lazy, next, held, stack, ops>>
  PROVE  IInv'
<1>1. p \in Places \ {"crit", "locked"} /\ p \notin TopLockPlaces /\ p # "unlock_lazy"
  BY DEF Places, TopLockPlaces
<1>2. TypeOK
  BY DEF IInv
<1>3. /\ pc' = [pc EXCEPT ![t] = p] /\ pc'[t] = p /\ LocalTypes
      /\ \A u \in Threads \ {t} : SameLocals(u)
  BY <1>1, <1>2, Moved
<1>4. AcquireInv(t)'
  BY <1>3 DEF AcquireInv, TopLockPlaces
<1>5. ReleaseInv(t)'
  BY <1>3 DEF ReleaseInv, Releasing
<1> QED
  BY Zenon, <1>1, <1>3, <1>4, <1>5, LocalStep

LEMMA AcquireReadTopInv ==
  ASSUME IInv, Observe, NEW t \in Threads, AcquireReadTop(t)
  PROVE  IInv'
<1>1. TypeOK /\ pc[t] = "acquire" /\ ~Locked(ver_top)
      /\ UNCHANGED <<lazy, ver_top, ver_lazy, next, held, stack, ops>>
  BY DEF IInv, AcquireReadTop
<1>2. CASE ver_top.idx = idx_null /\ lazy
  BY <1>1, <1>2, Retry DEF AcquireReadTop
<1>3. CASE ver_top.idx = idx_null /\ ~lazy
  BY <1>1, <1>3, GiveUp DEF AcquireReadTop
<1>4. CASE ver_top.idx # idx_null
  <2>1. ver_top.idx \in Ele /\ ver_top \in Word /\ ver_top.ver \in Nat
    BY <1>1, <1>4 DEF TypeOK, Word, Idx
  <2>2. /\ pc' = [pc EXCEPT ![t] = "acquire_next"]
        /\ seen' = [seen EXCEPT ![t] = ver_top] /\ UNCHANGED <<nxt, chain, block>>
    BY <1>4, <2>1 DEF AcquireReadTop, Goto
  <2>3. pc'[t] = "acquire_next" /\ seen'[t] = ver_top
    BY <1>1, <2>2 DEF TypeOK
  <2>4. LocalTypes /\ \A u \in Threads \ {t} : SameLocals(u)
    BY <1>1, <2>1, <2>2 DEF TypeOK, LocalTypes, SameLocals, Places
  <2>5. AcquireInv(t)' /\ ReleaseInv(t)'
    BY <1>1, <2>1, <2>3, Parity DEF AcquireInv, ReleaseInv, Stale, Releasing, TopLockPlaces, Locked
  <2> QED
    BY Zenon, <1>1, <2>2, <2>4, <2>5, LocalStep DEF Places, TopLockPlaces
<1> QED
  BY <1>2, <1>3, <1>4

LEMMA AcquireReadNextInv ==
  ASSUME IInv, Observe, NEW t \in Threads, AcquireReadNext(t)
  PROVE  IInv'
<1> DEFINE p == IF next[seen[t].idx] \in Idx THEN "acquire_cas" ELSE "acquire_check"
<1>1. /\ TypeOK /\ pc[t] = "acquire_next" /\ AcquireInv(t) /\ LinksAreStack
      /\ UNCHANGED <<lazy, ver_top, ver_lazy, next, held, stack, ops>>
  BY DEF IInv, AcquireReadNext, CallInv
<1>2. Stale(t) /\ seen[t].idx \in Ele
  BY <1>1 DEF AcquireInv
<1>3. /\ pc' = [pc EXCEPT ![t] = p] /\ nxt' = [nxt EXCEPT ![t] = next[seen[t].idx]]
      /\ UNCHANGED <<seen, chain, block>>
  BY DEF AcquireReadNext, Goto
<1>4. pc'[t] = p /\ nxt'[t] = next[seen[t].idx]
  BY <1>1, <1>3 DEF TypeOK
<1>5. LocalTypes /\ \A u \in Threads \ {t} : SameLocals(u)
  BY <1>1, <1>2, <1>3 DEF TypeOK, LocalTypes, SameLocals, Places
<1>6. seen[t].ver = ver_top.ver => next[seen[t].idx] \in Idx
  <2>1. ver_top.idx \in Ele =>
          stack # <<>> /\ ver_top.idx = stack[1]
    BY <1>1 DEF LinksAreStack, Ele, idx_null
  <2>2. stack # <<>> => next[stack[1]] \in Idx
    <3>1. stack \in Seq(Ele) /\ (stack # <<>> => 1 \in DOMAIN stack)
      BY <1>1 DEF TypeOK
    <3>2. 1 < Len(stack) => stack[2] \in Ele
      BY <3>1
    <3> QED
      BY <1>1, <3>1, <3>2 DEF LinksAreStack, Idx
  <2> QED
    BY <1>2, <2>1, <2>2 DEF Stale
<1>7. seen[t].ver \in Nat /\ ver_top.ver \in Nat
  BY <1>1 DEF TypeOK, Word
<1>8. AcquireInv(t)'
  BY <1>1, <1>2, <1>3, <1>4, <1>6, <1>7 DEF AcquireInv, Stale, TopLockPlaces
<1>9. ReleaseInv(t)'
  BY <1>4 DEF ReleaseInv, Releasing
<1>10. p \in Places \ {"crit", "locked"} /\ p # "unlock_lazy" /\ p \notin TopLockPlaces
  BY DEF Places, TopLockPlaces
<1> HIDE DEF p
<1> QED
  BY Zenon, <1>1, <1>3, <1>5, <1>8, <1>9, <1>10, LocalStep

LEMMA AcquireCheckInv ==
  ASSUME IInv, Observe, NEW t \in Threads, AcquireCheck(t)
  PROVE  IInv'
<1>1. /\ TypeOK /\ pc[t] = "acquire_check" /\ AcquireInv(t)
      /\ UNCHANGED <<lazy, ver_top, ver_lazy, next, held, stack, ops>>
      /\ UNCHANGED <<seen, nxt, chain, block>>
  BY DEF IInv, AcquireCheck, CallInv
<1>2. seen[t].ver < ver_top.ver /\ seen[t].ver \in Nat /\ ver_top.ver \in Nat
  BY <1>1 DEF AcquireInv, TypeOK, Word
<1>3. Goto(t, "acquire")
  BY <1>2 DEF AcquireCheck
<1> QED
  BY <1>1, <1>3, Retry

LEMMA LazyReadInv ==
  ASSUME IInv, Observe, NEW t \in Threads, LazyRead(t)
  PROVE  IInv'
<1>1. /\ TypeOK /\ pc[t] = "lazy" /\ ~Locked(ver_lazy) /\ lazy
      /\ UNCHANGED <<lazy, ver_top, ver_lazy, next, held, stack, ops>>
  BY DEF IInv, LazyRead, CallInv, AcquireInv
<1>2. CASE ver_lazy.idx = idx_null
  BY <1>1, <1>2, GiveUp DEF LazyRead
<1>3. CASE ver_lazy.idx # idx_null
  <2>1. ver_lazy.idx \in Ele /\ ver_lazy \in Word /\ ver_lazy.ver \in Nat
    BY <1>1, <1>3 DEF TypeOK, Word, Idx
  <2>2. /\ pc' = [pc EXCEPT ![t] = "lazy_cas"]
        /\ seen' = [seen EXCEPT ![t] = ver_lazy] /\ UNCHANGED <<nxt, chain, block>>
    BY <1>3, <2>1 DEF LazyRead, Goto
  <2>3. pc'[t] = "lazy_cas" /\ seen'[t] = ver_lazy
    BY <1>1, <2>2 DEF TypeOK
  <2>4. LocalTypes /\ \A u \in Threads \ {t} : SameLocals(u)
    BY <1>1, <2>1, <2>2 DEF TypeOK, LocalTypes, SameLocals, Places
  <2>5. AcquireInv(t)' /\ ReleaseInv(t)'
    BY <1>1, <2>1, <2>3, Parity DEF AcquireInv, ReleaseInv, Releasing, TopLockPlaces, Locked
  <2> QED
    BY Zenon, <1>1, <2>2, <2>4, <2>5, LocalStep DEF Places, TopLockPlaces
<1> QED
  BY <1>2, <1>3

LEMMA ReleaseReadTopInv ==
  ASSUME IInv, Observe, NEW t \in Threads, ReleaseReadTop(t)
  PROVE  IInv'
<1>1. /\ TypeOK /\ pc[t] = "release" /\ ~Locked(ver_top) /\ ReleaseInv(t)
      /\ UNCHANGED <<lazy, ver_top, ver_lazy, next, held, stack, ops>>
  BY DEF IInv, ReleaseReadTop, CallInv
<1>2. ver_top.idx \in Idx /\ ver_top \in Word /\ ver_top.ver \in Nat
  BY <1>1 DEF TypeOK, Word
<1>3. /\ pc' = [pc EXCEPT ![t] = "release_next"]
      /\ seen' = [seen EXCEPT ![t] = ver_top] /\ UNCHANGED <<nxt, chain, block>>
  BY <1>2 DEF ReleaseReadTop, Goto
<1>4. pc'[t] = "release_next" /\ seen'[t] = ver_top
  BY <1>1, <1>3 DEF TypeOK
<1>5. LocalTypes /\ \A u \in Threads \ {t} : SameLocals(u)
  BY <1>1, <1>2, <1>3 DEF TypeOK, LocalTypes, SameLocals, Places
<1>6. AcquireInv(t)'
  BY <1>4 DEF AcquireInv, TopLockPlaces
<1>7. ReleaseInv(t)'
  BY <1>1, <1>2, <1>3, <1>4, Parity DEF ReleaseInv, Stale, Releasing, Locked
<1> QED
  BY Zenon, <1>1, <1>3, <1>5, <1>6, <1>7, LocalStep DEF Places, TopLockPlaces

LEMMA LockTestInv ==
  ASSUME IInv, Observe, NEW t \in Threads, LockTest(t)
  PROVE  IInv'
<1>1. /\ pc[t] = "lock"
      /\ UNCHANGED <<lazy, ver_top, ver_lazy, next, held, stack, ops>>
  BY DEF LockTest
<1>2. CASE Return(t)
  BY <1>1, <1>2, GiveUp
<1>3. CASE Goto(t, "lock_or") /\ UNCHANGED <<seen, nxt, chain, block>>
  BY <1>1, <1>3, Retry
<1> QED
  BY <1>2, <1>3 DEF LockTest

\* Moves between the places at which the first word is locked.
LEMMA HoldingTop ==
  ASSUME IInv, Observe, NEW t \in Threads, NEW p \in TopLockPlaces,
         pc[t] \in TopLockPlaces, Goto(t, p),
         UNCHANGED <<lazy, ver_top, ver_lazy, next, seen, nxt, chain, block, held,
                     stack, ops>>
  PROVE  IInv'
<1>1. p \in Places \ {"crit", "locked"} /\ p # "unlock_lazy" /\ p # "idle"
  BY DEF Places, TopLockPlaces
<1>2. TypeOK /\ pc[t] \notin {"idle", "unlock_lazy"} /\ lazy
  BY DEF IInv, CallInv, AcquireInv, TopLockPlaces
<1>3. /\ pc' = [pc EXCEPT ![t] = p] /\ pc'[t] = p /\ LocalTypes
      /\ \A u \in Threads \ {t} : SameLocals(u)
  BY <1>1, <1>2, Moved
<1>4. AcquireInv(t)' /\ ReleaseInv(t)'
  BY <1>2, <1>3 DEF AcquireInv, ReleaseInv, TopLockPlaces, Releasing
<1> QED
  BY Zenon, <1>1, <1>2, <1>3, <1>4, LocalStep

LEMMA LockLazyTestInv ==
  ASSUME IInv, Observe, NEW t \in Threads, LockLazyTest(t)
  PROVE  IInv'
<1>1. \E p \in TopLockPlaces : Goto(t, p)
  BY DEF LockLazyTest, TopLockPlaces
<1> QED
  BY <1>1, HoldingTop DEF LockLazyTest, TopLockPlaces

-----------------------------------------------------------------------------
(***************************************************************************)
(* A call that begins, and a holder that uses its elements                 *)
(***************************************************************************)

\* One more call in progress, one more call counted.
LEMMA BeginBusy ==
  ASSUME TypeOK, Counting, NEW t \in Threads, NEW p, p \notin {"idle", "unlock_lazy"},
         pc[t] = "idle", pc' = [pc EXCEPT ![t] = p]
  PROVE  /\ Cardinality(TopBusy) \in Nat /\ Cardinality(LazyBusy) \in Nat
         /\ Cardinality(TopBusy)' = Cardinality(TopBusy) + 1
         /\ Cardinality(LazyBusy)' = Cardinality(LazyBusy) + 1
<1>1. LazyBusy' = LazyBusy \cup {t} /\ TopBusy' = TopBusy \cup {t}
  BY DEF LazyBusy, TopBusy, TypeOK
<1>2. t \notin LazyBusy /\ t \notin TopBusy
  BY DEF LazyBusy, TopBusy
<1>3. LazyBusy \in SUBSET Threads /\ TopBusy \in SUBSET Threads
  BY DEF LazyBusy, TopBusy
<1>4. /\ Cardinality(LazyBusy) \in Nat
      /\ Cardinality(LazyBusy \cup {t}) = Cardinality(LazyBusy) + 1
  BY <1>2, <1>3 DEF Counting
<1>5. /\ Cardinality(TopBusy) \in Nat
      /\ Cardinality(TopBusy \cup {t}) = Cardinality(TopBusy) + 1
  BY Zenon, <1>2, <1>3 DEF Counting
<1> QED
  BY <1>1, <1>4, <1>5

LEMMA BeginInv ==
  ASSUME IInv, Observe, NEW t \in Threads, NEW p \in {"acquire", "release", "lock"},
         Begin(t, p), chain' \in [Threads -> Seq(Ele)], block' \in [Threads -> BOOLEAN],
         \A u \in Threads \ {t} : chain'[u] = chain[u],
         ReleaseInv(t)'
  PROVE  IInv'
<1> USE DEF IInv
<1>1. /\ pc[t] = "idle" /\ pc' = [pc EXCEPT ![t] = p] /\ ops' = ops + 1 /\ ops < MaxOps
      /\ UNCHANGED <<lazy, ver_top, ver_lazy, next, seen, nxt, held, stack>>
  BY DEF Begin, Goto
<1>2. pc'[t] = p /\ \A u \in Threads \ {t} : pc'[u] = pc[u]
  BY <1>1 DEF TypeOK
<1>3. TypeOK'
  <2>1. ops' \in 0 .. MaxOps
    BY <1>1, PoolAssumption DEF TypeOK
  <2>2. pc' \in [Threads -> Places]
    BY <1>1 DEF TypeOK, Places
  <2> QED
    BY <1>1, <2>1, <2>2, SawStep DEF TypeOK
<1>4. OnePlaceEach'
  BY <1>1 DEF OnePlaceEach, Stacked, LazyFree
<1>5. LinksAreStack'
  BY <1>1 DEF LinksAreStack
<1>6. CallInv'
  <2>1. ASSUME NEW u \in Threads \ {t}
        PROVE  AcquireInv(u)' /\ ReleaseInv(u)' /\ pc'[u] # "crit"
    <3>1. AcquireInv(u) /\ ReleaseInv(u) /\ pc[u] # "crit" /\ SameLocals(u)
      BY <1>1, <1>2 DEF CallInv, SameLocals
    <3>2. ver_top' \in Word /\ TopKept
      BY <1>1 DEF TypeOK, TopKept
    <3> QED
      BY <1>1, <3>1, <3>2, OtherCall DEF SameLocals
  <2>2. AcquireInv(t)' /\ pc'[t] # "crit"
    BY <1>2 DEF AcquireInv, TopLockPlaces
  <2> QED
    BY <2>1, <2>2 DEF CallInv
<1>7. LockInv'
  BY Zenon, <1>1, <1>2 DEF LockInv, HoldsTop, HoldsLazy, TopLockPlaces, Locked
<1>8. VersionInv'
  <2> DEFINE T == Cardinality(TopBusy)
             L == Cardinality(LazyBusy)
  <2>1. T \in Nat /\ L \in Nat /\ T' = T + 1 /\ L' = L + 1
    BY Zenon, <1>1, BeginBusy
  <2>2. /\ ver_top.ver \in Nat /\ ver_lazy.ver \in Nat /\ ops \in Nat
        /\ LockBit(ver_top) \in Nat /\ LockBit(ver_lazy) \in Nat
        /\ LockBit(ver_top)' = LockBit(ver_top) /\ LockBit(ver_lazy)' = LockBit(ver_lazy)
    BY <1>1 DEF TypeOK, Word, LockBit, Locked
  <2>3. /\ ver_top.ver + 2 * T <= 2 * ops + LockBit(ver_top)
        /\ ver_lazy.ver + 2 * L <= 2 * ops + LockBit(ver_lazy)
    BY DEF VersionInv
  <2> HIDE DEF T, L
  <2>4. ops' = ops + 1
    BY <1>1
  <2>5. ver_top.ver + 2 * T' <= 2 * ops' + LockBit(ver_top)
    BY <2>1, <2>2, <2>3, <2>4
  <2>6. ver_lazy.ver + 2 * L' <= 2 * ops' + LockBit(ver_lazy)
    BY <2>1, <2>2, <2>3, <2>4
  <2> QED
    BY <1>1, <2>2, <2>5, <2>6 DEF VersionInv, T, L
<1>9. SawInv'
  BY SawStep
<1> QED
  BY <1>3, <1>4, <1>5, <1>6, <1>7, <1>8, <1>9

LEMMA CallStepInv ==
  ASSUME IInv, Observe, NEW t \in Threads, Call(t)
  PROVE  IInv'
<1>1. /\ chain \in [Threads -> Seq(Ele)] /\ block \in [Threads -> BOOLEAN]
      /\ held \in [Threads -> SUBSET Ele] /\ pc \in [Threads -> Places]
  BY DEF IInv, TypeOK
<1>2. ASSUME NEW p, Begin(t, p) PROVE pc'[t] = p /\ UNCHANGED <<next, held>>
  BY <1>1, <1>2 DEF Begin, Goto
<1>3. CASE AcquireBegin(t)
  <2>1. ReleaseInv(t)'
    BY <1>2, <1>3 DEF AcquireBegin, ReleaseInv, Releasing
  <2> QED
    BY <1>1, <1>3, <2>1, BeginInv DEF AcquireBegin
<1>4. CASE ReleaseBegin(t)
  <2>1. PICK e \in held[t] : chain' = [chain EXCEPT ![t] = <<e>>]
    BY Zenon, <1>4 DEF ReleaseBegin
  <2>2. e \in Ele /\ chain'[t] = <<e>>
    BY <1>1, <2>1
  <2>3. pc'[t] = "release" /\ UNCHANGED <<next, held>>
    BY <1>2, <1>4 DEF ReleaseBegin
  <2>4. chain'[t] # <<>> /\ DOMAIN chain'[t] = {1} /\ Len(chain'[t]) = 1
    BY <2>2
  <2>5. ReleaseInv(t)'
    BY <2>2, <2>3, <2>4 DEF ReleaseInv
  <2>6. chain' \in [Threads -> Seq(Ele)]
    BY <1>1, <2>1, <2>2
  <2>7. \A u \in Threads \ {t} : chain'[u] = chain[u]
    BY <1>1, <2>1
  <2> QED
    BY <1>1, <1>4, <2>5, <2>6, <2>7, BeginInv DEF ReleaseBegin
<1>5. CASE ReleaseChainBegin(t)
  <2>1. PICK e \in held[t], f \in held[t] :
          e # f /\ next[e] = f /\ chain' = [chain EXCEPT ![t] = <<e, f>>]
    BY Zenon, <1>5 DEF ReleaseChainBegin
  <2>2. e \in Ele /\ f \in Ele /\ chain'[t] = <<e, f>>
    BY <1>1, <2>1
  <2>3. pc'[t] = "release" /\ UNCHANGED <<next, held>>
    BY <1>2, <1>5 DEF ReleaseChainBegin
  <2>4. /\ chain'[t] # <<>> /\ DOMAIN chain'[t] = {1, 2} /\ Len(chain'[t]) = 2
        /\ chain'[t][1] = e /\ chain'[t][2] = f
    BY <2>2
  <2>5. ReleaseInv(t)'
    BY <2>1, <2>3, <2>4 DEF ReleaseInv
  <2>6. <<e, f>> \in Seq(Ele)
    BY <2>2
  <2>7. chain' \in [Threads -> Seq(Ele)]
    BY <1>1, <2>1, <2>6
  <2>8. \A u \in Threads \ {t} : chain'[u] = chain[u]
    BY <1>1, <2>1
  <2> QED
    BY Zenon, <1>1, <1>5, <2>5, <2>7, <2>8, BeginInv DEF ReleaseChainBegin
<1>6. CASE LockBegin(t)
  <2>1. ReleaseInv(t)'
    BY <1>2, <1>6 DEF LockBegin, ReleaseInv, Releasing
  <2>2. block' \in [Threads -> BOOLEAN] /\ chain' = chain
    BY <1>1, <1>6 DEF LockBegin
  <2> QED
    BY <1>1, <1>6, <2>1, <2>2, BeginInv DEF LockBegin
<1> QED
  BY <1>3, <1>4, <1>5, <1>6 DEF Call

\* A link of an element that t holds is nobody else's business.
LEMMA OwnLink ==
  ASSUME TypeOK, OnePlaceEach, LinksAreStack, NEW t \in Threads, NEW e \in held[t],
         NEW v, next' = [next EXCEPT ![e] = v], UNCHANGED <<ver_top, stack>>
  PROVE  /\ LinksAreStack' /\ TopKept
         /\ \A u \in Threads \ {t} : \A f \in held[u] : next'[f] = next[f]
<1>1. e \in Ele /\ \A f \in Ele \ {e} : next'[f] = next[f]
  BY DEF TypeOK
<1>2. \A i \in DOMAIN stack : stack[i] \in Ele \ {e}
  BY DEF TypeOK, OnePlaceEach, Stacked
<1>3. \A u \in Threads \ {t} : \A f \in held[u] : f \in Ele \ {e}
  BY DEF TypeOK, OnePlaceEach
<1>4. LinksAreStack'
  BY <1>1, <1>2 DEF LinksAreStack
<1>5. ver_top.idx \in Ele => ver_top.idx \in Ele \ {e}
  <2>1. ver_top.idx \in Ele => stack # <<>> /\ ver_top.idx = stack[1]
    BY DEF LinksAreStack, Ele, idx_null
  <2>2. stack # <<>> => 1 \in DOMAIN stack
    BY DEF TypeOK
  <2> QED
    BY <1>2, <2>1, <2>2
<1>6. TopKept
  BY <1>1, <1>5 DEF TopKept
<1> QED
  BY <1>1, <1>3, <1>4, <1>6

LEMMA RepurposeInv ==
  ASSUME IInv, Observe, NEW t \in Threads, Repurpose(t)
  PROVE  IInv'
<1> USE DEF IInv
<1>1. PICK e \in held[t], v \in Idx \cup {Junk} : next' = [next EXCEPT ![e] = v]
  BY Zenon DEF Repurpose
<1>2. /\ pc[t] = "idle"
      /\ UNCHANGED <<lazy, ver_top, ver_lazy, pc, seen, nxt, chain, block, held, stack, ops>>
  BY DEF Repurpose
<1>3. TypeOK'
  BY <1>1, <1>2, SawStep DEF TypeOK
<1>4. OnePlaceEach'
  BY <1>2 DEF OnePlaceEach, Stacked, LazyFree
<1>5. /\ LinksAreStack' /\ TopKept
      /\ \A u \in Threads \ {t} : \A f \in held[u] : next'[f] = next[f]
  BY Zenon, <1>1, <1>2, OwnLink
<1>6. CallInv'
  <2>1. ASSUME NEW u \in Threads \ {t}
        PROVE  AcquireInv(u)' /\ ReleaseInv(u)' /\ pc'[u] # "crit"
    <3>1. AcquireInv(u) /\ ReleaseInv(u) /\ pc[u] # "crit" /\ SameLocals(u)
      BY <1>2 DEF CallInv, SameLocals
    <3>2. ver_top' \in Word
      BY <1>3 DEF TypeOK
    <3> QED
      BY Zenon, <1>2, <1>5, <3>1, <3>2, OtherCall
  <2>2. AcquireInv(t)' /\ ReleaseInv(t)' /\ pc'[t] # "crit"
    BY <1>2 DEF AcquireInv, ReleaseInv, TopLockPlaces, Releasing
  <2> QED
    BY <2>1, <2>2 DEF CallInv
<1>7. LockInv'
  BY <1>2 DEF LockInv, HoldsTop, HoldsLazy, Locked
<1>8. VersionInv'
  BY <1>2 DEF VersionInv, TopBusy, LazyBusy, LockBit, Locked
<1>9. SawInv'
  BY SawStep
<1> QED
  BY <1>3, <1>4, <1>5, <1>6, <1>7, <1>8, <1>9

LEMMA ReleaseWriteNextInv ==
  ASSUME IInv, Observe, NEW t \in Threads, ReleaseWriteNext(t)
  PROVE  IInv'
<1> DEFINE n == Len(chain[t])
           e == chain[t][n]
<1>1. /\ TypeOK /\ OnePlaceEach /\ LinksAreStack /\ ReleaseInv(t) /\ LockInv
      /\ pc[t] = "release_next"
      /\ next' = [next EXCEPT ![e] = seen[t].idx]
      /\ pc' = [pc EXCEPT ![t] = "release_cas"]
      /\ UNCHANGED <<lazy, ver_top, ver_lazy, seen, nxt, chain, block, held, stack, ops>>
  BY DEF IInv, CallInv, ReleaseWriteNext, Goto
<1>2. /\ n \in DOMAIN chain[t] /\ e \in held[t] /\ e \in Ele /\ Stale(t)
      /\ chain[t] \in Seq(Ele)
  BY <1>1 DEF ReleaseInv, TypeOK, Releasing
<1>3. /\ LinksAreStack' /\ TopKept
      /\ \A u \in Threads \ {t} : \A f \in held[u] : next'[f] = next[f]
  BY Zenon, <1>1, <1>2, OwnLink
<1>4. pc'[t] = "release_cas" /\ \A u \in Threads \ {t} : SameLocals(u)
  BY <1>1 DEF TypeOK, SameLocals
<1>5. TypeOK'
  <2>1. next' \in [Ele -> Idx \cup {Junk}]
    BY <1>1, <1>2 DEF TypeOK, Word
  <2>2. pc' \in [Threads -> Places]
    BY <1>1 DEF TypeOK, Places
  <2> QED
    BY <1>1, <2>1, <2>2, SawStep DEF TypeOK
<1>6. OnePlaceEach'
  BY <1>1 DEF OnePlaceEach, Stacked, LazyFree
<1>7. LockInv'
  BY <1>1, <1>4 DEF LockInv, HoldsTop, HoldsLazy, Locked, TopLockPlaces, SameLocals
<1>8. VersionStep(t, "release_cas")
  <2>1. ver_top.ver \in Nat /\ ver_lazy.ver \in Nat
    BY <1>1 DEF TypeOK, Word
  <2>2. /\ LockBit(ver_top) \in Nat /\ LockBit(ver_lazy) \in Nat
        /\ LockBit(ver_top)' = LockBit(ver_top) /\ LockBit(ver_lazy)' = LockBit(ver_lazy)
    BY <1>1 DEF LockBit, Locked
  <2> QED
    BY <1>1, <2>1, <2>2 DEF VersionStep
<1>9. AcquireInv(t)'
  BY <1>4 DEF AcquireInv, TopLockPlaces
<1>10. ReleaseInv(t)'
  <2>1. \A i \in DOMAIN chain[t] : i < n => chain[t][i] \in Ele /\ chain[t][i] # e
    BY <1>1, <1>2 DEF ReleaseInv, Releasing
  <2>2. \A i \in DOMAIN chain[t] : i < n => next'[chain[t][i]] = chain[t][i + 1]
    BY <1>1, <1>2, <2>1 DEF ReleaseInv, TypeOK, Releasing
  <2>3. next'[e] = seen[t].idx
    BY <1>1, <1>2 DEF TypeOK
  <2>4. Stale(t)'
    BY <1>1, <1>2 DEF Stale
  <2> QED
    BY Zenon, <1>1, <1>4, <2>2, <2>3, <2>4 DEF ReleaseInv, Releasing
<1>11. "release_cas" \in Places \ {"crit"}
  BY DEF Places
<1> HIDE DEF n, e
<1> QED
  BY Zenon, <1>1, <1>3, <1>4, <1>5, <1>6, <1>7, <1>8, <1>9, <1>10, <1>11, StepInv
===============================================================================
