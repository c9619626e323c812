------------------------------- MODULE PoolPara -------------------------------
(***************************************************************************)
(* The concurrent element pool of util/tmpl/fd_pool_para.c: a lock-free    *)
(* stack of free elements whose top carries a version, an optional bump    *)
(* allocator (POOL_LAZY) behind it, and a lock in the version's low bit.   *)
(*                                                                         *)
(* Every access to a word that other threads write is a step of its own,   *)
(* named for what it does; pc[t] is where thread t's call stands, seen[t]  *)
(* and nxt[t] are its locals ver_top (or ver_lazy) and ele_nxt, chain[t]   *)
(* the elements it is releasing.  A spinning thread takes no step.         *)
(* held, stack and sawEmpty are history: who was given which element, the  *)
(* order in which successful swaps stacked the free ones, and whether the  *)
(* pool has been empty since t's call began.                               *)
(***************************************************************************)
EXTENDS Integers, Sequences, FiniteSets

CONSTANTS
  Threads,    \* the threads joined to the pool
  EleMax,     \* capacity of the element store
  VerMod,     \* 2^POOL_VER_WIDTH, the number of versions
  MaxOps,     \* bound: calls made over a behaviour
  LazyModes   \* the values of POOL_LAZY considered

ASSUME PoolAssumption ==
  /\ IsFiniteSet(Threads)
  /\ EleMax \in Nat \ {0}
  /\ MaxOps \in Nat
  /\ VerMod \in Nat /\ 2 * MaxOps + 2 < VerMod  \* versions outlast the run
  /\ LazyModes \subseteq BOOLEAN

VARIABLES
  lazy,                         \* POOL_LAZY, fixed when the template expands
  ver_top, ver_lazy, next,      \* shared memory
  pc, seen, nxt, chain, block,  \* the calls in progress
  held, stack, sawEmpty,        \* history
  ops                           \* calls begun

vars == <<lazy, ver_top, ver_lazy, next, pc, seen, nxt, chain, block,
          held, stack, sawEmpty, ops>>

Ele == 0 .. EleMax - 1
idx_null == EleMax             \* POOL_(idx_null): no element
Junk == EleMax + 1             \* any other value a holder keeps in POOL_NEXT
Idx == Ele \cup {idx_null}

vidx(ver, idx) == [ver |-> ver % VerMod, idx |-> idx]
Locked(w) == w.ver % 2 = 1
Blank == vidx(0, idx_null)

LazyFree == IF ver_lazy.idx = idx_null THEN {}
            ELSE ver_lazy.idx .. EleMax - 1
Stacked == {stack[i] : i \in DOMAIN stack}
Empty == stack = <<>> /\ ver_lazy.idx = idx_null

(***************************************************************************)
(* new and reset have run: every element is in the pool, stacked in        *)
(* ascending order or, when lazy, still in the bump allocator.             *)
(***************************************************************************)
Ascending == [i \in 1 .. EleMax |-> i - 1]
Linked == [e \in Ele |-> IF e + 1 < EleMax THEN e + 1 ELSE idx_null]

Init ==
  /\ lazy \in LazyModes
  /\ ver_top = vidx(0, IF lazy THEN idx_null ELSE 0)
  /\ ver_lazy = vidx(0, IF lazy THEN 0 ELSE idx_null)
  /\ next = Linked
  /\ stack = IF lazy THEN <<>> ELSE Ascending
  /\ pc = [t \in Threads |-> "idle"]
  /\ seen = [t \in Threads |-> Blank]
  /\ nxt = [t \in Threads |-> idx_null]
  /\ chain = [t \in Threads |-> <<>>]
  /\ block = [t \in Threads |-> FALSE]
  /\ held = [t \in Threads |-> {}]
  /\ sawEmpty = [t \in Threads |-> FALSE]
  /\ ops = 0

-----------------------------------------------------------------------------
Goto(t, p) == pc' = [pc EXCEPT ![t] = p]

\* The call is over: its locals are gone.
Return(t) ==
  /\ Goto(t, "idle")
  /\ seen' = [seen EXCEPT ![t] = Blank]
  /\ nxt' = [nxt EXCEPT ![t] = idx_null]
  /\ chain' = [chain EXCEPT ![t] = <<>>]
  /\ block' = [block EXCEPT ![t] = FALSE]

Begin(t, p) ==
  /\ pc[t] = "idle"
  /\ ops < MaxOps
  /\ ops' = ops + 1
  /\ Goto(t, p)
  /\ UNCHANGED <<lazy, ver_top, ver_lazy, next, seen, nxt, held, stack>>

\* An idle holder keeps what it likes in the POOL_NEXT of its elements.
Repurpose(t) ==
  /\ pc[t] = "idle"
  /\ \E e \in held[t], v \in Idx \cup {Junk} : next' = [next EXCEPT ![e] = v]
  /\ UNCHANGED <<lazy, ver_top, ver_lazy, pc, seen, nxt, chain, block, held,
                 stack, ops>>

-----------------------------------------------------------------------------
(***************************************************************************)
(* acquire                                                                 *)
(***************************************************************************)
AcquireBegin(t) == Begin(t, "acquire") /\ UNCHANGED <<chain, block>>

\* Wrong variant: a locked stack is taken for an empty one.
AcquireReadTopHasty(t) ==
  /\ pc[t] = "acquire"
  /\ IF Locked(ver_top) \/ ver_top.idx = idx_null
     THEN IF lazy
          THEN Goto(t, "lazy") /\ UNCHANGED <<seen, nxt, chain, block>>
          ELSE Return(t)
     ELSE /\ Goto(t, "acquire_next")
          /\ seen' = [seen EXCEPT ![t] = ver_top]
          /\ UNCHANGED <<nxt, chain, block>>
  /\ UNCHANGED <<lazy, ver_top, ver_lazy, next, held, stack, ops>>

\* ver_top = *_v: the stack is empty, or its top names a candidate.
AcquireReadTop(t) ==
  /\ pc[t] = "acquire"
  /\ ~Locked(ver_top)
  /\ IF ver_top.idx = idx_null
     THEN IF lazy
          THEN Goto(t, "lazy") /\ UNCHANGED <<seen, nxt, chain, block>>
          ELSE Return(t)
     ELSE /\ Goto(t, IF ver_top.idx \in Ele THEN "acquire_next" ELSE "crit")
          /\ seen' = [seen EXCEPT ![t] = ver_top]
          /\ UNCHANGED <<nxt, chain, block>>
  /\ UNCHANGED <<lazy, ver_top, ver_lazy, next, held, stack, ops>>

\* ele_nxt is read from the candidate, which may no longer be in the pool.
AcquireReadNext(t) ==
  /\ pc[t] = "acquire_next"
  /\ nxt' = [nxt EXCEPT ![t] = next[seen[t].idx]]
  /\ Goto(t, IF next[seen[t].idx] \in Idx THEN "acquire_cas" ELSE "acquire_check")
  /\ UNCHANGED <<lazy, ver_top, ver_lazy, next, seen, chain, block, held,
                 stack, ops>>

\* Wrong variant: an invalid ele_nxt is corruption whatever the version.
AcquireCheckStrict(t) ==
  /\ pc[t] = "acquire_check"
  /\ Goto(t, "crit")
  /\ UNCHANGED <<lazy, ver_top, ver_lazy, next, seen, nxt, chain, block, held,
                 stack, ops>>

\* An invalid ele_nxt is corruption only if the version has not moved.
AcquireCheck(t) ==
  /\ pc[t] = "acquire_check"
  /\ Goto(t, IF ver_top.ver = seen[t].ver THEN "crit" ELSE "acquire")
  /\ UNCHANGED <<lazy, ver_top, ver_lazy, next, seen, nxt, chain, block, held,
                 stack, ops>>

\* Wrong variant: the swap compares the index and not the version.
AcquireSwapUnversioned(t) ==
  /\ pc[t] = "acquire_cas"
  /\ IF ver_top.idx = seen[t].idx /\ ~Locked(ver_top)
     THEN /\ ver_top' = vidx(seen[t].ver + 2, nxt[t])
          /\ held' = [held EXCEPT ![t] = @ \cup {seen[t].idx}]
          /\ stack' = Tail(stack)
          /\ Return(t)
     ELSE /\ Goto(t, "acquire")
          /\ UNCHANGED <<ver_top, held, stack, seen, nxt, chain, block>>
  /\ UNCHANGED <<lazy, ver_lazy, next, ops>>

AcquireSwap(t) ==
  /\ pc[t] = "acquire_cas"
  /\ IF ver_top = seen[t]
     THEN /\ ver_top' = vidx(seen[t].ver + 2, nxt[t])
          /\ held' = [held EXCEPT ![t] = @ \cup {seen[t].idx}]
          /\ stack' = Tail(stack)
          /\ Return(t)
     ELSE /\ Goto(t, "acquire")
          /\ UNCHANGED <<ver_top, held, stack, seen, nxt, chain, block>>
  /\ UNCHANGED <<lazy, ver_lazy, next, ops>>

\* acquire_lazy: the bump allocator, tried when the stack was seen empty.
LazyRead(t) ==
  /\ pc[t] = "lazy"
  /\ ~Locked(ver_lazy)
  /\ IF ver_lazy.idx = idx_null
     THEN Return(t)
     ELSE /\ Goto(t, IF ver_lazy.idx \in Ele THEN "lazy_cas" ELSE "crit")
          /\ seen' = [seen EXCEPT ![t] = ver_lazy]
          /\ UNCHANGED <<nxt, chain, block>>
  /\ UNCHANGED <<lazy, ver_top, ver_lazy, next, held, stack, ops>>

\* Wrong variant: a plain store in place of the compare and swap.
LazySwapBlind(t) ==
  /\ pc[t] = "lazy_cas"
  /\ ver_lazy' = vidx(seen[t].ver + 2,
                      IF seen[t].idx + 1 >= EleMax THEN idx_null ELSE seen[t].idx + 1)
  /\ held' = [held EXCEPT ![t] = @ \cup {seen[t].idx}]
  /\ Return(t)
  /\ UNCHANGED <<lazy, ver_top, next, stack, ops>>

LazySwap(t) ==
  /\ pc[t] = "lazy_cas"
  /\ IF ver_lazy = seen[t]
     THEN /\ ver_lazy' = vidx(seen[t].ver + 2,
                              IF seen[t].idx + 1 >= EleMax THEN idx_null
                              ELSE seen[t].idx + 1)
          /\ held' = [held EXCEPT ![t] = @ \cup {seen[t].idx}]
          /\ Return(t)
     ELSE /\ Goto(t, "lazy")
          /\ UNCHANGED <<ver_lazy, held, seen, nxt, chain, block>>
  /\ UNCHANGED <<lazy, ver_top, next, stack, ops>>

-----------------------------------------------------------------------------
(***************************************************************************)
(* release and release_chain: the elements of chain[t], already linked to  *)
(* each other by the caller, are spliced above the top in one swap.        *)
(***************************************************************************)
ReleaseBegin(t) ==
  /\ \E e \in held[t] : chain' = [chain EXCEPT ![t] = <<e>>]
  /\ Begin(t, "release")
  /\ UNCHANGED block

ReleaseChainBegin(t) ==
  /\ \E e, f \in held[t] : /\ e # f /\ next[e] = f
                           /\ chain' = [chain EXCEPT ![t] = <<e, f>>]
  /\ Begin(t, "release")
  /\ UNCHANGED block

ReleaseReadTop(t) ==
  /\ pc[t] = "release"
  /\ ~Locked(ver_top)
  /\ seen' = [seen EXCEPT ![t] = ver_top]
  /\ Goto(t, IF ver_top.idx \in Idx THEN "release_next" ELSE "crit")
  /\ UNCHANGED <<lazy, ver_top, ver_lazy, next, nxt, chain, block, held,
                 stack, ops>>

ReleaseWriteNext(t) ==
  /\ pc[t] = "release_next"
  /\ next' = [next EXCEPT ![chain[t][Len(chain[t])]] = seen[t].idx]
  /\ Goto(t, "release_cas")
  /\ UNCHANGED <<lazy, ver_top, ver_lazy, seen, nxt, chain, block, held,
                 stack, ops>>

ReleaseSwap(t) ==
  /\ pc[t] = "release_cas"
  /\ IF ver_top = seen[t]
     THEN /\ ver_top' = vidx(seen[t].ver + 2, chain[t][1])
          /\ held' = [held EXCEPT ![t] = @ \ {chain[t][i] : i \in DOMAIN chain[t]}]
          /\ stack' = chain[t] \o stack
          /\ Return(t)
     ELSE /\ Goto(t, "release")
          /\ UNCHANGED <<ver_top, held, stack, seen, nxt, chain, block>>
  /\ UNCHANGED <<lazy, ver_lazy, next, ops>>

-----------------------------------------------------------------------------
(***************************************************************************)
(* lock, reset, unlock.  block[t] is the argument blocking.                *)
(***************************************************************************)
LockBegin(t) ==
  /\ \E b \in BOOLEAN : block' = [block EXCEPT ![t] = b]
  /\ Begin(t, "lock")
  /\ UNCHANGED chain

\* The test of the test-and-test-and-set; a blocking caller spins on it.
LockTest(t) ==
  /\ pc[t] = "lock"
  /\ \/ /\ ~Locked(ver_top)
        /\ Goto(t, "lock_or")
        /\ UNCHANGED <<seen, nxt, chain, block>>
     \/ Locked(ver_top) /\ ~block[t] /\ Return(t)
  /\ UNCHANGED <<lazy, ver_top, ver_lazy, next, held, stack, ops>>

\* fetch_and_or on the lock bit; seen[t] keeps the word it replaced.
LockSet(t) ==
  /\ pc[t] = "lock_or"
  /\ \/ /\ ~Locked(ver_top)
        /\ ver_top' = vidx(ver_top.ver + 1, ver_top.idx)
        /\ seen' = [seen EXCEPT ![t] = ver_top]
        /\ Goto(t, IF lazy THEN "lock_lazy" ELSE "locked")
        /\ UNCHANGED <<nxt, chain, block>>
     \/ /\ Locked(ver_top) /\ block[t]
        /\ Goto(t, "lock")
        /\ UNCHANGED <<ver_top, seen, nxt, chain, block>>
     \/ Locked(ver_top) /\ ~block[t] /\ Return(t) /\ UNCHANGED ver_top
  /\ UNCHANGED <<lazy, ver_lazy, next, held, stack, ops>>

LockLazyTest(t) ==
  /\ pc[t] = "lock_lazy"
  /\ \/ ~Locked(ver_lazy) /\ Goto(t, "lock_lazy_or")
     \/ Locked(ver_lazy) /\ ~block[t] /\ Goto(t, "lock_undo")
  /\ UNCHANGED <<lazy, ver_top, ver_lazy, next, seen, nxt, chain, block, held,
                 stack, ops>>

LockLazySet(t) ==
  /\ pc[t] = "lock_lazy_or"
  /\ IF ~Locked(ver_lazy)
     THEN /\ ver_lazy' = vidx(ver_lazy.ver + 1, ver_lazy.idx)
          /\ Goto(t, "locked")
     ELSE /\ Goto(t, IF block[t] THEN "lock_lazy" ELSE "lock_undo")
          /\ UNCHANGED ver_lazy
  /\ UNCHANGED <<lazy, ver_top, next, seen, nxt, chain, block, held, stack, ops>>

\* Wrong variant: the first word stays locked.
LockUndoNot(t) ==
  /\ pc[t] = "lock_undo"
  /\ Return(t)
  /\ UNCHANGED <<lazy, ver_top, ver_lazy, next, held, stack, ops>>

\* The caller would not wait for the second word: the first is unlocked.
LockUndo(t) ==
  /\ pc[t] = "lock_undo"
  /\ ver_top' = vidx(seen[t].ver + 2, seen[t].idx)
  /\ Return(t)
  /\ UNCHANGED <<lazy, ver_lazy, next, held, stack, ops>>

\* The owner of the lock takes every element back; no caller may hold one.
Reset(t) ==
  /\ pc[t] = "locked"
  /\ \A u \in Threads : held[u] = {}
  /\ ver_top' = vidx(ver_top.ver, IF lazy THEN idx_null ELSE 0)
  /\ ver_lazy' = IF lazy THEN vidx(ver_lazy.ver, 0) ELSE ver_lazy
  /\ next' = IF lazy THEN next ELSE Linked
  /\ stack' = IF lazy THEN <<>> ELSE Ascending
  /\ UNCHANGED <<lazy, pc, seen, nxt, chain, block, held, ops>>

UnlockTop(t) ==
  /\ pc[t] = "locked"
  /\ ver_top' = vidx(ver_top.ver + 1, ver_top.idx)
  /\ IF lazy THEN Goto(t, "unlock_lazy") /\ UNCHANGED <<seen, nxt, chain, block>>
     ELSE Return(t)
  /\ UNCHANGED <<lazy, ver_lazy, next, held, stack, ops>>

UnlockLazy(t) ==
  /\ pc[t] = "unlock_lazy"
  /\ ver_lazy' = vidx(ver_lazy.ver + 1, ver_lazy.idx)
  /\ Return(t)
  /\ UNCHANGED <<lazy, ver_top, next, held, stack, ops>>

-----------------------------------------------------------------------------
AcquireStep(t) ==
  \/ AcquireReadTop(t) \/ AcquireReadNext(t) \/ AcquireCheck(t)
  \/ AcquireSwap(t) \/ LazyRead(t) \/ LazySwap(t)

ReleaseStep(t) ==
  \/ ReleaseReadTop(t) \/ ReleaseWriteNext(t) \/ ReleaseSwap(t)

LockStep(t) ==
  \/ LockTest(t) \/ LockSet(t) \/ LockLazyTest(t) \/ LockLazySet(t)
  \/ LockUndo(t) \/ UnlockTop(t) \/ UnlockLazy(t)

Call(t) ==
  \/ AcquireBegin(t) \/ ReleaseBegin(t) \/ ReleaseChainBegin(t) \/ LockBegin(t)

\* The history of emptiness: forgotten outside calls.
Observe ==
  sawEmpty' = [t \in Threads |-> /\ pc'[t] # "idle"
                                 /\ sawEmpty[t] \/ Empty']

Step(t) ==
  /\ AcquireStep(t) \/ ReleaseStep(t) \/ LockStep(t)
  /\ Observe

Next == \E t \in Threads :
          \/ Step(t)
          \/ (Call(t) \/ Repurpose(t) \/ Reset(t)) /\ Observe

(***************************************************************************)
(* A thread that is inside a call, or holds the lock, keeps running.       *)
(***************************************************************************)
Spec == Init /\ [][Next]_vars /\ \A t \in Threads : WF_vars(Step(t))

-----------------------------------------------------------------------------
Places == {"idle", "acquire", "acquire_next", "acquire_check", "acquire_cas",
           "lazy", "lazy_cas", "release", "release_next", "release_cas",
           "lock", "lock_or", "lock_lazy", "lock_lazy_or", "lock_undo",
           "locked", "unlock_lazy", "crit"}

Word == [ver : 0 .. VerMod - 1, idx : Idx]

(***************************************************************************)
(* The indices stored by the swaps and seen by the calls of                *)
(* fd_pool_para.c are element indices or idx_null, and fit their widths.   *)
(***************************************************************************)
TypeOK ==
  /\ lazy \in BOOLEAN
  /\ ver_top \in Word /\ ver_lazy \in Word
  /\ next \in [Ele -> Idx \cup {Junk}]
  /\ pc \in [Threads -> Places]
  /\ seen \in [Threads -> Word]
  /\ nxt \in [Threads -> Idx \cup {Junk}]
  /\ chain \in [Threads -> Seq(Ele)]
  /\ block \in [Threads -> BOOLEAN]
  /\ held \in [Threads -> SUBSET Ele]
  /\ stack \in Seq(Ele)
  /\ sawEmpty \in [Threads -> BOOLEAN]
  /\ ops \in 0 .. MaxOps

(***************************************************************************)
(* However acquire, release, release_chain, lock and reset interleave,     *)
(* every element is in exactly one place: once on the free stack, in the   *)
(* bump allocator's range, or with the one thread acquire gave it to.      *)
(***************************************************************************)
OnePlaceEach ==
  /\ \A i, j \in DOMAIN stack : stack[i] = stack[j] => i = j
  /\ \A t, u \in Threads : t # u => held[t] \cap held[u] = {}
  /\ \A t \in Threads : held[t] \cap (Stacked \cup LazyFree) = {}
  /\ Stacked \cap LazyFree = {}
  /\ \A e \in Ele : \/ e \in Stacked \cup LazyFree
                    \/ \E t \in Threads : e \in held[t]

(***************************************************************************)
(* The links in memory are the free stack: ver_top names its first         *)
(* element and POOL_NEXT of each stacked element names the following one,  *)
(* so that an acquire that read a candidate's link before its swap wins    *)
(* stored the right one (the versioning's answer to ABA).                  *)
(***************************************************************************)
LinksAreStack ==
  /\ ver_top.idx = IF stack = <<>> THEN idx_null ELSE stack[1]
  /\ \A i \in DOMAIN stack :
       next[stack[i]] = IF i < Len(stack) THEN stack[i + 1] ELSE idx_null

(***************************************************************************)
(* None of the FD_LOG_CRIT corruption checks of acquire, acquire_lazy and  *)
(* release fires, whatever holders write into POOL_NEXT of the elements    *)
(* they own while another acquire still looks at them.                     *)
(***************************************************************************)
NeverCritical == \A t \in Threads : pc[t] # "crit"

NullReturn(t) == /\ pc[t] \in {"acquire", "lazy"} /\ pc'[t] = "idle"

(***************************************************************************)
(* "Failure can occur if the mypool contained no elements at some point    *)
(* during the call": without POOL_LAZY an acquire that answers NULL was    *)
(* running while the pool was empty.                                       *)
(***************************************************************************)
NullMeansEmpty ==
  [][\A t \in Threads : NullReturn(t) /\ ~lazy => sawEmpty[t]]_vars

(***************************************************************************)
(* A call of the pool returns: swaps lost to other calls, spinning on a    *)
(* locked word and retried lock attempts all come to an end when threads   *)
(* keep running and the owner of the lock gives it back.                   *)
(***************************************************************************)
CallsReturn == \A t \in Threads : pc[t] # "idle" ~> pc[t] = "idle"

==============================================================================
