---------------------------- MODULE PoolParaProofs ----------------------------
(***************************************************************************)
(* The theorems about the concurrent element pool of fd_pool_para.c, for any *)
(* number of threads and elements and both values of POOL_LAZY: swapping,  *)
(* locking and resetting keep the invariant of PoolParaInv too, so it      *)
(* holds throughout.                                                       *)
(***************************************************************************)
EXTENDS PoolParaInv

(***************************************************************************)
(* The swaps that win                                                      *)
(***************************************************************************)

\* What popping the first element of a stack without repetition does.
LEMMA StackPop ==
  ASSUME NEW S, NEW s \in Seq(S), s # <<>>,
         \A i, j \in DOMAIN s : s[i] = s[j] => i = j
  PROVE  /\ 1 \in DOMAIN s
         /\ Tail(s) \in Seq(S) /\ Len(Tail(s)) = Len(s) - 1
         /\ \A i \in DOMAIN Tail(s) : i + 1 \in DOMAIN s /\ Tail(s)[i] = s[i + 1]
         /\ {Tail(s)[i] : i \in DOMAIN Tail(s)} = {s[i] : i \in DOMAIN s} \ {s[1]}
<1>1. 1 \in DOMAIN s /\ Len(s) \in Nat /\ DOMAIN s = 1 .. Len(s)
  OBVIOUS
<1>2. Tail(s) \in Seq(S) /\ Len(Tail(s)) = Len(s) - 1
  OBVIOUS
<1>3. DOMAIN Tail(s) = 1 .. Len(s) - 1
  BY <1>2
<1>4. \A i \in DOMAIN Tail(s) : i + 1 \in DOMAIN s /\ Tail(s)[i] = s[i + 1]
  BY <1>1, <1>3
<1>5. \A j \in DOMAIN s : j # 1 => j - 1 \in DOMAIN Tail(s) /\ s[j] = Tail(s)[j - 1]
  BY <1>1, <1>3, <1>4
<1>6. \A i \in DOMAIN Tail(s) : Tail(s)[i] # s[1]
  BY <1>1, <1>3, <1>4
<1>7. {Tail(s)[i] : i \in DOMAIN Tail(s)} = {s[i] : i \in DOMAIN s} \ {s[1]}
  <2>1. \A x : (\E i \in DOMAIN Tail(s) : x = Tail(s)[i]) =>
               (\E i \in DOMAIN s : x = s[i]) /\ x # s[1]
    BY <1>4, <1>6
  <2>2. \A x : (\E i \in DOMAIN s : x = s[i]) /\ x # s[1] =>
               (\E i \in DOMAIN Tail(s) : x = Tail(s)[i])
    BY Zenon, <1>5
  <2> QED
    BY <2>1, <2>2
<1> QED
  BY <1>1, <1>2, <1>4, <1>7

\* An element leaves the stack or the bump allocator for a thread.
LEMMA GiveOne ==
  ASSUME TypeOK, OnePlaceEach, NEW t \in Threads, NEW e \in Stacked \cup LazyFree,
         held'[t] = held[t] \cup {e}, \A u \in Threads \ {t} : held'[u] = held[u],
         Stacked' \subseteq Stacked, LazyFree' \subseteq LazyFree,
         Stacked' \cup LazyFree' = (Stacked \cup LazyFree) \ {e},
         \A i, j \in DOMAIN stack' : stack'[i] = stack'[j] => i = j
  PROVE  OnePlaceEach'
<1>1. \A u \in Threads : e \notin held[u]
  BY DEF OnePlaceEach
<1>2. \A u, w \in Threads : u # w => held'[u] \cap held'[w] = {}
  BY <1>1 DEF OnePlaceEach
<1>3. \A u \in Threads : held'[u] \cap (Stacked' \cup LazyFree') = {}
  BY <1>1 DEF OnePlaceEach
<1>4. Stacked' \cap LazyFree' = {}
  BY DEF OnePlaceEach
<1>5. \A f \in Ele : \/ f \in Stacked' \cup LazyFree'
                     \/ \E u \in Threads : f \in held'[u]
  <2>1. \A u \in Threads : held[u] \subseteq held'[u]
    OBVIOUS
  <2>2. e \in held'[t]
    OBVIOUS
  <2>3. \A f \in Ele : \/ f \in Stacked \cup LazyFree
                       \/ \E u \in Threads : f \in held[u]
    BY Zenon DEF OnePlaceEach
  <2> QED
    BY <2>1, <2>2, <2>3, Zenon
<1> QED
  BY <1>2, <1>3, <1>4, <1>5, Zenon DEF OnePlaceEach

\* A winning swap of ver_top by a call that then returns.
LEMMA TopSwapped ==
  ASSUME IInv, NEW t \in Threads, pc[t] \notin {"idle", "unlock_lazy"}, Return(t),
         ~Locked(ver_top), NEW i \in Idx, ver_top' = vidx(ver_top.ver + 2, i),
         UNCHANGED <<lazy, ver_lazy>>
  PROVE  /\ ver_top' \in Word /\ ver_top'.idx = i
         /\ LockInv' /\ TopKept /\ VersionStep(t, "idle")
<1>1. TypeOK /\ LockInv /\ VersionInv /\ ver_top.ver \in Nat /\ ver_lazy.ver \in Nat
  BY DEF IInv, TypeOK, Word
<1>2. ver_top.ver + 2 < VerMod
  BY <1>1, Room DEF IInv
<1>3. ver_top' = [ver |-> ver_top.ver + 2, idx |-> i]
  BY <1>1, <1>2, VidxExact
<1>4. ver_top' \in Word /\ ver_top'.idx = i /\ ver_top'.ver = ver_top.ver + 2
  BY <1>1, <1>2, <1>3, PoolAssumption DEF Word
<1>5. pc'[t] = "idle" /\ \A u \in Threads \ {t} : pc'[u] = pc[u]
  BY <1>1, Returned DEF SameLocals, TypeOK
<1>6. LockInv'
  <2>1. \A u \in Threads : ~HoldsTop(u)
    BY <1>1 DEF LockInv
  <2>2. \A u \in Threads : ~HoldsTop(u)'
    BY <1>5, <2>1 DEF HoldsTop, TopLockPlaces
  <2>3. \A u \in Threads : pc'[u] \notin TopLockPlaces
    BY <2>2 DEF HoldsTop
  <2>4. \A u \in Threads : HoldsLazy(u)' => HoldsLazy(u)
    BY <1>5 DEF HoldsLazy
  <2> QED
    BY Zenon, <1>1, <2>2, <2>3, <2>4 DEF LockInv, Locked
<1>7. TopKept
  BY <1>1, <1>4 DEF TopKept
<1>8. VersionStep(t, "idle")
  <2>1. LockBit(ver_top) = 0 /\ LockBit(ver_top)' = 0
    BY <1>1, <1>4, Parity DEF LockBit, Locked
  <2>2. LockBit(ver_lazy) \in Nat /\ LockBit(ver_lazy)' = LockBit(ver_lazy)
    BY DEF LockBit, Locked
  <2> QED
    BY <1>1, <1>4, <2>1, <2>2 DEF VersionStep
<1> QED
  BY <1>4, <1>6, <1>7, <1>8

LEMMA AcquireSwapInv ==
  ASSUME IInv, Observe, NEW t \in Threads, AcquireSwap(t)
  PROVE  IInv'
<1> DEFINE e == seen[t].idx
<1>1. /\ TypeOK /\ OnePlaceEach /\ LinksAreStack /\ AcquireInv(t)
      /\ pc[t] = "acquire_cas" /\ UNCHANGED <<lazy, ver_lazy, next, ops>>
  BY DEF IInv, CallInv, AcquireSwap
<1>2. CASE ver_top # seen[t]
  BY <1>1, <1>2, Retry DEF AcquireSwap
<1>3. CASE ver_top = seen[t]
  <2>1. /\ ver_top' = vidx(ver_top.ver + 2, nxt[t])
        /\ held' = [held EXCEPT ![t] = @ \cup {e}]
        /\ stack' = Tail(stack) /\ Return(t)
    BY <1>3 DEF AcquireSwap
  <2>2. /\ ~Locked(ver_top) /\ e \in Ele /\ nxt[t] \in Idx /\ nxt[t] = next[e]
    BY <1>1, <1>3 DEF AcquireInv, Stale, Locked
  <2>3. ver_top' \in Word /\ ver_top'.idx = nxt[t] /\ LockInv' /\ TopKept /\ VersionStep(t, "idle")
    BY <1>1, <2>1, <2>2, TopSwapped
  <2>4. stack # <<>> /\ stack[1] = e /\ stack \in Seq(Ele)
    BY <1>1, <1>3, <2>2 DEF LinksAreStack, Ele, idx_null, TypeOK
  <2>5. /\ 1 \in DOMAIN stack
        /\ stack' \in Seq(Ele) /\ Len(stack') = Len(stack) - 1
        /\ \A i \in DOMAIN stack' : i + 1 \in DOMAIN stack /\ stack'[i] = stack[i + 1]
        /\ Stacked' = Stacked \ {e}
    <3>1. \A i, j \in DOMAIN stack : stack[i] = stack[j] => i = j
      BY <1>1 DEF OnePlaceEach
    <3>2. /\ 1 \in DOMAIN stack
          /\ Tail(stack) \in Seq(Ele) /\ Len(Tail(stack)) = Len(stack) - 1
          /\ \A i \in DOMAIN Tail(stack) :
               i + 1 \in DOMAIN stack /\ Tail(stack)[i] = stack[i + 1]
          /\ {Tail(stack)[i] : i \in DOMAIN Tail(stack)}
               = {stack[i] : i \in DOMAIN stack} \ {stack[1]}
      BY <2>4, <3>1, StackPop, Zenon
    <3>3. stack' = Tail(stack) /\ e = stack[1]
      BY <2>1, <2>4
    <3>4. Stacked' = Stacked \ {e}
      <4>1. Stacked' = {stack'[i] : i \in DOMAIN stack'}
        BY Zenon DEF Stacked
      <4>2. Stacked' = {Tail(stack)[i] : i \in DOMAIN Tail(stack)}
        BY <3>3, <4>1
      <4>3. Stacked = {stack[i] : i \in DOMAIN stack}
        BY Zenon DEF Stacked
      <4> HIDE DEF e
      <4> QED
        BY <3>2, <3>3, <4>2, <4>3, Zenon
    <3>5. /\ stack' \in Seq(Ele) /\ Len(stack') = Len(stack) - 1
          /\ \A i \in DOMAIN stack' : i + 1 \in DOMAIN stack /\ stack'[i] = stack[i + 1]
      BY <3>2, <3>3, Zenon
    <3> HIDE DEF e
    <3> QED
      BY <3>2, <3>4, <3>5, Zenon
  <2>6. /\ pc' = [pc EXCEPT ![t] = "idle"] /\ LocalTypes
        /\ \A u \in Threads \ {t} : SameLocals(u)
        /\ AcquireInv(t)' /\ ReleaseInv(t)'
    BY <1>1, <2>1, Returned
  <2>7. /\ held' \in [Threads -> SUBSET Ele] /\ held'[t] = held[t] \cup {e}
        /\ \A u \in Threads \ {t} : held'[u] = held[u]
    BY <1>1, <2>1, <2>2 DEF TypeOK
  <2>8. TypeOK'
    BY Zenon, <1>1, <2>3, <2>5, <2>6, <2>7, SawStep DEF TypeOK, LocalTypes
  <2>9. OnePlaceEach'
    <3>1. /\ e \in Stacked /\ LazyFree' = LazyFree
          /\ Stacked \cap LazyFree = {}
      BY <1>1, <2>4, <2>5 DEF Stacked, LazyFree, OnePlaceEach
    <3>2. \A i, j \in DOMAIN stack' : stack'[i] = stack'[j] => i = j
      <4>1. \A i \in DOMAIN stack' : i \in Int
        BY <2>5
      <4> QED
        BY <1>1, <2>5, <4>1 DEF OnePlaceEach
    <3>3. /\ Stacked' \subseteq Stacked /\ LazyFree' \subseteq LazyFree
          /\ Stacked' \cup LazyFree' = (Stacked \cup LazyFree) \ {e}
      BY <2>5, <3>1
    <3> HIDE DEF e
    <3> QED
      BY <1>1, <2>7, <3>1, <3>2, <3>3, GiveOne
  <2>10. LinksAreStack'
    <3>1. nxt[t] = IF stack' = <<>> THEN idx_null ELSE stack'[1]
      <4>1. next[e] = IF 1 < Len(stack) THEN stack[2] ELSE idx_null
        BY <1>1, <2>4, <2>5 DEF LinksAreStack
      <4>2. stack' = <<>> <=> ~(1 < Len(stack))
        BY <2>4, <2>5
      <4>3. stack' # <<>> => 1 \in DOMAIN stack'
        BY <2>5
      <4> QED
        BY <2>2, <2>5, <4>1, <4>2, <4>3
    <3>2. ASSUME NEW i \in DOMAIN stack'
          PROVE  next[stack'[i]] = IF i < Len(stack') THEN stack'[i + 1] ELSE idx_null
      <4>1. i \in Nat /\ i + 1 \in DOMAIN stack /\ stack'[i] = stack[i + 1]
            /\ Len(stack) \in Nat /\ Len(stack') = Len(stack) - 1
        BY <2>4, <2>5
      <4>2. i < Len(stack') => i + 1 \in DOMAIN stack' /\ stack'[i + 1] = stack[i + 2]
        BY <2>5, <4>1
      <4>3. next[stack[i + 1]] = IF i + 1 < Len(stack) THEN stack[i + 1 + 1] ELSE idx_null
        BY <1>1, <4>1 DEF LinksAreStack
      <4>4. i + 1 + 1 = i + 2 /\ (i + 1 < Len(stack) <=> i < Len(stack'))
        BY <4>1
      <4> QED
        BY <4>1, <4>2, <4>3, <4>4
    <3> QED
      BY <1>1, <2>3, <3>1, <3>2 DEF LinksAreStack
  <2>11. "idle" \in Places \ {"crit"}
    BY DEF Places
  <2> HIDE DEF e
  <2> QED
    BY Zenon, <1>1, <2>3, <2>6, <2>7, <2>8, <2>9, <2>10, <2>11, StepInv
<1> QED
  BY <1>2, <1>3

LEMMA LazySwapInv ==
  ASSUME IInv, Observe, NEW t \in Threads, LazySwap(t)
  PROVE  IInv'
<1> DEFINE e == seen[t].idx
           n == IF e + 1 >= EleMax THEN idx_null ELSE e + 1
<1>1. /\ TypeOK /\ OnePlaceEach /\ LinksAreStack /\ AcquireInv(t) /\ LockInv /\ VersionInv
      /\ pc[t] = "lazy_cas" /\ lazy /\ UNCHANGED <<lazy, ver_top, next, stack, ops>>
  BY DEF IInv, CallInv, LazySwap, AcquireInv
<1>2. CASE ver_lazy # seen[t]
  BY Zenon, <1>1, <1>2, Retry DEF LazySwap
<1>3. CASE ver_lazy = seen[t]
  <2>1. /\ ver_lazy' = vidx(ver_lazy.ver + 2, n)
        /\ held' = [held EXCEPT ![t] = @ \cup {e}] /\ Return(t)
    BY <1>3 DEF LazySwap
  <2>2. ~Locked(ver_lazy) /\ e \in Ele /\ ver_lazy.idx = e /\ ver_lazy.ver \in Nat /\ ver_top.ver \in Nat
    BY <1>1, <1>3 DEF AcquireInv, Locked, TypeOK, Word
  <2>3. n \in Idx /\ e \in Nat /\ e < EleMax
    BY <2>2, PoolAssumption DEF Idx, Ele, idx_null
  <2>4. ver_lazy.ver + 2 < VerMod
    BY <1>1, Room DEF IInv
  <2>5. ver_lazy' = [ver |-> ver_lazy.ver + 2, idx |-> n]
    BY <2>1, <2>2, <2>4, VidxExact
  <2>6. ver_lazy' \in Word /\ ver_lazy'.ver = ver_lazy.ver + 2 /\ ver_lazy'.idx = n
    BY <2>2, <2>3, <2>4, <2>5, PoolAssumption DEF Word
  <2>7. /\ pc' = [pc EXCEPT ![t] = "idle"] /\ LocalTypes
        /\ \A u \in Threads \ {t} : SameLocals(u)
        /\ AcquireInv(t)' /\ ReleaseInv(t)'
    BY <1>1, <2>1, Returned
  <2>8. /\ held' \in [Threads -> SUBSET Ele] /\ held'[t] = held[t] \cup {e}
        /\ \A u \in Threads \ {t} : held'[u] = held[u]
    BY <1>1, <2>1, <2>2 DEF TypeOK
  <2>9. TypeOK'
    BY Zenon, <1>1, <2>6, <2>7, <2>8, SawStep DEF TypeOK, LocalTypes
  <2>10. OnePlaceEach'
    <3>1. LazyFree = e .. EleMax - 1 /\ e \in LazyFree
      BY <2>2, <2>3, PoolAssumption DEF LazyFree, idx_null
    <3>2. LazyFree' = (e + 1) .. EleMax - 1
      BY <2>3, <2>6, PoolAssumption DEF LazyFree, idx_null
    <3>3. LazyFree' = LazyFree \ {e}
      BY <2>3, <3>1, <3>2, PoolAssumption
    <3>4. Stacked' = Stacked /\ Stacked \cap LazyFree = {}
      BY <1>1 DEF Stacked, OnePlaceEach
    <3>5. /\ Stacked' \subseteq Stacked /\ LazyFree' \subseteq LazyFree
          /\ Stacked' \cup LazyFree' = (Stacked \cup LazyFree) \ {e}
      BY <3>1, <3>3, <3>4
    <3>6. \A i, j \in DOMAIN stack' : stack'[i] = stack'[j] => i = j
      BY <1>1 DEF OnePlaceEach
    <3> HIDE DEF e
    <3> QED
      BY <1>1, <2>8, <3>1, <3>5, <3>6, GiveOne
  <2>11. LinksAreStack'
    BY <1>1 DEF LinksAreStack
  <2>12. pc'[t] = "idle" /\ \A u \in Threads \ {t} : pc'[u] = pc[u] /\ seen'[u] = seen[u]
    BY <1>1, <2>7 DEF SameLocals, TypeOK
  <2>13. LockInv'
    <3>1. \A u \in Threads : ~HoldsLazy(u)
      BY <1>1, <2>2 DEF LockInv
    <3>2. \A u \in Threads : ~HoldsLazy(u)'
      BY <1>1, <2>12, <3>1 DEF HoldsLazy
    <3>3. \A u \in Threads : HoldsTop(u)' => HoldsTop(u)
      BY <2>12 DEF HoldsTop, TopLockPlaces
    <3>4. \A u \in Threads : pc'[u] \in TopLockPlaces => pc[u] \in TopLockPlaces /\ seen'[u] = seen[u]
      BY <2>12 DEF TopLockPlaces
    <3> QED
      BY Zenon, <1>1, <3>2, <3>3, <3>4 DEF LockInv, Locked
  <2>14. TopKept
    BY <1>1 DEF TopKept
  <2>15. VersionStep(t, "idle")
    <3>1. LockBit(ver_lazy) = 0 /\ LockBit(ver_lazy)' = 0
      BY <2>2, <2>6, Parity DEF LockBit, Locked
    <3>2. LockBit(ver_top) \in Nat /\ LockBit(ver_top)' = LockBit(ver_top)
      BY <1>1 DEF LockBit, Locked
    <3> QED
      BY <1>1, <2>2, <2>6, <3>1, <3>2 DEF VersionStep
  <2>16. "idle" \in Places \ {"crit"}
    BY DEF Places
  <2> HIDE DEF e, n
  <2> QED
    BY Zenon, <1>1, <2>7, <2>8, <2>9, <2>10, <2>11, <2>13, <2>14, <2>15, <2>16, StepInv
<1> QED
  BY <1>2, <1>3

\* What pushing a chain onto a stack does, when they share no element.
LEMMA StackPush ==
  ASSUME NEW S, NEW c \in Seq(S), NEW s \in Seq(S), c # <<>>,
         \A i, j \in DOMAIN c : c[i] = c[j] => i = j,
         \A i, j \in DOMAIN s : s[i] = s[j] => i = j,
         \A i \in DOMAIN c, j \in DOMAIN s : c[i] # s[j]
  PROVE  /\ c \o s \in Seq(S) /\ c \o s # <<>> /\ Len(c \o s) = Len(c) + Len(s)
         /\ \A i \in DOMAIN c : i \in DOMAIN (c \o s) /\ (c \o s)[i] = c[i]
         /\ \A j \in DOMAIN s : Len(c) + j \in DOMAIN (c \o s) /\ (c \o s)[Len(c) + j] = s[j]
         /\ \A k \in DOMAIN (c \o s) : k \in DOMAIN c \/ k - Len(c) \in DOMAIN s
         /\ \A i, j \in DOMAIN (c \o s) : (c \o s)[i] = (c \o s)[j] => i = j
<1> DEFINE m == Len(c)
           z == c \o s
<1>1. m \in Nat /\ m > 0 /\ Len(s) \in Nat /\ DOMAIN c = 1 .. m /\ DOMAIN s = 1 .. Len(s)
  OBVIOUS
<1>2. z \in Seq(S) /\ Len(z) = m + Len(s)
  OBVIOUS
<1>3. DOMAIN z = 1 .. m + Len(s) /\ z # <<>>
  BY <1>1, <1>2
<1>4. \A i \in 1 .. m : z[i] = c[i]
  BY <1>1
<1>5. \A j \in 1 .. Len(s) : z[m + j] = s[j]
  BY <1>1
<1>6. \A k \in DOMAIN z : k \in 1 .. m \/ (k - m \in 1 .. Len(s) /\ z[k] = s[k - m])
  BY <1>1, <1>3
<1> HIDE DEF m, z
<1>7. \A i \in 1 .. m : i \in DOMAIN z
  BY <1>1, <1>3
<1>8. \A j \in 1 .. Len(s) : m + j \in DOMAIN z
  BY <1>1, <1>3
<1>9. ASSUME NEW i \in DOMAIN z, NEW j \in DOMAIN z, z[i] = z[j] PROVE i = j
  <2>1. i \in Int /\ j \in Int
    BY <1>1, <1>3
  <2>2. CASE i \in 1 .. m /\ j \in 1 .. m
    BY <1>1, <1>4, <1>9, <2>2
  <2>3. CASE i \in 1 .. m /\ j \notin 1 .. m
    BY <1>1, <1>4, <1>6, <1>9, <2>3
  <2>4. CASE i \notin 1 .. m /\ j \in 1 .. m
    BY <1>1, <1>4, <1>6, <1>9, <2>4
  <2>5. CASE i \notin 1 .. m /\ j \notin 1 .. m
    <3>1. i - m \in DOMAIN s /\ j - m \in DOMAIN s /\ s[i - m] = s[j - m]
      BY <1>1, <1>6, <1>9, <2>5
    <3> QED
      BY <1>1, <2>1, <3>1
  <2> QED
    BY <2>2, <2>3, <2>4, <2>5
<1> QED
  BY <1>1, <1>2, <1>3, <1>4, <1>5, <1>6, <1>7, <1>8, <1>9, Zenon DEF m, z

LEMMA ReleaseSwapInv ==
  ASSUME IInv, Observe, NEW t \in Threads, ReleaseSwap(t)
  PROVE  IInv'
<1> DEFINE c == chain[t]
           m == Len(c)
           X == {c[i] : i \in DOMAIN c}
<1>1. /\ TypeOK /\ OnePlaceEach /\ LinksAreStack /\ ReleaseInv(t)
      /\ pc[t] = "release_cas" /\ UNCHANGED <<lazy, ver_lazy, next, ops>>
  BY DEF IInv, CallInv, ReleaseSwap
<1>2. /\ c \in Seq(Ele) /\ c # <<>> /\ m \in DOMAIN c /\ 1 \in DOMAIN c /\ DOMAIN c = 1 .. m
      /\ m \in Nat /\ stack \in Seq(Ele) /\ Len(stack) \in Nat /\ DOMAIN stack = 1 .. Len(stack)
  BY <1>1 DEF ReleaseInv, TypeOK, Releasing
<1>3. /\ \A i \in DOMAIN c : c[i] \in held[t]
      /\ \A i, j \in DOMAIN c : c[i] = c[j] => i = j
      /\ \A i \in DOMAIN c : i < m => next[c[i]] = c[i + 1]
      /\ next[c[m]] = seen[t].idx /\ Stale(t)
  BY Zenon, <1>1 DEF ReleaseInv, Releasing
<1>4. CASE ver_top # seen[t]
  <2>1. /\ Goto(t, "release") /\ UNCHANGED <<seen, nxt, chain, block>>
        /\ UNCHANGED <<ver_top, held, stack>>
    BY <1>4 DEF ReleaseSwap
  <2>2. pc'[t] = "release"
    BY <1>1, <2>1 DEF Goto, TypeOK
  <2>3. ReleaseInv(t)'
    BY Zenon, <1>1, <1>2, <1>3, <2>1, <2>2 DEF ReleaseInv
  <2> HIDE DEF c, m, X
  <2> QED
    BY <1>1, <2>1, <2>3, Retry
<1>5. CASE ver_top = seen[t]
  <2>1. /\ ver_top' = vidx(ver_top.ver + 2, c[1])
        /\ held' = [held EXCEPT ![t] = @ \ X]
        /\ stack' = c \o stack /\ Return(t)
    BY <1>5 DEF ReleaseSwap
  <2>2. ~Locked(ver_top) /\ c[1] \in Idx /\ next[c[m]] = ver_top.idx
    BY <1>2, <1>3, <1>5 DEF Stale, Locked, Idx
  <2>3. ver_top' \in Word /\ ver_top'.idx = c[1] /\ LockInv' /\ TopKept /\ VersionStep(t, "idle")
    BY <1>1, <2>1, <2>2, TopSwapped
  <2>4. /\ pc' = [pc EXCEPT ![t] = "idle"] /\ LocalTypes
        /\ \A u \in Threads \ {t} : SameLocals(u)
        /\ AcquireInv(t)' /\ ReleaseInv(t)'
    BY <1>1, <2>1, Returned
  <2>5. /\ held' \in [Threads -> SUBSET Ele] /\ held'[t] = held[t] \ X
        /\ \A u \in Threads \ {t} : held'[u] = held[u]
    <3> HIDE DEF X
    <3> QED
      BY <1>1, <2>1 DEF TypeOK
  <2>6. \A i \in DOMAIN c, j \in DOMAIN stack : c[i] # stack[j]
    <3>1. \A j \in DOMAIN stack : stack[j] \in Stacked
      BY Zenon DEF Stacked
    <3>2. held[t] \cap Stacked = {}
      BY Zenon, <1>1 DEF OnePlaceEach
    <3>3. \A i \in DOMAIN c : c[i] \in held[t]
      BY <1>3
    <3> HIDE DEF c
    <3> QED
      BY Zenon, <3>1, <3>2, <3>3
  <2>7. \A i, j \in DOMAIN stack : stack[i] = stack[j] => i = j
    BY <1>1 DEF OnePlaceEach
  <2>8. /\ stack' \in Seq(Ele) /\ stack' # <<>> /\ Len(stack') = m + Len(stack)
        /\ \A i \in DOMAIN c : i \in DOMAIN stack' /\ stack'[i] = c[i]
        /\ \A j \in DOMAIN stack : m + j \in DOMAIN stack' /\ stack'[m + j] = stack[j]
        /\ \A k \in DOMAIN stack' : k \in DOMAIN c \/ k - m \in DOMAIN stack
        /\ \A i, j \in DOMAIN stack' : stack'[i] = stack'[j] => i = j
    <3>1. stack' = c \o stack
      BY <2>1
    <3>2. \A i, j \in DOMAIN c : c[i] = c[j] => i = j
      BY <1>3
    <3> HIDE DEF c
    <3>3. /\ c \o stack \in Seq(Ele) /\ c \o stack # <<>>
          /\ Len(c \o stack) = Len(c) + Len(stack)
          /\ \A i \in DOMAIN c :
               i \in DOMAIN (c \o stack) /\ (c \o stack)[i] = c[i]
          /\ \A j \in DOMAIN stack :
               Len(c) + j \in DOMAIN (c \o stack) /\ (c \o stack)[Len(c) + j] = stack[j]
          /\ \A k \in DOMAIN (c \o stack) : k \in DOMAIN c \/ k - Len(c) \in DOMAIN stack
          /\ \A i, j \in DOMAIN (c \o stack) : (c \o stack)[i] = (c \o stack)[j] => i = j
      BY <1>2, <2>6, <2>7, <3>2, StackPush, Zenon
    <3> QED
      BY <3>1, <3>3, Zenon DEF m
  <2>9. TypeOK'
    BY Zenon, <1>1, <2>3, <2>4, <2>5, <2>8, SawStep DEF TypeOK, LocalTypes
  <2>10. \A k \in DOMAIN stack' : k \notin DOMAIN c =>
           /\ k \in Nat /\ k > m /\ k - m \in DOMAIN stack /\ stack'[k] = stack[k - m]
    <3> HIDE DEF c, m
    <3>1. \A k \in DOMAIN stack' : k \in Nat /\ k > 0
      BY <2>8
    <3>2. ASSUME NEW k \in DOMAIN stack', k \notin DOMAIN c
          PROVE  /\ k > m /\ k - m \in DOMAIN stack /\ stack'[k] = stack[k - m]
      <4>1. k - m \in DOMAIN stack /\ k \in Nat /\ k > m
        BY <1>2, <2>8, <3>1, <3>2
      <4>2. stack'[m + (k - m)] = stack[k - m] /\ m + (k - m) = k
        BY <1>2, <2>8, <4>1
      <4> QED
        BY <4>1, <4>2
    <3> QED
      BY <3>1, <3>2
  <2>11. OnePlaceEach'
    <3>1. LazyFree' = LazyFree
      BY <1>1 DEF LazyFree
    <3>2. Stacked' = Stacked \cup X
      <4>1. \A k \in DOMAIN stack' : stack'[k] \in Stacked \cup X
        <5>1. \A k \in DOMAIN c : c[k] \in X
          OBVIOUS
        <5>2. \A j \in DOMAIN stack : stack[j] \in Stacked
          BY DEF Stacked
        <5> HIDE DEF c, m, X
        <5> QED
          BY <2>8, <2>10, <5>1, <5>2
      <4>2. \A x \in X : \E k \in DOMAIN stack' : x = stack'[k]
        BY <2>8
      <4>3. \A x \in Stacked : \E k \in DOMAIN stack' : x = stack'[k]
        <5>1. \A x \in Stacked : \E j \in DOMAIN stack : x = stack[j]
          BY DEF Stacked
        <5> HIDE DEF c, m, X
        <5> QED
          BY <2>8, <5>1
      <4>4. Stacked' = {stack'[k] : k \in DOMAIN stack'}
        BY Zenon DEF Stacked
      <4> HIDE DEF c, m, X
      <4> QED
        BY <4>1, <4>2, <4>3, <4>4
    <3>3. X \subseteq held[t] /\ X \subseteq Ele
      BY <1>2, <1>3
    <3> HIDE DEF c, m, X
    <3>4. \A u, w \in Threads : u # w => held'[u] \cap held'[w] = {}
      BY <1>1, <2>5 DEF OnePlaceEach
    <3>5. \A u \in Threads : held'[u] \cap (Stacked' \cup LazyFree') = {}
      BY <1>1, <2>5, <3>1, <3>2, <3>3 DEF OnePlaceEach
    <3>6. Stacked' \cap LazyFree' = {}
      BY <1>1, <3>1, <3>2, <3>3 DEF OnePlaceEach
    <3>7. ASSUME NEW f \in Ele
          PROVE  f \in Stacked' \cup LazyFree' \/ \E u \in Threads : f \in held'[u]
      <4>1. f \in Stacked \cup LazyFree \/ \E u \in Threads : f \in held[u]
        BY <1>1, Zenon DEF OnePlaceEach
      <4>2. \A u \in Threads : f \in held[u] => f \in X \/ f \in held'[u]
        BY <2>5
      <4> QED
        BY <3>1, <3>2, <4>1, <4>2, Zenon
    <3> QED
      BY <2>8, <3>4, <3>5, <3>6, <3>7, Zenon DEF OnePlaceEach
  <2>12. LinksAreStack'
    <3> HIDE DEF X
    <3>1. ver_top'.idx = IF stack' = <<>> THEN idx_null ELSE stack'[1]
      BY <1>2, <2>3, <2>8
    <3> DEFINE after(k) == IF k < Len(stack') THEN stack'[k + 1] ELSE idx_null
    <3>2. ASSUME NEW k \in DOMAIN c, k < m PROVE next[stack'[k]] = after(k)
      <4>1. k + 1 \in DOMAIN c /\ k < Len(stack') /\ k \in Nat
        BY <1>2, <2>8, <3>2
      <4>2. stack'[k] = c[k] /\ stack'[k + 1] = c[k + 1]
        BY <2>8, <4>1
      <4> QED
        BY <1>3, <3>2, <4>1, <4>2
    <3>3. next[stack'[m]] = after(m)
      <4>1. stack'[m] = c[m]
        BY <1>2, <2>8
      <4>2. CASE stack = <<>>
        <5>1. ver_top.idx = idx_null /\ Len(stack') = m
          BY <1>1, <1>2, <2>8, <4>2 DEF LinksAreStack
        <5> QED
          BY <1>2, <2>2, <4>1, <5>1
      <4>3. CASE stack # <<>>
        <5>1. 1 \in DOMAIN stack /\ Len(stack) > 0 /\ ver_top.idx = stack[1]
          BY <1>1, <1>2, <4>3 DEF LinksAreStack
        <5> HIDE DEF c, m
        <5>2. stack'[m + 1] = stack[1]
          BY <2>8, <5>1, Zenon
        <5>3. m < Len(stack')
          <6>1. Len(stack') = m + Len(stack)
            BY <2>8
          <6> QED
            BY <1>2, <5>1, <6>1
        <5> QED
          BY <2>2, <4>1, <5>1, <5>2, <5>3
      <4> QED
        BY <4>2, <4>3
    <3>4. ASSUME NEW k \in DOMAIN stack', k \notin DOMAIN c PROVE next[stack'[k]] = after(k)
      <4> DEFINE j == k - m
      <4> HIDE DEF c, m
      <4>1. k \in Nat /\ k > m /\ j \in DOMAIN stack /\ stack'[k] = stack[j]
        BY <2>10, <3>4
      <4>2. next[stack[j]] = IF j < Len(stack) THEN stack[j + 1] ELSE idx_null
        BY <1>1, <4>1 DEF LinksAreStack
      <4>3. j < Len(stack) <=> k < Len(stack')
        BY <1>2, <2>8, <4>1
      <4>4. j < Len(stack) => stack'[k + 1] = stack[j + 1]
        <5>1. j < Len(stack) => j + 1 \in DOMAIN stack
          BY <1>2, <4>1
        <5>2. m + (j + 1) = k + 1
          BY <1>2, <4>1
        <5> QED
          BY <2>8, <5>1, <5>2, Zenon
      <4> QED
        BY <4>1, <4>2, <4>3, <4>4
    <3>5. \A k \in DOMAIN c : k < m \/ k = m
      BY <1>2
    <3> HIDE DEF c, m, after
    <3>6. \A k \in DOMAIN stack' : next[stack'[k]] = after(k)
      BY <3>2, <3>3, <3>4, <3>5
    <3> QED
      BY <1>1, <3>1, <3>6 DEF LinksAreStack, after
  <2>13. "idle" \in Places \ {"crit"}
    BY DEF Places
  <2> HIDE DEF c, m, X
  <2> QED
    BY Zenon, <1>1, <2>3, <2>4, <2>5, <2>9, <2>11, <2>12, <2>13, StepInv
<1> QED
  BY <1>4, <1>5

(***************************************************************************)
(* The lock                                                                *)
(***************************************************************************)

\* A step of the lock: memory and elements stay where they are.
LEMMA LockStepInv ==
  ASSUME IInv, Observe, NEW t \in Threads, NEW p \in Places \ {"crit"},
         pc[t] # "idle", pc[t] = "unlock_lazy" => p = "idle",
         pc' = [pc EXCEPT ![t] = p], LocalTypes,
         \A u \in Threads \ {t} : SameLocals(u),
         UNCHANGED <<lazy, next, held, stack, ops>>,
         ver_top' \in Word, ver_lazy' \in Word,
         ver_top'.idx = ver_top.idx, ver_lazy'.idx = ver_lazy.idx,
         ver_top' = ver_top \/ ver_top.ver < ver_top'.ver,
         VersionStep(t, p), LockInv', AcquireInv(t)', ReleaseInv(t)'
  PROVE  IInv'
<1>1. TypeOK /\ OnePlaceEach /\ LinksAreStack
  BY DEF IInv
<1>2. TypeOK'
  BY <1>1, SawStep DEF TypeOK, LocalTypes
<1>3. OnePlaceEach'
  BY <1>1 DEF OnePlaceEach, Stacked, LazyFree
<1>4. LinksAreStack'
  BY <1>1 DEF LinksAreStack
<1>5. TopKept
  BY DEF TopKept
<1> QED
  BY Zenon, <1>2, <1>3, <1>4, <1>5, StepInv

LEMMA LockSetInv ==
  ASSUME IInv, Observe, NEW t \in Threads, LockSet(t)
  PROVE  IInv'
<1> DEFINE p == IF lazy THEN "lock_lazy" ELSE "locked"
<1>1. /\ TypeOK /\ LockInv /\ VersionInv /\ pc[t] = "lock_or"
      /\ UNCHANGED <<lazy, ver_lazy, next, held, stack, ops>>
  BY DEF IInv, LockSet
<1>2. CASE Return(t) /\ UNCHANGED ver_top
  BY <1>1, <1>2, GiveUp
<1>3. CASE Goto(t, "lock") /\ UNCHANGED <<ver_top, seen, nxt, chain, block>>
  BY <1>1, <1>3, Retry
<1>4. CASE /\ ~Locked(ver_top) /\ ver_top' = vidx(ver_top.ver + 1, ver_top.idx)
           /\ seen' = [seen EXCEPT ![t] = ver_top] /\ Goto(t, p)
           /\ UNCHANGED <<nxt, chain, block>>
  <2>1. ver_top \in Word /\ ver_top.ver \in Nat /\ ver_lazy \in Word /\ ver_lazy.ver \in Nat
    BY <1>1 DEF TypeOK, Word
  <2>2. ver_top.ver + 2 < VerMod
    BY <1>1, Room DEF IInv
  <2>3. ver_top' = [ver |-> ver_top.ver + 1, idx |-> ver_top.idx]
    BY <1>4, <2>1, <2>2, VidxExact, PoolAssumption
  <2>4. /\ ver_top' \in Word /\ ver_top'.ver = ver_top.ver + 1 /\ ver_top'.idx = ver_top.idx
        /\ Locked(ver_top)'
    BY <1>4, <2>1, <2>2, <2>3, Parity, PoolAssumption DEF Word, Locked
  <2>5. /\ pc' = [pc EXCEPT ![t] = p] /\ pc'[t] = p /\ seen'[t] = ver_top
        /\ p \in Places \ {"crit"} /\ LocalTypes
        /\ \A u \in Threads \ {t} : SameLocals(u)
    BY <1>1, <1>4, <2>1 DEF Goto, TypeOK, LocalTypes, SameLocals, Places
  <2>6. LockInv'
    <3>1. \A u \in Threads : ~HoldsTop(u)
      BY <1>1, <1>4 DEF LockInv
    <3>2. \A u \in Threads \ {t} : ~HoldsTop(u)' /\ pc'[u] \notin TopLockPlaces
      BY <2>5, <3>1 DEF HoldsTop, SameLocals
    <3>3. \A u \in Threads : HoldsLazy(u)' => HoldsLazy(u)
      BY <1>1, <2>5 DEF HoldsLazy, SameLocals
    <3>4. /\ \A u \in Threads : HoldsTop(u)' => u = t
          /\ \A u \in Threads : pc'[u] \in TopLockPlaces => u = t
      BY <3>2
    <3> HIDE DEF p
    <3> QED
      BY <1>1, <2>1, <2>4, <2>5, <3>3, <3>4 DEF LockInv, Locked
  <2>7. VersionStep(t, p)
    <3>1. LockBit(ver_top) = 0 /\ LockBit(ver_top)' = 1
      BY <1>4, <2>4 DEF LockBit
    <3>2. LockBit(ver_lazy) \in Nat /\ LockBit(ver_lazy)' = LockBit(ver_lazy)
      BY <1>1 DEF LockBit, Locked
    <3> QED
      BY <1>1, <2>1, <2>4, <3>1, <3>2 DEF VersionStep
  <2>8. AcquireInv(t)' /\ ReleaseInv(t)'
    BY <1>1, <2>5 DEF AcquireInv, ReleaseInv, TopLockPlaces, Releasing
  <2>9. ver_top.ver < ver_top'.ver
    BY <2>1, <2>4
  <2> HIDE DEF p
  <2> QED
    BY Zenon, <1>1, <2>1, <2>4, <2>5, <2>6, <2>7, <2>8, <2>9, LockStepInv
<1> QED
  BY <1>2, <1>3, <1>4 DEF LockSet

LEMMA LockLazySetInv ==
  ASSUME IInv, Observe, NEW t \in Threads, LockLazySet(t)
  PROVE  IInv'
<1>1. /\ TypeOK /\ LockInv /\ VersionInv /\ pc[t] = "lock_lazy_or" /\ lazy
      /\ UNCHANGED <<lazy, ver_top, next, seen, nxt, chain, block, held, stack, ops>>
  BY DEF IInv, LockLazySet, CallInv, AcquireInv, TopLockPlaces
<1>2. CASE Locked(ver_lazy)
  <2>1. UNCHANGED ver_lazy /\ \E p \in TopLockPlaces : Goto(t, p)
    BY <1>2 DEF LockLazySet, TopLockPlaces
  <2> QED
    BY <1>1, <2>1, HoldingTop DEF TopLockPlaces
<1>3. CASE ~Locked(ver_lazy)
  <2>1. ver_lazy' = vidx(ver_lazy.ver + 1, ver_lazy.idx) /\ Goto(t, "locked")
    BY <1>3 DEF LockLazySet
  <2>2. ver_top \in Word /\ ver_top.ver \in Nat /\ ver_lazy \in Word /\ ver_lazy.ver \in Nat
    BY <1>1 DEF TypeOK, Word
  <2>3. ver_lazy.ver + 2 < VerMod
    BY <1>1, Room DEF IInv
  <2>4. ver_lazy' = [ver |-> ver_lazy.ver + 1, idx |-> ver_lazy.idx]
    BY <2>1, <2>2, <2>3, VidxExact, PoolAssumption
  <2>5. /\ ver_lazy' \in Word /\ ver_lazy'.ver = ver_lazy.ver + 1
        /\ ver_lazy'.idx = ver_lazy.idx /\ Locked(ver_lazy)'
    BY <1>3, <2>2, <2>3, <2>4, Parity, PoolAssumption DEF Word, Locked
  <2>6. "locked" \in Places \ {"crit"}
    BY DEF Places
  <2>7. /\ pc' = [pc EXCEPT ![t] = "locked"] /\ pc'[t] = "locked" /\ LocalTypes
        /\ \A u \in Threads \ {t} : SameLocals(u)
    BY <1>1, <2>1, <2>6, Moved
  <2>8. LockInv'
    <3>1. \A u \in Threads : ~HoldsLazy(u)
      BY <1>1, <1>3 DEF LockInv
    <3>2. \A u \in Threads : HoldsLazy(u)' => u = t
      BY <1>1, <2>7, <3>1 DEF HoldsLazy, SameLocals
    <3>3. \A u \in Threads : HoldsTop(u)' => HoldsTop(u)
      BY <1>1, <2>7 DEF HoldsTop, SameLocals, TopLockPlaces
    <3>4. \A u \in Threads : pc'[u] \in TopLockPlaces => pc[u] \in TopLockPlaces
      BY <2>7 DEF SameLocals, TopLockPlaces
    <3> QED
      BY <1>1, <2>5, <3>2, <3>3, <3>4 DEF LockInv, Locked
  <2>9. VersionStep(t, "locked")
    <3>1. LockBit(ver_lazy) = 0 /\ LockBit(ver_lazy)' = 1
      BY <1>3, <2>5 DEF LockBit
    <3>2. LockBit(ver_top) \in Nat /\ LockBit(ver_top)' = LockBit(ver_top)
      BY <1>1 DEF LockBit, Locked
    <3> QED
      BY <1>1, <2>2, <2>5, <3>1, <3>2 DEF VersionStep
  <2>10. AcquireInv(t)' /\ ReleaseInv(t)'
    BY <2>7 DEF AcquireInv, ReleaseInv, TopLockPlaces, Releasing
  <2> QED
    BY Zenon, <1>1, <2>2, <2>5, <2>6, <2>7, <2>8, <2>9, <2>10, LockStepInv
<1> QED
  BY <1>2, <1>3

\* The owner of ver_top's lock gives it back.
LEMMA UnlockedTop ==
  ASSUME IInv, Observe, NEW t \in Threads, NEW p \in {"idle", "unlock_lazy"},
         HoldsTop(t), p = "unlock_lazy" => lazy /\ pc[t] = "locked",
         pc' = [pc EXCEPT ![t] = p], LocalTypes,
         \A u \in Threads \ {t} : SameLocals(u),
         ver_top' = vidx(ver_top.ver + 1, ver_top.idx),
         UNCHANGED <<lazy, ver_lazy, next, held, stack, ops>>
  PROVE  IInv'
<1>1. TypeOK /\ LockInv /\ VersionInv /\ pc[t] \notin {"idle", "unlock_lazy"}
  BY DEF IInv, HoldsTop, TopLockPlaces
<1>2. ver_top \in Word /\ ver_top.ver \in Nat /\ ver_lazy \in Word /\ ver_lazy.ver \in Nat
  BY <1>1 DEF TypeOK, Word
<1>3. ver_top.ver + 2 < VerMod
  BY <1>1, Room DEF IInv
<1>4. ver_top' = [ver |-> ver_top.ver + 1, idx |-> ver_top.idx]
  BY <1>2, <1>3, VidxExact, PoolAssumption
<1>5. Locked(ver_top)
  BY <1>1 DEF LockInv
<1>6. /\ ver_top' \in Word /\ ver_top'.ver = ver_top.ver + 1 /\ ver_top'.idx = ver_top.idx
      /\ ~Locked(ver_top)'
  BY <1>2, <1>3, <1>4, <1>5, Parity, PoolAssumption DEF Word, Locked
<1>7. p \in Places \ {"crit"} /\ pc'[t] = p
  BY <1>1 DEF Places, TypeOK
<1>8. LockInv'
  <2>1. \A u \in Threads \ {t} : ~HoldsTop(u)
    BY <1>1 DEF LockInv
  <2>2. \A u \in Threads : ~HoldsTop(u)'
    BY <1>7, <2>1 DEF HoldsTop, TopLockPlaces, SameLocals
  <2>3. \A u \in Threads : pc'[u] \notin TopLockPlaces
    BY <2>2 DEF HoldsTop
  <2>4. \A u \in Threads : HoldsLazy(u)' => HoldsLazy(u)
    BY <1>7 DEF HoldsLazy, SameLocals
  <2> QED
    BY <1>1, <2>2, <2>3, <2>4 DEF LockInv, Locked
<1>9. VersionStep(t, p)
  <2>1. LockBit(ver_top) = 1 /\ LockBit(ver_top)' = 0
    BY <1>5, <1>6 DEF LockBit
  <2>2. LockBit(ver_lazy) \in Nat /\ LockBit(ver_lazy)' = LockBit(ver_lazy)
    BY DEF LockBit, Locked
  <2> QED
    BY <1>1, <1>2, <1>6, <2>1, <2>2 DEF VersionStep
<1>10. AcquireInv(t)' /\ ReleaseInv(t)'
  BY <1>7 DEF AcquireInv, ReleaseInv, TopLockPlaces, Releasing
<1>11. ver_top.ver < ver_top'.ver
  BY <1>2, <1>6
<1> QED
  BY Zenon, <1>1, <1>2, <1>6, <1>7, <1>8, <1>9, <1>10, <1>11, LockStepInv

LEMMA LockUndoInv ==
  ASSUME IInv, Observe, NEW t \in Threads, LockUndo(t)
  PROVE  IInv'
<1>1. /\ TypeOK /\ LockInv /\ pc[t] = "lock_undo" /\ HoldsTop(t) /\ Return(t)
      /\ ver_top' = vidx(seen[t].ver + 2, seen[t].idx)
      /\ UNCHANGED <<lazy, ver_lazy, next, held, stack, ops>>
  BY DEF IInv, LockUndo, HoldsTop, TopLockPlaces
<1>2. seen[t].ver + 1 = ver_top.ver /\ seen[t].idx = ver_top.idx /\ seen[t].ver \in Nat
  BY <1>1 DEF LockInv, TopLockPlaces, TypeOK, Word
<1>3. seen[t].ver + 2 = ver_top.ver + 1
  BY <1>2
<1> QED
  BY <1>1, <1>2, <1>3, Returned, UnlockedTop

LEMMA UnlockTopInv ==
  ASSUME IInv, Observe, NEW t \in Threads, UnlockTop(t)
  PROVE  IInv'
<1>1. /\ TypeOK /\ pc[t] = "locked" /\ HoldsTop(t)
      /\ ver_top' = vidx(ver_top.ver + 1, ver_top.idx)
      /\ UNCHANGED <<lazy, ver_lazy, next, held, stack, ops>>
  BY DEF IInv, UnlockTop, HoldsTop
<1>2. CASE lazy
  <2>1. "unlock_lazy" \in Places
    BY DEF Places
  <2>2. Goto(t, "unlock_lazy") /\ UNCHANGED <<seen, nxt, chain, block>>
    BY <1>2 DEF UnlockTop
  <2>3. /\ pc' = [pc EXCEPT ![t] = "unlock_lazy"] /\ LocalTypes
        /\ \A u \in Threads \ {t} : SameLocals(u)
    BY <1>1, <2>1, <2>2, Moved
  <2> QED
    BY Zenon, <1>1, <1>2, <2>3, UnlockedTop
<1>3. CASE ~lazy
  <2>1. Return(t)
    BY <1>3 DEF UnlockTop
  <2> QED
    BY <1>1, <2>1, Returned, UnlockedTop
<1> QED
  BY <1>2, <1>3

LEMMA UnlockLazyInv ==
  ASSUME IInv, Observe, NEW t \in Threads, UnlockLazy(t)
  PROVE  IInv'
<1>1. /\ TypeOK /\ LockInv /\ VersionInv /\ pc[t] = "unlock_lazy" /\ lazy
      /\ ver_lazy' = vidx(ver_lazy.ver + 1, ver_lazy.idx) /\ Return(t)
      /\ UNCHANGED <<lazy, ver_top, next, held, stack, ops>>
  BY DEF IInv, UnlockLazy, CallInv, AcquireInv
<1>2. ver_top \in Word /\ ver_top.ver \in Nat /\ ver_lazy \in Word /\ ver_lazy.ver \in Nat
  BY <1>1 DEF TypeOK, Word
<1>3. ver_lazy.ver + 2 < VerMod
  BY <1>1, Room DEF IInv
<1>4. ver_lazy' = [ver |-> ver_lazy.ver + 1, idx |-> ver_lazy.idx]
  BY <1>1, <1>2, <1>3, VidxExact, PoolAssumption
<1>5. HoldsLazy(t) /\ Locked(ver_lazy)
  BY <1>1 DEF LockInv, HoldsLazy
<1>6. /\ ver_lazy' \in Word /\ ver_lazy'.ver = ver_lazy.ver + 1
      /\ ver_lazy'.idx = ver_lazy.idx /\ ~Locked(ver_lazy)'
  BY <1>2, <1>3, <1>4, <1>5, Parity, PoolAssumption DEF Word, Locked
<1>7. /\ pc' = [pc EXCEPT ![t] = "idle"] /\ LocalTypes
      /\ \A u \in Threads \ {t} : SameLocals(u)
      /\ AcquireInv(t)' /\ ReleaseInv(t)'
  BY <1>1, Returned
<1>8. "idle" \in Places \ {"crit"} /\ pc'[t] = "idle"
  BY <1>1, <1>7 DEF Places, TypeOK
<1>9. LockInv'
  <2>1. \A u \in Threads \ {t} : ~HoldsLazy(u)
    BY <1>1, <1>5 DEF LockInv
  <2>2. \A u \in Threads : ~HoldsLazy(u)'
    BY <1>1, <1>7, <1>8, <2>1 DEF HoldsLazy, SameLocals
  <2>3. \A u \in Threads : HoldsTop(u)' => HoldsTop(u)
    BY <1>7, <1>8 DEF HoldsTop, TopLockPlaces, SameLocals
  <2>4. \A u \in Threads : pc'[u] \in TopLockPlaces => pc[u] \in TopLockPlaces /\ seen'[u] = seen[u]
    BY <1>7, <1>8 DEF TopLockPlaces, SameLocals
  <2> QED
    BY <1>1, <2>2, <2>3, <2>4 DEF LockInv, Locked
<1>10. VersionStep(t, "idle")
  <2>1. LockBit(ver_lazy) = 1 /\ LockBit(ver_lazy)' = 0
    BY <1>5, <1>6 DEF LockBit
  <2>2. LockBit(ver_top) \in Nat /\ LockBit(ver_top)' = LockBit(ver_top)
    BY <1>1 DEF LockBit, Locked
  <2> QED
    BY <1>1, <1>2, <1>6, <2>1, <2>2 DEF VersionStep
<1> QED
  BY Zenon, <1>1, <1>2, <1>6, <1>7, <1>8, <1>9, <1>10, LockStepInv

\* The full stack of reset and new.
LEMMA FullStack ==
  /\ Ascending \in Seq(Ele) /\ Ascending # <<>> /\ Ascending[1] = 0
  /\ {Ascending[i] : i \in DOMAIN Ascending} = Ele
  /\ \A i, j \in DOMAIN Ascending : Ascending[i] = Ascending[j] => i = j
  /\ Linked \in [Ele -> Idx \cup {Junk}]
  /\ \A i \in DOMAIN Ascending :
       Linked[Ascending[i]] = IF i < Len(Ascending) THEN Ascending[i + 1] ELSE idx_null
  /\ 0 \in Ele /\ 0 \in Idx /\ idx_null \in Idx /\ idx_null \notin Ele
<1>1. EleMax \in Nat /\ EleMax > 0
  BY PoolAssumption
<1>2. Ascending \in Seq(Ele) /\ Len(Ascending) = EleMax /\ DOMAIN Ascending = 1 .. EleMax
  BY <1>1 DEF Ascending, Ele
<1>3. \A i \in 1 .. EleMax : Ascending[i] = i - 1
  BY DEF Ascending
<1>4. \A e \in Ele : e + 1 \in DOMAIN Ascending /\ Ascending[e + 1] = e
  BY <1>1, <1>2, <1>3 DEF Ele
<1>5. \A i \in DOMAIN Ascending : Ascending[i] \in Ele
  BY <1>1, <1>2, <1>3 DEF Ele
<1>6. {Ascending[i] : i \in DOMAIN Ascending} = Ele
  BY <1>4, <1>5
<1>7. \A i, j \in DOMAIN Ascending : Ascending[i] = Ascending[j] => i = j
  BY <1>2, <1>3
<1>8. Ascending # <<>> /\ Ascending[1] = 0
  BY <1>1, <1>2, <1>3
<1>9. Linked \in [Ele -> Idx \cup {Junk}]
  BY <1>1 DEF Linked, Idx, Ele
<1>10. \A i \in DOMAIN Ascending :
         Linked[Ascending[i]] = IF i < Len(Ascending) THEN Ascending[i + 1] ELSE idx_null
  <2>1. \A e \in Ele : Linked[e] = IF e + 1 < EleMax THEN e + 1 ELSE idx_null
    BY DEF Linked
  <2> QED
    BY <1>1, <1>2, <1>3, <1>5, <2>1
<1>11. 0 \in Ele /\ 0 \in Idx /\ idx_null \in Idx /\ idx_null \notin Ele
  BY <1>1 DEF Idx, Ele, idx_null
<1> QED
  BY <1>2, <1>6, <1>7, <1>8, <1>9, <1>10, <1>11

LEMMA ResetInv ==
  ASSUME IInv, Observe, NEW t \in Threads, Reset(t)
  PROVE  IInv'
<1>1. /\ TypeOK /\ LockInv /\ pc[t] = "locked" /\ HoldsTop(t)
      /\ \A u \in Threads : held[u] = {}
      /\ ver_top' = vidx(ver_top.ver, IF lazy THEN idx_null ELSE 0)
      /\ ver_lazy' = IF lazy THEN vidx(ver_lazy.ver, 0) ELSE ver_lazy
      /\ next' = IF lazy THEN next ELSE Linked
      /\ stack' = IF lazy THEN <<>> ELSE Ascending
      /\ UNCHANGED <<lazy, pc, seen, nxt, chain, block, held, ops>>
  BY DEF IInv, Reset, HoldsTop
<1>2. /\ ver_top.ver \in Nat /\ ver_top.ver < VerMod /\ ver_top \in Word
      /\ ver_lazy.ver \in Nat /\ ver_lazy.ver < VerMod /\ ver_lazy \in Word
  BY <1>1, PoolAssumption DEF TypeOK, Word
<1>3. ver_top' = [ver |-> ver_top.ver, idx |-> IF lazy THEN idx_null ELSE 0]
  BY <1>1, <1>2, VidxExact
<1>4. lazy => ver_lazy' = [ver |-> ver_lazy.ver, idx |-> 0]
  BY <1>1, <1>2, VidxExact
<1>5. ver_top' \in Word /\ ver_lazy' \in Word /\ ver_top'.ver = ver_top.ver /\ ver_lazy'.ver = ver_lazy.ver
  <2>1. 0 \in Idx /\ idx_null \in Idx
    BY PoolAssumption DEF Idx, Ele, idx_null
  <2>2. ver_top' \in Word /\ ver_top'.ver = ver_top.ver
    BY <1>2, <1>3, <2>1 DEF Word
  <2>3. CASE lazy
    BY <1>2, <1>4, <2>1, <2>2, <2>3 DEF Word
  <2>4. CASE ~lazy
    <3>1. ver_lazy' = ver_lazy
      BY <1>1, <2>4
    <3> QED
      BY <1>2, <2>2, <3>1
  <2> QED
    BY <2>3, <2>4
<1>6. ~lazy => ver_lazy'.idx = idx_null
  <2>1. ~lazy => ver_lazy' = Blank
    BY <1>1 DEF LockInv
  <2>2. Blank.idx = idx_null
    BY DEF Blank, vidx
  <2> QED
    BY <2>1, <2>2
<1>7. TypeOK'
  <2>1. stack' \in Seq(Ele)
    <3>1. Ascending \in Seq(Ele)
      BY Zenon, FullStack
    <3> QED
      BY <1>1, <3>1
  <2>2. next' \in [Ele -> Idx \cup {Junk}]
    BY <1>1, FullStack DEF TypeOK
  <2> QED
    BY <1>1, <1>5, <2>1, <2>2, SawStep DEF TypeOK
<1>8. OnePlaceEach'
  <2>1. CASE lazy
    <3>1. Stacked' = {} /\ LazyFree' = Ele
      BY <1>1, <1>4, <2>1, FullStack DEF Stacked, LazyFree, Ele
    <3>2. DOMAIN stack' = {}
      BY <1>1, <2>1
    <3> QED
      BY <1>1, <3>1, <3>2 DEF OnePlaceEach
  <2>2. CASE ~lazy
    <3>1. LazyFree' = {}
      BY <1>1, <1>6, <2>2 DEF LazyFree
    <3>2. Stacked' = Ele
      <4>1. stack' = Ascending
        BY <1>1, <2>2
      <4>2. Stacked' = {stack'[i] : i \in DOMAIN stack'}
        BY Zenon DEF Stacked
      <4> QED
        BY <4>1, <4>2, FullStack
    <3>3. \A i, j \in DOMAIN stack' : stack'[i] = stack'[j] => i = j
      BY <1>1, <2>2, FullStack
    <3> QED
      BY <1>1, <3>1, <3>2, <3>3 DEF OnePlaceEach
  <2> QED
    BY <2>1, <2>2
<1>9. LinksAreStack'
  <2>1. CASE lazy
    <3>1. stack' = <<>> /\ ver_top'.idx = idx_null
      BY <1>1, <1>3, <2>1
    <3> QED
      BY <3>1 DEF LinksAreStack
  <2>2. CASE ~lazy
    <3>1. stack' = Ascending /\ next' = Linked /\ ver_top'.idx = 0
      BY <1>1, <1>3, <2>2
    <3> QED
      BY <3>1, FullStack DEF LinksAreStack
  <2> QED
    BY <2>1, <2>2
<1>10. LockInv'
  <2>1. \A u \in Threads : pc[u] \notin TopLockPlaces
    BY <1>1 DEF LockInv, HoldsTop, TopLockPlaces
  <2>2. \A u \in Threads : (HoldsTop(u)' <=> HoldsTop(u)) /\ (HoldsLazy(u)' <=> HoldsLazy(u))
    BY <1>1 DEF HoldsTop, HoldsLazy
  <2>3. ~lazy => ver_lazy' = ver_lazy
    BY <1>1
  <2> QED
    BY <1>1, <1>5, <2>1, <2>2, <2>3 DEF LockInv, Locked
<1>11. TopKept
  BY <1>1, <1>5 DEF TopKept, LockInv
<1>12. VersionStep(t, "locked")
  <2>1. /\ LockBit(ver_top) \in Nat /\ LockBit(ver_lazy) \in Nat
        /\ LockBit(ver_top)' = LockBit(ver_top) /\ LockBit(ver_lazy)' = LockBit(ver_lazy)
    BY <1>5 DEF LockBit, Locked
  <2> QED
    BY <1>2, <1>5, <2>1 DEF VersionStep
<1>13. AcquireInv(t)' /\ ReleaseInv(t)'
  BY <1>1 DEF AcquireInv, ReleaseInv, TopLockPlaces, Releasing
<1>14. /\ pc' = [pc EXCEPT ![t] = "locked"] /\ "locked" \in Places \ {"crit"}
       /\ \A u \in Threads \ {t} : SameLocals(u)
  BY <1>1 DEF TypeOK, Places, SameLocals
<1> QED
  BY Zenon, <1>1, <1>7, <1>8, <1>9, <1>10, <1>11, <1>12, <1>13, <1>14, StepInv

-----------------------------------------------------------------------------
(***************************************************************************)
(* The inductive invariant and what follows from it                        *)
(***************************************************************************)
LEMMA StutterInv == IInv /\ UNCHANGED vars => IInv'
<1> SUFFICES ASSUME IInv, UNCHANGED vars PROVE IInv'
  OBVIOUS
<1>1. TypeOK'
  BY DEF IInv, vars, TypeOK
<1>2. OnePlaceEach'
  <2>1. held' = held /\ stack' = stack /\ ver_lazy' = ver_lazy
    BY DEF vars
  <2>2. Stacked' = Stacked /\ LazyFree' = LazyFree
    BY Zenon, <2>1 DEF Stacked, LazyFree
  <2> QED
    BY Zenon, <2>1, <2>2 DEF IInv, OnePlaceEach
<1>3. LinksAreStack'
  BY DEF IInv, vars, LinksAreStack
<1>4. CallInv'
  BY Zenon DEF IInv, vars, CallInv, AcquireInv, ReleaseInv, Stale
<1>5. LockInv'
  BY Zenon DEF IInv, vars, LockInv, HoldsTop, HoldsLazy, Locked
<1>6. VersionInv'
  BY Zenon DEF IInv, vars, VersionInv, LockBit, Locked, TopBusy, LazyBusy
<1>7. SawInv'
  BY Zenon DEF IInv, vars, SawInv, Empty
<1> QED
  BY <1>1, <1>2, <1>3, <1>4, <1>5, <1>6, <1>7 DEF IInv

LEMMA NextInv == IInv /\ [Next]_vars => IInv'
<1> SUFFICES ASSUME IInv, Next PROVE IInv'
  BY StutterInv
<1>1. PICK t \in Threads :
        \/ Step(t)
        \/ (Call(t) \/ Repurpose(t) \/ Reset(t)) /\ Observe
  BY DEF Next
<1>2. CASE Call(t) /\ Observe
  BY <1>2, CallStepInv
<1>3. CASE Repurpose(t) /\ Observe
  BY <1>3, RepurposeInv
<1>4. CASE Reset(t) /\ Observe
  BY <1>4, ResetInv
<1>5. CASE AcquireStep(t) /\ Observe
  BY <1>5, AcquireReadTopInv, AcquireReadNextInv, AcquireCheckInv, AcquireSwapInv,
     LazyReadInv, LazySwapInv DEF AcquireStep
<1>6. CASE ReleaseStep(t) /\ Observe
  BY <1>6, ReleaseReadTopInv, ReleaseWriteNextInv, ReleaseSwapInv DEF ReleaseStep
<1>7. CASE LockStep(t) /\ Observe
  BY <1>7, LockTestInv, LockSetInv, LockLazyTestInv, LockLazySetInv, LockUndoInv,
     UnlockTopInv, UnlockLazyInv DEF LockStep
<1> QED
  BY <1>1, <1>2, <1>3, <1>4, <1>5, <1>6, <1>7 DEF Step

INSTANCE FiniteSetTheorems

LEMMA CountThreads == Counting
<1> SUFFICES ASSUME NEW P \in SUBSET Threads, NEW t \in Threads
             PROVE  /\ Cardinality(P) \in Nat
                    /\ t \notin P => Cardinality(P \cup {t}) = Cardinality(P) + 1
                    /\ t \in P => /\ Cardinality(P \ {t}) = Cardinality(P) - 1
                                 /\ Cardinality(P) >= 1
  BY Zenon DEF Counting
<1>1. IsFiniteSet(P) /\ IsFiniteSet(P \ {t})
  BY PoolAssumption, FS_Subset
<1>2. Cardinality(P) \in Nat /\ Cardinality(P \ {t}) \in Nat
  BY <1>1, FS_CardinalityType
<1>3. t \notin P => Cardinality(P \cup {t}) = Cardinality(P) + 1
  BY <1>1, FS_AddElement
<1>4. t \in P => Cardinality(P \ {t}) = Cardinality(P) - 1
  BY <1>1, FS_RemoveElement
<1> QED
  BY <1>2, <1>3, <1>4

LEMMA InitInv == Init => IInv
<1> SUFFICES ASSUME Init PROVE IInv
  OBVIOUS
<1> USE DEF Init
<1>1. 0 % VerMod = 0 /\ VerMod \in Nat /\ VerMod > 0
  BY PoolAssumption, SMT
<1>2. /\ ver_top = [ver |-> 0, idx |-> IF lazy THEN idx_null ELSE 0]
      /\ ver_lazy = [ver |-> 0, idx |-> IF lazy THEN 0 ELSE idx_null]
      /\ Blank = [ver |-> 0, idx |-> idx_null]
  BY <1>1 DEF vidx, Blank
<1>3. TypeOK
  <2>1. ver_top \in Word /\ ver_lazy \in Word /\ Blank \in Word
    BY <1>1, <1>2, FullStack DEF Word
  <2>2. stack \in Seq(Ele) /\ next \in [Ele -> Idx \cup {Junk}]
    BY FullStack
  <2>3. lazy \in BOOLEAN /\ ops \in 0 .. MaxOps
    BY PoolAssumption
  <2> QED
    BY <2>1, <2>2, <2>3, FullStack DEF TypeOK, Places
<1>4. OnePlaceEach
  <2>1. CASE lazy
    <3>1. Stacked = {} /\ LazyFree = Ele /\ DOMAIN stack = {}
      BY <1>2, <2>1, FullStack DEF Stacked, LazyFree, Ele
    <3> QED
      BY <3>1 DEF OnePlaceEach
  <2>2. CASE ~lazy
    <3>1. LazyFree = {} /\ stack = Ascending
      BY <1>2, <2>2 DEF LazyFree
    <3>2. Stacked = Ele /\ \A i, j \in DOMAIN stack : stack[i] = stack[j] => i = j
      BY <3>1, FullStack DEF Stacked
    <3> QED
      BY <3>1, <3>2 DEF OnePlaceEach
  <2> QED
    BY <2>1, <2>2
<1>5. LinksAreStack
  <2>1. CASE lazy
    BY <1>2, <2>1 DEF LinksAreStack
  <2>2. CASE ~lazy
    BY <1>2, <2>2, FullStack DEF LinksAreStack
  <2> QED
    BY <2>1, <2>2
<1>6. CallInv
  BY DEF CallInv, AcquireInv, ReleaseInv, Releasing, TopLockPlaces
<1>7. LockInv
  BY <1>2 DEF LockInv, HoldsTop, HoldsLazy, TopLockPlaces
<1>8. VersionInv
  <2>1. TopBusy = {} /\ LazyBusy = {}
    BY DEF TopBusy, LazyBusy
  <2>2. Cardinality({}) = 0
    BY FS_EmptySet
  <2>3. LockBit(ver_top) \in Nat /\ LockBit(ver_lazy) \in Nat
    BY DEF LockBit
  <2> QED
    BY <1>2, <2>1, <2>2, <2>3 DEF VersionInv
<1>9. SawInv
  BY DEF SawInv
<1> QED
  BY <1>3, <1>4, <1>5, <1>6, <1>7, <1>8, <1>9, CountThreads DEF IInv

LEMMA Inductive == Spec => []IInv
<1> USE InitInv, NextInv
<1> QED
  BY PTL DEF Spec

\* The words and locals of fd_pool_para.c hold indices of elements or
\* idx_null, and their versions stay below the width of the version field.
THEOREM PoolTypes == Spec => []TypeOK
<1>1. IInv => TypeOK
  BY DEF IInv
<1> QED
  BY <1>1, Inductive, PTL

\* acquire, release, release_chain and reset never duplicate and never lose
\* an element.
THEOREM PoolOnePlaceEach == Spec => []OnePlaceEach
<1>1. IInv => OnePlaceEach
  BY DEF IInv
<1> QED
  BY <1>1, Inductive, PTL

\* The intrusive list that starts at ver_top is the free stack.
THEOREM PoolLinksAreStack == Spec => []LinksAreStack
<1>1. IInv => LinksAreStack
  BY DEF IInv
<1> QED
  BY <1>1, Inductive, PTL

\* The corruption checks of acquire and release never fire.
THEOREM PoolNeverCritical == Spec => []NeverCritical
<1>1. IInv => NeverCritical
  BY DEF IInv, CallInv, NeverCritical
<1> QED
  BY <1>1, Inductive, PTL

\* Without POOL_LAZY an acquire answers NULL only if the pool was empty
\* while it ran.
THEOREM PoolNullMeansEmpty == Spec => NullMeansEmpty
<1>1. ASSUME IInv, [Next]_vars
      PROVE  [\A t \in Threads : NullReturn(t) /\ ~lazy => sawEmpty[t]]_vars
  <2> SUFFICES ASSUME Next, NEW t \in Threads, NullReturn(t), ~lazy PROVE sawEmpty[t]
    BY <1>1
  <2>1. PICK u \in Threads :
          \/ Step(u)
          \/ (Call(u) \/ Repurpose(u) \/ Reset(u)) /\ Observe
    BY DEF Next
  <2>2. pc[t] = "acquire" /\ pc'[t] = "idle" /\ TypeOK
    BY <1>1 DEF NullReturn, IInv, CallInv, AcquireInv
  <2>3. AcquireReadTop(t)
    <3>1. \A w \in Threads, p \in Places : Goto(w, p) => w = t /\ p = "idle"
      BY <2>2 DEF Goto, TypeOK
    <3>2. u = t
      <4>1. pc' # pc
        BY <2>2
      <4>2. \E p \in Places : Goto(u, p)
        BY Zenon, <2>1, <4>1 DEF Step, AcquireStep, ReleaseStep, LockStep, Call,
           AcquireReadTop, AcquireReadNext, AcquireCheck, AcquireSwap, LazyRead, LazySwap,
           ReleaseReadTop, ReleaseWriteNext, ReleaseSwap, LockTest, LockSet, LockLazyTest,
           LockLazySet, LockUndo, UnlockTop, UnlockLazy, AcquireBegin, ReleaseBegin,
           ReleaseChainBegin, LockBegin, Begin, Repurpose, Reset, Return, Places
      <4> QED
        BY <3>1, <4>2
    <3> QED
      BY Zenon, <2>1, <2>2, <3>2 DEF Step, AcquireStep, ReleaseStep, LockStep, Call,
         AcquireReadNext, AcquireCheck, AcquireSwap, LazyRead, LazySwap,
         ReleaseReadTop, ReleaseWriteNext, ReleaseSwap, LockTest, LockSet, LockLazyTest,
         LockLazySet, LockUndo, UnlockTop, UnlockLazy, AcquireBegin, ReleaseBegin,
         ReleaseChainBegin, LockBegin, Begin, Repurpose, Reset
  <2>4. ver_top.idx = idx_null
    BY <2>2, <2>3 DEF AcquireReadTop, Goto, TypeOK
  <2>5. stack = <<>>
    BY <1>1, <2>2, <2>4, PoolAssumption DEF IInv, LinksAreStack, TypeOK, Ele, idx_null
  <2>6. ver_lazy.idx = idx_null
    <3>1. ver_lazy = Blank
      BY <1>1 DEF IInv, LockInv
    <3> QED
      BY <3>1 DEF Blank, vidx
  <2> QED
    BY <1>1, <2>2, <2>5, <2>6 DEF IInv, SawInv, Empty
<1> QED
  BY <1>1, Inductive, PTL DEF Spec, NullMeansEmpty

==============================================================================
