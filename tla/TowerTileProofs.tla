--------------------------- MODULE TowerTileProofs ---------------------------
(***************************************************************************)
(* The tower tile keeps the accounts of fork choice right, for every number *)
(* of voters and every tree of blocks.                                      *)
(***************************************************************************)
EXTENDS TowerTile, TowerProofs

\* Pushing a vote leaves a sequence of votes, whatever it was pushed on.
LEMMA PushTypes ==
  ASSUME NEW s \in Seq(Vote), NEW slot \in Nat
  PROVE  push_vote(s, slot).votes \in Seq(Vote)
<1> DEFINE kept == SubSeq(s, 1, simulate_vote(s, slot))
           rest == IF Len(kept) = VoteMax THEN Tail(kept) ELSE kept
           n == Len(rest)
           Consecutive(i) == \A j \in i..n : rest[j].conf = n - j + 1
           Bumped(i) == IF Consecutive(i) THEN [slot |-> rest[i].slot, conf |-> rest[i].conf + 1]
                        ELSE rest[i]
           low == [i \in 1..n |-> Bumped(i)]
           top == [slot |-> slot, conf |-> 1]
<1>1. push_vote(s, slot).votes = Append(low, top)
  BY Zenon DEF push_vote
<1>2. simulate_vote(s, slot) \in 0..Len(s)
  BY Zenon, Simulated
<1>3. kept \in Seq(Vote)
  BY SMT, <1>2
<1> HIDE DEF kept
<1>4. rest \in Seq(Vote)
  <2>1. CASE Len(kept) = VoteMax
    <3>1. kept # <<>>
      BY SMT, <1>3, <2>1, VoteMaxAssumption
    <3>2. Tail(kept) \in Seq(Vote)
      BY SMT, <1>3, <3>1
    <3> QED
      BY Zenon, <2>1, <3>2
  <2>2. CASE Len(kept) # VoteMax
    BY Zenon, <1>3, <2>2
  <2> QED
    BY Zenon, <2>1, <2>2
<1> HIDE DEF rest
<1>5. n \in Nat /\ \A i \in 1..n : rest[i] \in Vote
  BY SMT, <1>4
<1>6. \A i \in 1..n : Bumped(i) \in Vote
  BY <1>5 DEF Vote
<1> HIDE DEF n, Bumped, Consecutive
<1>7. low \in Seq(Vote)
  BY SMT, <1>5, <1>6
<1>8. top \in Vote
  BY DEF Vote
<1> HIDE DEF low, top
<1> QED
  BY SMT, <1>1, <1>7, <1>8

\* The newest block of a finite set of blocks is one of them.
LEMMA NewestIn ==
  ASSUME Counting, NEW S, S \subseteq Block, IsFiniteSet(S), S # {}
  PROVE  Newest(S) \in S
<1> DEFINE Top == {T \in SUBSET S : T = {} \/ \E x \in T : \A y \in T : Slot(y) <= Slot(x)}
<1>1. \A y \in S : Slot(y) \in Nat
  BY Zenon, ClusterAssumption
<1>2. ASSUME NEW T \in SUBSET S, NEW x \in T, T \ {x} \in Top PROVE T \in Top
  <2>1. CASE T \ {x} = {}
    <3>1. \A y \in T : y = x
      BY Zenon, <2>1
    <3>2. Slot(x) <= Slot(x)
      BY SMT, <1>1
    <3> QED
      BY Zenon, <3>1, <3>2
  <2>2. CASE T \ {x} # {}
    <3>1. PICK z \in T : \A y \in T : y # x => Slot(y) <= Slot(z)
      BY Zenon, <1>2, <2>2
    <3>2. (\A y \in T : Slot(y) <= Slot(z)) \/ (\A y \in T : Slot(y) <= Slot(x))
      BY SMT, <1>1, <3>1
    <3> QED
      BY Zenon, <3>2
  <2> QED
    BY Zenon, <2>1, <2>2
<1>3. S \in Top
  <2>1. {} \in Top
    BY Zenon
  <2>2. \A T \in SUBSET S : T # {} /\ (\A x \in T : T \ {x} \in Top) => T \in Top
    BY Zenon, <1>2
  <2> HIDE DEF Top
  <2> QED
    BY Zenon, <2>1, <2>2, GrowSet
<1> QED
  BY Zenon, <1>3 DEF Newest

\* The tower that a set of votes leaves is built vote by vote.
TowersStep(S, h) ==
  [s \in SUBSET S |-> IF s = {} THEN [votes |-> <<>>, root |-> NoSlot]
                      ELSE Rooting(push_vote(h[s \ {Newest(s)}].votes, Slot(Newest(s))), h[s \ {Newest(s)}].root)]

LEMMA TowersExists ==
  ASSUME Counting, NEW S, IsFiniteSet(S),
         \A s \in SUBSET S : s # {} => Newest(s) \in s
  PROVE  \E h : h = TowersStep(S, h)
<1> DEFINE Upto(n, h) == \A s \in SUBSET S : Cardinality(s) <= n => h[s] = TowersStep(S, h)[s]
           Known == {n \in Nat : \E h : Upto(n, h)}
<1>1. \A s \in SUBSET S : /\ IsFiniteSet(s) /\ Cardinality(s) \in Nat
                          /\ Cardinality(s) <= Cardinality(S)
                          /\ Cardinality(s) <= 0 => s = {}
  BY FiniteSubset, FiniteCount, FiniteEmpty
<1>2. ASSUME NEW s \in SUBSET S, s # {}
      PROVE  LET r == s \ {Newest(s)} IN r \in SUBSET S /\ Cardinality(r) = Cardinality(s) - 1
  BY Zenon, <1>1, <1>2, Without
<1>3. 0 \in Known
  <2> DEFINE h == [s \in SUBSET S |-> [votes |-> <<>>, root |-> NoSlot]]
  <2>1. h[{}] = TowersStep(S, h)[{}]
    BY Zenon DEF TowersStep
  <2> HIDE DEF h
  <2>2. Upto(0, h)
    BY Zenon, <1>1, <2>1
  <2> QED
    BY SMT, <2>2
<1>4. ASSUME NEW n \in Nat \ {0}, n - 1 \in Known PROVE n \in Known
  <2>1. PICK h : Upto(n - 1, h)
    BY Zenon, <1>4
  <2> DEFINE k == [s \in SUBSET S |-> IF Cardinality(s) <= n - 1 THEN h[s] ELSE TowersStep(S, h)[s]]
  <2>2. ASSUME NEW s \in SUBSET S, Cardinality(s) <= n PROVE k[s] = TowersStep(S, h)[s]
    BY Zenon, <2>1
  <2>3. ASSUME NEW s \in SUBSET S, Cardinality(s) <= n PROVE TowersStep(S, k)[s] = TowersStep(S, h)[s]
    <3>1. CASE s = {}
      BY Zenon, <3>1 DEF TowersStep
    <3>2. CASE s # {}
      <4> DEFINE r == s \ {Newest(s)}
      <4>1. r \in SUBSET S /\ Cardinality(r) = Cardinality(s) - 1
        BY Zenon, <1>2, <3>2
      <4>2. Cardinality(r) <= n - 1
        <5> HIDE DEF r
        <5> QED
          BY SMT, <1>1, <2>3, <4>1
      <4>3. k[r] = h[r]
        BY Zenon, <4>1, <4>2
      <4> HIDE DEF k
      <4>4. TowersStep(S, k)[s] = Rooting(push_vote(k[r].votes, Slot(Newest(s))), k[r].root)
        BY Zenon, <3>2 DEF TowersStep
      <4>5. TowersStep(S, h)[s] = Rooting(push_vote(h[r].votes, Slot(Newest(s))), h[r].root)
        BY Zenon, <3>2 DEF TowersStep
      <4> QED
        BY Zenon, <4>3, <4>4, <4>5
    <3> QED
      BY Zenon, <3>1, <3>2
  <2>4. Upto(n, k)
    BY Zenon, <2>2, <2>3
  <2> QED
    BY Zenon, <2>4
<1>5. Cardinality(S) \in Known
  <2> HIDE DEF Known
  <2> QED
    BY Zenon, <1>1, <1>3, <1>4, CountUp
<1>6. PICK h : Upto(Cardinality(S), h)
  BY Zenon, <1>5
<1> DEFINE g == [s \in SUBSET S |-> h[s]]
<1>7. ASSUME NEW s \in SUBSET S PROVE g[s] = TowersStep(S, g)[s]
  <2>1. h[s] = TowersStep(S, h)[s]
    BY Zenon, <1>1, <1>6
  <2>2. \A r \in SUBSET S : g[r] = h[r]
    BY Zenon
  <2> HIDE DEF g
  <2>3. CASE s = {}
    BY Zenon, <2>1, <2>2, <2>3 DEF TowersStep
  <2>4. CASE s # {}
    <3> DEFINE r == s \ {Newest(s)}
    <3>1. g[r] = h[r]
      BY Zenon, <1>2, <2>2, <2>4
    <3>2. TowersStep(S, g)[s] = Rooting(push_vote(g[r].votes, Slot(Newest(s))), g[r].root)
      BY Zenon, <2>4 DEF TowersStep
    <3>3. TowersStep(S, h)[s] = Rooting(push_vote(h[r].votes, Slot(Newest(s))), h[r].root)
      BY Zenon, <2>4 DEF TowersStep
    <3> QED
      BY Zenon, <2>1, <2>2, <3>1, <3>2, <3>3
  <2> QED
    BY Zenon, <2>3, <2>4
<1>8. g = TowersStep(S, g)
  BY Zenon, <1>7 DEF TowersStep
<1> QED
  BY Zenon, <1>8

\* Whatever a voter has voted for, its tower is a sequence of votes.
LEMMA TowersKeeps ==
  ASSUME Counting, NEW S, IsFiniteSet(S),
         \A s \in SUBSET S : s # {} => Newest(s) \in s,
         [votes |-> <<>>, root |-> NoSlot].votes \in Seq(Vote),
         \A x \in S : \A u : u.votes \in Seq(Vote) => Rooting(push_vote(u.votes, Slot(x)), u.root).votes \in Seq(Vote)
  PROVE  TowerOf(S).votes \in Seq(Vote)
<1> DEFINE it == CHOOSE h : h = TowersStep(S, h)
           Fine == {s \in SUBSET S : it[s].votes \in Seq(Vote)}
<1>1. TowerOf(S) = it[S]
  BY Zenon DEF TowerOf, MapThenFoldSet, TowersStep
<1>2. it = TowersStep(S, it)
  BY Zenon, TowersExists
<1> HIDE DEF it
<1>3. it[{}] = [votes |-> <<>>, root |-> NoSlot]
  BY Zenon, <1>2 DEF TowersStep
<1>4. ASSUME NEW s \in SUBSET S, s # {}, s \ {Newest(s)} \in Fine PROVE s \in Fine
  <2> DEFINE r == s \ {Newest(s)}
  <2>1. TowersStep(S, it)[s] = Rooting(push_vote(it[r].votes, Slot(Newest(s))), it[r].root)
    BY Zenon, <1>4 DEF TowersStep
  <2>2. it[s] = Rooting(push_vote(it[r].votes, Slot(Newest(s))), it[r].root)
    BY Zenon, <1>2, <2>1
  <2>3. Newest(s) \in S
    BY Zenon, <1>4
  <2>4. it[r].votes \in Seq(Vote)
    BY Zenon, <1>4
  <2> HIDE DEF r
  <2>5. Rooting(push_vote(it[r].votes, Slot(Newest(s))), it[r].root).votes \in Seq(Vote)
    BY Zenon, <2>3, <2>4
  <2> QED
    BY Zenon, <2>2, <2>5
<1>5. S \in Fine
  <2>1. {} \in Fine
    BY Zenon, <1>3
  <2>2. \A s \in SUBSET S : s # {} /\ (\A x \in s : s \ {x} \in Fine) => s \in Fine
    BY Zenon, <1>4
  <2> HIDE DEF Fine
  <2> QED
    BY Zenon, <2>1, <2>2, GrowSet
<1> QED
  BY Zenon, <1>1, <1>5

-----------------------------------------------------------------------------
(* Right(g, N): the accounts of the tree g over the blocks N are right.      *)
(* Good(t, N): so are those of the record t that a handler works on.         *)

Right(g, N) == Sound(g, Block) /\ Nodes(g) = N
Good(t, N) == "ghost" \in DOMAIN t /\ Right(t.ghost, N)

\* Confirming the blocks of a path, one after another.
ResolvingStep(t, g0, S, h) ==
  [s \in SUBSET S |-> IF s = {} THEN g0
                      ELSE Resolve(t, (CHOOSE x \in s : TRUE), h[s \ {(CHOOSE x \in s : TRUE)}])]

LEMMA ResolvingExists ==
  ASSUME Counting, NEW t, NEW g0, NEW N, NEW S, IsFiniteSet(S),
         \A s \in SUBSET S : s # {} => (CHOOSE x \in s : TRUE) \in s
  PROVE  \E h : h = ResolvingStep(t, g0, S, h)
<1> DEFINE Upto(n, h) == \A s \in SUBSET S : Cardinality(s) <= n => h[s] = ResolvingStep(t, g0, S, h)[s]
           Known == {n \in Nat : \E h : Upto(n, h)}
<1>1. \A s \in SUBSET S : /\ IsFiniteSet(s) /\ Cardinality(s) \in Nat
                          /\ Cardinality(s) <= Cardinality(S)
                          /\ Cardinality(s) <= 0 => s = {}
  BY FiniteSubset, FiniteCount, FiniteEmpty
<1>2. ASSUME NEW s \in SUBSET S, s # {}
      PROVE  LET r == s \ {(CHOOSE x \in s : TRUE)} IN r \in SUBSET S /\ Cardinality(r) = Cardinality(s) - 1
  BY Zenon, <1>1, <1>2, Without
<1>3. 0 \in Known
  <2> DEFINE h == [s \in SUBSET S |-> g0]
  <2>1. h[{}] = ResolvingStep(t, g0, S, h)[{}]
    BY Zenon DEF ResolvingStep
  <2> HIDE DEF h
  <2>2. Upto(0, h)
    BY Zenon, <1>1, <2>1
  <2> QED
    BY SMT, <2>2
<1>4. ASSUME NEW n \in Nat \ {0}, n - 1 \in Known PROVE n \in Known
  <2>1. PICK h : Upto(n - 1, h)
    BY Zenon, <1>4
  <2> DEFINE k == [s \in SUBSET S |-> IF Cardinality(s) <= n - 1 THEN h[s] ELSE ResolvingStep(t, g0, S, h)[s]]
  <2>2. ASSUME NEW s \in SUBSET S, Cardinality(s) <= n PROVE k[s] = ResolvingStep(t, g0, S, h)[s]
    BY Zenon, <2>1
  <2>3. ASSUME NEW s \in SUBSET S, Cardinality(s) <= n PROVE ResolvingStep(t, g0, S, k)[s] = ResolvingStep(t, g0, S, h)[s]
    <3>1. CASE s = {}
      BY Zenon, <3>1 DEF ResolvingStep
    <3>2. CASE s # {}
      <4> DEFINE r == s \ {(CHOOSE x \in s : TRUE)}
      <4>1. r \in SUBSET S /\ Cardinality(r) = Cardinality(s) - 1
        BY Zenon, <1>2, <3>2
      <4>2. Cardinality(r) <= n - 1
        <5> HIDE DEF r
        <5> QED
          BY SMT, <1>1, <2>3, <4>1
      <4>3. k[r] = h[r]
        BY Zenon, <4>1, <4>2
      <4> HIDE DEF k
      <4>4. ResolvingStep(t, g0, S, k)[s] = Resolve(t, (CHOOSE x \in s : TRUE), k[r])
        BY Zenon, <3>2 DEF ResolvingStep
      <4>5. ResolvingStep(t, g0, S, h)[s] = Resolve(t, (CHOOSE x \in s : TRUE), h[r])
        BY Zenon, <3>2 DEF ResolvingStep
      <4> QED
        BY Zenon, <4>3, <4>4, <4>5
    <3> QED
      BY Zenon, <3>1, <3>2
  <2>4. Upto(n, k)
    BY Zenon, <2>2, <2>3
  <2> QED
    BY Zenon, <2>4
<1>5. Cardinality(S) \in Known
  <2> HIDE DEF Known
  <2> QED
    BY Zenon, <1>1, <1>3, <1>4, CountUp
<1>6. PICK h : Upto(Cardinality(S), h)
  BY Zenon, <1>5
<1> DEFINE g == [s \in SUBSET S |-> h[s]]
<1>7. ASSUME NEW s \in SUBSET S PROVE g[s] = ResolvingStep(t, g0, S, g)[s]
  <2>1. h[s] = ResolvingStep(t, g0, S, h)[s]
    BY Zenon, <1>1, <1>6
  <2>2. \A r \in SUBSET S : g[r] = h[r]
    BY Zenon
  <2> HIDE DEF g
  <2>3. CASE s = {}
    BY Zenon, <2>1, <2>2, <2>3 DEF ResolvingStep
  <2>4. CASE s # {}
    <3> DEFINE r == s \ {(CHOOSE x \in s : TRUE)}
    <3>1. g[r] = h[r]
      BY Zenon, <1>2, <2>2, <2>4
    <3>2. ResolvingStep(t, g0, S, g)[s] = Resolve(t, (CHOOSE x \in s : TRUE), g[r])
      BY Zenon, <2>4 DEF ResolvingStep
    <3>3. ResolvingStep(t, g0, S, h)[s] = Resolve(t, (CHOOSE x \in s : TRUE), h[r])
      BY Zenon, <2>4 DEF ResolvingStep
    <3> QED
      BY Zenon, <2>1, <2>2, <3>1, <3>2, <3>3
  <2> QED
    BY Zenon, <2>3, <2>4
<1>8. g = ResolvingStep(t, g0, S, g)
  BY Zenon, <1>7 DEF ResolvingStep
<1> QED
  BY Zenon, <1>8

\* What confirming one block keeps, confirming the path keeps.
LEMMA ResolvingKeeps ==
  ASSUME Counting, NEW t, NEW g0, NEW N, NEW S, IsFiniteSet(S),
         \A s \in SUBSET S : s # {} => (CHOOSE x \in s : TRUE) \in s,
         Right(g0, N),
         \A x \in S : \A u : Right(u, N) => Right(Resolve(t, x, u), N)
  PROVE  Right(ResolveAll(t, g0, S), N)
<1> DEFINE it == CHOOSE h : h = ResolvingStep(t, g0, S, h)
           Fine == {s \in SUBSET S : Right(it[s], N)}
<1>1. ResolveAll(t, g0, S) = it[S]
  BY Zenon DEF ResolveAll, FoldSet, MapThenFoldSet, ResolvingStep
<1>2. it = ResolvingStep(t, g0, S, it)
  BY Zenon, ResolvingExists
<1> HIDE DEF it
<1>3. it[{}] = g0
  BY Zenon, <1>2 DEF ResolvingStep
<1>4. ASSUME NEW s \in SUBSET S, s # {}, s \ {(CHOOSE x \in s : TRUE)} \in Fine PROVE s \in Fine
  <2> DEFINE r == s \ {(CHOOSE x \in s : TRUE)}
  <2>1. ResolvingStep(t, g0, S, it)[s] = Resolve(t, (CHOOSE x \in s : TRUE), it[r])
    BY Zenon, <1>4 DEF ResolvingStep
  <2>2. it[s] = Resolve(t, (CHOOSE x \in s : TRUE), it[r])
    BY Zenon, <1>2, <2>1
  <2>3. (CHOOSE x \in s : TRUE) \in S
    BY Zenon, <1>4
  <2>4. Right(it[r], N)
    BY Zenon, <1>4
  <2> HIDE DEF r
  <2>5. Right(Resolve(t, (CHOOSE x \in s : TRUE), it[r]), N)
    BY Zenon, <2>3, <2>4
  <2> QED
    BY Zenon, <2>2, <2>5
<1>5. S \in Fine
  <2>1. {} \in Fine
    BY Zenon, <1>3
  <2>2. \A s \in SUBSET S : s # {} /\ (\A x \in s : s \ {x} \in Fine) => s \in Fine
    BY Zenon, <1>4
  <2> HIDE DEF Fine
  <2> QED
    BY Zenon, <2>1, <2>2, GrowSet
<1> QED
  BY Zenon, <1>1, <1>5


\* The vote accounts are counted one after another.
AccountsStep(t, b, S, h) ==
  [s \in SUBSET S |-> IF s = {} THEN t
                      ELSE CountAcct(h[s \ {(CHOOSE x \in s : TRUE)}], b, (CHOOSE x \in s : TRUE), last_vote(VoteAccount((CHOOSE x \in s : TRUE), b).votes))]

LEMMA AccountsExists ==
  ASSUME Counting, NEW t, NEW b, NEW N, NEW S, IsFiniteSet(S),
         \A s \in SUBSET S : s # {} => (CHOOSE x \in s : TRUE) \in s
  PROVE  \E h : h = AccountsStep(t, b, S, h)
<1> DEFINE Upto(n, h) == \A s \in SUBSET S : Cardinality(s) <= n => h[s] = AccountsStep(t, b, S, h)[s]
           Known == {n \in Nat : \E h : Upto(n, h)}
<1>1. \A s \in SUBSET S : /\ IsFiniteSet(s) /\ Cardinality(s) \in Nat
                          /\ Cardinality(s) <= Cardinality(S)
                          /\ Cardinality(s) <= 0 => s = {}
  BY FiniteSubset, FiniteCount, FiniteEmpty
<1>2. ASSUME NEW s \in SUBSET S, s # {}
      PROVE  LET r == s \ {(CHOOSE x \in s : TRUE)} IN r \in SUBSET S /\ Cardinality(r) = Cardinality(s) - 1
  BY Zenon, <1>1, <1>2, Without
<1>3. 0 \in Known
  <2> DEFINE h == [s \in SUBSET S |-> t]
  <2>1. h[{}] = AccountsStep(t, b, S, h)[{}]
    BY Zenon DEF AccountsStep
  <2> HIDE DEF h
  <2>2. Upto(0, h)
    BY Zenon, <1>1, <2>1
  <2> QED
    BY SMT, <2>2
<1>4. ASSUME NEW n \in Nat \ {0}, n - 1 \in Known PROVE n \in Known
  <2>1. PICK h : Upto(n - 1, h)
    BY Zenon, <1>4
  <2> DEFINE k == [s \in SUBSET S |-> IF Cardinality(s) <= n - 1 THEN h[s] ELSE AccountsStep(t, b, S, h)[s]]
  <2>2. ASSUME NEW s \in SUBSET S, Cardinality(s) <= n PROVE k[s] = AccountsStep(t, b, S, h)[s]
    BY Zenon, <2>1
  <2>3. ASSUME NEW s \in SUBSET S, Cardinality(s) <= n PROVE AccountsStep(t, b, S, k)[s] = AccountsStep(t, b, S, h)[s]
    <3>1. CASE s = {}
      BY Zenon, <3>1 DEF AccountsStep
    <3>2. CASE s # {}
      <4> DEFINE r == s \ {(CHOOSE x \in s : TRUE)}
      <4>1. r \in SUBSET S /\ Cardinality(r) = Cardinality(s) - 1
        BY Zenon, <1>2, <3>2
      <4>2. Cardinality(r) <= n - 1
        <5> HIDE DEF r
        <5> QED
          BY SMT, <1>1, <2>3, <4>1
      <4>3. k[r] = h[r]
        BY Zenon, <4>1, <4>2
      <4> HIDE DEF k
      <4>4. AccountsStep(t, b, S, k)[s] = CountAcct(k[r], b, (CHOOSE x \in s : TRUE), last_vote(VoteAccount((CHOOSE x \in s : TRUE), b).votes))
        BY Zenon, <3>2 DEF AccountsStep
      <4>5. AccountsStep(t, b, S, h)[s] = CountAcct(h[r], b, (CHOOSE x \in s : TRUE), last_vote(VoteAccount((CHOOSE x \in s : TRUE), b).votes))
        BY Zenon, <3>2 DEF AccountsStep
      <4> QED
        BY Zenon, <4>3, <4>4, <4>5
    <3> QED
      BY Zenon, <3>1, <3>2
  <2>4. Upto(n, k)
    BY Zenon, <2>2, <2>3
  <2> QED
    BY Zenon, <2>4
<1>5. Cardinality(S) \in Known
  <2> HIDE DEF Known
  <2> QED
    BY Zenon, <1>1, <1>3, <1>4, CountUp
<1>6. PICK h : Upto(Cardinality(S), h)
  BY Zenon, <1>5
<1> DEFINE g == [s \in SUBSET S |-> h[s]]
<1>7. ASSUME NEW s \in SUBSET S PROVE g[s] = AccountsStep(t, b, S, g)[s]
  <2>1. h[s] = AccountsStep(t, b, S, h)[s]
    BY Zenon, <1>1, <1>6
  <2>2. \A r \in SUBSET S : g[r] = h[r]
    BY Zenon
  <2> HIDE DEF g
  <2>3. CASE s = {}
    BY Zenon, <2>1, <2>2, <2>3 DEF AccountsStep
  <2>4. CASE s # {}
    <3> DEFINE r == s \ {(CHOOSE x \in s : TRUE)}
    <3>1. g[r] = h[r]
      BY Zenon, <1>2, <2>2, <2>4
    <3>2. AccountsStep(t, b, S, g)[s] = CountAcct(g[r], b, (CHOOSE x \in s : TRUE), last_vote(VoteAccount((CHOOSE x \in s : TRUE), b).votes))
      BY Zenon, <2>4 DEF AccountsStep
    <3>3. AccountsStep(t, b, S, h)[s] = CountAcct(h[r], b, (CHOOSE x \in s : TRUE), last_vote(VoteAccount((CHOOSE x \in s : TRUE), b).votes))
      BY Zenon, <2>4 DEF AccountsStep
    <3> QED
      BY Zenon, <2>1, <2>2, <3>1, <3>2, <3>3
  <2> QED
    BY Zenon, <2>3, <2>4
<1>8. g = AccountsStep(t, b, S, g)
  BY Zenon, <1>7 DEF AccountsStep
<1> QED
  BY Zenon, <1>8

\* What counting one vote account keeps, counting them all keeps.
LEMMA AccountsKeeps ==
  ASSUME Counting, NEW t, NEW b, NEW N, NEW S, IsFiniteSet(S),
         \A s \in SUBSET S : s # {} => (CHOOSE x \in s : TRUE) \in s,
         Good(t, N),
         \A x \in S : \A u : Good(u, N) => Good(CountAcct(u, b, x, last_vote(VoteAccount(x, b).votes)), N)
  PROVE  Good(CountEach(t, b, S), N)
<1> DEFINE it == CHOOSE h : h = AccountsStep(t, b, S, h)
           Fine == {s \in SUBSET S : Good(it[s], N)}
<1>1. CountEach(t, b, S) = it[S]
  BY Zenon DEF CountEach, FoldSet, MapThenFoldSet, AccountsStep
<1>2. it = AccountsStep(t, b, S, it)
  BY Zenon, AccountsExists
<1> HIDE DEF it
<1>3. it[{}] = t
  BY Zenon, <1>2 DEF AccountsStep
<1>4. ASSUME NEW s \in SUBSET S, s # {}, s \ {(CHOOSE x \in s : TRUE)} \in Fine PROVE s \in Fine
  <2> DEFINE r == s \ {(CHOOSE x \in s : TRUE)}
  <2>1. AccountsStep(t, b, S, it)[s] = CountAcct(it[r], b, (CHOOSE x \in s : TRUE), last_vote(VoteAccount((CHOOSE x \in s : TRUE), b).votes))
    BY Zenon, <1>4 DEF AccountsStep
  <2>2. it[s] = CountAcct(it[r], b, (CHOOSE x \in s : TRUE), last_vote(VoteAccount((CHOOSE x \in s : TRUE), b).votes))
    BY Zenon, <1>2, <2>1
  <2>3. (CHOOSE x \in s : TRUE) \in S
    BY Zenon, <1>4
  <2>4. Good(it[r], N)
    BY Zenon, <1>4
  <2> HIDE DEF r
  <2>5. Good(CountAcct(it[r], b, (CHOOSE x \in s : TRUE), last_vote(VoteAccount((CHOOSE x \in s : TRUE), b).votes)), N)
    BY Zenon, <2>3, <2>4
  <2> QED
    BY Zenon, <2>2, <2>5
<1>5. S \in Fine
  <2>1. {} \in Fine
    BY Zenon, <1>3
  <2>2. \A s \in SUBSET S : s # {} /\ (\A x \in s : s \ {x} \in Fine) => s \in Fine
    BY Zenon, <1>4
  <2> HIDE DEF Fine
  <2> QED
    BY Zenon, <2>1, <2>2, GrowSet
<1> QED
  BY Zenon, <1>1, <1>5


\* The older votes of an account are counted from the newest to the oldest.
OldersStep(t, v, acct, S, h) ==
  [s \in SUBSET S |-> IF s = {} THEN t
                      ELSE Older(h[s \ {Min(s)}], v, acct[Min(s)].slot)]

LEMMA OldersExists ==
  ASSUME Counting, NEW t, NEW v, NEW acct, NEW N, NEW S, IsFiniteSet(S),
         \A s \in SUBSET S : s # {} => Min(s) \in s
  PROVE  \E h : h = OldersStep(t, v, acct, S, h)
<1> DEFINE Upto(n, h) == \A s \in SUBSET S : Cardinality(s) <= n => h[s] = OldersStep(t, v, acct, S, h)[s]
           Known == {n \in Nat : \E h : Upto(n, h)}
<1>1. \A s \in SUBSET S : /\ IsFiniteSet(s) /\ Cardinality(s) \in Nat
                          /\ Cardinality(s) <= Cardinality(S)
                          /\ Cardinality(s) <= 0 => s = {}
  BY FiniteSubset, FiniteCount, FiniteEmpty
<1>2. ASSUME NEW s \in SUBSET S, s # {}
      PROVE  LET r == s \ {Min(s)} IN r \in SUBSET S /\ Cardinality(r) = Cardinality(s) - 1
  BY Zenon, <1>1, <1>2, Without
<1>3. 0 \in Known
  <2> DEFINE h == [s \in SUBSET S |-> t]
  <2>1. h[{}] = OldersStep(t, v, acct, S, h)[{}]
    BY Zenon DEF OldersStep
  <2> HIDE DEF h
  <2>2. Upto(0, h)
    BY Zenon, <1>1, <2>1
  <2> QED
    BY SMT, <2>2
<1>4. ASSUME NEW n \in Nat \ {0}, n - 1 \in Known PROVE n \in Known
  <2>1. PICK h : Upto(n - 1, h)
    BY Zenon, <1>4
  <2> DEFINE k == [s \in SUBSET S |-> IF Cardinality(s) <= n - 1 THEN h[s] ELSE OldersStep(t, v, acct, S, h)[s]]
  <2>2. ASSUME NEW s \in SUBSET S, Cardinality(s) <= n PROVE k[s] = OldersStep(t, v, acct, S, h)[s]
    BY Zenon, <2>1
  <2>3. ASSUME NEW s \in SUBSET S, Cardinality(s) <= n PROVE OldersStep(t, v, acct, S, k)[s] = OldersStep(t, v, acct, S, h)[s]
    <3>1. CASE s = {}
      BY Zenon, <3>1 DEF OldersStep
    <3>2. CASE s # {}
      <4> DEFINE r == s \ {Min(s)}
      <4>1. r \in SUBSET S /\ Cardinality(r) = Cardinality(s) - 1
        BY Zenon, <1>2, <3>2
      <4>2. Cardinality(r) <= n - 1
        <5> HIDE DEF r
        <5> QED
          BY SMT, <1>1, <2>3, <4>1
      <4>3. k[r] = h[r]
        BY Zenon, <4>1, <4>2
      <4> HIDE DEF k
      <4>4. OldersStep(t, v, acct, S, k)[s] = Older(k[r], v, acct[Min(s)].slot)
        BY Zenon, <3>2 DEF OldersStep
      <4>5. OldersStep(t, v, acct, S, h)[s] = Older(h[r], v, acct[Min(s)].slot)
        BY Zenon, <3>2 DEF OldersStep
      <4> QED
        BY Zenon, <4>3, <4>4, <4>5
    <3> QED
      BY Zenon, <3>1, <3>2
  <2>4. Upto(n, k)
    BY Zenon, <2>2, <2>3
  <2> QED
    BY Zenon, <2>4
<1>5. Cardinality(S) \in Known
  <2> HIDE DEF Known
  <2> QED
    BY Zenon, <1>1, <1>3, <1>4, CountUp
<1>6. PICK h : Upto(Cardinality(S), h)
  BY Zenon, <1>5
<1> DEFINE g == [s \in SUBSET S |-> h[s]]
<1>7. ASSUME NEW s \in SUBSET S PROVE g[s] = OldersStep(t, v, acct, S, g)[s]
  <2>1. h[s] = OldersStep(t, v, acct, S, h)[s]
    BY Zenon, <1>1, <1>6
  <2>2. \A r \in SUBSET S : g[r] = h[r]
    BY Zenon
  <2> HIDE DEF g
  <2>3. CASE s = {}
    BY Zenon, <2>1, <2>2, <2>3 DEF OldersStep
  <2>4. CASE s # {}
    <3> DEFINE r == s \ {Min(s)}
    <3>1. g[r] = h[r]
      BY Zenon, <1>2, <2>2, <2>4
    <3>2. OldersStep(t, v, acct, S, g)[s] = Older(g[r], v, acct[Min(s)].slot)
      BY Zenon, <2>4 DEF OldersStep
    <3>3. OldersStep(t, v, acct, S, h)[s] = Older(h[r], v, acct[Min(s)].slot)
      BY Zenon, <2>4 DEF OldersStep
    <3> QED
      BY Zenon, <2>1, <2>2, <3>1, <3>2, <3>3
  <2> QED
    BY Zenon, <2>3, <2>4
<1>8. g = OldersStep(t, v, acct, S, g)
  BY Zenon, <1>7 DEF OldersStep
<1> QED
  BY Zenon, <1>8

\* What counting one vote keeps, counting them all keeps.
LEMMA OldersKeeps ==
  ASSUME Counting, NEW t, NEW v, NEW acct, NEW N, NEW S, IsFiniteSet(S),
         \A s \in SUBSET S : s # {} => Min(s) \in s,
         Good(t, N),
         \A x \in S : \A u : Good(u, N) => Good(Older(u, v, acct[x].slot), N)
  PROVE  Good(OlderVotes(t, v, acct, S), N)
<1> DEFINE it == CHOOSE h : h = OldersStep(t, v, acct, S, h)
           Fine == {s \in SUBSET S : Good(it[s], N)}
<1>1. OlderVotes(t, v, acct, S) = it[S]
  BY Zenon DEF OlderVotes, MapThenFoldSet, OldersStep
<1>2. it = OldersStep(t, v, acct, S, it)
  BY Zenon, OldersExists
<1> HIDE DEF it
<1>3. it[{}] = t
  BY Zenon, <1>2 DEF OldersStep
<1>4. ASSUME NEW s \in SUBSET S, s # {}, s \ {Min(s)} \in Fine PROVE s \in Fine
  <2> DEFINE r == s \ {Min(s)}
  <2>1. OldersStep(t, v, acct, S, it)[s] = Older(it[r], v, acct[Min(s)].slot)
    BY Zenon, <1>4 DEF OldersStep
  <2>2. it[s] = Older(it[r], v, acct[Min(s)].slot)
    BY Zenon, <1>2, <2>1
  <2>3. Min(s) \in S
    BY Zenon, <1>4
  <2>4. Good(it[r], N)
    BY Zenon, <1>4
  <2> HIDE DEF r
  <2>5. Good(Older(it[r], v, acct[Min(s)].slot), N)
    BY Zenon, <2>3, <2>4
  <2> QED
    BY Zenon, <2>2, <2>5
<1>5. S \in Fine
  <2>1. {} \in Fine
    BY Zenon, <1>3
  <2>2. \A s \in SUBSET S : s # {} /\ (\A x \in s : s \ {x} \in Fine) => s \in Fine
    BY Zenon, <1>4
  <2> HIDE DEF Fine
  <2> QED
    BY Zenon, <2>1, <2>2, GrowSet
<1> QED
  BY Zenon, <1>1, <1>5

-----------------------------------------------------------------------------
(* Confirmations and vote transactions: only the valid bits of ghost change.  *)

LEMMA ResolveRight ==
  ASSUME NEW t, NEW x, NEW g, NEW N, Right(g, N)
  PROVE  Right(Resolve(t, x, g), N)
<1>1. ASSUME NEW h, Right(h, N), NEW b PROVE Right(ghost_confirm(h, b), N) /\ Right(ghost_eqvoc(h, b), N)
  BY Zenon, <1>1, ConfirmSound, EqvocSound DEF Right, Nodes
<1> QED
  BY Zenon, <1>1 DEF Resolve

LEMMA ConfirmPathGood ==
  ASSUME Counting, NEW t, NEW N, Good(t, N), NEW path, IsFiniteSet(path), NEW level
  PROVE  Good(ConfirmPath(t, path, level), N)
<1> DEFINE u == ConfirmPath(t, path, level)
           g == ResolveAll(t, t.ghost, path)
<1>1. "ghost" \in DOMAIN u /\ u.ghost = IF level = "duplicate" THEN g ELSE t.ghost
  BY DEF ConfirmPath, Good
<1>2. Right(g, N)
  <2>1. \A s \in SUBSET path : s # {} => (CHOOSE x \in s : TRUE) \in s
    BY Zenon
  <2>2. Right(t.ghost, N)
    BY Zenon DEF Good
  <2>3. \A x \in path : \A h : Right(h, N) => Right(Resolve(t, x, h), N)
    BY Zenon, ResolveRight
  <2> QED
    BY Zenon, <2>1, <2>2, <2>3, ResolvingKeeps
<1> HIDE DEF u, g
<1> QED
  BY Zenon, <1>1, <1>2 DEF Good, u

LEMMA ForwardGood ==
  ASSUME NEW t, NEW N, Good(t, N), NEW b, NEW level
  PROVE  Good(ForwardLevel(t, b, level), N)
<1> DEFINE u == ForwardLevel(t, b, level)
           old == t.blks[Slot(b)].replayed
<1>1. "ghost" \in DOMAIN u /\ u.ghost \in {t.ghost, ghost_eqvoc(t.ghost, old)}
  BY DEF ForwardLevel, Die, Good
<1>2. Right(t.ghost, N)
  BY Zenon DEF Good
<1>3. Right(ghost_eqvoc(t.ghost, old), N)
  BY Zenon, <1>2, EqvocSound DEF Right, Nodes
<1> HIDE DEF u, old
<1> QED
  BY Zenon, <1>1, <1>2, <1>3 DEF Good, u

LEMMA PublishLevelGood ==
  ASSUME Counting, NEW t, NEW N, Good(t, N), NEW b, NEW level
  PROVE  Good(PublishLevel(t, b, level), N)
<1>1. ASSUME Has(t.ghost, b) PROVE Good(ConfirmPath(t, Confirmed(t, b, level), level), N)
  <2>1. Confirmed(t, b, level) \subseteq Ancestry(t.ghost, b)
    BY Zenon DEF Confirmed
  <2>2. IsTree(t.ghost, Block) /\ b \in Nodes(t.ghost)
    BY Zenon, <1>1 DEF Good, Right, Sound, Has
  <2>3. Confirmed(t, b, level) \in SUBSET Nodes(t.ghost)
    BY Zenon, <2>1, <2>2, AncestryFacts
  <2>4. IsFiniteSet(Confirmed(t, b, level))
    BY Zenon, <2>2, <2>3, FiniteSubset DEF IsTree
  <2> QED
    BY Zenon, <2>4, ConfirmPathGood
<1> QED
  BY Zenon, <1>1, ForwardGood DEF PublishLevel

LEMMA ConfirmedGood ==
  ASSUME Counting, NEW t, NEW N, Good(t, N), NEW b
  PROVE  Good(publish_slot_confirmed(t, b), N)
  BY Zenon, PublishLevelGood DEF publish_slot_confirmed

LEMMA CountSlotGood ==
  ASSUME Counting, NEW t, NEW N, Good(t, N), NEW v, NEW b
  PROVE  Good(CountSlot(t, v, b), N)
<1> DEFINE u == [t EXCEPT !.tally = votes_count_vote(t.tally, v, b)]
<1>1. Good(u, N)
  BY DEF Good
<1> HIDE DEF u
<1> QED
  BY Zenon, <1>1, ConfirmedGood DEF CountSlot, u

LEMMA OlderGood ==
  ASSUME Counting, NEW t, NEW N, Good(t, N), NEW v, NEW slot
  PROVE  Good(Older(t, v, slot), N)
  BY Zenon, CountSlotGood DEF Older

\* A voter's ballot is a finite set of blocks, and its tower a sequence of votes.
Ballot(S) == S \subseteq Block /\ IsFiniteSet(S)

LEMMA TowerTypes ==
  ASSUME Counting, NEW S, Ballot(S)
  PROVE  TowerOf(S).votes \in Seq(Vote)
<1>1. S \subseteq Block /\ IsFiniteSet(S)
  BY Zenon DEF Ballot
<1>2. \A s \in SUBSET S : s # {} => Newest(s) \in s
  BY Zenon, <1>1, FiniteSubset, NewestIn
<1>3. [votes |-> <<>>, root |-> NoSlot].votes \in Seq(Vote)
  BY SMT
<1>4. ASSUME NEW x \in S, NEW u, u.votes \in Seq(Vote)
      PROVE  Rooting(push_vote(u.votes, Slot(x)), u.root).votes \in Seq(Vote)
  <2>1. Slot(x) \in Nat
    BY Zenon, <1>1, ClusterAssumption
  <2>2. push_vote(u.votes, Slot(x)).votes \in Seq(Vote)
    BY Zenon, <1>4, <2>1, PushTypes
  <2> QED
    BY Zenon, <2>2 DEF Rooting
<1> QED
  BY Zenon, <1>1, <1>2, <1>3, <1>4, TowersKeeps

LEMMA CountOlderGood ==
  ASSUME Counting, NEW t, NEW N, Good(t, N), NEW v, NEW b, Ballot(ballot[v])
  PROVE  Good(CountOlder(t, v, b), N)
<1> DEFINE acct == TowerOf(UpTo(ballot[v], b)).votes
           S == 1..(Len(acct) - 1)
<1>1. Ballot(UpTo(ballot[v], b))
  BY Zenon, FiniteSubset DEF Ballot, UpTo
<1>2. 1 \in Int /\ Len(acct) - 1 \in Int
  <2>1. acct \in Seq(Vote)
    BY Zenon, <1>1, TowerTypes
  <2> HIDE DEF acct
  <2> QED
    BY SMT, <2>1
<1> HIDE DEF acct
<1>3. IsFiniteSet(S)
  BY Zenon, <1>2 DEF Counting
<1>4. ASSUME NEW s \in SUBSET S, s # {} PROVE Min(s) \in s
  <2>1. s \subseteq Nat
    BY SMT, <1>2
  <2>2. PICK x \in s : \A y \in s : ~(y < x)
    BY Zenon, <1>4, <2>1, Smallest
  <2>3. \A y \in s : x <= y
    BY SMT, <2>1, <2>2
  <2> QED
    BY Zenon, <2>2, <2>3 DEF Min
<1>5. \A i \in S : \A u : Good(u, N) => Good(Older(u, v, acct[i].slot), N)
  BY Zenon, OlderGood
<1>6. Good(OlderVotes(t, v, acct, S), N)
  <2> HIDE DEF S
  <2> QED
    BY Zenon, <1>3, <1>4, <1>5, OldersKeeps
<1> QED
  BY Zenon, <1>6 DEF CountOlder, acct

LEMMA VoteTxnGood ==
  ASSUME Counting, NEW t, NEW N, Good(t, N), NEW v, NEW b, Ballot(ballot[v])
  PROVE  Good(count_vote_txn(t, v, b), N)
  BY Zenon, CountSlotGood, CountOlderGood DEF count_vote_txn

LEMMA DuplicateGood ==
  ASSUME NEW t, NEW N, Good(t, N), NEW slot
  PROVE  Good(publish_slot_duplicate(t, slot), N)
<1> DEFINE old == t.blks[slot].replayed
           u == [t EXCEPT !.ghost = ghost_eqvoc(t.ghost, old)]
<1>1. "ghost" \in DOMAIN u /\ u.ghost = ghost_eqvoc(t.ghost, old)
  BY DEF Good
<1>2. Right(ghost_eqvoc(t.ghost, old), N)
  BY Zenon, EqvocSound DEF Good, Right, Nodes
<1> HIDE DEF old
<1>3. Good(u, N)
  BY Zenon, <1>1, <1>2 DEF Good
<1> QED
  BY Zenon, <1>3 DEF publish_slot_duplicate, old

-----------------------------------------------------------------------------
(* replay_slot_completed, call by call.                                     *)

LEMMA InsertSecondGood ==
  ASSUME NEW t, NEW N, Good(t, N), NEW b
  PROVE  Good(InsertSecond(t, b), N)
<1> DEFINE u == InsertSecond(t, b)
           g == ghost_confirm(t.ghost, b)
           old == t.blks[Slot(b)].replayed
<1>1. "ghost" \in DOMAIN u /\ u.ghost = ghost_eqvoc(g, old)
  BY DEF InsertSecond, Good
<1>2. Right(g, N)
  BY Zenon, ConfirmSound DEF Good, Right, Nodes
<1> HIDE DEF g, old
<1>3. Right(ghost_eqvoc(g, old), N)
  BY Zenon, <1>2, EqvocSound DEF Right, Nodes
<1> HIDE DEF u
<1> QED
  BY Zenon, <1>1, <1>3 DEF Good, u

LEMMA InsertFirstGood ==
  ASSUME NEW t, NEW N, Good(t, N), NEW b, NEW lead
  PROVE  Good(InsertFirst(t, b, lead), N)
<1> DEFINE u == InsertFirst(t, b, lead)
<1>1. /\ "ghost" \in DOMAIN u
      /\ u.ghost \in {t.ghost, ghost_confirm(t.ghost, b), ghost_eqvoc(t.ghost, b)}
  BY DEF InsertFirst, Good
<1>2. /\ Right(t.ghost, N) /\ Right(ghost_confirm(t.ghost, b), N)
      /\ Right(ghost_eqvoc(t.ghost, b), N)
  BY Zenon, ConfirmSound, EqvocSound DEF Good, Right, Nodes
<1> HIDE DEF u
<1> QED
  BY Zenon, <1>1, <1>2 DEF Good, u

LEMMA DieGood ==
  ASSUME NEW t, NEW N, Good(t, N), NEW why
  PROVE  Good(Die(t, why), N)
  BY DEF Good, Die

LEMMA InsertBlockGood ==
  ASSUME NEW t, NEW N, Good(t, N), NEW b
  PROVE  Good(InsertBlock(t, b), N)
  BY Zenon, InsertSecondGood, InsertFirstGood, DieGood DEF InsertBlock

\* A vote account names a block on the line of the one just replayed, and that
\* block is in the tree.
LEMMA CountAcctGood ==
  ASSUME Counting, NEW t, NEW N, Good(t, N), NEW b \in N, NEW v \in Voter, NEW slot
  PROVE  Good(CountAcct(t, b, v, slot), N)
<1> DEFINE blk == slot_ancestor(t.ghost, b, slot)
           h == ghost_count_vote(t.ghost, blk, v, slot)
           u == [t EXCEPT !.ghost = h]
<1>1. ASSUME blk # NoBlock PROVE Good(u, N)
  <2>1. IsTree(t.ghost, Block) /\ Sound(t.ghost, Block) /\ Nodes(t.ghost) = N
    BY Zenon DEF Good, Right, Sound
  <2>2. blk \in Ancestry(t.ghost, b)
    BY Zenon, <1>1 DEF slot_ancestor
  <2>3. blk \in Nodes(t.ghost)
    BY Zenon, <2>1, <2>2, AncestryFacts
  <2> HIDE DEF blk
  <2>4. Sound(h, Block) /\ h.parent = t.ghost.parent
    <3> DEFINE g == t.ghost
    <3>1. Sound(g, Block) /\ blk \in Nodes(g)
      BY Zenon, <2>1, <2>3
    <3> HIDE DEF g
    <3>2. LET w == ghost_count_vote(g, blk, v, slot) IN Sound(w, Block) /\ w.parent = g.parent
      BY Zenon, <3>1, CountSound
    <3> QED
      BY Zenon, <3>2 DEF g
  <2> HIDE DEF h
  <2>5. "ghost" \in DOMAIN u /\ u.ghost = h
    BY DEF Good
  <2> QED
    BY Zenon, <2>1, <2>4, <2>5 DEF Good, Right, Nodes
<1>2. Good(Die(t, "missing_ancestor"), N)
  BY Zenon, DieGood
<1> QED
  BY Zenon, <1>1, <1>2 DEF CountAcct

LEMMA CountAcctsGood ==
  ASSUME Counting, NEW t, NEW N, Good(t, N), NEW b \in N
  PROVE  Good(CountAccts(t, b), N)
<1>1. \A s \in SUBSET Voter : s # {} => (CHOOSE x \in s : TRUE) \in s
  BY Zenon
<1>2. \A v \in Voter : \A u :
        Good(u, N) => Good(CountAcct(u, b, v, last_vote(VoteAccount(v, b).votes)), N)
  BY Zenon, CountAcctGood
<1>3. Good(CountEach(t, b, Voter), N)
  BY Zenon, <1>1, <1>2, StakeAssumption, AccountsKeeps
<1> QED
  BY Zenon, <1>3 DEF CountAccts

LEMMA ReconcileGood ==
  ASSUME NEW t, NEW N, Good(t, N), NEW acct
  PROVE  Good(reconcile(t, acct), N)
<1> DEFINE u == reconcile(t, acct)
<1>1. "ghost" \in DOMAIN u /\ u.ghost = t.ghost
  BY DEF reconcile, Die, Good
<1> HIDE DEF u
<1> QED
  BY Zenon, <1>1 DEF Good, u

\* Casting a vote may move the root, and what is outside its subtree goes.
Within(t, N) == "ghost" \in DOMAIN t /\ Sound(t.ghost, Block) /\ Nodes(t.ghost) \subseteq N

LEMMA AdvanceRootWithin ==
  ASSUME Counting, NEW t, NEW N, Within(t, N), NEW slot
  PROVE  Within(AdvanceRoot(t, slot), N)
<1> DEFINE newr == IF t.blks[slot].confirmed # NoBlock THEN t.blks[slot].confirmed
                   ELSE t.blks[slot].voted
           h == ghost_publish(t.ghost, newr)
           u == AdvanceRoot(t, slot)
<1>1. "ghost" \in DOMAIN u /\ (u.ghost = t.ghost \/ (newr \in Nodes(t.ghost) /\ u.ghost = h))
  BY DEF AdvanceRoot, Die, Within, Has
<1> HIDE DEF newr
<1>2. newr \in Nodes(t.ghost) => Sound(h, Block) /\ Nodes(h) \subseteq Nodes(t.ghost)
  BY Zenon, PublishSound DEF Within
<1> HIDE DEF u, h
<1> QED
  BY Zenon, <1>1, <1>2 DEF Within, u

LEMMA CastVoteWithin ==
  ASSUME Counting, NEW t, NEW N, Within(t, N), NEW b
  PROVE  Within(CastVote(t, b), N)
<1>1. ASSUME NEW pushed PROVE Within(Pushed(t, b, pushed), N)
  <2> DEFINE voted == [t EXCEPT !.votes = pushed.votes, !.blks[Slot(b)].voted = b]
  <2>1. Within(voted, N)
    BY DEF Within
  <2>2. Within(Die(voted, "no_new_root"), N)
    BY DEF Within, Die
  <2> HIDE DEF voted
  <2>3. Within(AdvanceRoot(voted, pushed.root), N)
    BY Zenon, <2>1, AdvanceRootWithin
  <2> QED
    BY Zenon, <2>1, <2>2, <2>3 DEF Pushed, voted
<1> QED
  BY Zenon, <1>1 DEF CastVote

LEMMA VoteAndResetWithin ==
  ASSUME Counting, NEW t, NEW N, Within(t, N), NEW b
  PROVE  Within(VoteAndReset(t, b), N)
<1>1. ASSUME NEW u, Within(u, N), NEW choice PROVE Within(Done(u, b, choice), N)
  BY <1>1 DEF Done, Die, Within
<1>2. ASSUME NEW choice PROVE Within(Settle(t, b, choice), N)
  <2>1. Within(Die(t, "null_block"), N)
    BY DEF Within, Die
  <2>2. \A c : Within(Carry(t, b, c), N)
    BY Zenon, <1>1, CastVoteWithin DEF Carry
  <2> QED
    BY Zenon, <2>1, <2>2 DEF Settle
<1> QED
  BY Zenon, <1>2 DEF VoteAndReset

LEMMA EnteredWithin ==
  ASSUME Counting, NEW t, NEW N, Good(t, N), NEW b \in N
  PROVE  Within(VoteAndReset(reconcile(CountAccts(InsertBlock(t, b), b), VoteAccount(Us, b)), b), N)
<1>1. Good(InsertBlock(t, b), N)
  BY Zenon, InsertBlockGood
<1>2. Good(CountAccts(InsertBlock(t, b), b), N)
  BY Zenon, <1>1, CountAcctsGood
<1> DEFINE u == reconcile(CountAccts(InsertBlock(t, b), b), VoteAccount(Us, b))
<1>3. Good(u, N)
  BY Zenon, <1>2, ReconcileGood
<1> HIDE DEF u
<1>4. Within(u, N)
  BY Zenon, <1>3 DEF Good, Right, Within
<1>5. Within(VoteAndReset(u, b), N)
  BY Zenon, <1>4, VoteAndResetWithin
<1> QED
  BY Zenon, <1>5 DEF u

-----------------------------------------------------------------------------
(* The inductive invariant: ghost is empty until the snapshot has been       *)
(* replayed, and from then on a tree of replayed blocks with right accounts.  *)

GhostInv ==
  /\ tree \in Trees /\ replayed \subseteq Block
  /\ \A v \in Voter : ballot[v] \in Ballots[v]
  /\ \/ replayed = {} /\ ghost = EmptyGhost
     \/ Snapshot \in replayed /\ Sound(ghost, Block) /\ Nodes(ghost) \subseteq replayed

LEMMA TileGhost == "ghost" \in DOMAIN tile /\ tile.ghost = ghost
  BY DEF tile

LEMMA ReplayInv ==
  ASSUME Counting, GhostInv, NEW b \in Block, Replay(b)
  PROVE  GhostInv'
<1> DEFINE boot == b = Snapshot
           g == IF boot THEN ghost_init(ghost, b) ELSE ghost_insert(ghost, b, tree[b])
           inghost == [tile EXCEPT !.ghost = g, !.root = IF boot THEN Slot(b) ELSE tile.root]
           u == replay_slot_completed(tile, b)
           R == replayed \cup {b}
<1>1. /\ b \notin replayed /\ (boot \/ tree[b] \in replayed) /\ replayed' = R
      /\ ghost' = u.ghost /\ tree' = tree /\ ballot' = ballot
  BY Zenon DEF Replay, Become, cluster
<1>2. ~(~boot /\ ~Has(ghost, tree[b])) =>
        u = VoteAndReset(reconcile(CountAccts(InsertBlock(inghost, b), b), VoteAccount(Us, b)), b)
  BY Zenon, TileGhost DEF replay_slot_completed
<1>3. "ghost" \in DOMAIN inghost /\ inghost.ghost = g
  <2> HIDE DEF g, boot
  <2> QED
    BY TileGhost
<1> HIDE DEF inghost
<1>4. ASSUME NEW N, Right(g, N), b \in N, N \subseteq R, ~(~boot /\ ~Has(ghost, tree[b]))
      PROVE  Sound(ghost', Block) /\ Nodes(ghost') \subseteq R
  <2>1. Good(inghost, N)
    BY Zenon, <1>3, <1>4 DEF Good
  <2>2. Within(u, N)
    BY Zenon, <1>2, <1>4, <2>1, EnteredWithin
  <2> HIDE DEF u
  <2> QED
    BY Zenon, <1>1, <1>4, <2>2 DEF Within
<1>5. Snapshot \in R /\ Sound(ghost', Block) /\ Nodes(ghost') \subseteq R
  <2>1. CASE boot
    <3>1. ghost = EmptyGhost
      BY Zenon, <1>1, <2>1 DEF GhostInv
    <3>2. Sound(g, Block) /\ Nodes(g) = {b}
      BY Zenon, <2>1, <3>1, InitSound, ClusterAssumption
    <3>3. Right(g, {b}) /\ b \in {b} /\ {b} \subseteq R
      BY Zenon, <3>2 DEF Right
    <3> HIDE DEF g
    <3>4. Sound(ghost', Block) /\ Nodes(ghost') \subseteq R
      BY Zenon, <1>4, <2>1, <3>3
    <3> QED
      BY Zenon, <2>1, <3>4
  <2>2. CASE ~boot
    <3>1. Snapshot \in replayed /\ Sound(ghost, Block) /\ Nodes(ghost) \subseteq replayed
      BY Zenon, <1>1, <2>2 DEF GhostInv
    <3>2. CASE ~Has(ghost, tree[b])
      <4>1. u = [tile EXCEPT !.decision = Ignored(b)]
        BY Zenon, <2>2, <3>2, TileGhost DEF replay_slot_completed
      <4>2. u.ghost = ghost
        BY <4>1, TileGhost
      <4> HIDE DEF u
      <4> QED
        BY Zenon, <1>1, <3>1, <4>2
    <3>3. CASE Has(ghost, tree[b])
      <4>1. tree[b] \in Nodes(ghost) /\ Slot(tree[b]) < Slot(b) /\ b \notin Nodes(ghost)
        BY Zenon, <1>1, <2>2, <3>1, <3>3, ClusterAssumption DEF Has, GhostInv
      <4> DEFINE p == tree[b]
                 N == Nodes(ghost) \cup {b}
      <4>2. Sound(ghost_insert(ghost, b, p), Block) /\ Nodes(ghost_insert(ghost, b, p)) = N
        <5> HIDE DEF p
        <5>1. p \in Nodes(ghost) /\ Slot(p) < Slot(b)
          BY Zenon, <4>1 DEF p
        <5> QED
          BY Zenon, <3>1, <4>1, <5>1, InsertSound
      <4>3. Right(g, N) /\ b \in N /\ N \subseteq R
        BY Zenon, <2>2, <3>1, <4>2 DEF Right
      <4> HIDE DEF g, N
      <4>4. Sound(ghost', Block) /\ Nodes(ghost') \subseteq R
        BY Zenon, <1>4, <2>2, <3>3, <4>3
      <4> QED
        BY Zenon, <3>1, <4>4
    <3> QED
      BY Zenon, <3>2, <3>3
  <2> QED
    BY Zenon, <2>1, <2>2
<1> HIDE DEF u
<1>6. R \subseteq Block
  BY Zenon DEF GhostInv
<1> HIDE DEF R
<1> QED
  BY Zenon, <1>1, <1>5, <1>6 DEF GhostInv

LEMMA VoteTxnInv ==
  ASSUME Counting, GhostInv, NEW v \in Voter, NEW b, VoteTxn(v, b)
  PROVE  GhostInv'
<1> DEFINE u == count_vote_txn(tile, v, b)
<1>1. /\ replayed # {} /\ replayed' = replayed /\ tree' = tree /\ ballot' = ballot
      /\ ghost' = u.ghost
  BY Zenon DEF VoteTxn, Become, cluster
<1>2. Snapshot \in replayed /\ Sound(ghost, Block) /\ Nodes(ghost) \subseteq replayed
  BY Zenon, <1>1 DEF GhostInv
<1>3. Good(tile, Nodes(ghost))
  BY Zenon, <1>2, TileGhost DEF Good, Right
<1>4. Ballot(ballot[v])
  BY Zenon, ClusterAssumption DEF GhostInv, Ballot
<1>5. Good(u, Nodes(ghost))
  BY Zenon, <1>3, <1>4, VoteTxnGood
<1> HIDE DEF u
<1>6. Sound(ghost', Block) /\ Nodes(ghost') = Nodes(ghost)
  BY Zenon, <1>1, <1>5 DEF Good, Right
<1> QED
  BY Zenon, <1>1, <1>2, <1>6 DEF GhostInv

LEMMA DuplicateInv ==
  ASSUME GhostInv, NEW slot, Duplicate(slot)
  PROVE  GhostInv'
<1> DEFINE u == publish_slot_duplicate(tile, slot)
<1>1. replayed' = replayed /\ tree' = tree /\ ballot' = ballot /\ ghost' = u.ghost
  BY Zenon DEF Duplicate, Become, cluster
<1>2. CASE replayed = {} /\ ghost = EmptyGhost
  <2>1. \A b : ~Has(ghost, b)
    BY <1>2 DEF Has, Nodes, EmptyGhost
  <2>2. \A b : ghost_eqvoc(ghost, b) = ghost
    BY Zenon, <2>1 DEF ghost_eqvoc
  <2>3. u.ghost = ghost
    <3> DEFINE old == tile.blks[slot].replayed
               w == [tile EXCEPT !.ghost = ghost_eqvoc(tile.ghost, old)]
    <3>1. w.ghost = ghost_eqvoc(ghost, old)
      BY TileGhost
    <3> QED
      BY Zenon, <2>2, <3>1, TileGhost DEF publish_slot_duplicate
  <2> QED
    BY Zenon, <1>1, <1>2, <2>3 DEF GhostInv
<1>3. CASE Snapshot \in replayed /\ Sound(ghost, Block) /\ Nodes(ghost) \subseteq replayed
  <2>1. Good(tile, Nodes(ghost))
    BY Zenon, <1>3, TileGhost DEF Good, Right
  <2>2. Good(u, Nodes(ghost))
    BY Zenon, <2>1, DuplicateGood
  <2> HIDE DEF u
  <2>3. Sound(ghost', Block) /\ Nodes(ghost') = Nodes(ghost)
    BY Zenon, <1>1, <2>2 DEF Good, Right
  <2> QED
    BY Zenon, <1>1, <1>3, <2>3 DEF GhostInv
<1> QED
  BY Zenon, <1>2, <1>3 DEF GhostInv

LEMMA GhostInvStep == Counting /\ GhostInv /\ [Next]_vars => GhostInv'
<1> SUFFICES ASSUME Counting, GhostInv, [Next]_vars PROVE GhostInv'
  OBVIOUS
<1>1. CASE Next
  BY Zenon, <1>1, ReplayInv, VoteTxnInv, DuplicateInv DEF Next
<1>2. CASE UNCHANGED vars
  BY Zenon, <1>2 DEF GhostInv, vars
<1> QED
  BY Zenon, <1>1, <1>2

LEMMA GhostInvStakes == Counting /\ GhostInv => GhostStakes
<1> SUFFICES ASSUME Counting, GhostInv PROVE GhostStakes
  OBVIOUS
<1>1. CASE ghost = EmptyGhost
  <2>1. /\ Nodes(ghost) = {} /\ ghost.width = 0
        /\ \A v \in Voter : ghost.vtr[v].blk = NoBlock
    BY <1>1 DEF Nodes, EmptyGhost
  <2>2. {b \in Nodes(ghost) : ghost.kids[b] = <<>>} = {}
    BY Zenon, <2>1
  <2> QED
    BY Zenon, <2>1, <2>2, FiniteEmpty DEF GhostStakes
<1>2. CASE Sound(ghost, Block)
  BY Zenon, <1>2 DEF Sound, Weighed, Under, Tips, GhostStakes, StakeOf
<1> QED
  BY Zenon, <1>1, <1>2 DEF GhostInv

-----------------------------------------------------------------------------
INSTANCE FiniteSetTheorems

LEMMA FiniteSetsCount == Counting
<1>1. \A x : IsFiniteSet({x}) /\ Cardinality({x}) = 1
  BY Zenon, FS_Singleton
<1>2. \A i, j \in Int : IsFiniteSet(i..j)
  BY Zenon, FS_Interval
<1>3. ASSUME NEW S, IsFiniteSet(S)
      PROVE  /\ Cardinality(S) \in Nat
             /\ Cardinality(S) = 0 <=> S = {}
             /\ \A T \in SUBSET S : IsFiniteSet(T) /\ Cardinality(T) <= Cardinality(S)
             /\ \A x \in S : Cardinality(S \ {x}) = Cardinality(S) - 1
             /\ \A x : /\ IsFiniteSet(S \cup {x})
                       /\ x \notin S => Cardinality(S \cup {x}) = Cardinality(S) + 1
  BY Zenon, <1>3, FS_CardinalityType, FS_EmptySet, FS_Subset, FS_RemoveElement, FS_AddElement
<1>4. ASSUME NEW S, NEW T, IsFiniteSet(S), IsFiniteSet(T)
      PROVE  /\ IsFiniteSet(S \cup T)
             /\ Cardinality(S \cup T) = Cardinality(S) + Cardinality(T) - Cardinality(S \cap T)
  BY Zenon, <1>4, FS_Union
<1> QED
  BY Zenon, <1>1, <1>2, <1>3, <1>4, FS_EmptySet DEF Counting

\* Fork choice weighs every block right in every state of the tile: for every
\* number of voters and every tree, through replay, vote accounts, vote
\* transactions, confirmations, proofs of equivocation and new roots, the stake
\* of a block is that of the voters whose newest vote is under it, no voter is
\* parked on a pruned block, and the width is the number of leaves.
THEOREM GhostStakesHold == Spec => []GhostStakes
<1>1. Init => GhostInv
  BY Zenon DEF Init, GhostInv
<1>2. GhostInv /\ [Next]_vars => GhostInv'
  BY Zenon, GhostInvStep, FiniteSetsCount
<1>3. GhostInv => GhostStakes
  BY Zenon, GhostInvStakes, FiniteSetsCount
<1> QED
  BY <1>1, <1>2, <1>3, PTL DEF Spec

==============================================================================
