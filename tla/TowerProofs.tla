------------------------------ MODULE TowerProofs ------------------------------
(***************************************************************************)
(* What the operators of fd_tower.c and fd_ghost.c promise, for every depth *)
(* of the tower (the run has a tower of two votes, the code one of 31),     *)
(* every block table, set of voters and tree of blocks: push_vote, the      *)
(* lockout check, and the accounts of fork choice.                          *)
(***************************************************************************)
EXTENDS Ghost, Tower, WellFoundedInduction, TLAPS

\* A set of natural numbers has a least one: the form of induction used here.
LEMMA Smallest ==
  ASSUME NEW S, S \subseteq Nat, S # {}
  PROVE  \E x \in S : \A y \in S : ~(y < x)
<1> DEFINE R == OpToRel(<, Nat)
<1>1. IsWellFoundedOn(R, Nat)
  BY Zenon, NatLessThanWellFounded
<1>2. PICK x \in S : \A y \in S : ~(<<y, x>> \in R)
  <2> HIDE DEF R
  <2> QED
    BY Zenon, <1>1, WFMin
<1> QED
  BY Zenon, <1>2 DEF OpToRel

\* A set of numbers up to n has a largest one.
LEMMA Largest ==
  ASSUME NEW n \in Nat, NEW S, S \subseteq 1..n, S # {}
  PROVE  \E i \in S : \A j \in S : j <= i
<1> DEFINE T == {n - i : i \in S}
<1>1. T \subseteq Nat /\ T # {}
  <2>1. \A i \in S : n - i \in Nat
    OBVIOUS
  <2> QED
    BY Zenon, <2>1
<1>2. PICK x \in T : \A y \in T : ~(y < x)
  <2> HIDE DEF T
  <2> QED
    BY Zenon, <1>1, Smallest
<1>3. PICK i \in S : x = n - i
  BY Zenon, <1>2
<1>4. ASSUME NEW j \in S PROVE j <= i
  <2>1. n - j \in T
    BY <1>4
  <2>2. ~(n - j < x)
    BY <1>2, <2>1
  <2> QED
    BY <1>3, <2>2
<1> QED
  BY <1>3, <1>4

\* simulate_vote keeps a prefix of the tower: it stops at a vote that has not
\* expired, and every vote above has.
LEMMA Simulated ==
  ASSUME NEW votes \in Seq(Vote), NEW slot
  PROVE  /\ simulate_vote(votes, slot) \in 0..Len(votes)
         /\ \A i \in 1..Len(votes) :
              i > simulate_vote(votes, slot) => ~(expiration_slot(votes[i]) >= slot)
<1> DEFINE live == {i \in 1..Len(votes) : expiration_slot(votes[i]) >= slot}
<1>1. simulate_vote(votes, slot)
        = IF live = {} THEN 0 ELSE CHOOSE i \in live : \A j \in live : j <= i
  BY DEF simulate_vote
<1>2. live \subseteq 1..Len(votes) /\ Len(votes) \in Nat
  OBVIOUS
<1>3. \A i \in 1..Len(votes) : i \notin live => ~(expiration_slot(votes[i]) >= slot)
  BY Zenon
<1> HIDE DEF live
<1>4. CASE live = {}
  <2>1. simulate_vote(votes, slot) = 0
    BY <1>1, <1>4
  <2>2. \A i \in 1..Len(votes) : i \notin live
    BY <1>4
  <2> QED
    BY <1>2, <1>3, <2>1, <2>2
<1>5. CASE live # {}
  <2>1. \E i \in live : \A j \in live : j <= i
    BY Zenon, <1>2, <1>5, Largest
  <2> DEFINE m == simulate_vote(votes, slot)
  <2>2. m \in live /\ \A j \in live : j <= m
    BY Zenon, <1>1, <1>5, <2>1
  <2> HIDE DEF m
  <2>3. \A i \in 1..Len(votes) : i > m => i \notin live
    BY <1>2, <2>2
  <2>4. m \in 0..Len(votes)
    BY <1>2, <2>2
  <2> QED
    BY <1>3, <2>3, <2>4 DEF m
<1> QED
  BY <1>4, <1>5

-----------------------------------------------------------------------------
\* How many votes a vote for `slot' leaves, whether the lowest of them becomes
\* the root, and the votes below the new one before lockouts double.
Left(votes, slot) == simulate_vote(votes, slot)
Rooted(votes, slot) == IF Left(votes, slot) = VoteMax THEN 1 ELSE 0
Rest(votes, slot) ==
  LET kept == SubSeq(votes, 1, Left(votes, slot))
  IN  IF Len(kept) = VoteMax THEN Tail(kept) ELSE kept

\* The rest is a run of the old votes, shifted down by one if one is rooted.
LEMMA RestShape ==
  ASSUME NEW votes, InOrder(votes), NEW slot \in Nat
  PROVE  /\ Rest(votes, slot) \in Seq(Vote)
         /\ Left(votes, slot) \in 0..Len(votes)
         /\ Len(Rest(votes, slot)) = Left(votes, slot) - Rooted(votes, slot)
         /\ Len(Rest(votes, slot)) < VoteMax
         /\ \A i \in 1..Len(Rest(votes, slot)) :
              /\ i + Rooted(votes, slot) \in 1..Left(votes, slot)
              /\ Rest(votes, slot)[i] = votes[i + Rooted(votes, slot)]
<1> DEFINE c == Left(votes, slot)
           kept == SubSeq(votes, 1, c)
<1>1. votes \in Seq(Vote) /\ Len(votes) <= VoteMax /\ Len(votes) \in Nat
      /\ VoteMax \in Nat \ {0}
  BY VoteMaxAssumption DEF InOrder
<1>2. c \in 0..Len(votes)
  BY <1>1, Simulated DEF Left
<1> HIDE DEF c
<1>3. kept \in Seq(Vote) /\ Len(kept) = c /\ \A i \in 1..c : kept[i] = votes[i]
  BY <1>1, <1>2
<1>4. Rooted(votes, slot) = IF c = VoteMax THEN 1 ELSE 0
  BY DEF Rooted, c
<1>5. Rest(votes, slot) = IF c = VoteMax THEN Tail(kept) ELSE kept
  BY <1>3 DEF Rest, c
<1> HIDE DEF kept
<1>6. CASE c = VoteMax
  <2>1. kept # <<>>
    BY <1>1, <1>3, <1>6
  <2>2. Tail(kept) \in Seq(Vote) /\ Len(Tail(kept)) = c - 1
        /\ \A i \in 1..(c - 1) : Tail(kept)[i] = kept[i + 1]
    BY <1>2, <1>3, <2>1
  <2> QED
    BY <1>1, <1>2, <1>3, <1>4, <1>5, <1>6, <2>2 DEF c
<1>7. CASE c # VoteMax
  BY <1>1, <1>2, <1>3, <1>4, <1>5, <1>7 DEF c
<1> QED
  BY <1>6, <1>7

\* From vote i up, every vote has the fewest confirmations one so deep can have.
Steady(rest, i) == \A j \in i..Len(rest) : rest[j].conf = Len(rest) - j + 1

\* The new tower: the rest, each vote with its confirmations or one more, and
\* the new vote on top.  A vote gains one only while it has the fewest that a
\* vote so deep can have.
LEMMA PushShape ==
  ASSUME NEW votes, InOrder(votes), NEW slot \in Nat
  PROVE  LET rest == Rest(votes, slot)
             p == push_vote(votes, slot).votes
         IN  /\ p \in Seq(Vote) /\ Len(p) = Len(rest) + 1
             /\ p[Len(rest) + 1] = [slot |-> slot, conf |-> 1]
             /\ \A i \in 1..Len(rest) :
                  /\ p[i].slot = rest[i].slot
                  /\ p[i].conf = IF Steady(rest, i) THEN rest[i].conf + 1 ELSE rest[i].conf
<1> DEFINE rest == Rest(votes, slot)
           n == Len(rest)
           Consecutive(i) == \A j \in i..n : rest[j].conf = n - j + 1
           Bumped(i) == IF Consecutive(i) THEN [slot |-> rest[i].slot, conf |-> rest[i].conf + 1]
                        ELSE rest[i]
           low == [i \in 1..n |-> Bumped(i)]
           top == [slot |-> slot, conf |-> 1]
<1>1. push_vote(votes, slot).votes = Append(low, top)
  BY Zenon DEF push_vote, Rest, Left
<1>2. rest \in Seq(Vote) /\ n \in Nat
  BY RestShape
<1> HIDE DEF rest
<1>3. \A i \in 1..n : rest[i] \in Vote
  BY <1>2
<1>4. \A i \in 1..n : /\ Bumped(i) \in Vote /\ Bumped(i).slot = rest[i].slot
                      /\ Bumped(i).conf = IF Consecutive(i) THEN rest[i].conf + 1 ELSE rest[i].conf
  BY <1>3 DEF Vote
<1> HIDE DEF n, Bumped, Consecutive
<1>5. low \in Seq(Vote) /\ Len(low) = n /\ \A i \in 1..n : low[i] = Bumped(i)
  BY <1>2, <1>4
<1> HIDE DEF low
<1>6. top \in Vote
  BY DEF Vote
<1>7. /\ Append(low, top) \in Seq(Vote) /\ Len(Append(low, top)) = n + 1
      /\ Append(low, top)[n + 1] = top
      /\ \A i \in 1..n : Append(low, top)[i] = Bumped(i)
  BY <1>2, <1>5, <1>6
<1> QED
  BY <1>1, <1>4, <1>7 DEF rest, n, Consecutive, Steady

-----------------------------------------------------------------------------
\* The rest is a tower itself, and all of it is older than the new vote.
LEMMA RestInOrder ==
  ASSUME NEW votes, InOrder(votes), NEW slot \in Nat, slot > last_vote(votes)
  PROVE  LET rest == Rest(votes, slot)
         IN  /\ \A i \in 1..Len(rest) : /\ rest[i].conf \in 1..VoteMax
                                        /\ rest[i].slot \in Nat /\ rest[i].slot < slot
             /\ \A i, j \in 1..Len(rest) :
                  i < j => rest[i].slot < rest[j].slot /\ rest[i].conf > rest[j].conf
<1> DEFINE rest == Rest(votes, slot)
           n == Len(rest)
           r == Rooted(votes, slot)
           c == Left(votes, slot)
<1>1. rest \in Seq(Vote) /\ n \in Nat /\ c \in 0..Len(votes)
  BY RestShape
<1>2. \A i \in 1..n : i + r \in 1..c /\ rest[i] = votes[i + r]
  BY RestShape
<1>3. r \in {0, 1}
  BY DEF Rooted
<1> HIDE DEF rest, n, r, c
<1>4. /\ votes \in Seq(Vote) /\ Len(votes) \in Nat
      /\ \A i \in 1..Len(votes) : votes[i] \in Vote /\ votes[i].conf \in 1..VoteMax
      /\ \A i, j \in 1..Len(votes) :
           i < j => votes[i].slot < votes[j].slot /\ votes[i].conf > votes[j].conf
  BY DEF InOrder
<1>5. \A i \in 1..Len(votes) : votes[i].slot \in Nat
  BY Zenon, <1>4 DEF Vote
<1>6. \A i \in 1..Len(votes) : votes[i].slot < slot
  <2> SUFFICES ASSUME NEW i \in 1..Len(votes) PROVE votes[i].slot < slot
    OBVIOUS
  <2>1. last_vote(votes) = votes[Len(votes)].slot
    BY <1>4 DEF last_vote
  <2>2. Len(votes) \in 1..Len(votes)
    BY <1>4
  <2> QED
    BY <1>4, <1>5, <2>1, <2>2
<1>7. \A i \in 1..n : i + r \in 1..Len(votes)
  BY <1>1, <1>2
<1>8. \A i \in 1..n : rest[i].conf \in 1..VoteMax /\ rest[i].slot \in Nat /\ rest[i].slot < slot
  BY <1>2, <1>4, <1>5, <1>6, <1>7
<1>9. \A i, j \in 1..n : i < j => rest[i].slot < rest[j].slot /\ rest[i].conf > rest[j].conf
  <2> SUFFICES ASSUME NEW i \in 1..n, NEW j \in 1..n, i < j
               PROVE  rest[i].slot < rest[j].slot /\ rest[i].conf > rest[j].conf
    OBVIOUS
  <2>1. i + r < j + r
    BY <1>1, <1>3
  <2>2. /\ i + r \in 1..Len(votes) /\ j + r \in 1..Len(votes)
        /\ rest[i] = votes[i + r] /\ rest[j] = votes[j + r]
    BY <1>2, <1>7
  <2> QED
    BY Zenon, <1>4, <2>1, <2>2
<1> QED
  BY <1>8, <1>9 DEF rest, n

\* push_vote keeps the tower in order and within its depth: the doubling of
\* lockouts never lets a vote catch up with the one below it.
THEOREM PushVoteInOrder ==
  ASSUME NEW votes, InOrder(votes), NEW slot \in Nat, slot > last_vote(votes)
  PROVE  InOrder(push_vote(votes, slot).votes)
<1> DEFINE rest == Rest(votes, slot)
           n == Len(rest)
           p == push_vote(votes, slot).votes
           Consecutive(i) == Steady(rest, i)
<1>1. n \in Nat /\ n < VoteMax /\ VoteMax \in Nat
  BY RestShape, VoteMaxAssumption
<1>2. /\ p \in Seq(Vote) /\ Len(p) = n + 1
      /\ p[n + 1] = [slot |-> slot, conf |-> 1]
      /\ \A i \in 1..n : /\ p[i].slot = rest[i].slot
                         /\ p[i].conf = IF Consecutive(i) THEN rest[i].conf + 1 ELSE rest[i].conf
  BY PushShape
<1>3. /\ \A i \in 1..n : /\ rest[i].conf \in 1..VoteMax
                         /\ rest[i].slot \in Nat /\ rest[i].slot < slot
      /\ \A i, j \in 1..n : i < j => rest[i].slot < rest[j].slot /\ rest[i].conf > rest[j].conf
  BY RestInOrder
<1>4. \A i \in 1..n : Consecutive(i) => rest[i].conf = n - i + 1
  BY <1>1 DEF Steady
<1>5. \A i, j \in 1..n : i < j /\ Consecutive(i) => Consecutive(j)
  BY <1>1 DEF Steady
<1>6. \A i \in 1..n : i + 1 \in 1..n /\ Consecutive(i + 1) /\ rest[i].conf = n - i + 1 => Consecutive(i)
  <2> SUFFICES ASSUME NEW i \in 1..n, i + 1 \in 1..n, Steady(rest, i + 1), rest[i].conf = n - i + 1,
                      NEW j \in i..n
               PROVE  rest[j].conf = n - j + 1
    BY DEF Steady
  <2>1. CASE j = i
    BY <2>1
  <2>2. CASE j # i
    <3> HIDE DEF rest
    <3>1. j \in (i + 1)..n
      BY <1>1, <2>2
    <3> QED
      BY <3>1 DEF Steady
  <2> QED
    BY <2>1, <2>2
<1>7. \A i \in 1..n : i = n /\ rest[i].conf = 1 => Consecutive(i)
  BY <1>1 DEF Steady
<1> HIDE DEF rest, n, p, Consecutive
<1>8. \A i \in 1..n : p[i].conf \in 1..VoteMax
  <2> SUFFICES ASSUME NEW i \in 1..n PROVE p[i].conf \in 1..VoteMax
    OBVIOUS
  <2>1. p[i].conf = (IF Consecutive(i) THEN rest[i].conf + 1 ELSE rest[i].conf)
    BY Zenon, <1>2
  <2>2. rest[i].conf \in 1..VoteMax /\ (Consecutive(i) => rest[i].conf = n - i + 1)
    BY <1>3, <1>4
  <2> QED
    BY <1>1, <2>1, <2>2
<1>9. \A i, j \in 1..n : i < j => p[i].slot < p[j].slot /\ p[i].conf > p[j].conf
  <2> SUFFICES ASSUME NEW i \in 1..n, NEW j \in 1..n, i < j PROVE p[i].conf > p[j].conf
    BY <1>2, <1>3
  <2>1. rest[i].conf > rest[j].conf /\ rest[i].conf \in Nat /\ rest[j].conf \in Nat
    BY <1>1, <1>3
  <2>2. CASE ~Consecutive(j) \/ Consecutive(i)
    <3>1. p[i].conf = (IF Consecutive(i) THEN rest[i].conf + 1 ELSE rest[i].conf)
          /\ p[j].conf = (IF Consecutive(j) THEN rest[j].conf + 1 ELSE rest[j].conf)
      BY Zenon, <1>2
    <3>2. CASE Consecutive(i)
      BY <2>1, <3>1, <3>2
    <3>3. CASE ~Consecutive(j)
      BY <2>1, <3>1, <3>3
    <3> QED
      BY <2>2, <3>2, <3>3
  <2>3. CASE Consecutive(j) /\ ~Consecutive(i)
    <3>1. p[j].conf = rest[j].conf + 1 /\ p[i].conf = rest[i].conf
      BY <1>2, <2>3
    <3>2. CASE j = i + 1
      <4>1. rest[j].conf = n - j + 1 /\ rest[i].conf # n - i + 1
        BY <1>4, <1>6, <2>3, <3>2
      <4> QED
        BY <1>1, <2>1, <3>1, <3>2, <4>1
    <3>3. CASE j # i + 1
      <4>1. i + 1 \in 1..n /\ i < i + 1 /\ i + 1 < j
        BY <1>1, <3>3
      <4>2. rest[i].conf > rest[i + 1].conf /\ rest[i + 1].conf > rest[j].conf
            /\ rest[i + 1].conf \in Nat
        BY <1>1, <1>3, <4>1
      <4> QED
        BY <2>1, <3>1, <4>2
    <3> QED
      BY <3>2, <3>3
  <2> QED
    BY <2>2, <2>3
<1>10. \A i \in 1..n : p[i].slot < slot /\ p[i].conf > 1
  <2> SUFFICES ASSUME NEW i \in 1..n PROVE p[i].conf > 1
    BY <1>2, <1>3
  <2>1. CASE i = n
    <3>1. p[i].conf = (IF Consecutive(i) THEN rest[i].conf + 1 ELSE rest[i].conf)
      BY Zenon, <1>2
    <3>2. rest[i].conf \in 1..VoteMax /\ (rest[i].conf = 1 => Consecutive(i))
      BY <1>3, <1>7, <2>1
    <3> QED
      BY <1>1, <3>1, <3>2
  <2>2. CASE i # n
    <3>1. n \in 1..n /\ i < n
      BY <1>1, <2>2
    <3>2. rest[i].conf > rest[n].conf /\ rest[n].conf \in 1..VoteMax /\ rest[i].conf \in 1..VoteMax
      BY <1>3, <3>1
    <3> QED
      BY <1>1, <1>2, <3>2
  <2> QED
    BY <2>1, <2>2
<1>11. \A i \in DOMAIN p : i \in 1..n \/ i = n + 1
  BY <1>1, <1>2
<1>12. \A i \in DOMAIN p : p[i].conf \in 1..VoteMax
  BY <1>1, <1>2, <1>8, <1>11
<1>13. \A i, j \in DOMAIN p : i < j => p[i].slot < p[j].slot /\ p[i].conf > p[j].conf
  <2> SUFFICES ASSUME NEW i \in DOMAIN p, NEW j \in DOMAIN p, i < j
               PROVE  p[i].slot < p[j].slot /\ p[i].conf > p[j].conf
    OBVIOUS
  <2>1. i \in 1..n
    BY <1>1, <1>2
  <2>2. CASE j = n + 1
    BY <1>2, <1>10, <2>1, <2>2
  <2>3. CASE j \in 1..n
    BY <1>9, <2>1, <2>3
  <2> QED
    BY <1>11, <2>2, <2>3
<1>14. Len(p) <= VoteMax
  BY <1>1, <1>2
<1> QED
  BY <1>2, <1>12, <1>13, <1>14 DEF InOrder, p

\* Lockout: push_vote forgets a vote only once it has expired, or as the root
\* it returns; every other vote stays, with no fewer confirmations.
THEOREM PushVoteKeepsLockouts ==
  ASSUME NEW votes, InOrder(votes), NEW slot \in Nat
  PROVE  LET p == push_vote(votes, slot)
         IN  /\ last_vote(p.votes) = slot
             /\ \A i \in DOMAIN votes :
                  \/ ~(expiration_slot(votes[i]) >= slot)
                  \/ votes[i].slot = p.root
                  \/ \E j \in DOMAIN p.votes : /\ p.votes[j].slot = votes[i].slot
                                               /\ p.votes[j].conf >= votes[i].conf
<1> DEFINE rest == Rest(votes, slot)
           n == Len(rest)
           p == push_vote(votes, slot).votes
           r == Rooted(votes, slot)
           c == Left(votes, slot)
           Consecutive(i) == Steady(rest, i)
<1>1. /\ rest \in Seq(Vote) /\ n \in Nat /\ c \in 0..Len(votes) /\ n = c - r
      /\ \A i \in 1..n : rest[i] = votes[i + r]
  BY RestShape
<1>2. /\ p \in Seq(Vote) /\ Len(p) = n + 1
      /\ p[n + 1] = [slot |-> slot, conf |-> 1]
      /\ \A i \in 1..n : /\ p[i].slot = rest[i].slot
                         /\ p[i].conf = IF Consecutive(i) THEN rest[i].conf + 1 ELSE rest[i].conf
  BY PushShape
<1>3. r = IF c = VoteMax THEN 1 ELSE 0
  BY DEF Rooted
<1>4. votes \in Seq(Vote) /\ Len(votes) \in Nat /\ VoteMax \in Nat \ {0}
      /\ \A i \in 1..Len(votes) : votes[i].conf \in Nat
  BY VoteMaxAssumption DEF InOrder, Vote
<1>5. \A i \in 1..Len(votes) : i > c => ~(expiration_slot(votes[i]) >= slot)
  BY <1>4, Simulated DEF Left
<1>6. r = 1 => push_vote(votes, slot).root = votes[1].slot
  <2> SUFFICES ASSUME r = 1 PROVE push_vote(votes, slot).root = votes[1].slot
    OBVIOUS
  <2>1. Len(SubSeq(votes, 1, c)) = c /\ c = VoteMax /\ SubSeq(votes, 1, c)[1] = votes[1]
    <3> HIDE DEF c, r
    <3> QED
      BY <1>1, <1>3, <1>4
  <2> QED
    BY Zenon, <2>1 DEF push_vote, Left
<1> HIDE DEF rest, n, p, r, c, Consecutive
<1>7. last_vote(p) = slot
  <2>1. p # <<>>
    BY <1>1, <1>2
  <2> QED
    BY <1>2, <2>1 DEF last_vote
<1>8. ASSUME NEW i \in 1..Len(votes), i <= c, ~(r = 1 /\ i = 1)
      PROVE  \E j \in DOMAIN p : p[j].slot = votes[i].slot /\ p[j].conf >= votes[i].conf
  <2>1. i - r \in 1..n /\ (i - r) + r = i
    BY <1>1, <1>3, <1>8
  <2>2. rest[i - r] = votes[i]
    BY <1>1, <2>1
  <2>3. p[i - r].slot = votes[i].slot /\ p[i - r].conf >= votes[i].conf
    BY <1>2, <1>4, <2>1, <2>2
  <2>4. i - r \in DOMAIN p
    BY <1>1, <1>2, <2>1
  <2> QED
    BY <2>3, <2>4
<1>9. ASSUME NEW i \in DOMAIN votes
      PROVE  \/ ~(expiration_slot(votes[i]) >= slot)
             \/ votes[i].slot = push_vote(votes, slot).root
             \/ \E j \in DOMAIN p : p[j].slot = votes[i].slot /\ p[j].conf >= votes[i].conf
  <2>1. i \in 1..Len(votes) /\ c \in Nat
    BY <1>1, <1>4
  <2>2. CASE i > c
    BY <1>5, <2>1, <2>2
  <2>3. CASE r = 1 /\ i = 1
    BY <1>6, <2>3
  <2>4. CASE i <= c /\ ~(r = 1 /\ i = 1)
    BY <1>8, <2>1, <2>4
  <2> QED
    BY <2>1, <2>2, <2>3, <2>4
<1> QED
  BY <1>7, <1>9 DEF p

-----------------------------------------------------------------------------
\* The walk up the block table.  Its recursive definition has a solution: the
\* least set of slots from which the walk meets `anc'.
LEMMA AncestorStep ==
  ASSUME NEW blks, NEW anc
  PROVE  \A s : is_ancestor(blks, s, anc)
                  <=> /\ s \in DOMAIN blks
                      /\ \/ blks[s].parent_slot = anc
                         \/ is_ancestor(blks, blks[s].parent_slot, anc)
<1> DEFINE D == DOMAIN blks
           Par(s) == blks[s].parent_slot
           Walk(f) == [s \in D |-> Par(s) = anc \/ (Par(s) \in D /\ f[Par(s)])]
           Closed(X) == \A s \in D : Par(s) = anc \/ Par(s) \in X => s \in X
           A == {s \in D : \A X \in SUBSET D : Closed(X) => s \in X}
           g == [s \in D |-> s \in A]
           up == CHOOSE f : f = Walk(f)
<1>1. \A s : is_ancestor(blks, s, anc) <=> s \in D /\ up[s]
  BY Zenon DEF is_ancestor
<1>2. \A s \in D : s \in A <=> Par(s) = anc \/ Par(s) \in A
  <2> DEFINE B == {s \in D : Par(s) = anc \/ Par(s) \in A}
  <2>1. B \subseteq A
    <3> SUFFICES ASSUME NEW s \in B, NEW X \in SUBSET D, Closed(X) PROVE s \in X
      BY Zenon
    <3>1. Par(s) \in A => Par(s) \in X
      BY Zenon
    <3> QED
      BY Zenon, <3>1
  <2>2. Closed(B)
    BY Zenon, <2>1
  <2>3. A \subseteq B
    BY Zenon, <2>2
  <2> QED
    BY Zenon, <2>1, <2>3
<1>3. A \subseteq D
  BY Zenon
<1> HIDE DEF A, Par, D
<1>4. g = Walk(g)
  <2>1. \A s \in D : (s \in A) = (Par(s) = anc \/ (Par(s) \in D /\ g[Par(s)]))
    <3>1. \A s \in D : g[s] <=> s \in A
      BY Zenon
    <3>2. \A s \in D : (s \in A) <=> (Par(s) = anc \/ (Par(s) \in D /\ g[Par(s)]))
      <4> HIDE DEF g
      <4> QED
        BY Zenon, <1>2, <1>3, <3>1
    <3> HIDE DEF g
    <3> QED
      BY SMT, <3>2
  <2> QED
    BY Zenon, <2>1
<1>5. up = Walk(up)
  <2> HIDE DEF g, Walk
  <2> QED
    BY Zenon, <1>4
<1> HIDE DEF up
<1>6. \A s \in D : up[s] <=> Par(s) = anc \/ (Par(s) \in D /\ up[Par(s)])
  BY Zenon, <1>5
<1> QED
  BY Zenon, <1>1, <1>6 DEF Par, D

\* The block table: a parent slot is older than its slot.
OlderParents(blks) ==
  /\ DOMAIN blks \subseteq Nat
  /\ \A s \in DOMAIN blks : blks[s].parent_slot \in Int /\ blks[s].parent_slot < s

\* An ancestor is older.
LEMMA AncestorOlder ==
  ASSUME NEW blks, OlderParents(blks), NEW anc
  PROVE  \A s : is_ancestor(blks, s, anc) => s \in Nat /\ anc \in Int /\ anc < s
<1> DEFINE Bad == {s \in DOMAIN blks : is_ancestor(blks, s, anc) /\ ~(anc \in Int /\ anc < s)}
<1>1. Bad = {}
  <2> SUFFICES ASSUME Bad # {} PROVE FALSE
    OBVIOUS
  <2>1. Bad \subseteq Nat
    BY Zenon DEF OlderParents
  <2>2. PICK s \in Bad : \A y \in Bad : ~(y < s)
    <3> HIDE DEF Bad
    <3> QED
      BY Zenon, <2>1, Smallest
  <2> DEFINE p == blks[s].parent_slot
  <2>3. s \in DOMAIN blks /\ s \in Nat /\ p \in Int /\ p < s
    BY Zenon, <2>1, <2>2 DEF OlderParents
  <2>4. p = anc \/ is_ancestor(blks, p, anc)
    BY Zenon, <2>2, AncestorStep
  <2>5. p # anc
    BY Zenon, <2>2, <2>3
  <2>6. is_ancestor(blks, p, anc) /\ p \in DOMAIN blks
    BY Zenon, <2>4, <2>5, AncestorStep
  <2>7. anc \in Int /\ anc < p
    BY Zenon, <2>2, <2>3, <2>6
  <2>8. anc < s
    <3> HIDE DEF p
    <3> QED
      BY <2>3, <2>7
  <2> QED
    BY Zenon, <2>2, <2>7, <2>8
<1>2. \A s : is_ancestor(blks, s, anc) => s \in DOMAIN blks
  BY Zenon, AncestorStep
<1> QED
  BY Zenon, <1>1, <1>2 DEF OlderParents

\* An ancestor of an ancestor is an ancestor.
LEMMA AncestorTransitive ==
  ASSUME NEW blks, OlderParents(blks), NEW mid, NEW anc, is_ancestor(blks, mid, anc)
  PROVE  \A s : is_ancestor(blks, s, mid) => is_ancestor(blks, s, anc)
<1> DEFINE Bad == {s \in DOMAIN blks : is_ancestor(blks, s, mid) /\ ~is_ancestor(blks, s, anc)}
<1>1. Bad = {}
  <2> SUFFICES ASSUME Bad # {} PROVE FALSE
    OBVIOUS
  <2>1. Bad \subseteq Nat
    BY Zenon DEF OlderParents
  <2>2. PICK s \in Bad : \A y \in Bad : ~(y < s)
    <3> HIDE DEF Bad
    <3> QED
      BY Zenon, <2>1, Smallest
  <2> DEFINE p == blks[s].parent_slot
  <2>3. s \in DOMAIN blks /\ p < s
    BY Zenon, <2>2 DEF OlderParents
  <2>4. ~is_ancestor(blks, p, anc)
    BY Zenon, <2>2, <2>3, AncestorStep
  <2>5. is_ancestor(blks, p, mid)
    BY Zenon, <2>2, <2>4, AncestorStep
  <2>6. p \in DOMAIN blks
    BY Zenon, <2>5, AncestorStep
  <2> QED
    BY Zenon, <2>2, <2>3, <2>4, <2>5, <2>6
<1>2. \A s : is_ancestor(blks, s, mid) => s \in DOMAIN blks
  BY Zenon, AncestorStep
<1> QED
  BY Zenon, <1>1, <1>2

-----------------------------------------------------------------------------
\* The votes of a tower are on one fork of the block table.
OneFork(blks, votes) ==
  \A i, j \in DOMAIN votes : i < j => is_ancestor(blks, votes[j].slot, votes[i].slot)

\* The lockout check honours every lockout: it only looks at the top vote that
\* has not expired, yet a slot that passes descends from every vote of the
\* tower that has not expired, and from every vote that the new tower keeps.
THEOREM LockoutHonoured ==
  ASSUME NEW t, InOrder(t.votes), OlderParents(t.blks), OneFork(t.blks, t.votes),
         NEW slot \in Nat, lockout_check(t, slot)
  PROVE  \A i \in DOMAIN t.votes :
           i <= simulate_vote(t.votes, slot) \/ expiration_slot(t.votes[i]) >= slot
             => is_ancestor(t.blks, slot, t.votes[i].slot)
<1> DEFINE votes == t.votes
           c == simulate_vote(votes, slot)
<1> SUFFICES ASSUME NEW i \in DOMAIN votes, i <= c \/ expiration_slot(votes[i]) >= slot
             PROVE  is_ancestor(t.blks, slot, votes[i].slot)
  BY Zenon
<1>1. votes \in Seq(Vote) /\ Len(votes) \in Nat /\ i \in 1..Len(votes)
  BY DEF InOrder
<1>2. c \in 0..Len(votes) /\ (i > c => ~(expiration_slot(votes[i]) >= slot))
  BY <1>1, Simulated
<1>3. votes # <<>>
  BY <1>1
<1>4. c = 0 \/ is_ancestor(t.blks, slot, votes[c].slot)
  BY Zenon, <1>3 DEF lockout_check
<1> HIDE DEF c
<1>5. i <= c /\ c # 0 /\ c \in DOMAIN votes
  BY <1>1, <1>2
<1>6. CASE i = c
  BY Zenon, <1>4, <1>5, <1>6
<1>7. CASE i # c
  <2>1. i < c
    BY <1>1, <1>2, <1>5, <1>7
  <2>2. is_ancestor(t.blks, votes[c].slot, votes[i].slot)
    BY Zenon, <1>5, <2>1 DEF OneFork
  <2> QED
    BY Zenon, <1>4, <1>5, <2>2, AncestorTransitive
<1> QED
  BY Zenon, <1>6, <1>7

\* A vote that passes the lockout check leaves a tower on one fork.
THEOREM LockoutKeepsOneFork ==
  ASSUME NEW t, InOrder(t.votes), OlderParents(t.blks), OneFork(t.blks, t.votes),
         NEW slot \in Nat, lockout_check(t, slot)
  PROVE  OneFork(t.blks, push_vote(t.votes, slot).votes)
<1> DEFINE votes == t.votes
           blks == t.blks
           rest == Rest(votes, slot)
           n == Len(rest)
           r == Rooted(votes, slot)
           c == Left(votes, slot)
           p == push_vote(votes, slot).votes
<1>1. /\ rest \in Seq(Vote) /\ n \in Nat /\ c \in 0..Len(votes)
      /\ \A i \in 1..n : i + r \in 1..c /\ rest[i] = votes[i + r]
  BY RestShape
<1>2. /\ p \in Seq(Vote) /\ Len(p) = n + 1
      /\ p[n + 1] = [slot |-> slot, conf |-> 1]
      /\ \A i \in 1..n : p[i].slot = rest[i].slot
  BY PushShape
<1>3. r \in {0, 1}
  BY DEF Rooted
<1>4. DOMAIN votes = 1..Len(votes) /\ Len(votes) \in Nat
  BY DEF InOrder
<1>5. \A i \in DOMAIN votes : i <= c => is_ancestor(blks, slot, votes[i].slot)
  BY Zenon, LockoutHonoured DEF Left
<1>6. \A i, j \in DOMAIN votes : i < j => is_ancestor(blks, votes[j].slot, votes[i].slot)
  BY Zenon DEF OneFork
<1> SUFFICES ASSUME NEW i \in DOMAIN p, NEW j \in DOMAIN p, i < j
             PROVE  is_ancestor(blks, p[j].slot, p[i].slot)
  BY Zenon DEF OneFork
<1> HIDE DEF votes, blks, rest, n, r, c, p
<1>7. i \in 1..n /\ j \in 1..(n + 1)
  BY <1>1, <1>2
<1>8. i + r \in DOMAIN votes /\ i + r <= c /\ p[i].slot = votes[i + r].slot
  <2>1. i + r \in 1..c /\ p[i].slot = votes[i + r].slot
    BY Zenon, <1>1, <1>2, <1>7
  <2> QED
    BY <1>1, <1>4, <2>1
<1>9. CASE j = n + 1
  BY <1>2, <1>5, <1>8, <1>9
<1>10. CASE j # n + 1
  <2>1. j \in 1..n
    BY <1>1, <1>7, <1>10
  <2>2. j + r \in DOMAIN votes /\ i + r < j + r /\ p[j].slot = votes[j + r].slot
    <3>1. j + r \in 1..c /\ p[j].slot = votes[j + r].slot
      BY Zenon, <1>1, <1>2, <2>1
    <3>2. i + r < j + r
      BY <1>1, <1>3, <1>7
    <3> QED
      BY <1>1, <1>4, <3>1, <3>2
  <2> QED
    BY <1>6, <1>8, <2>2
<1> QED
  BY <1>9, <1>10

\* Inserting a block of a new slot and dropping the slots below a root leave the
\* tower on one fork: what is above its lowest vote keeps its parents.
THEOREM TableKeepsOneFork ==
  ASSUME NEW blks, NEW new, NEW votes, OlderParents(blks), OneFork(blks, votes),
         \A i \in DOMAIN votes : \A s \in DOMAIN blks :
           s > votes[i].slot => s \in DOMAIN new /\ new[s].parent_slot = blks[s].parent_slot
  PROVE  OneFork(new, votes)
<1> SUFFICES ASSUME NEW i \in DOMAIN votes, NEW j \in DOMAIN votes, i < j
             PROVE  is_ancestor(new, votes[j].slot, votes[i].slot)
  BY Zenon DEF OneFork
<1> DEFINE a == votes[i].slot
           Bad == {s \in DOMAIN blks : is_ancestor(blks, s, a) /\ ~is_ancestor(new, s, a)}
<1>1. Bad = {}
  <2> SUFFICES ASSUME Bad # {} PROVE FALSE
    OBVIOUS
  <2>1. Bad \subseteq Nat
    BY Zenon DEF OlderParents
  <2>2. PICK s \in Bad : \A y \in Bad : ~(y < s)
    <3> HIDE DEF Bad
    <3> QED
      BY Zenon, <2>1, Smallest
  <2> DEFINE p == blks[s].parent_slot
  <2>3. s \in DOMAIN blks /\ p < s
    BY Zenon, <2>2 DEF OlderParents
  <2>4. a < s /\ a \in Int /\ s \in Nat
    BY Zenon, <2>2, AncestorOlder
  <2>5. s > a
    <3> HIDE DEF a, Bad
    <3> QED
      BY <2>4
  <2>6. s \in DOMAIN new /\ new[s].parent_slot = p
    BY Zenon, <2>3, <2>5
  <2>7. p # a /\ ~is_ancestor(new, p, a)
    BY Zenon, <2>2, <2>6, AncestorStep
  <2>8. is_ancestor(blks, p, a)
    BY Zenon, <2>2, <2>7, AncestorStep
  <2>9. p \in DOMAIN blks
    BY Zenon, <2>8, AncestorStep
  <2> QED
    BY Zenon, <2>2, <2>3, <2>7, <2>8, <2>9
<1>2. is_ancestor(blks, votes[j].slot, a)
  BY Zenon DEF OneFork
<1>3. votes[j].slot \in DOMAIN blks
  BY Zenon, <1>2, AncestorStep
<1> QED
  BY Zenon, <1>1, <1>2, <1>3

-----------------------------------------------------------------------------
(* Sums of stakes.                                                          *)

\* What the lemmas below use of finite sets.  FiniteSetsCount, the last lemma of
\* TowerTileProofs before its theorem, proves it from the library; stated this way
\* the library's theorems stay out of the obligations here.
Counting ==
  /\ IsFiniteSet({}) /\ Cardinality({}) = 0
  /\ \A x : IsFiniteSet({x}) /\ Cardinality({x}) = 1
  /\ \A i, j \in Int : IsFiniteSet(i..j)
  /\ \A S : IsFiniteSet(S) =>
       /\ Cardinality(S) \in Nat
       /\ Cardinality(S) = 0 <=> S = {}
       /\ \A T \in SUBSET S : IsFiniteSet(T) /\ Cardinality(T) <= Cardinality(S)
       /\ \A x \in S : Cardinality(S \ {x}) = Cardinality(S) - 1
       /\ \A x : /\ IsFiniteSet(S \cup {x})
                 /\ x \notin S => Cardinality(S \cup {x}) = Cardinality(S) + 1
  /\ \A S, T : IsFiniteSet(S) /\ IsFiniteSet(T) =>
       /\ IsFiniteSet(S \cup T)
       /\ Cardinality(S \cup T) = Cardinality(S) + Cardinality(T) - Cardinality(S \cap T)

LEMMA FiniteEmpty ==
  ASSUME Counting
  PROVE  /\ IsFiniteSet({}) /\ Cardinality({}) = 0
         /\ \A S : IsFiniteSet(S) => (Cardinality(S) = 0 <=> S = {})
  BY Zenon DEF Counting

LEMMA FiniteSingleton ==
  ASSUME Counting
  PROVE  \A x : IsFiniteSet({x}) /\ Cardinality({x}) = 1
  BY Zenon DEF Counting

LEMMA FiniteCount ==
  ASSUME Counting, NEW S, IsFiniteSet(S)
  PROVE  Cardinality(S) \in Nat
  BY Zenon DEF Counting

LEMMA FiniteSubset ==
  ASSUME Counting, NEW S, IsFiniteSet(S), NEW T \in SUBSET S
  PROVE  IsFiniteSet(T) /\ Cardinality(T) <= Cardinality(S)
  BY Zenon DEF Counting

LEMMA FiniteAdd ==
  ASSUME Counting, NEW S, IsFiniteSet(S), NEW x
  PROVE  /\ IsFiniteSet(S \cup {x})
         /\ x \notin S => Cardinality(S \cup {x}) = Cardinality(S) + 1
  BY Zenon DEF Counting

LEMMA FiniteUnion ==
  ASSUME Counting, NEW S, IsFiniteSet(S), NEW T, IsFiniteSet(T)
  PROVE  /\ IsFiniteSet(S \cup T)
         /\ Cardinality(S \cup T) = Cardinality(S) + Cardinality(T) - Cardinality(S \cap T)
<1>1. \A U, W : IsFiniteSet(U) /\ IsFiniteSet(W) =>
        /\ IsFiniteSet(U \cup W)
        /\ Cardinality(U \cup W) = Cardinality(U) + Cardinality(W) - Cardinality(U \cap W)
  BY Zenon DEF Counting
<1> QED
  BY Zenon, <1>1

\* A family of finite sets has a smallest one.
LEMMA SmallestSet ==
  ASSUME Counting, NEW U, IsFiniteSet(U), NEW C, C \subseteq SUBSET U, C # {}
  PROVE  \E S \in C : \A T \in C : ~(Cardinality(T) < Cardinality(S))
<1> DEFINE N == {Cardinality(S) : S \in C}
<1>1. N \subseteq Nat
  BY FiniteSubset, FiniteCount
<1>2. N # {}
  OBVIOUS
<1>3. PICK n \in N : \A m \in N : ~(m < n)
  <2> HIDE DEF N
  <2> QED
    BY Zenon, <1>1, <1>2, Smallest
<1> QED
  BY Zenon, <1>3

\* Taking a member out of a finite set.
LEMMA Without ==
  ASSUME Counting, NEW S, IsFiniteSet(S), NEW x \in S
  PROVE  /\ IsFiniteSet(S \ {x})
         /\ Cardinality(S) \in Nat /\ Cardinality(S \ {x}) \in Nat
         /\ Cardinality(S \ {x}) = Cardinality(S) - 1
<1>1. S \ {x} \in SUBSET S
  BY Zenon
<1>2. Cardinality(S \ {x}) = Cardinality(S) - 1
  BY Zenon DEF Counting
<1> QED
  BY Zenon, <1>1, <1>2, FiniteSubset, FiniteCount

\* Induction over the numbers, and over the subsets of a finite set.
LEMMA CountUp ==
  ASSUME NEW C, 0 \in C, \A n \in Nat \ {0} : n - 1 \in C => n \in C
  PROVE  \A n \in Nat : n \in C
<1> DEFINE Bad == {n \in Nat : n \notin C}
<1> SUFFICES ASSUME Bad # {} PROVE FALSE
  BY Zenon
<1>1. PICK n \in Bad : \A m \in Bad : ~(m < n)
  <2>1. Bad \subseteq Nat
    BY Zenon
  <2> HIDE DEF Bad
  <2> QED
    BY Zenon, <2>1, Smallest
<1>2. n \in Nat \ {0} /\ n - 1 \in Nat /\ n - 1 < n
  BY SMT, <1>1
<1>3. n - 1 \in C
  BY Zenon, <1>1, <1>2
<1> QED
  BY Zenon, <1>1, <1>2, <1>3

LEMMA GrowSet ==
  ASSUME Counting, NEW S, IsFiniteSet(S), NEW C, {} \in C,
         \A s \in SUBSET S : s # {} /\ (\A x \in s : s \ {x} \in C) => s \in C
  PROVE  S \in C
<1> DEFINE Bad == {s \in SUBSET S : s \notin C}
<1> SUFFICES ASSUME Bad # {} PROVE FALSE
  BY Zenon
<1>1. PICK s \in Bad : \A r \in Bad : ~(Cardinality(r) < Cardinality(s))
  <2>1. Bad \subseteq SUBSET S
    BY Zenon
  <2> HIDE DEF Bad
  <2> QED
    BY Zenon, <2>1, SmallestSet
<1>2. ASSUME NEW x \in s PROVE s \ {x} \in C
  <2>1. Cardinality(s) \in Nat /\ Cardinality(s \ {x}) = Cardinality(s) - 1
    BY Zenon, <1>1, FiniteSubset, Without
  <2> DEFINE n == Cardinality(s)  m == Cardinality(s \ {x})
  <2>2. m < n
    <3>1. n \in Nat /\ m = n - 1
      BY Zenon, <2>1
    <3> HIDE DEF n, m
    <3> QED
      BY SMT, <3>1
  <2> QED
    BY Zenon, <1>1, <2>2
<1> QED
  BY Zenon, <1>1, <1>2

\* Two finite sets that do not meet.
LEMMA DisjointUnion ==
  ASSUME Counting, NEW S, NEW T, IsFiniteSet(S), IsFiniteSet(T), S \cap T = {}
  PROVE  /\ Cardinality(S) \in Nat /\ Cardinality(T) \in Nat
         /\ Cardinality(S \cup T) = Cardinality(S) + Cardinality(T)
<1>1. Cardinality(S \cup T) = Cardinality(S) + Cardinality(T) - Cardinality(S \cap T)
  BY Zenon, FiniteUnion
<1>2. Cardinality(S) \in Nat /\ Cardinality(T) \in Nat /\ Cardinality({}) = 0
  BY Zenon, FiniteCount, FiniteEmpty
<1>3. Cardinality(S \cap T) = 0
  BY Zenon, <1>2
<1> QED
  BY SMT, <1>1, <1>2, <1>3

\* The recursive function a sum over S is defined by: it exists, built up by
\* the size of the sets.
SumStep(f, S, h) ==
  [s \in SUBSET S |-> IF s = {} THEN 0
                      ELSE f[CHOOSE x \in s : TRUE] + h[s \ {CHOOSE x \in s : TRUE}]]

LEMMA SumExists ==
  ASSUME Counting, NEW S, IsFiniteSet(S), NEW f
  PROVE  \E h : h = SumStep(f, S, h)
<1> DEFINE Upto(n, h) == \A s \in SUBSET S : Cardinality(s) <= n => h[s] = SumStep(f, S, h)[s]
           Bad == {n \in Nat : ~\E h : Upto(n, h)}
<1>1. \A s \in SUBSET S : IsFiniteSet(s) /\ Cardinality(s) \in Nat /\ Cardinality(s) <= Cardinality(S)
  BY FiniteSubset, FiniteCount
<1>2. ASSUME NEW s \in SUBSET S, s # {}
      PROVE  LET r == s \ {CHOOSE x \in s : TRUE}
             IN  r \in SUBSET S /\ Cardinality(r) = Cardinality(s) - 1
  <2>1. (CHOOSE x \in s : TRUE) \in s
    BY Zenon, <1>2
  <2> QED
    BY Zenon, <1>1, <2>1, Without
<1>3. Bad = {}
  <2> SUFFICES ASSUME Bad # {} PROVE FALSE
    OBVIOUS
  <2>1. PICK n \in Bad : \A m \in Bad : ~(m < n)
    <3>1. Bad \subseteq Nat
      OBVIOUS
    <3> HIDE DEF Bad
    <3> QED
      BY Zenon, <3>1, Smallest
  <2>2. CASE n = 0
    <3> DEFINE h == [s \in SUBSET S |-> 0]
    <3>1. \A s \in SUBSET S : Cardinality(s) <= 0 => s = {}
      BY <1>1, FiniteEmpty
    <3>2. h[{}] = 0 /\ SumStep(f, S, h)[{}] = 0
      BY Zenon DEF SumStep
    <3>3. Upto(0, h)
      <4> HIDE DEF h
      <4> QED
        BY Zenon, <3>1, <3>2
    <3> QED
      BY Zenon, <2>1, <2>2, <3>3
  <2>3. CASE n # 0
    <3>1. n - 1 \in Nat /\ n - 1 < n
      BY <2>1, <2>3
    <3>2. PICK h : Upto(n - 1, h)
      BY Zenon, <2>1, <3>1
    <3> DEFINE k == [s \in SUBSET S |-> IF Cardinality(s) <= n - 1 THEN h[s] ELSE SumStep(f, S, h)[s]]
    <3>3. ASSUME NEW s \in SUBSET S, Cardinality(s) <= n PROVE k[s] = SumStep(f, S, h)[s]
      BY Zenon, <3>2
    <3>4. ASSUME NEW s \in SUBSET S, Cardinality(s) <= n
          PROVE  SumStep(f, S, k)[s] = SumStep(f, S, h)[s]
      <4>1. CASE s = {}
        BY Zenon, <4>1 DEF SumStep
      <4>2. CASE s # {}
        <5> DEFINE r == s \ {CHOOSE x \in s : TRUE}
        <5>1. r \in SUBSET S /\ Cardinality(r) <= n - 1
          BY <1>1, <1>2, <2>1, <3>4, <4>2
        <5>2. k[r] = h[r]
          BY Zenon, <5>1
        <5> QED
          BY Zenon, <4>2, <5>2 DEF SumStep
      <4> QED
        BY Zenon, <4>1, <4>2
    <3>5. Upto(n, k)
      BY Zenon, <3>3, <3>4
    <3> QED
      BY Zenon, <2>1, <3>5
  <2> QED
    BY Zenon, <2>2, <2>3
<1>4. PICK h : Upto(Cardinality(S), h)
  BY Zenon, <1>1, <1>3
<1> DEFINE g == [s \in SUBSET S |-> h[s]]
<1>5. ASSUME NEW s \in SUBSET S PROVE g[s] = SumStep(f, S, g)[s]
  <2>1. h[s] = SumStep(f, S, h)[s]
    BY Zenon, <1>1, <1>4
  <2>2. SumStep(f, S, h)[s] = SumStep(f, S, g)[s]
    <3>1. \A r \in SUBSET S : g[r] = h[r]
      BY Zenon
    <3>2. s # {} => (s \ {CHOOSE x \in s : TRUE}) \in SUBSET S
      BY Zenon
    <3> HIDE DEF g
    <3> QED
      BY Zenon, <3>1, <3>2 DEF SumStep
  <2> QED
    BY Zenon, <2>1, <2>2
<1>6. g = SumStep(f, S, g)
  BY Zenon, <1>5 DEF SumStep
<1> QED
  BY Zenon, <1>6

\* A sum takes one member after another.
LEMMA SumUnfold ==
  ASSUME Counting, NEW S, IsFiniteSet(S), NEW f
  PROVE  SumFunctionOnSet(f, S)
           = IF S = {} THEN 0
             ELSE f[CHOOSE x \in S : TRUE] + SumFunctionOnSet(f, S \ {CHOOSE x \in S : TRUE})
<1> DEFINE it(T) == CHOOSE h : h = SumStep(f, T, h)
           pick(s) == CHOOSE x \in s : TRUE
<1>1. \A T : SumFunctionOnSet(f, T) = it(T)[T]
  BY Zenon DEF SumFunctionOnSet, FoldFunctionOnSet, MapThenFoldSet, SumStep
<1>2. \A T \in SUBSET S : it(T) = SumStep(f, T, it(T))
  <2> SUFFICES ASSUME NEW T \in SUBSET S PROVE it(T) = SumStep(f, T, it(T))
    OBVIOUS
  <2>1. \E h : h = SumStep(f, T, h)
    BY Zenon, FiniteSubset, SumExists
  <2> QED
    BY Zenon, <2>1
<1> HIDE DEF it
<1>3. \A T \in SUBSET S : \A s \in SUBSET T :
        it(T)[s] = IF s = {} THEN 0 ELSE f[pick(s)] + it(T)[s \ {pick(s)}]
  <2> SUFFICES ASSUME NEW T \in SUBSET S, NEW s \in SUBSET T
               PROVE  it(T)[s] = IF s = {} THEN 0 ELSE f[pick(s)] + it(T)[s \ {pick(s)}]
    BY Zenon
  <2>1. it(T)[s] = SumStep(f, T, it(T))[s]
    BY Zenon, <1>2
  <2> QED
    BY Zenon, <2>1 DEF SumStep
<1>4. CASE S = {}
  BY Zenon, <1>1, <1>3, <1>4
<1>5. CASE S # {}
  <2> DEFINE R == S \ {pick(S)}
             Bad == {s \in SUBSET R : it(R)[s] # it(S)[s]}
  <2>1. pick(S) \in S /\ R \in SUBSET S
    BY Zenon, <1>5
  <2>2. Bad = {}
    <3> SUFFICES ASSUME Bad # {} PROVE FALSE
      BY Zenon
    <3>1. PICK s \in Bad : \A t \in Bad : ~(Cardinality(t) < Cardinality(s))
      <4>1. Bad \subseteq SUBSET S
        BY Zenon, <2>1
      <4> HIDE DEF Bad
      <4> QED
        BY Zenon, <4>1, SmallestSet
    <3>2. /\ it(R)[s] = IF s = {} THEN 0 ELSE f[pick(s)] + it(R)[s \ {pick(s)}]
          /\ it(S)[s] = IF s = {} THEN 0 ELSE f[pick(s)] + it(S)[s \ {pick(s)}]
      BY Zenon, <1>3, <2>1, <3>1
    <3>3. s # {} /\ pick(s) \in s
      BY Zenon, <3>1, <3>2
    <3>4. s \ {pick(s)} \in SUBSET R /\ s \ {pick(s)} \notin Bad
      <4>1. IsFiniteSet(s)
        BY Zenon, <2>1, <3>1, FiniteSubset
      <4>2. Cardinality(s \ {pick(s)}) < Cardinality(s)
        <5> HIDE DEF pick, Bad, R
        <5> QED
          BY <3>3, <4>1, Without
      <4> QED
        BY Zenon, <3>1, <4>2
    <3> QED
      BY Zenon, <3>1, <3>2, <3>3, <3>4
  <2>3. it(R)[R] = it(S)[R]
    BY Zenon, <2>2
  <2>4. it(S)[S] = f[pick(S)] + it(S)[R]
    BY Zenon, <1>3, <1>5
  <2> QED
    BY Zenon, <1>1, <1>5, <2>3, <2>4
<1> QED
  BY Zenon, <1>4, <1>5

\* A sum of integers is one, and does not depend on the order.
LEMMA SumOfIntegers ==
  ASSUME Counting, NEW U, IsFiniteSet(U), NEW f, \A x \in U : f[x] \in Int
  PROVE  \A S \in SUBSET U : /\ SumFunctionOnSet(f, S) \in Int
                             /\ \A y \in S : SumFunctionOnSet(f, S)
                                               = f[y] + SumFunctionOnSet(f, S \ {y})
<1> DEFINE Sum(S) == SumFunctionOnSet(f, S)
           pick(S) == CHOOSE x \in S : TRUE
           Fine(S) == Sum(S) \in Int /\ \A y \in S : Sum(S) = f[y] + Sum(S \ {y})
           Bad == {S \in SUBSET U : ~Fine(S)}
<1>1. \A S \in SUBSET U : IsFiniteSet(S)
  BY Zenon, FiniteSubset
<1>2. \A S \in SUBSET U : Sum(S) = IF S = {} THEN 0 ELSE f[pick(S)] + Sum(S \ {pick(S)})
  BY Zenon, <1>1, SumUnfold
<1> HIDE DEF Sum
<1> SUFFICES Bad = {}
  BY Zenon DEF Sum
<1> SUFFICES ASSUME Bad # {} PROVE FALSE
  OBVIOUS
<1>3. PICK S \in Bad : \A T \in Bad : ~(Cardinality(T) < Cardinality(S))
  <2>1. Bad \subseteq SUBSET U
    BY Zenon
  <2> HIDE DEF Bad
  <2> QED
    BY Zenon, <2>1, SmallestSet
<1>4. S \in SUBSET U /\ IsFiniteSet(S) /\ ~Fine(S)
  BY Zenon, <1>1, <1>3
<1>5. S # {} /\ pick(S) \in S
  <2>1. 0 \in Int
    OBVIOUS
  <2>2. S # {}
    BY Zenon, <1>2, <1>4, <2>1
  <2> QED
    BY Zenon, <2>2
<1>6. \A y \in S : Fine(S \ {y})
  <2> SUFFICES ASSUME NEW y \in S PROVE Fine(S \ {y})
    OBVIOUS
  <2>1. Cardinality(S \ {y}) < Cardinality(S)
    <3> HIDE DEF Bad, Fine, pick
    <3> QED
      BY <1>4, Without
  <2>2. S \ {y} \in SUBSET U
    BY Zenon, <1>4
  <2> QED
    BY Zenon, <1>3, <2>1, <2>2
<1> DEFINE x == pick(S)
<1>7. Sum(S) = f[x] + Sum(S \ {x}) /\ f[x] \in Int /\ x \in S
  BY Zenon, <1>2, <1>4, <1>5
<1> HIDE DEF x, pick
<1>8. Sum(S) \in Int
  <2>1. Sum(S \ {x}) \in Int
    BY Zenon, <1>6, <1>7
  <2> QED
    BY <1>7, <2>1
<1>9. ASSUME NEW y \in S PROVE Sum(S) = f[y] + Sum(S \ {y})
  <2>1. CASE y = x
    BY Zenon, <1>7, <2>1
  <2>2. CASE y # x
    <3>1. Sum(S \ {x}) = f[y] + Sum((S \ {x}) \ {y})
      BY Zenon, <1>6, <1>7, <2>2
    <3>2. Sum(S \ {y}) = f[x] + Sum((S \ {y}) \ {x}) /\ Sum(S \ {y}) \in Int
      BY Zenon, <1>6, <1>7, <2>2
    <3>3. (S \ {x}) \ {y} = (S \ {y}) \ {x}
      BY Zenon
    <3>4. Fine((S \ {y}) \ {x})
      <4>1. IsFiniteSet(S \ {y}) /\ x \in S \ {y} /\ (S \ {y}) \ {x} \in SUBSET U
        BY Zenon, <1>1, <1>4, <1>7, <2>2
      <4> DEFINE R == S \ {y}
      <4>2. Cardinality(R \ {x}) < Cardinality(S)
        <5>1. /\ Cardinality(S) \in Nat /\ Cardinality(R) \in Nat
              /\ Cardinality(R) = Cardinality(S) - 1
          BY Zenon, <1>4, Without
        <5> HIDE DEF R
        <5>2. Cardinality(R \ {x}) \in Nat /\ Cardinality(R \ {x}) = Cardinality(R) - 1
          BY Zenon, <4>1, Without DEF R
        <5> QED
          BY SMT, <5>1, <5>2
      <4> QED
        BY Zenon, <1>3, <4>1, <4>2
    <3>5. Sum((S \ {y}) \ {x}) \in Int /\ f[y] \in Int
      BY Zenon, <1>4, <3>4
    <3> DEFINE z == Sum((S \ {y}) \ {x})
    <3>6. Sum(S \ {x}) = f[y] + z /\ Sum(S \ {y}) = f[x] + z
      BY Zenon, <3>1, <3>2, <3>3
    <3> HIDE DEF Fine, Bad, z
    <3>7. z \in Int /\ f[x] \in Int /\ f[y] \in Int => f[x] + (f[y] + z) = f[y] + (f[x] + z)
      BY SMT
    <3> QED
      BY Zenon, <1>7, <3>5, <3>6, <3>7 DEF z
  <2> QED
    BY Zenon, <2>1, <2>2
<1> QED
  BY Zenon, <1>4, <1>8, <1>9

-----------------------------------------------------------------------------
(* The fork-choice tree.                                                    *)

\* fd_ghost_t with blocks of B: one block has no parent, every other block has
\* an older parent in the tree, and kids lists the children.
Children(g, x) == {k \in Nodes(g) : g.parent[k] = x}

IsTree(g, B) ==
  /\ DOMAIN g = {"root", "width", "parent", "kids", "stake", "valid", "vtr"}
  /\ \A b \in B : Slot(b) \in Nat /\ b # NoBlock
  /\ Nodes(g) \subseteq B /\ IsFiniteSet(Nodes(g)) /\ g.root \in Nodes(g)
  /\ g.parent[g.root] = NoBlock
  /\ \A x \in Nodes(g) \ {g.root} : g.parent[x] \in Nodes(g) /\ Slot(g.parent[x]) < Slot(x)
  /\ DOMAIN g.kids = Nodes(g) /\ DOMAIN g.stake = Nodes(g)
  /\ \A x \in Nodes(g) : /\ g.kids[x] \in Seq(B)
                         /\ Len(g.kids[x]) = Cardinality(Children(g, x))

\* A set of blocks of the tree has one of least slot.
LEMMA LowestBlock ==
  ASSUME NEW g, NEW B, IsTree(g, B), NEW S, S \subseteq Nodes(g), S # {}
  PROVE  \E x \in S : \A y \in S : ~(Slot(y) < Slot(x))
<1> DEFINE N == {Slot(x) : x \in S}
<1>1. N \subseteq Nat /\ N # {}
  <2>1. \A x \in S : Slot(x) \in Nat
    BY Zenon DEF IsTree
  <2> QED
    BY Zenon, <2>1
<1>2. PICK n \in N : \A m \in N : ~(m < n)
  <2> HIDE DEF N
  <2> QED
    BY Zenon, <1>1, Smallest
<1> QED
  BY Zenon, <1>2

\* The walk to the root.  Its recursive definition has a solution: the least
\* relation that holds between a block and itself and passes on to children.
LEMMA AncestryStep ==
  ASSUME NEW g, NEW B, IsTree(g, B), NEW x \in Nodes(g)
  PROVE  Ancestry(g, x) = {x} \cup IF g.parent[x] = NoBlock THEN {} ELSE Ancestry(g, g.parent[x])
<1> DEFINE D == Nodes(g)
           Up(y) == g.parent[y]
           Walk(f) == [y \in D |-> {y} \cup IF Up(y) = NoBlock THEN {} ELSE f[Up(y)]]
           Closed(R) == \A y \in D : /\ <<y, y>> \in R
                                     /\ Up(y) # NoBlock =>
                                          \A z \in D : <<Up(y), z>> \in R => <<y, z>> \in R
           Reach(y) == {z \in D : \A R \in SUBSET (D \X D) : Closed(R) => <<y, z>> \in R}
           h == [y \in D |-> Reach(y)]
           up == CHOOSE f : f = Walk(f)
<1>1. Ancestry(g, x) = up[x] /\ \A y : Ancestry(g, y) = up[y]
  BY Zenon DEF Ancestry
<1>2. \A y \in D : Up(y) = NoBlock \/ Up(y) \in D
  BY Zenon DEF IsTree
<1> HIDE DEF D, Up
<1>3. ASSUME NEW y \in D PROVE {y} \cup (IF Up(y) = NoBlock THEN {} ELSE Reach(Up(y))) \subseteq Reach(y)
  BY Zenon
<1>4. ASSUME NEW y \in D PROVE Reach(y) \subseteq {y} \cup (IF Up(y) = NoBlock THEN {} ELSE Reach(Up(y)))
  <2> DEFINE Next1(u) == {u} \cup IF Up(u) = NoBlock THEN {} ELSE Reach(Up(u))
             R == {p \in D \X D : p[2] \in Next1(p[1])}
  <2>1. \A u, z \in D : <<u, z>> \in R <=> z \in Next1(u)
    BY Zenon
  <2>2. \A u \in D : Next1(u) \subseteq Reach(u)
    BY Zenon, <1>3
  <2>3. Closed(R)
    <3> SUFFICES ASSUME NEW u \in D
                 PROVE  /\ <<u, u>> \in R
                        /\ Up(u) # NoBlock =>
                             \A z \in D : <<Up(u), z>> \in R => <<u, z>> \in R
      BY Zenon
    <3> HIDE DEF R, Reach
    <3>1. <<u, u>> \in R
      BY Zenon, <2>1
    <3>2. ASSUME Up(u) # NoBlock, NEW z \in D, <<Up(u), z>> \in R PROVE <<u, z>> \in R
      <4>1. Up(u) \in D
        BY Zenon, <1>2, <3>2
      <4>2. z \in Reach(Up(u))
        BY Zenon, <2>1, <2>2, <3>2, <4>1
      <4> QED
        BY Zenon, <2>1, <3>2, <4>2
    <3> QED
      BY Zenon, <3>1, <3>2
  <2>4. R \in SUBSET (D \X D)
    BY Zenon
  <2>5. \A z \in Reach(y) : z \in D /\ <<y, z>> \in R
    <3> HIDE DEF R
    <3> QED
      BY Zenon, <2>3, <2>4
  <2> HIDE DEF R, Reach
  <2> QED
    BY Zenon, <2>1, <2>5
<1> HIDE DEF Reach
<1>5. \A y \in D : h[y] = {y} \cup IF Up(y) = NoBlock THEN {} ELSE h[Up(y)]
  <2> SUFFICES ASSUME NEW y \in D PROVE h[y] = {y} \cup IF Up(y) = NoBlock THEN {} ELSE h[Up(y)]
    BY Zenon
  <2>1. Reach(y) = {y} \cup IF Up(y) = NoBlock THEN {} ELSE Reach(Up(y))
    BY Zenon, <1>3, <1>4
  <2> QED
    BY Zenon, <1>2, <2>1
<1>6. h = Walk(h)
  <2>1. h = [y \in D |-> h[y]]
    BY Zenon
  <2> HIDE DEF h
  <2> QED
    BY Zenon, <1>5, <2>1
<1>7. up = Walk(up)
  <2> HIDE DEF h, Walk
  <2> QED
    BY Zenon, <1>6
<1> HIDE DEF up
<1>8. \A y \in D : up[y] = {y} \cup IF Up(y) = NoBlock THEN {} ELSE up[Up(y)]
  BY Zenon, <1>7
<1> QED
  BY Zenon, <1>1, <1>8 DEF D, Up

\* What the walk meets: the block, its parent's walk, and nothing else.
LEMMA AncestryCases ==
  ASSUME NEW g, NEW B, IsTree(g, B), NEW x \in Nodes(g)
  PROVE  /\ x \in Ancestry(g, x)
         /\ x = g.root => Ancestry(g, x) = {x}
         /\ x # g.root => /\ g.parent[x] \in Nodes(g) /\ Slot(g.parent[x]) < Slot(x)
                          /\ Ancestry(g, x) = {x} \cup Ancestry(g, g.parent[x])
<1>1. Ancestry(g, x) = {x} \cup IF g.parent[x] = NoBlock THEN {} ELSE Ancestry(g, g.parent[x])
  BY Zenon, AncestryStep
<1>2. x = g.root => g.parent[x] = NoBlock
  BY Zenon DEF IsTree
<1>3. x # g.root => g.parent[x] \in Nodes(g) /\ g.parent[x] # NoBlock /\ Slot(g.parent[x]) < Slot(x)
  BY Zenon DEF IsTree
<1> QED
  BY Zenon, <1>1, <1>2, <1>3

\* Every walk stays in the tree, meets only older blocks and ends at the root,
\* and the walk from a block it meets is part of it.
LEMMA AncestryFacts ==
  ASSUME NEW g, NEW B, IsTree(g, B)
  PROVE  \A x \in Nodes(g) :
           /\ Ancestry(g, x) \subseteq Nodes(g)
           /\ g.root \in Ancestry(g, x)
           /\ \A y \in Ancestry(g, x) : /\ y = x \/ Slot(y) < Slot(x)
                                        /\ Ancestry(g, y) \subseteq Ancestry(g, x)
<1> DEFINE Fine(x) == /\ Ancestry(g, x) \subseteq Nodes(g)
                      /\ g.root \in Ancestry(g, x)
                      /\ \A y \in Ancestry(g, x) : /\ y = x \/ Slot(y) < Slot(x)
                                                   /\ Ancestry(g, y) \subseteq Ancestry(g, x)
           Bad == {x \in Nodes(g) : ~Fine(x)}
<1> SUFFICES ASSUME Bad # {} PROVE FALSE
  BY Zenon
<1>1. PICK x \in Bad : \A y \in Bad : ~(Slot(y) < Slot(x))
  <2>1. Bad \subseteq Nodes(g)
    BY Zenon
  <2> HIDE DEF Bad
  <2> QED
    BY Zenon, <2>1, LowestBlock
<1>2. x \in Nodes(g) /\ ~Fine(x)
  BY Zenon, <1>1
<1>3. CASE x = g.root
  <2>1. Ancestry(g, x) = {x}
    BY Zenon, <1>2, <1>3, AncestryCases
  <2> QED
    BY Zenon, <1>2, <1>3, <2>1
<1>4. CASE x # g.root
  <2> DEFINE p == g.parent[x]
  <2>1. /\ p \in Nodes(g) /\ Slot(p) < Slot(x)
        /\ Ancestry(g, x) = {x} \cup Ancestry(g, p)
    BY Zenon, <1>2, <1>4, AncestryCases
  <2>2. Fine(p)
    BY Zenon, <1>1, <2>1
  <2>3. Slot(x) \in Nat /\ \A y \in Nodes(g) : Slot(y) \in Nat
    BY Zenon, <1>2 DEF IsTree
  <2>4. \A y \in Ancestry(g, p) : Slot(y) < Slot(x)
    <3> SUFFICES ASSUME NEW y \in Ancestry(g, p) PROVE Slot(y) < Slot(x)
      BY Zenon
    <3>1. (y = p \/ Slot(y) < Slot(p)) /\ Slot(y) \in Nat /\ Slot(p) \in Nat
      BY Zenon, <2>1, <2>2, <2>3
    <3> HIDE DEF p, Fine, Bad
    <3> QED
      BY SMT, <2>1, <2>3, <3>1
  <2>5. Fine(x)
    <3> HIDE DEF p
    <3> QED
      BY Zenon, <1>2, <2>1, <2>2, <2>4
  <2> QED
    BY Zenon, <1>2, <2>5
<1> QED
  BY Zenon, <1>3, <1>4

\* Trees that agree on the parents of a set of blocks, to which the parents
\* belong, agree on the walks from there.
LEMMA AncestrySame ==
  ASSUME NEW g, NEW h, NEW B, IsTree(g, B), IsTree(h, B),
         NEW X, X \subseteq Nodes(g), X \subseteq Nodes(h), g.root = h.root,
         \A x \in X \ {g.root} : g.parent[x] \in X /\ h.parent[x] = g.parent[x]
  PROVE  \A x \in X : Ancestry(h, x) = Ancestry(g, x)
<1> DEFINE Bad == {x \in X : Ancestry(h, x) # Ancestry(g, x)}
<1> SUFFICES ASSUME Bad # {} PROVE FALSE
  BY Zenon
<1>1. PICK x \in Bad : \A y \in Bad : ~(Slot(y) < Slot(x))
  <2>1. Bad \subseteq Nodes(g)
    BY Zenon
  <2> HIDE DEF Bad
  <2> QED
    BY Zenon, <2>1, LowestBlock
<1>2. x \in X /\ x \in Nodes(g) /\ x \in Nodes(h) /\ Ancestry(h, x) # Ancestry(g, x)
  BY Zenon, <1>1
<1>3. x # g.root
  BY Zenon, <1>2, AncestryCases
<1>4. Ancestry(g, x) = {x} \cup Ancestry(g, g.parent[x]) /\ Slot(g.parent[x]) < Slot(x)
  BY Zenon, <1>2, <1>3, AncestryCases
<1>5. Ancestry(h, x) = {x} \cup Ancestry(h, g.parent[x])
  <2>1. Ancestry(h, x) = {x} \cup Ancestry(h, h.parent[x])
    BY Zenon, <1>2, <1>3, AncestryCases
  <2>2. h.parent[x] = g.parent[x]
    BY Zenon, <1>2, <1>3
  <2> QED
    BY Zenon, <2>1, <2>2
<1>6. g.parent[x] \in X /\ g.parent[x] \notin Bad
  BY Zenon, <1>1, <1>2, <1>3, <1>4
<1> QED
  BY Zenon, <1>2, <1>4, <1>5, <1>6

\* The walk reads the parents and nothing else.
LEMMA SameParents ==
  ASSUME NEW g, NEW h, h.parent = g.parent
  PROVE  /\ Nodes(h) = Nodes(g)
         /\ \A x : Ancestry(h, x) = Ancestry(g, x) /\ Subtree(h, x) = Subtree(g, x)
                   /\ Children(h, x) = Children(g, x)
<1>1. Nodes(h) = Nodes(g)
  BY Zenon DEF Nodes
<1> DEFINE P == g.parent
           up == CHOOSE f : f = [x \in DOMAIN P |-> {x} \cup IF P[x] = NoBlock THEN {} ELSE f[P[x]]]
<1>2. P = h.parent
  OBVIOUS
<1>3. \A x : Ancestry(g, x) = up[x]
  BY Zenon DEF Ancestry, Nodes
<1>4. \A x : Ancestry(h, x) = up[x]
  <2> HIDE DEF P
  <2> QED
    BY Zenon, <1>2 DEF Ancestry, Nodes
<1>5. \A x : Ancestry(h, x) = Ancestry(g, x)
  BY Zenon, <1>3, <1>4
<1>6. \A x : Subtree(h, x) = Subtree(g, x)
  BY SMT, <1>1, <1>5 DEF Subtree
<1>7. \A x : Children(h, x) = Children(g, x)
  BY Zenon, <1>1 DEF Children
<1> QED
  BY Zenon, <1>1, <1>5, <1>6, <1>7

-----------------------------------------------------------------------------
\* The accounts of fork choice: each block weighs what the voters weigh whose
\* newest vote is at or below it, and the width counts the tips of the forks.
Under(g, x) == {v \in Voter : g.vtr[v].blk \in Subtree(g, x)}
Tips(g) == {b \in Nodes(g) : g.kids[b] = <<>>}

Weighed(g) ==
  /\ DOMAIN g.vtr = Voter
  /\ \A v \in Voter : g.vtr[v].blk \in Nodes(g) \cup {NoBlock}
  /\ \A x \in Nodes(g) : g.stake[x] = SumFunctionOnSet(Stake, Under(g, x))
  /\ g.width = Cardinality(Tips(g))

Sound(g, B) == IsTree(g, B) /\ Weighed(g)

\* Whether a block is valid does not change what it weighs.
LEMMA MarkSound ==
  ASSUME NEW g, NEW B, Sound(g, B), NEW f
  PROVE  LET h == [g EXCEPT !.valid = f]
         IN  Sound(h, B) /\ h.root = g.root /\ h.parent = g.parent
<1> DEFINE h == [g EXCEPT !.valid = f]
<1>1. /\ DOMAIN h = DOMAIN g /\ h.root = g.root /\ h.width = g.width /\ h.parent = g.parent
      /\ h.kids = g.kids /\ h.stake = g.stake /\ h.vtr = g.vtr
  BY DEF Sound, IsTree
<1> HIDE DEF h
<1>2. /\ Nodes(h) = Nodes(g)
      /\ \A x : Subtree(h, x) = Subtree(g, x) /\ Children(h, x) = Children(g, x)
  BY Zenon, <1>1, SameParents
<1>3. IsTree(h, B)
  BY Zenon, <1>1, <1>2 DEF Sound, IsTree
<1>4. \A x : Under(h, x) = Under(g, x)
  BY SMT, <1>1, <1>2 DEF Under
<1>5. Tips(h) = Tips(g)
  BY SMT, <1>1, <1>2 DEF Tips
<1>6. Weighed(h)
  BY Zenon, <1>1, <1>2, <1>4, <1>5 DEF Sound, Weighed
<1> QED
  BY Zenon, <1>1, <1>3, <1>6 DEF h, Sound

LEMMA ConfirmSound ==
  ASSUME NEW g, NEW B, Sound(g, B), NEW b
  PROVE  LET h == ghost_confirm(g, b)
         IN  Sound(h, B) /\ h.root = g.root /\ h.parent = g.parent
  BY Zenon, MarkSound DEF ghost_confirm

LEMMA EqvocSound ==
  ASSUME NEW g, NEW B, Sound(g, B), NEW b
  PROVE  LET h == ghost_eqvoc(g, b)
         IN  Sound(h, B) /\ h.root = g.root /\ h.parent = g.parent
  BY Zenon, MarkSound DEF ghost_eqvoc

\* The stake of no voter at all, and of a set of voters.
LEMMA NoVoters ==
  ASSUME Counting
  PROVE  SumFunctionOnSet(Stake, {}) = 0
  BY Zenon, SumUnfold, FiniteEmpty

LEMMA StakeSums ==
  ASSUME Counting
  PROVE  \A S \in SUBSET Voter : /\ SumFunctionOnSet(Stake, S) \in Int
                                 /\ \A v \in S : SumFunctionOnSet(Stake, S)
                                                   = Stake[v] + SumFunctionOnSet(Stake, S \ {v})
<1>1. IsFiniteSet(Voter) /\ \A v \in Voter : Stake[v] \in Int
  BY StakeAssumption
<1> QED
  BY SMT, <1>1, SumOfIntegers

LEMMA InitSound ==
  ASSUME Counting, NEW B, NEW b \in B, \A x \in B : Slot(x) \in Nat /\ x # NoBlock
  PROVE  LET h == ghost_init(EmptyGhost, b)
         IN  Sound(h, B) /\ h.root = b /\ Nodes(h) = {b}
<1> DEFINE h == ghost_init(EmptyGhost, b)
<1>1. /\ DOMAIN h = {"root", "width", "parent", "kids", "stake", "valid", "vtr"}
      /\ h.root = b /\ h.width = 1 /\ h.parent = [x \in {b} |-> NoBlock]
      /\ h.kids = [x \in {b} |-> <<>>] /\ h.stake = [x \in {b} |-> 0]
      /\ h.vtr = [v \in Voter |-> [slot |-> NoSlot, blk |-> NoBlock]]
  <2>1. \A x : Put(<<>>, b, x) = [y \in {b} |-> x]
    <3>1. DOMAIN <<>> = {}
      OBVIOUS
    <3> QED
      BY <3>1 DEF Put
  <2>2. EmptyGhost = [root |-> NoBlock, width |-> 0, parent |-> <<>>, kids |-> <<>>,
                      stake |-> <<>>, valid |-> <<>>,
                      vtr |-> [v \in Voter |-> [slot |-> NoSlot, blk |-> NoBlock]]]
    BY Zenon DEF EmptyGhost
  <2>3. h = [EmptyGhost EXCEPT !.root = b, !.width = 1, !.parent = [x \in {b} |-> NoBlock],
                               !.kids = [x \in {b} |-> <<>>], !.stake = [x \in {b} |-> 0],
                               !.valid = [x \in {b} |-> TRUE]]
    <3>1. /\ EmptyGhost.parent = <<>> /\ EmptyGhost.kids = <<>> /\ EmptyGhost.stake = <<>>
          /\ EmptyGhost.valid = <<>>
      BY SMT, <2>2
    <3> QED
      BY Zenon, <2>1, <3>1 DEF ghost_init
  <2> HIDE DEF h
  <2> QED
    BY SMT, <2>2, <2>3
<1> HIDE DEF h
<1>2. Nodes(h) = {b} /\ b # NoBlock
  BY <1>1 DEF Nodes
<1>3. Children(h, b) = {}
  BY Zenon, <1>1, <1>2 DEF Children
<1>4. Cardinality({}) = 0 /\ IsFiniteSet({b}) /\ Cardinality({b}) = 1
  BY Zenon, FiniteEmpty, FiniteSingleton
<1>5. IsTree(h, B)
  <2>1. <<>> \in Seq(B) /\ Len(<<>>) = 0
    OBVIOUS
  <2>2. DOMAIN h.kids = {b} /\ h.kids[b] = <<>> /\ DOMAIN h.stake = {b} /\ h.parent[b] = NoBlock
    BY Zenon, <1>1
  <2> QED
    BY Zenon, <1>1, <1>2, <1>3, <1>4, <2>1, <2>2 DEF IsTree
<1>6. Weighed(h)
  <2>1. \A v \in Voter : h.vtr[v].blk = NoBlock
    BY <1>1
  <2>2. Under(h, b) = {}
    <3>1. NoBlock \notin Subtree(h, b)
      BY Zenon, <1>2 DEF Subtree
    <3> QED
      BY Zenon, <2>1, <3>1 DEF Under
  <2>3. Tips(h) = {b} /\ h.stake[b] = 0 /\ DOMAIN h.vtr = Voter
    BY Zenon, <1>1, <1>2 DEF Tips
  <2> QED
    BY Zenon, <1>1, <1>2, <1>4, <2>1, <2>2, <2>3, NoVoters DEF Weighed
<1> QED
  BY Zenon, <1>1, <1>2, <1>5, <1>6 DEF h, Sound

\* A new block is a tip that nobody has voted for.
LEMMA InsertSound ==
  ASSUME Counting, NEW g, NEW B, Sound(g, B), NEW b \in B, b \notin Nodes(g),
         NEW p \in Nodes(g), Slot(p) < Slot(b)
  PROVE  LET h == ghost_insert(g, b, p)
         IN  Sound(h, B) /\ h.root = g.root /\ Nodes(h) = Nodes(g) \cup {b}
<1> DEFINE h == ghost_insert(g, b, p)
           D == Nodes(g)
<1>1. IsTree(g, B) /\ Weighed(g)
  BY Zenon DEF Sound
<1>2. /\ DOMAIN g = {"root", "width", "parent", "kids", "stake", "valid", "vtr"}
      /\ DOMAIN g.kids = D /\ DOMAIN g.stake = D /\ DOMAIN g.parent = D
  BY Zenon, <1>1 DEF IsTree, Nodes
<1>3. /\ DOMAIN h = DOMAIN g /\ h.root = g.root /\ h.vtr = g.vtr
      /\ h.width = IF g.kids[p] = <<>> THEN g.width ELSE g.width + 1
      /\ h.parent = Put(g.parent, b, p)
      /\ h.kids = [Put(g.kids, b, <<>>) EXCEPT ![p] = Append(@, b)]
      /\ h.stake = Put(g.stake, b, 0)
  <2> DEFINE w == IF g.kids[p] = <<>> THEN g.width ELSE g.width + 1
             par == Put(g.parent, b, p)
             kid == [Put(g.kids, b, <<>>) EXCEPT ![p] = Append(@, b)]
             stk == Put(g.stake, b, 0)
             val == Put(g.valid, b, TRUE)
  <2>1. h = [g EXCEPT !.width = w, !.parent = par, !.kids = kid, !.stake = stk, !.valid = val]
    BY Zenon DEF ghost_insert
  <2> HIDE DEF w, par, kid, stk, val, h
  <2>2. /\ DOMAIN h = DOMAIN g /\ h.root = g.root /\ h.vtr = g.vtr /\ h.width = w
        /\ h.parent = par /\ h.kids = kid /\ h.stake = stk
    BY SMT, <1>2, <2>1
  <2> QED
    BY Zenon, <2>2 DEF w, par, kid, stk
<1> HIDE DEF h, D
<1>4. p \in D /\ b \notin D /\ b # p
  BY Zenon DEF D
<1>5. /\ DOMAIN h.parent = D \cup {b} /\ h.parent[b] = p
      /\ \A x \in D : h.parent[x] = g.parent[x]
  BY Zenon, <1>2, <1>3, <1>4 DEF Put
<1>6. /\ DOMAIN h.stake = D \cup {b} /\ h.stake[b] = 0
      /\ \A x \in D : h.stake[x] = g.stake[x]
  BY Zenon, <1>2, <1>3, <1>4 DEF Put
<1>7. /\ DOMAIN h.kids = D \cup {b} /\ h.kids[b] = <<>>
      /\ h.kids[p] = Append(g.kids[p], b)
      /\ \A x \in D \ {p} : h.kids[x] = g.kids[x]
  <2> DEFINE k == Put(g.kids, b, <<>>)
  <2>1. /\ DOMAIN k = D \cup {b} /\ k[b] = <<>> /\ \A x \in D : k[x] = g.kids[x]
    BY Zenon, <1>2, <1>4 DEF Put
  <2> HIDE DEF k
  <2>2. h.kids = [k EXCEPT ![p] = Append(@, b)]
    BY Zenon, <1>3 DEF k
  <2> QED
    BY <1>4, <2>1, <2>2
<1>8. Nodes(h) = D \cup {b} /\ Nodes(g) = D
  BY Zenon, <1>5 DEF Nodes, D
<1>9. /\ \A x \in B : Slot(x) \in Nat /\ x # NoBlock
      /\ D \subseteq B /\ IsFiniteSet(D) /\ g.root \in D
      /\ g.parent[g.root] = NoBlock
      /\ \A x \in D \ {g.root} : g.parent[x] \in D /\ Slot(g.parent[x]) < Slot(x)
      /\ \A x \in D : g.kids[x] \in Seq(B) /\ Len(g.kids[x]) = Cardinality(Children(g, x))
  BY Zenon, <1>1, <1>8 DEF IsTree
<1>10. b # g.root /\ \A x \in D : h.parent[x] # b
  BY Zenon, <1>4, <1>5, <1>9
<1>11. /\ Children(h, b) = {} /\ Children(h, p) = Children(g, p) \cup {b}
       /\ b \notin Children(g, p)
       /\ \A x \in D \ {p} : Children(h, x) = Children(g, x)
  BY Zenon, <1>4, <1>5, <1>8, <1>10 DEF Children
<1>12. \A x : IsFiniteSet(Children(g, x))
  BY Zenon, <1>8, <1>9, FiniteSubset DEF Children
<1>13. IsTree(h, B)
  <2>1. IsFiniteSet(D \cup {b}) /\ D \cup {b} \subseteq B
    BY Zenon, <1>9, FiniteAdd
  <2>2. \A x \in (D \cup {b}) \ {g.root} : h.parent[x] \in D \cup {b} /\ Slot(h.parent[x]) < Slot(x)
    BY Zenon, <1>4, <1>5, <1>9
  <2>3. ASSUME NEW x \in D \cup {b}
        PROVE  h.kids[x] \in Seq(B) /\ Len(h.kids[x]) = Cardinality(Children(h, x))
    <3>1. CASE x = b
      <4>1. <<>> \in Seq(B) /\ Len(<<>>) = 0 /\ Cardinality({}) = 0
        BY FiniteEmpty
      <4> QED
        BY Zenon, <1>7, <1>11, <3>1, <4>1
    <3>2. CASE x = p
      <4>1. Cardinality(Children(g, p) \cup {b}) = Cardinality(Children(g, p)) + 1
        BY Zenon, <1>11, <1>12, FiniteAdd
      <4>2. /\ g.kids[p] \in Seq(B) /\ Len(g.kids[p]) = Cardinality(Children(g, p))
        BY Zenon, <1>4, <1>9
      <4>3. Append(g.kids[p], b) \in Seq(B) /\ Len(Append(g.kids[p], b)) = Len(g.kids[p]) + 1
        BY SMT, <4>2
      <4> QED
        BY Zenon, <1>7, <1>11, <3>2, <4>1, <4>2, <4>3
    <3>3. CASE x \in D \ {p}
      BY Zenon, <1>7, <1>9, <1>11, <3>3
    <3> QED
      BY Zenon, <3>1, <3>2, <3>3
  <2>4. h.parent[g.root] = NoBlock
    BY Zenon, <1>5, <1>9
  <2> QED
    BY Zenon, <1>2, <1>3, <1>6, <1>7, <1>8, <1>9, <2>1, <2>2, <2>3, <2>4 DEF IsTree
<1>14. \A x \in D : Ancestry(h, x) = Ancestry(g, x) /\ Ancestry(g, x) \subseteq D
  <2>1. \A x \in D : Ancestry(h, x) = Ancestry(g, x)
    <3>1. \A x \in D \ {g.root} : g.parent[x] \in D /\ h.parent[x] = g.parent[x]
      BY Zenon, <1>5, <1>9
    <3>2. D \subseteq Nodes(g) /\ D \subseteq Nodes(h) /\ g.root = h.root
      BY Zenon, <1>3, <1>8
    <3> QED
      BY Zenon, <1>1, <1>13, <3>1, <3>2, AncestrySame
  <2> QED
    BY Zenon, <1>1, <1>8, <2>1, AncestryFacts
<1>15. \A x \in D : \A y \in D : y \in Subtree(h, x) <=> y \in Subtree(g, x)
  BY Zenon, <1>8, <1>14 DEF Subtree
<1>16. \A y \in D : y \notin Subtree(h, b)
  BY Zenon, <1>4, <1>14 DEF Subtree
<1>17. Weighed(h)
  <2>1. \A v \in Voter : g.vtr[v].blk \in D \cup {NoBlock}
    BY Zenon, <1>1, <1>8 DEF Weighed
  <2>2. \A x : NoBlock \notin Subtree(h, x) /\ NoBlock \notin Subtree(g, x)
    BY Zenon, <1>8, <1>9 DEF Subtree
  <2>3. \A x \in D : Under(h, x) = Under(g, x)
    <3> SUFFICES ASSUME NEW x \in D, NEW v \in Voter
                 PROVE  g.vtr[v].blk \in Subtree(h, x) <=> g.vtr[v].blk \in Subtree(g, x)
      BY SMT, <1>3 DEF Under
    <3> QED
      BY Zenon, <1>15, <2>1, <2>2
  <2>4. Under(h, b) = {}
    BY Zenon, <1>3, <1>16, <2>1, <2>2 DEF Under
  <2>5. \A x \in D \cup {b} : h.stake[x] = SumFunctionOnSet(Stake, Under(h, x))
    BY Zenon, <1>1, <1>6, <1>8, <2>3, <2>4, NoVoters DEF Weighed
  <2>6. h.width = Cardinality(Tips(h))
    <3>1. IsFiniteSet(Tips(g)) /\ g.width = Cardinality(Tips(g)) /\ b \notin Tips(g)
      BY Zenon, <1>1, <1>4, <1>8, <1>9, FiniteSubset DEF Tips, Weighed
    <3>2. h.kids[p] # <<>>
      BY SMT, <1>4, <1>7, <1>9
    <3>3. CASE g.kids[p] = <<>>
      <4>1. Tips(h) = (Tips(g) \ {p}) \cup {b} /\ p \in Tips(g) /\ b \notin Tips(g) \ {p}
        BY Zenon, <1>4, <1>7, <1>8, <3>2, <3>3 DEF Tips
      <4>2. /\ IsFiniteSet(Tips(g) \ {p}) /\ Cardinality(Tips(g)) \in Nat
            /\ Cardinality(Tips(g) \ {p}) = Cardinality(Tips(g)) - 1
        BY Zenon, <3>1, <4>1, Without
      <4>3. Cardinality(Tips(h)) = Cardinality(Tips(g) \ {p}) + 1
        BY Zenon, <4>1, <4>2, FiniteAdd
      <4>4. Cardinality(Tips(h)) = Cardinality(Tips(g))
        BY SMT, <4>2, <4>3
      <4> QED
        BY Zenon, <1>3, <3>1, <3>3, <4>4
    <3>4. CASE g.kids[p] # <<>>
      <4>1. Tips(h) = Tips(g) \cup {b}
        BY Zenon, <1>4, <1>7, <1>8, <3>2, <3>4 DEF Tips
      <4>2. Cardinality(Tips(h)) = Cardinality(Tips(g)) + 1
        BY Zenon, <3>1, <4>1, FiniteAdd
      <4> QED
        BY Zenon, <1>3, <3>1, <3>4, <4>2
    <3> QED
      BY Zenon, <3>3, <3>4
  <2>7. DOMAIN h.vtr = Voter /\ \A v \in Voter : h.vtr[v].blk \in Nodes(h) \cup {NoBlock}
    BY Zenon, <1>1, <1>3, <1>8, <2>1 DEF Weighed
  <2> QED
    BY Zenon, <1>8, <2>5, <2>6, <2>7 DEF Weighed
<1> QED
  BY Zenon, <1>3, <1>8, <1>13, <1>17 DEF h, Sound

\* Counting a vote moves the voter's stake from one line of blocks to another.
LEMMA CountSound ==
  ASSUME Counting, NEW g, NEW B, Sound(g, B), NEW blk \in Nodes(g), NEW v \in Voter, NEW slot
  PROVE  LET h == ghost_count_vote(g, blk, v, slot)
         IN  Sound(h, B) /\ h.root = g.root /\ h.parent = g.parent
<1> DEFINE prev == g.vtr[v].blk
           from == IF prev = NoBlock THEN {} ELSE Ancestry(g, prev)
           onto == Ancestry(g, blk)
           Moved(x) == g.stake[x] - (IF x \in from THEN Stake[v] ELSE 0)
                                  + (IF x \in onto THEN Stake[v] ELSE 0)
           stk == [x \in Nodes(g) |-> Moved(x)]
           vot == [slot |-> slot, blk |-> blk]
           h == [g EXCEPT !.stake = stk, !.vtr[v] = vot]
<1>1. ghost_count_vote(g, blk, v, slot) \in {g, h}
  BY Zenon DEF ghost_count_vote
<1>2. IsTree(g, B) /\ Weighed(g)
  BY Zenon DEF Sound
<1>3. /\ DOMAIN h = DOMAIN g /\ h.root = g.root /\ h.width = g.width /\ h.parent = g.parent
      /\ h.kids = g.kids /\ h.stake = stk /\ h.vtr = [g.vtr EXCEPT ![v] = vot]
  <2>1. DOMAIN g = {"root", "width", "parent", "kids", "stake", "valid", "vtr"}
    BY Zenon, <1>2 DEF IsTree
  <2> HIDE DEF stk, vot
  <2> QED
    BY SMT, <2>1
<1>4. vot.blk = blk
  OBVIOUS
<1> HIDE DEF h, vot
<1>5. /\ Nodes(h) = Nodes(g)
      /\ \A x : Subtree(h, x) = Subtree(g, x) /\ Children(h, x) = Children(g, x)
  BY Zenon, <1>3, SameParents
<1>6. DOMAIN stk = Nodes(g) /\ \A x \in Nodes(g) : stk[x] = Moved(x)
  BY Zenon
<1> HIDE DEF stk
<1>7. IsTree(h, B)
  BY Zenon, <1>2, <1>3, <1>5, <1>6 DEF IsTree
<1>8. /\ DOMAIN h.vtr = Voter /\ h.vtr[v].blk = blk
      /\ \A w \in Voter \ {v} : h.vtr[w] = g.vtr[w]
  BY Zenon, <1>2, <1>3, <1>4 DEF Weighed
<1>9. prev \in Nodes(g) \cup {NoBlock} /\ NoBlock \notin Nodes(g)
  BY Zenon, <1>2 DEF Weighed, IsTree
<1>10. ASSUME NEW x \in Nodes(g)
       PROVE  stk[x] = SumFunctionOnSet(Stake, Under(h, x))
  <2> DEFINE old == Under(g, x)
             new == Under(h, x)
             Sum(S) == SumFunctionOnSet(Stake, S)
  <2>1. x \in from <=> v \in old
    BY Zenon, <1>9 DEF Under, Subtree
  <2>2. x \in onto <=> v \in new
    BY Zenon, <1>5, <1>8 DEF Under, Subtree
  <2>3. old \ {v} = new \ {v}
    <3>1. \A w \in Voter \ {v} : w \in old <=> w \in new
      BY Zenon, <1>5, <1>8 DEF Under
    <3>2. old \subseteq Voter /\ new \subseteq Voter
      BY Zenon DEF Under
    <3> HIDE DEF old, new
    <3> QED
      BY Zenon, <3>1, <3>2
  <2>4. /\ old \in SUBSET Voter /\ new \in SUBSET Voter /\ old \ {v} \in SUBSET Voter
        /\ Stake[v] \in Int
    BY StakeAssumption DEF Under
  <2> HIDE DEF old, new, from, onto
  <2>5. /\ Sum(old) = IF v \in old THEN Stake[v] + Sum(old \ {v}) ELSE Sum(old \ {v})
        /\ Sum(old \ {v}) \in Int
    <3>1. v \notin old => old \ {v} = old
      BY Zenon
    <3>2. v \in old => Sum(old) = Stake[v] + Sum(old \ {v})
      BY Zenon, <2>4, StakeSums
    <3>3. Sum(old \ {v}) \in Int
      BY Zenon, <2>4, StakeSums
    <3> QED
      BY Zenon, <3>1, <3>2, <3>3
  <2>6. Sum(new) = IF v \in new THEN Stake[v] + Sum(old \ {v}) ELSE Sum(old \ {v})
    <3>1. v \notin new => new = old \ {v}
      BY Zenon, <2>3
    <3>2. v \in new => Sum(new) = Stake[v] + Sum(new \ {v})
      BY Zenon, <2>4, StakeSums
    <3> QED
      BY Zenon, <2>3, <3>1, <3>2
  <2>7. g.stake[x] = Sum(old)
    BY Zenon, <1>2 DEF Weighed, old
  <2>8. stk[x] = (Sum(old) - (IF v \in old THEN Stake[v] ELSE 0)) + (IF v \in new THEN Stake[v] ELSE 0)
    BY Zenon, <1>6, <2>1, <2>2, <2>7
  <2>9. Stake[v] \in Int
    BY Zenon, <2>4
  <2> DEFINE z == Sum(old \ {v})
             y == Stake[v]
  <2>10. stk[x] = Sum(new)
    <3>1. Sum(old) = (IF v \in old THEN y + z ELSE z) /\ z \in Int /\ y \in Int
      BY Zenon, <2>5, <2>9
    <3>2. Sum(new) = IF v \in new THEN y + z ELSE z
      BY Zenon, <2>6
    <3> HIDE DEF y, z, Sum
    <3>3. stk[x] = (Sum(old) - (IF v \in old THEN y ELSE 0)) + (IF v \in new THEN y ELSE 0)
      BY Zenon, <2>8 DEF y
    <3> QED
      BY SMT, <3>1, <3>2, <3>3
  <2> QED
    BY Zenon, <2>10 DEF new
<1>11. Weighed(h)
  <2>1. Tips(h) = Tips(g)
    BY SMT, <1>3, <1>5 DEF Tips
  <2>2. \A w \in Voter : h.vtr[w].blk \in Nodes(h) \cup {NoBlock}
    BY Zenon, <1>2, <1>5, <1>8 DEF Weighed
  <2> QED
    BY Zenon, <1>2, <1>3, <1>5, <1>8, <1>10, <2>1, <2>2 DEF Weighed
<1>12. Sound(h, B)
  BY Zenon, <1>7, <1>11 DEF Sound
<1> QED
  BY Zenon, <1>1, <1>3, <1>12

-----------------------------------------------------------------------------
(* Publishing a root.                                                       *)

\* The children a block has beyond the first, as fd_ghost_publish counts them.
Extra(g) == [b \in Nodes(g) |-> IF g.kids[b] = <<>> THEN 0 ELSE Len(g.kids[b]) - 1]

\* The extra children of a set of blocks: all their children, but one for each
\* block that has any.
LEMMA ExtraChildren ==
  ASSUME Counting, NEW g, NEW B, IsTree(g, B)
  PROVE  \A T \in SUBSET Nodes(g) :
           SumFunctionOnSet(Extra(g), T)
             = Cardinality({k \in Nodes(g) : g.parent[k] \in T})
               - Cardinality({b \in T : g.kids[b] # <<>>})
<1> DEFINE D == Nodes(g)
           Kids(T) == {k \in D : g.parent[k] \in T}
           Forks(T) == {b \in T : g.kids[b] # <<>>}
           Sum(T) == SumFunctionOnSet(Extra(g), T)
           Bad == {T \in SUBSET D : Sum(T) # Cardinality(Kids(T)) - Cardinality(Forks(T))}
<1>1. IsFiniteSet(D)
  BY Zenon DEF IsTree
<1>2. \A x \in D : Extra(g)[x] = IF g.kids[x] = <<>> THEN 0 ELSE Len(g.kids[x]) - 1
  BY Zenon DEF Extra
<1>3. \A x \in D : Len(g.kids[x]) \in Nat /\ Len(g.kids[x]) = Cardinality(Children(g, x))
                   /\ (g.kids[x] = <<>> <=> Len(g.kids[x]) = 0)
  <2>1. \A x \in D : g.kids[x] \in Seq(B) /\ Len(g.kids[x]) = Cardinality(Children(g, x))
    BY Zenon DEF IsTree
  <2> QED
    BY <2>1
<1>4. \A T \in SUBSET D : /\ Sum(T) \in Int
                          /\ \A y \in T : Sum(T) = Extra(g)[y] + Sum(T \ {y})
  <2>1. \A x \in D : Extra(g)[x] \in Int
    <3> HIDE DEF D
    <3> QED
      BY SMT, <1>2, <1>3
  <2> QED
    BY SMT, <1>1, <2>1, SumOfIntegers
<1>5. \A T \in SUBSET D : IsFiniteSet(T) /\ IsFiniteSet(Kids(T)) /\ IsFiniteSet(Forks(T))
  BY Zenon, <1>1, FiniteSubset
<1> HIDE DEF Sum
<1> SUFFICES ASSUME Bad # {} PROVE FALSE
  BY Zenon DEF Sum
<1>6. PICK T \in Bad : \A S \in Bad : ~(Cardinality(S) < Cardinality(T))
  <2>1. Bad \subseteq SUBSET D
    BY Zenon
  <2> HIDE DEF Bad, D
  <2> QED
    BY Zenon, <1>1, <2>1, SmallestSet
<1>7. T \in SUBSET D /\ Sum(T) # Cardinality(Kids(T)) - Cardinality(Forks(T))
  BY Zenon, <1>6
<1>8. T # {}
  <2> SUFFICES ASSUME T = {} PROVE FALSE
    OBVIOUS
  <2>1. Kids({}) = {} /\ Forks({}) = {}
    BY Zenon
  <2>2. Sum({}) = 0 /\ Cardinality({}) = 0
    BY Zenon, SumUnfold, FiniteEmpty DEF Sum
  <2>3. Sum({}) = Cardinality(Kids({})) - Cardinality(Forks({}))
    BY SMT, <2>1, <2>2
  <2> QED
    BY Zenon, <1>7, <2>3
<1>9. PICK y \in T : TRUE
  BY Zenon, <1>8
<1> DEFINE S == T \ {y}
<1>10. S \in SUBSET D /\ y \in D /\ S \notin Bad
  <2>1. Cardinality(S) < Cardinality(T)
    <3>1. /\ Cardinality(T) \in Nat /\ Cardinality(S) \in Nat
          /\ Cardinality(S) = Cardinality(T) - 1
      BY Zenon, <1>5, <1>7, <1>9, Without
    <3> HIDE DEF S, Bad
    <3> QED
      BY SMT, <3>1
  <2> QED
    BY Zenon, <1>6, <1>7, <1>9, <2>1
<1>11. Sum(S) = Cardinality(Kids(S)) - Cardinality(Forks(S))
  BY Zenon, <1>10
<1>12. Sum(T) = Extra(g)[y] + Sum(S)
  BY Zenon, <1>4, <1>7, <1>9
<1>13. Kids(T) = Kids(S) \cup Children(g, y) /\ Kids(S) \cap Children(g, y) = {}
  BY Zenon, <1>7, <1>9 DEF Children
<1>14. IsFiniteSet(Children(g, y))
  BY Zenon, <1>1, FiniteSubset DEF Children
<1>15. /\ Cardinality(Kids(T)) = Cardinality(Kids(S)) + Cardinality(Children(g, y))
       /\ Cardinality(Kids(S)) \in Nat /\ Cardinality(Children(g, y)) \in Nat
  <2> DEFINE K == Kids(S)
             C == Children(g, y)
  <2>1. IsFiniteSet(K) /\ IsFiniteSet(C) /\ K \cap C = {} /\ Kids(T) = K \cup C
    BY Zenon, <1>5, <1>10, <1>13, <1>14
  <2> HIDE DEF K, C, Kids
  <2> QED
    BY Zenon, <2>1, DisjointUnion DEF K, C
<1>16. Cardinality(Forks(S)) \in Nat
  BY Zenon, <1>5, <1>10, FiniteCount
<1>17. Cardinality(Children(g, y)) = Len(g.kids[y])
  BY Zenon, <1>3, <1>10
<1>18. CASE g.kids[y] = <<>>
  <2>1. Forks(T) = Forks(S)
    BY Zenon, <1>18
  <2>2. Extra(g)[y] = 0 /\ Len(g.kids[y]) = 0
    BY Zenon, <1>2, <1>3, <1>10, <1>18
  <2>3. Sum(T) = Cardinality(Kids(T)) - Cardinality(Forks(T))
    <3> HIDE DEF Kids, Forks, S
    <3> QED
      BY SMT, <1>11, <1>12, <1>15, <1>16, <1>17, <2>1, <2>2
  <2> QED
    BY Zenon, <1>7, <2>3
<1>19. CASE g.kids[y] # <<>>
  <2>1. Forks(T) = Forks(S) \cup {y} /\ y \notin Forks(S)
    BY Zenon, <1>9, <1>19
  <2>2. Cardinality(Forks(T)) = Cardinality(Forks(S)) + 1
    BY Zenon, <1>5, <1>10, <2>1, FiniteAdd
  <2>3. Extra(g)[y] = Len(g.kids[y]) - 1
    BY Zenon, <1>2, <1>10, <1>19
  <2>4. Sum(T) = Cardinality(Kids(T)) - Cardinality(Forks(T))
    <3> DEFINE k == Cardinality(Kids(S))
               f == Cardinality(Forks(S))
               n == Len(g.kids[y])
    <3>1. k \in Nat /\ f \in Nat /\ n \in Nat
      BY Zenon, <1>15, <1>16, <1>17
    <3>2. Sum(T) = (n - 1) + (k - f)
      BY Zenon, <1>11, <1>12, <2>3
    <3>3. Cardinality(Kids(T)) = k + n /\ Cardinality(Forks(T)) = f + 1
      BY Zenon, <1>15, <1>17, <2>2
    <3> HIDE DEF k, f, n, Kids, Forks
    <3> QED
      BY SMT, <3>1, <3>2, <3>3
  <2> QED
    BY Zenon, <1>7, <2>4
<1> QED
  BY Zenon, <1>18, <1>19

\* What a new root keeps: its subtree is closed downwards, the rest upwards,
\* and only the new root has its parent on the other side.
LEMMA Cut ==
  ASSUME NEW g, NEW B, IsTree(g, B), NEW newr \in Nodes(g), newr # g.root
  PROVE  LET keep == Subtree(g, newr)
             gone == Nodes(g) \ keep
         IN  /\ newr \in keep /\ g.root \in gone /\ g.parent[newr] \in gone
             /\ \A x \in keep \ {newr} : g.parent[x] \in keep
             /\ \A x \in gone \ {g.root} : g.parent[x] \in gone
             /\ \A y \in keep : Subtree(g, y) \subseteq keep
<1> DEFINE D == Nodes(g)
           keep == Subtree(g, newr)
           gone == D \ keep
           p == g.parent[newr]
<1>1. \A x \in D : x \in keep <=> newr \in Ancestry(g, x)
  BY Zenon DEF Subtree
<1>2. keep \subseteq D /\ g.root \in D
  BY Zenon DEF Subtree, IsTree
<1> HIDE DEF keep
<1>3. newr \in keep
  BY Zenon, <1>1, AncestryCases
<1>4. g.root \in gone
  <2>1. Ancestry(g, g.root) = {g.root}
    BY Zenon, <1>2, AncestryCases
  <2> QED
    BY Zenon, <1>1, <1>2, <2>1
<1>5. p \in D /\ Slot(p) < Slot(newr)
  BY Zenon, AncestryCases
<1>6. p \in gone
  <2> SUFFICES ASSUME p \in keep PROVE FALSE
    BY Zenon, <1>5
  <2>1. newr = p \/ Slot(newr) < Slot(p)
    BY Zenon, <1>1, <1>5, AncestryFacts
  <2>2. Slot(p) \in Nat /\ Slot(newr) \in Nat
    BY Zenon, <1>5 DEF IsTree
  <2> HIDE DEF p
  <2> QED
    BY SMT, <1>5, <2>1, <2>2
<1>7. ASSUME NEW x \in keep \ {newr} PROVE g.parent[x] \in keep
  <2>1. x \in D /\ x # g.root /\ newr \in Ancestry(g, x)
    BY Zenon, <1>1, <1>2, <1>4
  <2>2. g.parent[x] \in D /\ Ancestry(g, x) = {x} \cup Ancestry(g, g.parent[x])
    BY Zenon, <2>1, AncestryCases
  <2> QED
    BY Zenon, <1>1, <2>1, <2>2
<1>8. ASSUME NEW x \in gone \ {g.root} PROVE g.parent[x] \in gone
  <2>1. g.parent[x] \in D /\ Ancestry(g, x) = {x} \cup Ancestry(g, g.parent[x])
    BY Zenon, AncestryCases
  <2> QED
    BY Zenon, <1>1, <2>1
<1>9. ASSUME NEW y \in keep, NEW x \in Subtree(g, y) PROVE x \in keep
  <2>1. x \in D /\ y \in Ancestry(g, x)
    BY Zenon DEF Subtree
  <2>2. newr \in Ancestry(g, y) /\ Ancestry(g, y) \subseteq Ancestry(g, x)
    BY Zenon, <1>1, <1>2, <2>1, AncestryFacts
  <2> QED
    BY Zenon, <1>1, <2>1, <2>2
<1> QED
  BY Zenon, <1>3, <1>4, <1>6, <1>7, <1>8, <1>9 DEF keep

\* The width that is left: every tip that goes gives back an extra child.
LEMMA CutWidth ==
  ASSUME Counting, NEW g, NEW B, IsTree(g, B), NEW newr \in Nodes(g), newr # g.root
  PROVE  Cardinality(Tips(g)) - SumFunctionOnSet(Extra(g), Nodes(g) \ Subtree(g, newr))
           = Cardinality(Tips(g) \cap Subtree(g, newr))
<1> DEFINE D == Nodes(g)
           keep == Subtree(g, newr)
           gone == D \ keep
           Kids(T) == {k \in D : g.parent[k] \in T}
           Forks(T) == {b \in T : g.kids[b] # <<>>}
           Ends(T) == {b \in T : g.kids[b] = <<>>}
<1>1. /\ newr \in keep /\ g.root \in gone /\ g.parent[newr] \in gone
      /\ \A x \in keep \ {newr} : g.parent[x] \in keep
      /\ \A x \in gone \ {g.root} : g.parent[x] \in gone
  BY Zenon, Cut
<1>2. IsFiniteSet(D) /\ keep \subseteq D /\ g.parent[g.root] \notin D
  BY Zenon DEF IsTree, Subtree
<1>3. SumFunctionOnSet(Extra(g), gone) = Cardinality(Kids(gone)) - Cardinality(Forks(gone))
  BY Zenon, ExtraChildren
<1>4. Tips(g) = Ends(keep) \cup Ends(gone) /\ Tips(g) \cap keep = Ends(keep)
  BY Zenon, <1>2 DEF Tips
<1> HIDE DEF keep
<1>5. Kids(gone) = (gone \ {g.root}) \cup {newr} /\ newr \notin gone
  BY Zenon, <1>1, <1>2
<1>6. /\ IsFiniteSet(gone) /\ IsFiniteSet(Forks(gone)) /\ IsFiniteSet(Ends(gone))
      /\ IsFiniteSet(Ends(keep))
  BY Zenon, <1>2, FiniteSubset
<1>7. gone = Forks(gone) \cup Ends(gone) /\ Forks(gone) \cap Ends(gone) = {}
      /\ Ends(keep) \cap Ends(gone) = {}
  BY Zenon
<1> HIDE DEF gone, Kids, Forks, Ends
<1>8. /\ Cardinality(Kids(gone)) = Cardinality(gone) /\ Cardinality(gone) \in Nat
  <2>1. /\ IsFiniteSet(gone \ {g.root}) /\ Cardinality(gone) \in Nat
        /\ Cardinality(gone \ {g.root}) = Cardinality(gone) - 1
    BY Zenon, <1>1, <1>6, Without
  <2>2. Cardinality(Kids(gone)) = Cardinality(gone \ {g.root}) + 1
    BY Zenon, <1>5, <2>1, FiniteAdd
  <2> QED
    BY SMT, <2>1, <2>2
<1>10. /\ Cardinality(gone) = Cardinality(Forks(gone)) + Cardinality(Ends(gone))
       /\ Cardinality(Forks(gone)) \in Nat /\ Cardinality(Ends(gone)) \in Nat
  BY Zenon, <1>6, <1>7, DisjointUnion
<1>11. /\ Cardinality(Tips(g)) = Cardinality(Ends(keep)) + Cardinality(Ends(gone))
       /\ Cardinality(Ends(keep)) \in Nat
  BY Zenon, <1>4, <1>6, <1>7, DisjointUnion
<1>12. Cardinality(Tips(g)) - SumFunctionOnSet(Extra(g), gone) = Cardinality(Ends(keep))
  BY SMT, <1>3, <1>8, <1>10, <1>11
<1> QED
  BY Zenon, <1>4, <1>12 DEF keep, gone

\* Publishing a root keeps the accounts of what is under it.
LEMMA PublishSound ==
  ASSUME Counting, NEW g, NEW B, Sound(g, B), NEW newr \in Nodes(g)
  PROVE  LET h == ghost_publish(g, newr)
         IN  Sound(h, B) /\ h.root = newr /\ Nodes(h) \subseteq Nodes(g)
<1>1. CASE newr = g.root
  BY Zenon, <1>1 DEF ghost_publish
<1>2. CASE newr # g.root
  <2> DEFINE D == Nodes(g)
             keep == Subtree(g, newr)
             gone == D \ keep
             h == ghost_publish(g, newr)
             Kept(f) == [b \in keep |-> f[b]]
             vot == [v \in Voter |-> IF g.vtr[v].blk \in keep THEN g.vtr[v] ELSE EmptyGhost.vtr[v]]
             wid == g.width - SumFunctionOnSet(Extra(g), gone)
             par == [Kept(g.parent) EXCEPT ![newr] = NoBlock]
  <2>1. h = [root |-> newr, width |-> wid, parent |-> par, kids |-> Kept(g.kids),
             stake |-> Kept(g.stake), valid |-> Kept(g.valid), vtr |-> vot]
    BY Zenon, <1>2 DEF ghost_publish, Extra
  <2>2. IsTree(g, B) /\ Weighed(g)
    BY Zenon DEF Sound
  <2>3. /\ newr \in keep /\ g.root \in gone /\ g.parent[newr] \in gone
        /\ \A x \in keep \ {newr} : g.parent[x] \in keep
        /\ \A x \in gone \ {g.root} : g.parent[x] \in gone
        /\ \A y \in keep : Subtree(g, y) \subseteq keep
    BY Zenon, <1>2, <2>2, Cut
  <2>4. keep \subseteq D /\ \A x \in D : x \in keep <=> newr \in Ancestry(g, x)
    BY Zenon DEF Subtree
  <2>5. /\ DOMAIN h = {"root", "width", "parent", "kids", "stake", "valid", "vtr"}
        /\ h.root = newr /\ h.width = wid /\ h.parent = par /\ h.vtr = vot
        /\ h.kids = Kept(g.kids) /\ h.stake = Kept(g.stake)
    <3> HIDE DEF h, wid, par, vot, Kept
    <3> QED
      BY SMT, <2>1
  <2> HIDE DEF h, keep, wid
  <2>6. /\ DOMAIN h.parent = keep /\ h.parent[newr] = NoBlock
        /\ \A x \in keep \ {newr} : h.parent[x] = g.parent[x]
    BY Zenon, <2>3, <2>5
  <2>7. /\ DOMAIN h.kids = keep /\ DOMAIN h.stake = keep
        /\ \A x \in keep : h.kids[x] = g.kids[x] /\ h.stake[x] = g.stake[x]
    BY Zenon, <2>5
  <2>8. Nodes(h) = keep
    BY Zenon, <2>6 DEF Nodes
  <2>9. /\ \A b \in B : Slot(b) \in Nat /\ b # NoBlock
        /\ D \subseteq B /\ IsFiniteSet(D) /\ g.parent[g.root] \notin D
        /\ \A x \in D \ {g.root} : g.parent[x] \in D /\ Slot(g.parent[x]) < Slot(x)
        /\ \A x \in D : g.kids[x] \in Seq(B) /\ Len(g.kids[x]) = Cardinality(Children(g, x))
    BY Zenon, <2>2 DEF IsTree
  <2>10. \A x \in keep : Children(h, x) = Children(g, x)
    <3> SUFFICES ASSUME NEW x \in keep, NEW k \in D
                 PROVE  k \in keep /\ h.parent[k] = x <=> g.parent[k] = x
      <4>1. \A k \in keep : k \in D
        BY Zenon, <2>4
      <4> QED
        BY Zenon, <2>8, <4>1 DEF Children
    <3>1. CASE k = newr
      <4>1. h.parent[k] # x
        BY Zenon, <2>4, <2>6, <2>9, <3>1
      <4>2. g.parent[k] # x
        BY Zenon, <2>3, <3>1
      <4> QED
        BY Zenon, <4>1, <4>2
    <3>2. CASE k # newr /\ k \in keep
      BY Zenon, <2>6, <3>2
    <3>3. CASE k \notin keep
      <4>1. g.parent[k] \notin keep
        BY Zenon, <2>3, <2>4, <2>9, <3>3
      <4> QED
        BY Zenon, <3>3, <4>1
    <3> QED
      BY Zenon, <3>1, <3>2, <3>3
  <2>11. IsTree(h, B)
    <3>1. IsFiniteSet(keep) /\ keep \subseteq B
      BY Zenon, <2>4, <2>9, FiniteSubset
    <3>2. \A x \in keep \ {newr} : h.parent[x] \in keep /\ Slot(h.parent[x]) < Slot(x)
      BY Zenon, <2>3, <2>4, <2>6, <2>9
    <3>3. \A x \in keep : h.kids[x] \in Seq(B) /\ Len(h.kids[x]) = Cardinality(Children(h, x))
      BY Zenon, <2>4, <2>7, <2>9, <2>10
    <3>4. /\ h.root \in Nodes(h) /\ h.parent[h.root] = NoBlock
          /\ \A x \in Nodes(h) \ {h.root} : h.parent[x] \in Nodes(h) /\ Slot(h.parent[x]) < Slot(x)
      BY Zenon, <2>3, <2>5, <2>6, <2>8, <3>2
    <3>5. /\ Nodes(h) \subseteq B /\ IsFiniteSet(Nodes(h))
          /\ DOMAIN h.kids = Nodes(h) /\ DOMAIN h.stake = Nodes(h)
          /\ \A x \in Nodes(h) : h.kids[x] \in Seq(B) /\ Len(h.kids[x]) = Cardinality(Children(h, x))
      BY Zenon, <2>7, <2>8, <3>1, <3>3
    <3> QED
      BY Zenon, <2>5, <2>9, <3>4, <3>5 DEF IsTree
  <2>12. \A x \in keep : Ancestry(h, x) = Ancestry(g, x) \cap keep
    <3> DEFINE Bad == {x \in keep : Ancestry(h, x) # Ancestry(g, x) \cap keep}
    <3> SUFFICES ASSUME Bad # {} PROVE FALSE
      BY Zenon
    <3>1. PICK x \in Bad : \A y \in Bad : ~(Slot(y) < Slot(x))
      <4>1. Bad \subseteq Nodes(h)
        BY Zenon, <2>8
      <4> HIDE DEF Bad
      <4> QED
        BY Zenon, <2>11, <4>1, LowestBlock
    <3>2. x \in keep /\ x \in D /\ x \in Nodes(h) /\ Ancestry(h, x) # Ancestry(g, x) \cap keep
      BY Zenon, <2>4, <2>8, <3>1
    <3>3. CASE x = newr
      <4>1. Ancestry(h, x) = {newr}
        BY Zenon, <2>5, <2>11, <3>2, <3>3, AncestryCases
      <4>2. newr \in Ancestry(g, newr)
        BY Zenon, <2>3, <2>4
      <4>3. ASSUME NEW y \in Ancestry(g, newr), y \in keep PROVE y = newr
        <5>1. y = newr \/ Slot(y) < Slot(newr)
          BY Zenon, <2>2, AncestryFacts
        <5>2. newr = y \/ Slot(newr) < Slot(y)
          BY Zenon, <2>2, <2>4, <4>3, AncestryFacts
        <5>3. Slot(y) \in Nat /\ Slot(newr) \in Nat
          BY Zenon, <2>3, <2>4, <2>9, <4>3
        <5> QED
          BY SMT, <5>1, <5>2, <5>3
      <4> QED
        BY Zenon, <2>3, <3>2, <3>3, <4>1, <4>2, <4>3
    <3>4. CASE x # newr
      <4> DEFINE p == g.parent[x]
      <4>1. p \in keep /\ h.parent[x] = p
        BY Zenon, <2>3, <2>6, <3>2, <3>4
      <4>2. x # g.root
        BY Zenon, <2>3, <3>2
      <4>3. Ancestry(g, x) = {x} \cup Ancestry(g, p) /\ Slot(p) < Slot(x)
        BY Zenon, <2>2, <3>2, <4>2, AncestryCases
      <4>4. Ancestry(h, x) = {x} \cup Ancestry(h, h.parent[x])
        BY Zenon, <2>5, <2>11, <3>2, <3>4, AncestryCases
      <4>5. Ancestry(h, p) = Ancestry(g, p) \cap keep
        BY Zenon, <3>1, <4>1, <4>3
      <4> HIDE DEF p
      <4> QED
        BY Zenon, <3>2, <4>1, <4>3, <4>4, <4>5
    <3> QED
      BY Zenon, <3>3, <3>4
  <2>13. \A x \in keep : Subtree(h, x) = Subtree(g, x)
    <3> SUFFICES ASSUME NEW x \in keep PROVE Subtree(h, x) = Subtree(g, x)
      BY Zenon
    <3>1. \A y \in keep : y \in Subtree(h, x) <=> y \in Subtree(g, x)
      BY Zenon, <2>4, <2>8, <2>12 DEF Subtree
    <3>2. Subtree(g, x) \subseteq keep /\ Subtree(h, x) \subseteq keep
      BY Zenon, <2>3, <2>8 DEF Subtree
    <3> QED
      BY Zenon, <3>1, <3>2
  <2>14. Weighed(h)
    <3>1. /\ DOMAIN h.vtr = Voter
          /\ \A v \in Voter : h.vtr[v].blk = IF g.vtr[v].blk \in keep THEN g.vtr[v].blk ELSE NoBlock
      <4>1. \A v \in Voter : EmptyGhost.vtr[v].blk = NoBlock
        BY SMT DEF EmptyGhost
      <4> QED
        BY Zenon, <2>5, <4>1
    <3>2. NoBlock \notin keep
      BY Zenon, <2>4, <2>9
    <3>3. \A x \in keep : Under(h, x) = Under(g, x)
      <4> SUFFICES ASSUME NEW x \in keep, NEW v \in Voter
                   PROVE  h.vtr[v].blk \in Subtree(h, x) <=> g.vtr[v].blk \in Subtree(g, x)
        BY SMT DEF Under
      <4>1. Subtree(h, x) = Subtree(g, x) /\ Subtree(g, x) \subseteq keep
        BY Zenon, <2>3, <2>13
      <4> QED
        BY Zenon, <3>1, <3>2, <4>1
    <3>4. \A x \in keep : h.stake[x] = SumFunctionOnSet(Stake, Under(h, x))
      BY Zenon, <2>2, <2>4, <2>7, <3>3 DEF Weighed
    <3>5. h.width = Cardinality(Tips(h))
      <4>1. Tips(h) = Tips(g) \cap keep
        BY Zenon, <2>4, <2>7, <2>8 DEF Tips
      <4>2. g.width = Cardinality(Tips(g))
        BY Zenon, <2>2 DEF Weighed
      <4>3. Cardinality(Tips(g)) - SumFunctionOnSet(Extra(g), gone) = Cardinality(Tips(g) \cap keep)
        BY Zenon, <1>2, <2>2, CutWidth DEF keep
      <4> QED
        BY Zenon, <2>5, <4>1, <4>2, <4>3 DEF wid
    <3> QED
      BY Zenon, <2>8, <3>1, <3>4, <3>5 DEF Weighed
  <2> QED
    BY Zenon, <2>4, <2>5, <2>8, <2>11, <2>14 DEF Sound, h
<1> QED
  BY Zenon, <1>1, <1>2

==============================================================================
