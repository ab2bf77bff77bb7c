------------------------------ MODULE SpongeProofs ------------------------------
(***************************************************************************)
(* Theorems about Permutation and Sponge, for words of every width, all    *)
(* round constants and all calls: the inverse round undoes the round, what *)
(* the sponge keeps is well-typed, the blocks it absorbs are its input,    *)
(* and no two calls are computed alike.                                    *)
(***************************************************************************)
EXTENDS Sponge, SequenceTheorems, FiniteSetTheorems, WellFoundedInduction, TLAPS

USE DEF Lanes, Rotations

-----------------------------------------------------------------------------
(* The tables *)

\* The rotation of a round stays inside the word.
LEMMA RoundRotType ==
    ASSUME NEW base \in Nat, NEW round \in Nat, NEW lane \in Nat, NEW stride \in Nat
    PROVE  RoundRot(base, round, lane, stride) \in Rotations
<1> DEFINE n == base + round * stride + lane * 5
<1>1. round * stride \in Nat
  OBVIOUS
<1>2. n \in Nat
  BY <1>1
<1> HIDE DEF n
<1>3. (n % 63) + 1 \in 1 .. 63
  BY <1>2
<1>4. QED
  BY <1>3 DEF RoundRot, n

\* Every round has one of the three permutation schedules.
LEMMA ScheduleType == \A round \in RoundNumbers : Schedule(round) \in 1 .. 3
BY DEF Schedule, RoundNumbers, Rounds

\* Every schedule pairs each lane with another.
LEMMA PairingsPair ==
    ASSUME NEW s \in 1 .. 3, NEW k \in 1 .. 3
    PROVE  /\ Pairings[s][k][1] \in Lanes /\ Pairings[s][k][2] \in Lanes
           /\ Pairings[s][k][1] # Pairings[s][k][2]
BY DEF Pairings

\* The word tables are permutations of the lanes.
Shuffle(perm) ==
    /\ \A l \in Lanes : perm[l + 1] \in Lanes
    /\ \A l, m \in Lanes : perm[l + 1] = perm[m + 1] => l = m
    /\ \A m \in Lanes : \E l \in Lanes : perm[l + 1] = m

\* The lane permutations of the three schedules are bijections of the lanes.
LEMMA PermsShuffle ==
    ASSUME NEW s \in 1 .. 3
    PROVE  Shuffle(CPerm[s]) /\ Shuffle(WPerm[s])
BY DEF Shuffle, CPerm, WPerm

\* The rotation tables hold rotations.
LEMMA RotTables ==
    ASSUME NEW l \in Lanes
    PROVE  /\ CRot[l + 1] \in Nat /\ WRot[l + 1] \in Nat
           /\ WaveLeftRot[l + 1] \in Rotations /\ WaveRightRot[l + 1] \in Rotations
           /\ KickCRot[l + 1] \in Rotations /\ KickWRot[l + 1] \in Rotations
BY DEF CRot, WRot, WaveLeftRot, WaveRightRot, KickCRot, KickWRot

-----------------------------------------------------------------------------
(* Each stage of a round is undone by its inverse *)

\* The inverse of one collision of two lanes undoes it.
LEMMA CollideInverts ==
    ASSUME NEW lanes \in LaneWords, NEW i \in Lanes, NEW j \in Lanes, i # j,
           NEW round \in RoundNumbers, NEW pair \in 0 .. 2
    PROVE  /\ CollideForward(lanes, i, j, round, pair) \in LaneWords
           /\ CollideInverse(CollideForward(lanes, i, j, round, pair), i, j, round, pair)
                = lanes
<1> DEFINE r1 == RoundRot(7, round, pair, 7)
           r2 == RoundRot(19, round, pair, 11)
           r3 == RoundRot(31, round, pair, 13)
           a == Add(lanes[i], Rotl(lanes[j], r1))
           b == Xor(lanes[j], Rotl(a, r2))
           after == [lanes EXCEPT ![i] = Rotl(a, r3), ![j] = b]
<1>1. r1 \in Rotations /\ r2 \in Rotations /\ r3 \in Rotations
  <2>1. round \in Nat /\ pair \in Nat
    BY DEF RoundNumbers, Rounds
  <2> QED
    BY <2>1, RoundRotType
<1> HIDE DEF r1, r2, r3
<1>2. a \in Word /\ b \in Word /\ Rotl(a, r2) \in Word /\ Rotl(a, r3) \in Word
  BY <1>1, WordAssumption DEF LaneWords
<1>3. after \in LaneWords /\ after[i] = Rotl(a, r3) /\ after[j] = b
  BY <1>2 DEF LaneWords
<1>4. Rotr(after[i], r3) = a
  BY <1>1, <1>2, <1>3, WordAssumption
<1>5. Xor(after[j], Rotl(a, r2)) = lanes[j]
  BY <1>1, <1>2, <1>3, WordAssumption DEF LaneWords
<1>6. Sub(a, Rotl(lanes[j], r1)) = lanes[i]
  BY <1>1, WordAssumption DEF LaneWords
<1>7. [after EXCEPT ![i] = lanes[i], ![j] = lanes[j]] = lanes
  BY <1>3 DEF LaneWords
<1>8. CollideForward(lanes, i, j, round, pair) = after
  BY DEF CollideForward, r1, r2, r3
<1>9. CollideInverse(after, i, j, round, pair)
        = [after EXCEPT ![i] = lanes[i], ![j] = lanes[j]]
  BY <1>4, <1>5, <1>6 DEF CollideInverse, r1, r2, r3
<1>10. QED
  BY <1>3, <1>7, <1>8, <1>9

\* The pairs of a schedule meet one after the other.
LEMMA CollidePairInverts ==
    ASSUME NEW lanes \in LaneWords, NEW round \in RoundNumbers, NEW pair \in 0 .. 2
    PROVE  /\ CollidePair(lanes, round, pair) \in LaneWords
           /\ UncollidePair(CollidePair(lanes, round, pair), round, pair) = lanes
<1> DEFINE p == Pairings[Schedule(round)][pair + 1]
<1>1. p[1] \in Lanes /\ p[2] \in Lanes /\ p[1] # p[2]
  <2>1. Schedule(round) \in 1 .. 3 /\ pair + 1 \in 1 .. 3
    BY ScheduleType
  <2> QED
    BY <2>1, PairingsPair
<1> HIDE DEF p
<1>2. QED
  <2>1. LET i == p[1]
            j == p[2]
            after == CollideForward(lanes, i, j, round, pair)
        IN  after \in LaneWords /\ CollideInverse(after, i, j, round, pair) = lanes
    BY <1>1, CollideInverts
  <2> QED
    BY <2>1, Zenon DEF CollidePair, UncollidePair, p

\* The inverse of all the collisions of a round undoes them.
LEMMA CollisionsInvert ==
    ASSUME NEW lanes \in LaneWords, NEW round \in RoundNumbers
    PROVE  /\ Collide(lanes, round) \in LaneWords
           /\ Uncollide(Collide(lanes, round), round) = lanes
<1> DEFINE l1 == CollidePair(lanes, round, 0)
           l2 == CollidePair(l1, round, 1)
           l3 == CollidePair(l2, round, 2)
<1>1. l1 \in LaneWords /\ UncollidePair(l1, round, 0) = lanes
  BY CollidePairInverts
<1>2. l2 \in LaneWords /\ UncollidePair(l2, round, 1) = l1
  BY <1>1, CollidePairInverts
<1>3. l3 \in LaneWords /\ UncollidePair(l3, round, 2) = l2
  BY <1>2, CollidePairInverts
<1>4. QED
  BY <1>1, <1>2, <1>3 DEF Collide, Uncollide

\* A wave lane takes from its neighbours only, which its own change leaves alone.
LEMMA WaveLaneInverts ==
    ASSUME NEW wave \in LaneWords, NEW lane \in Lanes
    PROVE  /\ WaveLane(lane, wave) \in LaneWords
           /\ UnwaveLane(lane, WaveLane(lane, wave)) = wave
<1> DEFINE n == Neighbours(wave, lane)
           after == [wave EXCEPT ![lane] = Add(wave[lane], n)]
<1>1. /\ (lane + 5) % 6 \in Lanes /\ (lane + 5) % 6 # lane
      /\ (lane + 1) % 6 \in Lanes /\ (lane + 1) % 6 # lane
  OBVIOUS
<1>2. n \in Word
  BY <1>1, RotTables, WordAssumption DEF Neighbours, LaneWords
<1>3. after \in LaneWords /\ after[lane] = Add(wave[lane], n)
  BY <1>2, WordAssumption DEF LaneWords
<1>4. Neighbours(after, lane) = n
  BY <1>1 DEF Neighbours, LaneWords
<1> HIDE DEF n
<1>5. Sub(Add(wave[lane], n), n) = wave[lane]
  BY <1>2, WordAssumption DEF LaneWords
<1>6. [after EXCEPT ![lane] = wave[lane]] = wave
  BY <1>3 DEF LaneWords
<1>7. WaveLane(lane, wave) = after
  BY DEF WaveLane, n
<1>8. UnwaveLane(lane, after) = [after EXCEPT ![lane] = wave[lane]]
  BY <1>3, <1>4, <1>5 DEF UnwaveLane
<1>9. QED
  BY <1>3, <1>6, <1>7, <1>8

\* The inverse of the two waves over the lanes undoes them.
LEMMA WavesInvert ==
    ASSUME NEW wave \in LaneWords
    PROVE  /\ Wave(wave) \in LaneWords
           /\ Unwave(Wave(wave)) = wave
<1> DEFINE w0 == WaveLane(0, wave)
           w1 == WaveLane(1, w0)
           w2 == WaveLane(2, w1)
           w3 == WaveLane(3, w2)
           w4 == WaveLane(4, w3)
           w5 == WaveLane(5, w4)
<1>0. w0 \in LaneWords /\ UnwaveLane(0, w0) = wave
  BY WaveLaneInverts
<1>1. w1 \in LaneWords /\ UnwaveLane(1, w1) = w0
  BY <1>0, WaveLaneInverts
<1>2. w2 \in LaneWords /\ UnwaveLane(2, w2) = w1
  BY <1>1, WaveLaneInverts
<1>3. w3 \in LaneWords /\ UnwaveLane(3, w3) = w2
  BY <1>2, WaveLaneInverts
<1>4. w4 \in LaneWords /\ UnwaveLane(4, w4) = w3
  BY <1>3, WaveLaneInverts
<1>5. w5 \in LaneWords /\ UnwaveLane(5, w5) = w4
  BY <1>4, WaveLaneInverts
<1>6. QED
  BY <1>0, <1>1, <1>2, <1>3, <1>4, <1>5 DEF Wave, Unwave

\* The kick of the C half is its own inverse while the W half is the same.
LEMMA KickCInverts ==
    ASSUME NEW c \in LaneWords, NEW w \in LaneWords, NEW round \in RoundNumbers
    PROVE  /\ KickC(c, w, round) \in LaneWords
           /\ KickC(KickC(c, w, round), w, round) = c
<1>1. \A l \in Lanes : Rotl(w[(l + round + 1) % 6], KickCRot[l + 1]) \in Word
  <2> TAKE l \in Lanes
  <2>1. (l + round + 1) % 6 \in Lanes
    BY DEF RoundNumbers, Rounds
  <2> QED
    BY <2>1, RotTables, WordAssumption DEF LaneWords
<1>2. QED
  BY <1>1, WordAssumption DEF KickC, LaneWords

\* The kick of the W half is undone while the C half is the same.
LEMMA KickWInverts ==
    ASSUME NEW c \in LaneWords, NEW w \in LaneWords
    PROVE  /\ KickW(c, w) \in LaneWords
           /\ UnkickW(c, KickW(c, w)) = w
<1>1. \A l \in Lanes : Impulse(c, l) \in Word
  <2> TAKE l \in Lanes
  <2>1. (l + 2) % 6 \in Lanes /\ (l + 5) % 6 \in Lanes
    OBVIOUS
  <2> QED
    BY <2>1, RotTables, WordAssumption DEF Impulse, LaneWords
<1>2. QED
  BY <1>1, WordAssumption DEF KickW, UnkickW, LaneWords

\* The rotation of every lane is undone by its inverse.
LEMMA TurnInverts ==
    ASSUME NEW lanes \in LaneWords, NEW round \in RoundNumbers, NEW stride \in Nat,
           NEW rot, \A l \in Lanes : rot[l + 1] \in Nat
    PROVE  /\ Turn(lanes, rot, round, stride) \in LaneWords
           /\ Unturn(Turn(lanes, rot, round, stride), rot, round, stride) = lanes
<1>1. \A l \in Lanes : RoundRot(rot[l + 1], round, l, stride) \in Rotations
  <2> TAKE l \in Lanes
  <2>1. round \in Nat /\ l \in Nat /\ rot[l + 1] \in Nat
    BY DEF RoundNumbers, Rounds
  <2> QED
    BY <2>1, RoundRotType
<1>2. QED
  BY <1>1, WordAssumption DEF Turn, Unturn, LaneWords

\* Moving the lanes along a bijection is undone by its inverse.
LEMMA PermuteWordsInverts ==
    ASSUME NEW lanes \in LaneWords, NEW perm, Shuffle(perm)
    PROVE  /\ PermuteWords(lanes, perm) \in LaneWords
           /\ InversePermuteWords(PermuteWords(lanes, perm), perm) = lanes
<1>1. PermuteWords(lanes, perm) \in LaneWords
  BY DEF PermuteWords, Shuffle, LaneWords
<1>2. ASSUME NEW l \in Lanes
      PROVE  PermuteWords(lanes, perm)[CHOOSE o \in Lanes : perm[o + 1] = l] = lanes[l]
  <2> DEFINE o == CHOOSE o \in Lanes : perm[o + 1] = l
  <2>1. o \in Lanes /\ perm[o + 1] = l
    BY DEF Shuffle
  <2> HIDE DEF o
  <2>2. PermuteWords(lanes, perm)[o] = lanes[l]
    BY <2>1 DEF PermuteWords
  <2> QED
    BY <2>2 DEF o
<1>3. QED
  BY <1>1, <1>2 DEF InversePermuteWords, LaneWords

\* The round constants added to both halves are removed again.
LEMMA ConstantsInvert ==
    ASSUME NEW s \in State, NEW round \in RoundNumbers
    PROVE  /\ AddConstants(s, round) \in State
           /\ RemoveConstants(AddConstants(s, round), round) = s
<1> DEFINE a == RcA[round]
           b == RcB[round]
           d == RcC[round]
           t == AddConstants(s, round)
<1>1. a \in Word /\ b \in Word /\ d \in Word /\ s.c \in LaneWords /\ s.w \in LaneWords
  BY WordAssumption DEF State
<1>2. t.c = [s.c EXCEPT ![0] = Xor(@, a), ![3] = Add(@, d)] /\ t.w = [s.w EXCEPT ![5] = Xor(@, b)]
  BY DEF AddConstants
<1>3. t \in State
  BY <1>1, WordAssumption DEF AddConstants, State, LaneWords
<1>4. [t.c EXCEPT ![0] = Xor(@, a), ![3] = Sub(@, d)] = s.c
  BY <1>1, <1>2, WordAssumption DEF LaneWords
<1>5. [t.w EXCEPT ![5] = Xor(@, b)] = s.w
  BY <1>1, <1>2, WordAssumption DEF LaneWords
<1>6. QED
  BY <1>3, <1>4, <1>5 DEF RemoveConstants, State

-----------------------------------------------------------------------------
(* The round *)

\* Whatever the state, the inverse round finds the state the round began with
\* (round_forward and round_inverse), so permute loses nothing.
THEOREM RoundInverts ==
    ASSUME NEW s \in State, NEW round \in RoundNumbers
    PROVE  /\ RoundForward(s, round) \in State
           /\ RoundInverse(RoundForward(s, round), round) = s
<1> DEFINE t   == AddConstants(s, round)
           w1  == Wave(t.w)
           c0  == Collide(t.c, round)
           c1  == KickC(c0, w1, round)
           w2  == KickW(c1, w1)
           tc  == Turn(c1, CRot, round, 3)
           tw  == Turn(w2, WRot, round, 5)
           cp  == CPerm[Schedule(round)]
           wp  == WPerm[Schedule(round)]
           end == [c |-> PermuteWords(tc, cp), w |-> PermuteWords(tw, wp)]
<1>1. t \in State /\ RemoveConstants(t, round) = s
  BY ConstantsInvert
<1>2. t.c \in LaneWords /\ t.w \in LaneWords /\ t = [c |-> t.c, w |-> t.w]
  BY <1>1 DEF State
<1> HIDE DEF t
<1>3. w1 \in LaneWords /\ Unwave(w1) = t.w
  BY <1>2, WavesInvert
<1>4. c0 \in LaneWords /\ Uncollide(c0, round) = t.c
  BY <1>2, CollisionsInvert
<1> HIDE DEF w1, c0
<1>5. c1 \in LaneWords /\ KickC(c1, w1, round) = c0
  BY <1>3, <1>4, KickCInverts
<1> HIDE DEF c1
<1>6. w2 \in LaneWords /\ UnkickW(c1, w2) = w1
  BY <1>3, <1>5, KickWInverts
<1> HIDE DEF w2
<1>7. /\ tc \in LaneWords /\ Unturn(tc, CRot, round, 3) = c1
      /\ tw \in LaneWords /\ Unturn(tw, WRot, round, 5) = w2
  BY <1>5, <1>6, TurnInverts, RotTables
<1> HIDE DEF tc, tw
<1>8. Shuffle(cp) /\ Shuffle(wp)
  BY ScheduleType, PermsShuffle
<1>9. /\ end \in State
      /\ InversePermuteWords(end.c, cp) = tc
      /\ InversePermuteWords(end.w, wp) = tw
  BY <1>7, <1>8, PermuteWordsInverts DEF State
<1>10. RoundForward(s, round) = end
  BY DEF RoundForward, t, w1, c0, c1, w2, tc, tw
<1>11. RoundInverse(end, round)
         = RemoveConstants([c |-> Uncollide(KickC(c1, w1, round), round),
                            w |-> Unwave(w1)], round)
  BY <1>6, <1>7, <1>9 DEF RoundInverse
<1>12. QED
  BY <1>1, <1>2, <1>3, <1>4, <1>5, <1>9, <1>10, <1>11

\* So two states never become the same one (round_forward).
THEOREM RoundsAreOneToOne ==
    ASSUME NEW s \in State, NEW t \in State, NEW round \in RoundNumbers,
           RoundForward(s, round) = RoundForward(t, round)
    PROVE  s = t
<1>1. RoundInverse(RoundForward(s, round), round) = s
  BY RoundInverts
<1>2. RoundInverse(RoundForward(t, round), round) = t
  BY RoundInverts
<1>3. QED
  BY <1>1, <1>2

\* Words of a width are finitely many, so a round reaches every state and the
\* rounds undo each other in both orders: the permutation is one.
THEOREM RoundsPermute ==
    ASSUME IsFiniteSet(State), NEW t \in State, NEW round \in RoundNumbers
    PROVE  /\ RoundInverse(t, round) \in State
           /\ RoundForward(RoundInverse(t, round), round) = t
<1> DEFINE f == [s \in State |-> RoundForward(s, round)]
<1>1. f \in Injection(State, State)
  <2>1. f \in [State -> State]
    BY RoundInverts
  <2>2. \A s, u \in State : f[s] = f[u] => s = u
    BY RoundsAreOneToOne
  <2> QED
    BY <2>1, <2>2 DEF Injection, IsInjective
<1>2. f \in Surjection(State, State)
  BY <1>1, FS_Injection
<1>3. PICK s \in State : RoundForward(s, round) = t
  BY <1>2 DEF Surjection
<1>4. QED
  BY <1>3, RoundInverts

-----------------------------------------------------------------------------
(* All rounds *)

\* A set of numbers with 0, and with every successor, holds all numbers.
LEMMA Numbers ==
    ASSUME NEW S \in SUBSET Nat, 0 \in S, \A n \in S : n + 1 \in S
    PROVE  \A n \in Nat : n \in S
<1> DEFINE T == Nat \ S
<1> SUFFICES ASSUME T # {} PROVE FALSE
  OBVIOUS
<1>1. PICK n \in T : \A m \in T : ~(<<m, n>> \in OpToRel(<, Nat))
  BY NatLessThanWellFounded, WFMin
<1>2. \A m \in T : ~(m < n)
  BY <1>1 DEF OpToRel
<1>3. n \in Nat \ {0}
  BY <1>1
<1>4. n - 1 \in S
  BY <1>2, <1>3
<1>5. (n - 1) + 1 \in S /\ (n - 1) + 1 = n
  BY <1>3, <1>4
<1>6. QED
  BY <1>1, <1>5

\* The states of permute from a state, and of invert back from one.
Forward(f) == \A n \in RoundNumbers : f[n + 1] = RoundForward(f[n], n)
Backward(g) == \A n \in RoundNumbers : g[n] = RoundInverse(g[n + 1], n)

\* invert, from where permute has come, goes back through the same states: what the
\* test permutation_is_invertible finds for 128 states holds for every one.
THEOREM PermutationInverts ==
    ASSUME NEW f, NEW g, f[0] \in State, Forward(f), Backward(g), g[Rounds] = f[Rounds]
    PROVE  \A n \in 0 .. Rounds : f[n] \in State /\ g[n] = f[n]
<1>1. \A n \in 0 .. Rounds : f[n] \in State
  <2> DEFINE S == {n \in Nat : n <= Rounds => f[n] \in State}
  <2>1. 0 \in S
    OBVIOUS
  <2>2. ASSUME NEW n \in S PROVE n + 1 \in S
    <3> SUFFICES ASSUME n + 1 <= Rounds PROVE f[n + 1] \in State
      OBVIOUS
    <3>1. n \in RoundNumbers /\ n <= Rounds
      BY DEF RoundNumbers, Rounds
    <3>2. f[n] \in State
      BY <3>1
    <3> QED
      BY <3>1, <3>2, RoundInverts DEF Forward
  <2> HIDE DEF S
  <2>3. \A n \in Nat : n \in S
    <3>1. S \in SUBSET Nat
      BY DEF S
    <3> QED
      BY <2>1, <2>2, <3>1, Numbers
  <2> QED
    BY <2>3 DEF S, Rounds
<1>2. \A n \in 0 .. Rounds : g[n] = f[n]
  <2> DEFINE S == {n \in Nat : n <= Rounds => g[Rounds - n] = f[Rounds - n]}
  <2>1. 0 \in S
    BY DEF Rounds
  <2>2. ASSUME NEW n \in S PROVE n + 1 \in S
    <3> SUFFICES ASSUME n + 1 <= Rounds
                 PROVE  g[Rounds - (n + 1)] = f[Rounds - (n + 1)]
      OBVIOUS
    <3> DEFINE m == Rounds - (n + 1)
    <3>1. m \in RoundNumbers /\ m + 1 = Rounds - n /\ n <= Rounds /\ m \in 0 .. Rounds
      BY DEF RoundNumbers, Rounds
    <3>2. g[m + 1] = f[m + 1]
      BY <3>1
    <3> HIDE DEF m
    <3>3. g[m] = f[m]
      <4>1. g[m] = RoundInverse(RoundForward(f[m], m), m)
        BY <3>1, <3>2 DEF Forward, Backward
      <4>2. f[m] \in State
        BY <1>1, <3>1
      <4> QED
        BY <3>1, <4>1, <4>2, RoundInverts
    <3> QED
      BY <3>3 DEF m
  <2> HIDE DEF S
  <2>3. \A n \in Nat : n \in S
    <3>1. S \in SUBSET Nat
      BY DEF S
    <3> QED
      BY <2>1, <2>2, <3>1, Numbers
  <2> TAKE n \in 0 .. Rounds
  <2>4. Rounds - n \in Nat /\ Rounds - n <= Rounds /\ Rounds - (Rounds - n) = n
    BY DEF Rounds
  <2> QED
    BY <2>3, <2>4 DEF S
<1>3. QED
  BY <1>1, <1>2

-----------------------------------------------------------------------------
(* Sequences behind each other *)

\* The sequences joined up to each one.
Unfolds(f, s) ==
    f = [n \in 0 .. Len(s) |-> IF n = 0 THEN <<>> ELSE f[n - 1] \o s[n]]

\* The recursion of Joined has a solution, however many sequences there are.
LEMMA JoinedUnfolds ==
    ASSUME NEW s \in Seq(Seq(Word))
    PROVE  \E f : Unfolds(f, s) /\ Joined(s) = f[Len(s)]
<1> DEFINE Part(f, m) == f = [n \in 0 .. m |-> IF n = 0 THEN <<>> ELSE f[n - 1] \o s[n]]
           S == {m \in Nat : \E f : Part(f, m)}
<1>1. 0 \in S
  <2> DEFINE f == [n \in 0 .. 0 |-> <<>>]
  <2>1. f = [n \in 0 .. 0 |-> IF n = 0 THEN <<>> ELSE f[n - 1] \o s[n]]
    OBVIOUS
  <2> QED
    BY <2>1
<1>2. ASSUME NEW m \in S PROVE m + 1 \in S
  <2>1. PICK f : Part(f, m)
    OBVIOUS
  <2> DEFINE g == [n \in 0 .. m + 1 |-> IF n = m + 1 THEN f[m] \o s[m + 1] ELSE f[n]]
  <2>2. ASSUME NEW n \in 0 .. m + 1
        PROVE  g[n] = IF n = 0 THEN <<>> ELSE g[n - 1] \o s[n]
    <3>1. CASE n = m + 1
      <4>1. m \in 0 .. m + 1 /\ m # m + 1 /\ n - 1 = m /\ n # 0
        BY <3>1
      <4>2. g[m] = f[m] /\ g[n] = f[m] \o s[m + 1]
        BY <3>1, <4>1
      <4> QED
        BY <3>1, <4>1, <4>2
    <3>2. CASE n # m + 1
      <4>1. n \in 0 .. m /\ g[n] = f[n] /\ (n # 0 => g[n - 1] = f[n - 1])
        BY <3>2
      <4>2. f[n] = IF n = 0 THEN <<>> ELSE f[n - 1] \o s[n]
        BY <2>1, <4>1
      <4> QED
        BY <4>1, <4>2
    <3> QED
      BY <3>1, <3>2
  <2>3. DOMAIN g = 0 .. m + 1 /\ g = [n \in 0 .. m + 1 |-> g[n]]
    OBVIOUS
  <2> HIDE DEF g
  <2>4. Part(g, m + 1)
    BY <2>2, <2>3
  <2> HIDE DEF Part
  <2>5. m + 1 \in Nat /\ \E h : Part(h, m + 1)
    BY <2>4
  <2> QED
    BY <2>5
<1>3. Len(s) \in Nat
  OBVIOUS
<1>4. \E f : Unfolds(f, s)
  <2> HIDE DEF S
  <2>1. S \in SUBSET Nat /\ \A n \in S : n + 1 \in S
    BY <1>2 DEF S
  <2>2. Len(s) \in S
    BY <1>1, <1>3, <2>1, Numbers
  <2> QED
    BY <2>2 DEF S, Unfolds
<1> DEFINE upTo == CHOOSE f : Unfolds(f, s)
<1>5. Unfolds(upTo, s)
  BY <1>4
<1>6. Joined(s) = upTo[Len(s)]
  BY DEF Joined, Unfolds
<1>7. QED
  BY <1>5, <1>6

\* The recursion, one sequence at a time.
LEMMA UnfoldsStep ==
    ASSUME NEW s \in Seq(Seq(Word)), NEW f, Unfolds(f, s)
    PROVE  /\ f[0] = <<>>
           /\ \A n \in Nat : n + 1 <= Len(s) => f[n + 1] = f[n] \o s[n + 1]
<1> DEFINE e(n) == IF n = 0 THEN <<>> ELSE f[n - 1] \o s[n]
<1>1. f = [n \in 0 .. Len(s) |-> e(n)] /\ Len(s) \in Nat
  <2>1. f = [n \in 0 .. Len(s) |-> e(n)]
    BY Zenon DEF Unfolds
  <2>2. Len(s) \in Nat
    OBVIOUS
  <2> QED
    BY <2>1, <2>2
<1> HIDE DEF e
<1>2. \A n \in 0 .. Len(s) : f[n] = e(n)
  BY <1>1
<1>3. 0 \in 0 .. Len(s) /\ e(0) = <<>>
  BY <1>1 DEF e
<1>4. ASSUME NEW n \in Nat, n + 1 <= Len(s) PROVE f[n + 1] = f[n] \o s[n + 1]
  <2>1. n + 1 \in 0 .. Len(s) /\ n + 1 # 0 /\ (n + 1) - 1 = n
    BY <1>1, <1>4
  <2>2. e(n + 1) = f[n] \o s[n + 1]
    BY <2>1, Zenon DEF e
  <2> QED
    BY <1>2, <2>1, <2>2
<1>5. QED
  BY <1>2, <1>3, <1>4

\* What is joined up to each sequence is a sequence.
LEMMA UnfoldsType ==
    ASSUME NEW s \in Seq(Seq(Word)), NEW f, Unfolds(f, s)
    PROVE  \A n \in 0 .. Len(s) : f[n] \in Seq(Word)
<1> DEFINE S == {n \in Nat : n <= Len(s) => f[n] \in Seq(Word)}
<1>1. Len(s) \in Nat /\ \A n \in 1 .. Len(s) : s[n] \in Seq(Word)
  OBVIOUS
<1>2. 0 \in S
  <2>1. f[0] = <<>>
    BY UnfoldsStep
  <2>2. f[0] \in Seq(Word)
    BY <2>1
  <2> QED
    BY <2>2
<1>3. ASSUME NEW n \in S PROVE n + 1 \in S
  <2>1. CASE n + 1 <= Len(s)
    <3>1. n + 1 \in 1 .. Len(s) /\ n + 1 \in 0 .. Len(s) /\ f[n] \in Seq(Word)
      BY <1>1, <2>1
    <3>2. f[n + 1] = f[n] \o s[n + 1]
      BY <2>1, UnfoldsStep
    <3>3. f[n + 1] \in Seq(Word)
      BY <1>1, <3>1, <3>2, ConcatProperties
    <3> QED
      BY <3>3
  <2> QED
    BY <2>1
<1> HIDE DEF S
<1>4. \A n \in Nat : n \in S
  <2>1. S \in SUBSET Nat /\ \A n \in S : n + 1 \in S
    BY <1>3 DEF S
  <2> QED
    BY <1>2, <2>1, Numbers
<1>5. QED
  BY <1>1, <1>4 DEF S

\* Joining gives a sequence; nothing joined is empty.
LEMMA JoinedType ==
    /\ \A s \in Seq(Seq(Word)) : Joined(s) \in Seq(Word)
    /\ Joined(<<>>) = <<>>
<1>1. ASSUME NEW s \in Seq(Seq(Word)) PROVE Joined(s) \in Seq(Word)
  <2>1. PICK f : Unfolds(f, s) /\ Joined(s) = f[Len(s)]
    BY JoinedUnfolds
  <2>2. Len(s) \in 0 .. Len(s)
    OBVIOUS
  <2> QED
    BY <2>1, <2>2, UnfoldsType
<1>2. Joined(<<>>) = <<>>
  <2>1. <<>> \in Seq(Seq(Word)) /\ Len(<<>>) = 0
    OBVIOUS
  <2>2. PICK f : Unfolds(f, <<>>) /\ Joined(<<>>) = f[0]
    BY <2>1, JoinedUnfolds
  <2>3. 0 \in 0 .. Len(<<>>)
    BY <2>1
  <2> QED
    BY <2>2, <2>3 DEF Unfolds
<1>3. QED
  BY <1>1, <1>2

\* One sequence behind another.
LEMMA Behind ==
    ASSUME NEW u \in Seq(Word), NEW v \in Seq(Word)
    PROVE  /\ u \o v \in Seq(Word) /\ Len(u \o v) = Len(u) + Len(v)
           /\ \A i \in 1 .. Len(u \o v) :
                 (u \o v)[i] = IF i <= Len(u) THEN u[i] ELSE v[i - Len(u)]
BY ConcatProperties

\* Three sequences in a row are one, in whatever order they are joined.
LEMMA Associative ==
    ASSUME NEW u \in Seq(Word), NEW v \in Seq(Word), NEW w \in Seq(Word)
    PROVE  (u \o v) \o w = u \o (v \o w)
<1> DEFINE x == u \o v
           y == v \o w
<1>1. /\ x \in Seq(Word) /\ Len(x) = Len(u) + Len(v)
      /\ \A i \in 1 .. Len(x) : x[i] = IF i <= Len(u) THEN u[i] ELSE v[i - Len(u)]
  BY Behind
<1>2. /\ y \in Seq(Word) /\ Len(y) = Len(v) + Len(w)
      /\ \A i \in 1 .. Len(y) : y[i] = IF i <= Len(v) THEN v[i] ELSE w[i - Len(v)]
  BY Behind
<1> HIDE DEF x, y
<1> DEFINE left == x \o w
           right == u \o y
<1>3. /\ left \in Seq(Word) /\ Len(left) = Len(x) + Len(w)
      /\ \A i \in 1 .. Len(left) : left[i] = IF i <= Len(x) THEN x[i] ELSE w[i - Len(x)]
  BY <1>1, Behind
<1>4. /\ right \in Seq(Word) /\ Len(right) = Len(u) + Len(y)
      /\ \A i \in 1 .. Len(right) : right[i] = IF i <= Len(u) THEN u[i] ELSE y[i - Len(u)]
  BY <1>2, Behind
<1> HIDE DEF left, right
<1>5. Len(u) \in Nat /\ Len(v) \in Nat /\ Len(w) \in Nat
  OBVIOUS
<1>6. Len(left) = Len(right)
  BY <1>1, <1>2, <1>3, <1>4, <1>5
<1>7. ASSUME NEW i \in 1 .. Len(left) PROVE left[i] = right[i]
  <2>1. CASE i <= Len(u)
    <3>1. i \in 1 .. Len(x) /\ i \in 1 .. Len(right) /\ i <= Len(x)
      BY <1>1, <1>2, <1>3, <1>5, <1>6, <2>1
    <3> QED
      BY <1>1, <1>3, <1>4, <2>1, <3>1
  <2>2. CASE i > Len(u) /\ i <= Len(u) + Len(v)
    <3>1. /\ i \in 1 .. Len(x) /\ i - Len(u) \in 1 .. Len(y) /\ i - Len(u) <= Len(v)
          /\ i \in 1 .. Len(right)
      BY <1>1, <1>2, <1>3, <1>4, <1>5, <2>2
    <3> QED
      BY <1>1, <1>2, <1>3, <1>4, <1>5, <2>2, <3>1
  <2>3. CASE i > Len(u) + Len(v)
    <3>1. /\ ~ (i <= Len(x)) /\ i - Len(u) \in 1 .. Len(y) /\ ~ (i - Len(u) <= Len(v))
          /\ i \in 1 .. Len(right) /\ (i - Len(u)) - Len(v) = i - Len(x) /\ ~ (i <= Len(u))
      BY <1>1, <1>2, <1>3, <1>4, <1>5, <2>3
    <3>2. left[i] = w[i - Len(x)]
      BY <1>3, <3>1
    <3>3. right[i] = w[(i - Len(u)) - Len(v)]
      BY <1>2, <1>4, <3>1
    <3> QED
      BY <3>1, <3>2, <3>3
  <2> QED
    BY <1>3, <1>5, <2>1, <2>2, <2>3
<1>8. left = right
  BY <1>3, <1>4, <1>6, <1>7, SeqEqual
<1>9. QED
  BY <1>8 DEF left, right, x, y

\* The first sequence, and then the others joined.
LEMMA JoinedCons ==
    ASSUME NEW s \in Seq(Seq(Word)), s # <<>>
    PROVE  Joined(s) = Head(s) \o Joined(Tail(s))
<1> DEFINE t == Tail(s)
           h == Head(s)
<1>1. /\ t \in Seq(Seq(Word)) /\ h \in Seq(Word) /\ h = s[1] /\ Len(s) \in Nat \ {0}
      /\ Len(t) = Len(s) - 1 /\ \A n \in 1 .. Len(t) : t[n] = s[n + 1] /\ t[n] \in Seq(Word)
  <2>1. /\ t \in Seq(Seq(Word)) /\ h \in Seq(Word) /\ Len(t) = Len(s) - 1
        /\ \A n \in 1 .. Len(t) : t[n] = s[n + 1]
    BY HeadTailProperties
  <2>2. h = s[1] /\ Len(s) \in Nat \ {0}
    OBVIOUS
  <2> QED
    BY <2>1, <2>2
<1>2. PICK f : Unfolds(f, s) /\ Joined(s) = f[Len(s)]
  BY JoinedUnfolds
<1>3. PICK g : Unfolds(g, t) /\ Joined(t) = g[Len(t)]
  BY <1>1, JoinedUnfolds
<1>4. \A n \in 0 .. Len(t) : g[n] \in Seq(Word)
  BY <1>1, <1>3, UnfoldsType
<1> DEFINE S == {n \in Nat : n <= Len(t) => f[n + 1] = h \o g[n]}
<1> HIDE DEF t, h
<1>5. 0 \in S
  <2>1. 0 + 1 <= Len(s)
    BY <1>1
  <2>2. f[0] = <<>> /\ f[0 + 1] = f[0] \o s[0 + 1] /\ g[0] = <<>>
    <3>1. f[0] = <<>> /\ f[0 + 1] = f[0] \o s[0 + 1]
      BY <1>2, <2>1, UnfoldsStep
    <3>2. g[0] = <<>>
      BY <1>1, <1>3, UnfoldsStep
    <3> QED
      BY <3>1, <3>2
  <2>3. <<>> \o h = h /\ h \o <<>> = h
    BY <1>1, ConcatEmptySeq
  <2>4. s[0 + 1] = h
    BY <1>1
  <2>5. f[0 + 1] = h \o g[0]
    BY <2>2, <2>3, <2>4, Zenon
  <2> QED
    BY <2>5
<1>6. ASSUME NEW n \in S PROVE n + 1 \in S
  <2>1. CASE n + 1 <= Len(t)
    <3>1. n \in 0 .. Len(t) /\ n + 1 \in 1 .. Len(t) /\ (n + 1) + 1 \in 1 .. Len(s)
      BY <1>1, <2>1
    <3>2. f[n + 1] = h \o g[n]
      BY <3>1
    <3>3. f[(n + 1) + 1] = f[n + 1] \o s[(n + 1) + 1]
      <4>1. \A m \in Nat : m + 1 <= Len(s) => f[m + 1] = f[m] \o s[m + 1]
        BY <1>2, UnfoldsStep
      <4>2. n + 1 \in Nat /\ (n + 1) + 1 <= Len(s)
        BY <1>1, <3>1
      <4> QED
        BY <4>1, <4>2, Zenon
    <3>4. g[n + 1] = g[n] \o t[n + 1]
      <4>1. \A m \in Nat : m + 1 <= Len(t) => g[m + 1] = g[m] \o t[m + 1]
        BY <1>1, <1>3, UnfoldsStep
      <4>2. n \in Nat /\ n + 1 <= Len(t)
        BY <1>1, <3>1
      <4> QED
        BY <4>1, <4>2, Zenon
    <3>5. g[n] \in Seq(Word) /\ t[n + 1] \in Seq(Word) /\ h \in Seq(Word) /\ t[n + 1] = s[(n + 1) + 1]
      BY <1>1, <1>4, <3>1
    <3>6. (h \o g[n]) \o t[n + 1] = h \o (g[n] \o t[n + 1])
      BY <3>5, Associative
    <3>7. f[(n + 1) + 1] = h \o g[n + 1]
      BY <3>2, <3>3, <3>4, <3>5, <3>6, Zenon
    <3> QED
      BY <3>7
  <2> QED
    BY <2>1
<1> HIDE DEF S
<1>7. Len(t) \in Nat /\ Len(t) + 1 = Len(s)
  BY <1>1
<1>8. Len(t) \in S
  <2>1. S \in SUBSET Nat
    BY DEF S
  <2>2. \A n \in Nat : n \in S
    BY <1>5, <1>6, <2>1, Numbers
  <2> QED
    BY <1>7, <2>2
<1>9. f[Len(s)] = h \o g[Len(t)]
  BY <1>7, <1>8 DEF S
<1>10. QED
  BY <1>2, <1>3, <1>9 DEF h, t

-----------------------------------------------------------------------------
(* The sponge *)

\* A number taken modulo the word size is a word.
LEMMA NumbersAreWords == \A n \in Nat : OfNat(n) \in Word
BY SpongeAssumption DEF OfNat

\* A byte mixed into one lane leaves a block of words.
LEMMA MarkType ==
    ASSUME NEW lanes \in LaneWords, NEW lane, NEW byte \in Word
    PROVE  Mark(lanes, lane, byte) \in LaneWords
BY WordAssumption DEF Mark, LaneWords

\* The state a call of the PRF starts from is a state.
LEMMA StartType == \A c \in Calls : Start(c) \in State
<1> TAKE c \in Calls
<1> DEFINE mixed == [l \in Lanes |-> Add(IV.c[l], Rotl(c.key[l], (l * 9 + 7) % 64))]
           keyed == [l \in Lanes |-> Xor(IV.w[l], c.key[l])]
<1>1. c.key \in LaneWords /\ c.domain \in Word /\ IV.c \in LaneWords /\ IV.w \in LaneWords
      /\ KeySize \in Word
  BY SpongeAssumption DEF State
<1>2. \A l \in Lanes : (l * 9 + 7) % 64 \in Rotations
  <2>1. Lanes = {0, 1, 2, 3, 4, 5}
    BY DEF Lanes
  <2> QED
    BY <2>1 DEF Rotations
<1>3. mixed \in LaneWords /\ keyed \in LaneWords
  <2>1. ASSUME NEW l \in Lanes
        PROVE  /\ Add(IV.c[l], Rotl(c.key[l], (l * 9 + 7) % 64)) \in Word
               /\ Xor(IV.w[l], c.key[l]) \in Word
    <3>1. IV.c[l] \in Word /\ IV.w[l] \in Word /\ c.key[l] \in Word
      BY <1>1 DEF LaneWords
    <3>2. Rotl(c.key[l], (l * 9 + 7) % 64) \in Word
      BY <1>2, <3>1, WordAssumption
    <3> QED
      BY <3>1, <3>2, WordAssumption
  <2> QED
    BY <2>1, Zenon DEF LaneWords
<1> HIDE DEF mixed, keyed
<1>4. /\ [mixed EXCEPT ![0] = Xor(@, c.domain)] \in LaneWords
      /\ [keyed EXCEPT ![5] = Xor(@, KeySize)] \in LaneWords
  BY <1>1, <1>3, WordAssumption DEF LaneWords
<1>5. QED
  BY <1>4 DEF Start, State, mixed, keyed

\* Two words that agree after the same word is added are equal.
LEMMA XorCancels ==
    ASSUME NEW a \in Word, NEW b \in Word, NEW k \in Word, Xor(k, a) = Xor(k, b)
    PROVE  a = b
<1>1. Xor(a, k) = Xor(b, k)
  BY WordAssumption
<1>2. Xor(Xor(a, k), k) = a /\ Xor(Xor(b, k), k) = b
  BY WordAssumption
<1>3. QED
  BY <1>1, <1>2

\* Calls that start alike have the same key and the same domain: the key is
\* added to one half of the state and exclusive-ored into the other, and the
\* domain into a lane of the first (KeyedSponge::new).
THEOREM StartsDiffer ==
    ASSUME NEW c \in Calls, NEW d \in Calls, Start(c) = Start(d)
    PROVE  c.key = d.key /\ c.domain = d.domain
<1> DEFINE mixed(k) == [l \in Lanes |-> Add(IV.c[l], Rotl(k[l], (l * 9 + 7) % 64))]
           keyed(k) == [l \in Lanes |-> Xor(IV.w[l], k[l])]
<1>1. /\ c.key \in LaneWords /\ d.key \in LaneWords /\ c.domain \in Word /\ d.domain \in Word
      /\ IV.c \in LaneWords /\ IV.w \in LaneWords /\ KeySize \in Word
  BY SpongeAssumption DEF State
<1>2. /\ [mixed(c.key) EXCEPT ![0] = Xor(@, c.domain)]
           = [mixed(d.key) EXCEPT ![0] = Xor(@, d.domain)]
      /\ [keyed(c.key) EXCEPT ![5] = Xor(@, KeySize)]
           = [keyed(d.key) EXCEPT ![5] = Xor(@, KeySize)]
  BY DEF Start
<1>3. ASSUME NEW l \in Lanes
      PROVE  c.key[l] = d.key[l]
  <2>1. c.key[l] \in Word /\ d.key[l] \in Word /\ IV.w[l] \in Word
    BY <1>1 DEF LaneWords
  <2>2. Xor(IV.w[l], c.key[l]) \in Word /\ Xor(IV.w[l], d.key[l]) \in Word
    BY <2>1, WordAssumption
  <2>3. Xor(IV.w[l], c.key[l]) = Xor(IV.w[l], d.key[l])
    <3>1. CASE l # 5
      <4>1. [keyed(c.key) EXCEPT ![5] = Xor(@, KeySize)][l] = keyed(c.key)[l]
            /\ [keyed(d.key) EXCEPT ![5] = Xor(@, KeySize)][l] = keyed(d.key)[l]
        BY <3>1
      <4> QED
        BY <1>2, <4>1
    <3>2. CASE l = 5
      <4>1. /\ [keyed(c.key) EXCEPT ![5] = Xor(@, KeySize)][5]
                 = Xor(Xor(IV.w[5], c.key[5]), KeySize)
            /\ [keyed(d.key) EXCEPT ![5] = Xor(@, KeySize)][5]
                 = Xor(Xor(IV.w[5], d.key[5]), KeySize)
        BY DEF Lanes
      <4>2. Xor(Xor(IV.w[5], c.key[5]), KeySize) = Xor(Xor(IV.w[5], d.key[5]), KeySize)
        BY <1>2, <4>1
      <4> QED
        BY <1>1, <2>2, <3>2, <4>2, WordAssumption
    <3> QED
      BY <3>1, <3>2
  <2> QED
    BY <2>1, <2>3, XorCancels
<1>4. c.key = d.key
  BY <1>1, <1>3 DEF LaneWords
<1>5. c.domain = d.domain
  <2>1. mixed(c.key)[0] \in Word
    <3>1. 0 \in Lanes /\ (0 * 9 + 7) % 64 \in Rotations
      BY DEF Lanes, Rotations
    <3>2. IV.c[0] \in Word /\ c.key[0] \in Word
      BY <1>1, <3>1 DEF LaneWords
    <3> QED
      BY <3>1, <3>2, WordAssumption
  <2>2. [mixed(c.key) EXCEPT ![0] = Xor(@, c.domain)][0] = Xor(mixed(c.key)[0], c.domain)
        /\ [mixed(d.key) EXCEPT ![0] = Xor(@, d.domain)][0] = Xor(mixed(d.key)[0], d.domain)
    BY DEF Lanes
  <2>3. Xor(mixed(c.key)[0], c.domain) = Xor(mixed(c.key)[0], d.domain)
    BY <1>2, <1>4, <2>2
  <2> QED
    BY <1>1, <2>1, <2>3, XorCancels
<1>6. QED
  BY <1>4, <1>5

\* The inputs of absorb are sequences of words, two for each part.
LEMMA PartsType ==
    ASSUME NEW parts \in Seq(Seq(Word))
    PROVE  /\ Inputs(parts) \in Seq(Seq(Word)) /\ Len(parts) \in Nat
           /\ Len(Inputs(parts)) = 2 * Len(parts)
           /\ \A i \in 1 .. 2 * Len(parts) :
                 Inputs(parts)[i] = IF i % 2 = 1 THEN <<OfNat(Len(parts[(i + 1) \div 2]))>>
                                                 ELSE parts[i \div 2]
<1>1. Len(parts) \in Nat
  OBVIOUS
<1>2. ASSUME NEW i \in 1 .. 2 * Len(parts)
      PROVE  (IF i % 2 = 1 THEN <<OfNat(Len(parts[(i + 1) \div 2]))>>
              ELSE parts[i \div 2]) \in Seq(Word)
  <2>1. CASE i % 2 = 1
    <3>1. (i + 1) \div 2 \in 1 .. Len(parts)
      BY <1>1, <2>1
    <3>2. Len(parts[(i + 1) \div 2]) \in Nat
      BY <1>1, <3>1
    <3>3. QED
      BY <2>1, <3>2, NumbersAreWords
  <2>2. CASE i % 2 # 1
    <3>1. i \div 2 \in 1 .. Len(parts)
      BY <1>1, <2>2
    <3>2. QED
      BY <1>1, <2>2, <3>1
  <2>3. QED
    BY <2>1, <2>2
<1> DEFINE n == 2 * Len(parts)
           item(i) == IF i % 2 = 1 THEN <<OfNat(Len(parts[(i + 1) \div 2]))>>
                                   ELSE parts[i \div 2]
<1>3. n \in Nat /\ \A i \in 1 .. n : item(i) \in Seq(Word)
  BY <1>1, <1>2
<1>4. Inputs(parts) = [i \in 1 .. n |-> item(i)]
  BY DEF Inputs
<1> HIDE DEF n, item
<1>5. Inputs(parts) \in Seq(Seq(Word)) /\ Len(Inputs(parts)) = n
      /\ \A i \in 1 .. n : Inputs(parts)[i] = item(i)
  BY <1>3, <1>4
<1>6. QED
  BY <1>1, <1>5 DEF n, item

\* The same for the parts of a call.
LEMMA InputsType == \A c \in Calls : Inputs(c.parts) \in Seq(Seq(Word))
<1> TAKE c \in Calls
<1>1. c.parts \in Seq(Seq(Word))
  BY SpongeAssumption
<1>2. QED
  BY <1>1, PartsType

\* The empty block is a block of words.
LEMMA EmptyType == Empty \in LaneWords
BY NumbersAreWords DEF Empty, LaneWords

\* What the history keeps of the permutation under way.
Traced == pc = "permute" /\ turn > 0 => RoundForward(last, turn - 1) = words
IInv == TypeOK /\ Traced

\* The sponge starts with the invariant true.
LEMMA InitInv == Init => IInv
<1> SUFFICES ASSUME Init PROVE IInv
  OBVIOUS
<1>1. call \in Calls /\ call.length \in Nat
  BY SpongeAssumption DEF Init
<1>2. inputs \in Seq(Seq(Word)) /\ words \in State /\ last \in State /\ buffer \in LaneWords
  BY <1>1, StartType, InputsType, EmptyType DEF Init
<1>3. TypeOK
  BY <1>1, <1>2 DEF Init, TypeOK, Rate, Rounds
<1>4. QED
  BY <1>3 DEF IInv, Traced, Init

\* A block handed to the permutation leaves every variable in its type.
LEMMA CommitBlockType ==
    ASSUME TypeOK, NEW full \in LaneWords, NEW next \in {"absorb", "finish", "squeeze"},
           CommitBlock(full, next)
    PROVE  /\ words' \in State /\ last' \in State /\ blocks' \in Seq(LaneWords)
           /\ buffer' \in LaneWords /\ position' \in 0 .. Rate - 1
           /\ pc' = "permute" /\ then' = next /\ turn' = 0
<1>1. [l \in Lanes |-> Xor(words.c[l], full[l])] \in LaneWords
  BY WordAssumption DEF TypeOK, State, LaneWords
<1>2. words' \in State
  BY <1>1 DEF CommitBlock, TypeOK, State
<1>3. blocks' \in Seq(LaneWords)
  BY DEF CommitBlock, TypeOK
<1>4. QED
  BY <1>2, <1>3, EmptyType DEF CommitBlock, Permute, Rate

\* One round of the permutation keeps the invariant.
LEMMA PermuteRoundInv == IInv /\ PermuteRound => IInv'
<1> SUFFICES ASSUME IInv, PermuteRound PROVE IInv'
  OBVIOUS
<1>1. words \in State /\ turn \in RoundNumbers
  BY DEF IInv, TypeOK, PermuteRound, RoundNumbers, Rounds
<1>2. words' \in State /\ words' = RoundForward(last', turn' - 1) /\ turn' \in 0 .. Rounds
  BY <1>1, RoundInverts DEF PermuteRound, RoundNumbers, Rounds
<1>3. TypeOK'
  BY <1>1, <1>2 DEF PermuteRound, IInv, TypeOK
<1>4. QED
  BY <1>2, <1>3 DEF IInv, Traced

\* Absorbing a slice of an input keeps the invariant.
LEMMA AbsorbInv == IInv /\ Absorb => IInv'
<1> SUFFICES ASSUME IInv, Absorb PROVE IInv'
  OBVIOUS
<1> DEFINE input == Head(inputs)
           take == IF Len(input) < Rate - position THEN Len(input) ELSE Rate - position
<1>1. /\ inputs \in Seq(Seq(Word)) /\ input \in Seq(Word) /\ Tail(inputs) \in Seq(Seq(Word))
      /\ input # <<>> /\ Len(input) \in Nat \ {0}
  <2>1. inputs \in Seq(Seq(Word)) /\ inputs # <<>> /\ input # <<>>
    BY DEF IInv, TypeOK, Absorb
  <2> QED
    BY <2>1
<1>2. position \in 0 .. 5 /\ take \in 1 .. Len(input) /\ position + take \in 1 .. 6
  <2>1. position \in 0 .. 5
    BY DEF IInv, TypeOK, Rate
  <2> DEFINE n == Len(input)
  <2>2. n \in Nat \ {0}
    BY <1>1
  <2> HIDE DEF n
  <2>3. LET t == IF n < 6 - position THEN n ELSE 6 - position
        IN  t \in 1 .. n /\ position + t \in 1 .. 6
    BY <2>1, <2>2
  <2> QED
    BY <2>1, <2>3 DEF Rate, n
<1> HIDE DEF take
<1>3. Filled(input, take) \in LaneWords
  BY <1>1, <1>2, SMTT(30) DEF Filled, IInv, TypeOK, LaneWords
<1>4. SubSeq(input, take + 1, Len(input)) \in Seq(Word)
  BY <1>1, <1>2
<1> HIDE DEF input
<1>5. inputs' \in Seq(Seq(Word))
  <2>1. <<SubSeq(input, take + 1, Len(input))>> \in Seq(Seq(Word))
    BY <1>4
  <2> QED
    BY <1>1, <2>1 DEF Absorb, input, take
<1>6. absorbed' \in Nat
  <2>1. absorbed' = absorbed + take
    BY DEF Absorb, input, take
  <2> QED
    BY <1>2, <2>1 DEF IInv, TypeOK
<1>7. CASE position + take = Rate
  <2>1. CommitBlock(Filled(input, take), "absorb")
    BY <1>7 DEF Absorb, input, take
  <2>2. UNCHANGED <<call, output, counter>>
    BY DEF Absorb
  <2> QED
    BY <1>3, <1>5, <1>6, <2>1, <2>2, CommitBlockType DEF IInv, TypeOK, Traced, Rounds
<1>8. CASE position + take # Rate
  <2>1. /\ buffer' = Filled(input, take) /\ position' = position + take
        /\ UNCHANGED <<words, blocks, pc, then, turn, last, call, output, counter>>
    BY <1>8 DEF Absorb, input, take
  <2> QED
    BY <1>2, <1>3, <1>5, <1>6, <1>8, <2>1 DEF IInv, TypeOK, Traced, Rate
<1>9. QED
  BY <1>7, <1>8

\* Padding the last block keeps the invariant.
LEMMA PadBlockInv == IInv /\ PadBlock => IInv'
<1> SUFFICES ASSUME IInv, PadBlock PROVE IInv'
  OBVIOUS
<1> DEFINE full == Mark(Mark(buffer, position, Pad), Rate - 1, LastBit)
<1>1. full \in LaneWords
  BY MarkType, SpongeAssumption DEF IInv, TypeOK
<1>2. CommitBlock(full, "finish") /\ UNCHANGED <<call, inputs, absorbed, output, counter>>
  BY DEF PadBlock
<1> HIDE DEF full
<1>3. QED
  BY <1>1, <1>2, CommitBlockType DEF IInv, TypeOK, Traced, Rounds

\* Ending the absorption keeps the invariant.
LEMMA FinishInv == IInv /\ Finish => IInv'
<1> SUFFICES ASSUME IInv, Finish PROVE IInv'
  OBVIOUS
<1>1. words.c \in LaneWords /\ words.w \in LaneWords /\ call.key \in LaneWords
      /\ OfNat(absorbed) \in Word /\ OfNat(call.length) \in Word /\ Final \in Word
  BY NumbersAreWords, SpongeAssumption DEF IInv, TypeOK, State
<1>2. [l \in Lanes |-> Xor(words.w[l], call.key[l])] \in LaneWords
  BY <1>1, WordAssumption DEF LaneWords
<1>3. words' \in State
  BY <1>1, <1>2, MarkType DEF Finish, State
<1>4. QED
  BY <1>3 DEF Finish, Permute, IInv, TypeOK, Traced, Rounds

\* Squeezing words of output keeps the invariant.
LEMMA SqueezeInv == IInv /\ Squeeze => IInv'
<1> SUFFICES ASSUME IInv, Squeeze PROVE IInv'
  OBVIOUS
<1> DEFINE left == call.length - Len(output)
           take == IF left < Rate THEN left ELSE Rate
           out == [i \in 1 .. take |-> words.c[i - 1]]
<1> HIDE DEF take
<1>1. take \in Int /\ take <= 6 /\ words.c \in LaneWords /\ words.w \in LaneWords
  BY SpongeAssumption DEF IInv, TypeOK, State, Rate, take
<1>2. out \in Seq(Word)
  <2> DEFINE size == IF take < 0 THEN 0 ELSE take
  <2>1. size \in Nat /\ 1 .. take = 1 .. size
    BY <1>1
  <2>2. \A i \in 1 .. size : words.c[i - 1] \in Word
    BY <1>1, <2>1 DEF LaneWords, Lanes
  <2> HIDE DEF size
  <2>3. [i \in 1 .. size |-> words.c[i - 1]] \in Seq(Word)
    BY <2>1, <2>2
  <2>4. out = [i \in 1 .. size |-> words.c[i - 1]]
    BY <2>1
  <2> QED
    BY <2>3, <2>4
<1> HIDE DEF out
<1>3. output' \in Seq(Word)
  BY <1>2 DEF Squeeze, IInv, TypeOK, out, take
<1>4. CASE take < left
  <2>1. counter' = counter + 1 /\ Permute("squeeze")
        /\ words' = [words EXCEPT !.w = [words.w EXCEPT ![4] = Xor(@, OfNat(counter')), ![5] = Add(@, Golden)]]
    BY <1>4 DEF Squeeze, take
  <2>2. counter' \in Nat /\ OfNat(counter') \in Word /\ Golden \in Word
    <3>1. counter' \in Nat
      BY <2>1 DEF IInv, TypeOK
    <3> QED
      BY <3>1, NumbersAreWords, SpongeAssumption
  <2>3. [words.w EXCEPT ![4] = Xor(@, OfNat(counter')), ![5] = Add(@, Golden)] \in LaneWords
    BY <1>1, <2>2, WordAssumption DEF LaneWords
  <2> DEFINE w == [words.w EXCEPT ![4] = Xor(@, OfNat(counter')), ![5] = Add(@, Golden)]
  <2>4. words' = [words EXCEPT !.w = w]
    BY <2>1
  <2> HIDE DEF w
  <2>5. words' \in State
    <3>1. w \in LaneWords
      BY <2>3 DEF w
    <3> QED
      BY <2>4, <3>1 DEF IInv, TypeOK, State
  <2> QED
    BY <1>3, <2>1, <2>2, <2>5 DEF Squeeze, Permute, IInv, TypeOK, Traced, Rounds
<1>5. CASE ~(take < left)
  <2>1. pc' = "done" /\ UNCHANGED <<counter, words, then, turn, last>>
    BY <1>5 DEF Squeeze, take
  <2> QED
    BY <1>3, <2>1 DEF Squeeze, IInv, TypeOK, Traced
<1>6. QED
  BY <1>4, <1>5

\* Every step keeps the invariant.
LEMMA NextInv == IInv /\ [Next]_vars => IInv'
<1> SUFFICES ASSUME IInv, [Next]_vars PROVE IInv'
  OBVIOUS
<1>1. CASE NextInput
  <2>1. inputs' \in Seq(Seq(Word))
    BY <1>1 DEF NextInput, IInv, TypeOK
  <2> QED
    BY <1>1, <2>1 DEF NextInput, IInv, TypeOK, Traced
<1>2. CASE UNCHANGED vars
  BY <1>2 DEF vars, IInv, TypeOK, Traced
<1>3. QED
  BY <1>1, <1>2, PermuteRoundInv, AbsorbInv, PadBlockInv, FinishInv, SqueezeInv
     DEF Next, Return

\* The sponge's state is well-typed through absorb, finalize and squeeze.
THEOREM TypeCorrect == Spec => []TypeOK
<1>1. IInv => TypeOK
  BY DEF IInv
<1>2. QED
  BY <1>1, InitInv, NextInv, PTL DEF Spec

\* The inverse round leads back from every state the sponge is permuted into.
THEOREM NothingIsLost == Spec => []RoundsInvert
<1>1. IInv => RoundsInvert
  <2> SUFFICES ASSUME IInv, pc = "permute", turn > 0
               PROVE  RoundInverse(words, turn - 1) = last
    BY DEF RoundsInvert
  <2>1. last \in State /\ turn - 1 \in RoundNumbers /\ RoundForward(last, turn - 1) = words
    BY DEF IInv, TypeOK, Traced, RoundNumbers, Rounds
  <2> QED
    BY <2>1, RoundInverts
<1>2. QED
  BY <1>1, InitInv, NextInv, PTL DEF Spec

-----------------------------------------------------------------------------
(* What is absorbed *)

Meant == Joined(Inputs(call.parts))
Left == Joined(inputs)
Absorbing == pc = "absorb" \/ (pc = "permute" /\ then = "absorb")

\* What is still to be absorbed is the end of what is meant.
Ordered ==
    /\ absorbed + Len(Left) = Len(Meant)
    /\ \A i \in 1 .. Len(Left) : Left[i] = Meant[absorbed + i]

\* Until the padding, blocks and buffer are the beginning of it.
Collected ==
    /\ absorbed = 6 * Len(blocks) + position
    /\ \A k \in 1 .. Len(blocks), l \in Lanes : blocks[k][l] = Meant[6 * (k - 1) + l + 1]
    /\ \A l \in Lanes :
          buffer[l] = IF l < position THEN Meant[6 * Len(blocks) + l + 1] ELSE OfNat(0)

\* After it, the blocks are all of it, with the padding.
Complete ==
    /\ inputs = <<>>
    /\ 6 * Len(blocks) = Len(Padded(call))
    /\ \A k \in 1 .. Len(blocks), l \in Lanes :
          blocks[k][l] = Padded(call)[6 * (k - 1) + l + 1]

BInv ==
    /\ IInv /\ Ordered
    /\ IF Absorbing THEN Collected ELSE Complete

\* Both sequences are sequences.
LEMMA MeantType ==
    ASSUME TypeOK
    PROVE  /\ Meant \in Seq(Word) /\ Left \in Seq(Word)
           /\ Len(Meant) \in Nat /\ Len(Left) \in Nat
<1>1. Inputs(call.parts) \in Seq(Seq(Word)) /\ inputs \in Seq(Seq(Word))
  BY InputsType DEF TypeOK
<1>2. Meant \in Seq(Word) /\ Left \in Seq(Word)
  BY <1>1, JoinedType DEF Meant, Left
<1>3. QED
  BY <1>2

\* At the start everything is still to come.
LEMMA InitBlocks == Init => BInv
<1> SUFFICES ASSUME Init PROVE BInv
  OBVIOUS
<1>1. IInv
  BY InitInv
<1>2. inputs = Inputs(call.parts) /\ Left = Meant
  BY DEF Init, Left, Meant
<1>3. Len(Meant) \in Nat /\ absorbed = 0
  BY <1>1, MeantType DEF IInv, Init
<1>4. Ordered
  BY <1>2, <1>3 DEF Ordered
<1>5. Absorbing /\ blocks = <<>> /\ position = 0 /\ buffer = Empty
  BY DEF Init, Absorbing
<1>6. Collected
  BY <1>3, <1>5 DEF Collected, Empty
<1>7. QED
  BY <1>1, <1>4, <1>5, <1>6 DEF BInv

\* Padded in terms of what is meant.
LEMMA PaddedBytes ==
    ASSUME NEW c \in Calls
    PROVE  LET input == Joined(Inputs(c.parts))
               size  == 6 * (Len(input) \div 6 + 1)
           IN  /\ Padded(c) \in Seq(Word) /\ Len(Padded(c)) = size /\ size \in Nat
               /\ Len(input) \in Nat /\ Len(input) < size /\ size <= Len(input) + 6
               /\ \A i \in 1 .. Len(input) : i < size /\ Padded(c)[i] = input[i]
               /\ \A i \in Len(input) + 1 .. size :
                     Padded(c)[i] = LET byte == IF i = Len(input) + 1 THEN Xor(OfNat(0), Pad)
                                                                      ELSE OfNat(0)
                                    IN  IF i = size THEN Xor(byte, LastBit) ELSE byte
<1> DEFINE input == Joined(Inputs(c.parts))
           size  == ((Len(input) \div Rate) + 1) * Rate
           byte(i) == IF i <= Len(input) THEN input[i]
                      ELSE IF i = Len(input) + 1 THEN Xor(OfNat(0), Pad) ELSE OfNat(0)
           full(i) == IF i = size THEN Xor(byte(i), LastBit) ELSE byte(i)
<1>1. input \in Seq(Word) /\ Len(input) \in Nat
  <2>1. input \in Seq(Word)
    BY InputsType, JoinedType
  <2> QED
    BY <2>1
<1>2. Padded(c) = [i \in 1 .. size |-> full(i)]
  BY DEF Padded
<1>3. /\ size = 6 * (Len(input) \div 6 + 1) /\ size \in Nat
      /\ Len(input) < size /\ size <= Len(input) + 6
  <2> DEFINE n == Len(input)
  <2>1. n \in Nat
    BY <1>1
  <2> HIDE DEF n
  <2>2. /\ (n \div 6 + 1) * 6 = 6 * (n \div 6 + 1) /\ 6 * (n \div 6 + 1) \in Nat
        /\ n < 6 * (n \div 6 + 1) /\ 6 * (n \div 6 + 1) <= n + 6
    BY <2>1
  <2> QED
    BY <2>2 DEF n, Rate
<1>4. OfNat(0) \in Word /\ Xor(OfNat(0), Pad) \in Word
  BY NumbersAreWords, SpongeAssumption, WordAssumption
<1> HIDE DEF input, size
<1>5. \A i \in 1 .. size : full(i) \in Word
  <2> SUFFICES ASSUME NEW i \in 1 .. size PROVE full(i) \in Word
    OBVIOUS
  <2>1. i <= Len(input) => input[i] \in Word
    BY <1>1, <1>3
  <2>2. byte(i) \in Word
    BY <1>4, <2>1
  <2> QED
    BY <2>2, SpongeAssumption, WordAssumption
<1>6. Padded(c) \in Seq(Word) /\ Len(Padded(c)) = size /\ \A i \in 1 .. size : Padded(c)[i] = full(i)
  <2> HIDE DEF full
  <2> QED
    BY <1>2, <1>3, <1>5
<1>7. \A i \in 1 .. Len(input) : i < size /\ Padded(c)[i] = input[i]
  BY <1>1, <1>3, <1>6
<1>8. \A i \in Len(input) + 1 .. size :
         Padded(c)[i] = LET b == IF i = Len(input) + 1 THEN Xor(OfNat(0), Pad) ELSE OfNat(0)
                        IN  IF i = size THEN Xor(b, LastBit) ELSE b
  BY <1>1, <1>3, <1>6
<1>9. QED
  BY <1>1, <1>3, <1>6, <1>7, <1>8 DEF input, size

\* A step that leaves the blocks and the inputs alone keeps them in order.
LEMMA BlocksStay ==
    ASSUME BInv, IInv', UNCHANGED <<call, inputs, absorbed, blocks>>,
           Absorbing => Absorbing' /\ UNCHANGED <<buffer, position>>,
           ~Absorbing => ~Absorbing'
    PROVE  BInv'
<1>1. Meant' = Meant /\ Left' = Left /\ Padded(call)' = Padded(call)
  BY DEF Meant, Left
<1>2. Ordered'
  BY <1>1 DEF BInv, Ordered
<1>3. CASE Absorbing
  BY <1>1, <1>2, <1>3 DEF BInv, Collected
<1>4. CASE ~Absorbing
  BY <1>1, <1>2, <1>4 DEF BInv, Complete
<1>5. QED
  BY <1>3, <1>4

\* The next input is begun when the last one is used up.
LEMMA NextInputBlocks == BInv /\ NextInput => BInv'
<1> SUFFICES ASSUME BInv, NextInput PROVE BInv'
  OBVIOUS
<1>1. IInv'
  BY NextInv DEF BInv, Next
<1>2. inputs \in Seq(Seq(Word)) /\ inputs # <<>> /\ Head(inputs) = <<>>
      /\ Tail(inputs) \in Seq(Seq(Word))
  <2>1. inputs \in Seq(Seq(Word)) /\ inputs # <<>> /\ Head(inputs) = <<>>
    BY DEF NextInput, BInv, IInv, TypeOK
  <2> QED
    BY <2>1
<1>3. Joined(inputs) = Joined(Tail(inputs))
  <2>1. Joined(inputs) = <<>> \o Joined(Tail(inputs))
    BY <1>2, JoinedCons
  <2>2. Joined(Tail(inputs)) \in Seq(Word)
    BY <1>2, JoinedType
  <2> QED
    BY <2>1, <2>2, ConcatEmptySeq
<1>4. Left' = Left /\ Meant' = Meant
  BY <1>3 DEF NextInput, Left, Meant
<1>5. Ordered'
  BY <1>4 DEF BInv, Ordered, NextInput
<1>6. Absorbing /\ Absorbing'
  BY DEF NextInput, Absorbing
<1>7. Collected'
  BY <1>4, <1>6 DEF BInv, Collected, NextInput
<1>8. QED
  BY <1>1, <1>5, <1>6, <1>7 DEF BInv

\* The rest of the first sequence, and the others.
LEMMA RestFirst ==
    ASSUME NEW s \in Seq(Seq(Word)), s # <<>>, NEW r \in Seq(Word)
    PROVE  LET n == <<r>> \o Tail(s)
           IN  n \in Seq(Seq(Word)) /\ n # <<>> /\ Head(n) = r /\ Tail(n) = Tail(s)
<1> DEFINE t == Tail(s)
           n == <<r>> \o t
<1>1. t \in Seq(Seq(Word)) /\ Len(t) \in Nat
  <2>1. t \in Seq(Seq(Word))
    OBVIOUS
  <2> QED
    BY <2>1
<1> HIDE DEF t
<1>2. <<r>> \in Seq(Seq(Word)) /\ Len(<<r>>) = 1 /\ <<r>>[1] = r
  OBVIOUS
<1>3. /\ n \in Seq(Seq(Word)) /\ Len(n) = 1 + Len(t) /\ n[1] = r
      /\ \A i \in 1 .. Len(t) : n[1 + i] = t[i]
  BY <1>1, <1>2
<1> HIDE DEF n
<1>4. n # <<>> /\ Head(n) = r /\ Tail(n) \in Seq(Seq(Word)) /\ Len(Tail(n)) = Len(t)
      /\ \A i \in 1 .. Len(t) : Tail(n)[i] = t[i]
  BY <1>1, <1>3
<1>5. Tail(n) = t
  BY <1>1, <1>4, SeqEqual
<1>6. QED
  BY <1>3, <1>4, <1>5 DEF n, t

\* One turn of the loop of absorb takes the next bytes in order.
LEMMA AbsorbBlocks == BInv /\ Absorb => BInv'
<1> SUFFICES ASSUME BInv, Absorb PROVE BInv'
  OBVIOUS
<1> DEFINE input == Head(inputs)
           take == IF Len(input) < Rate - position THEN Len(input) ELSE Rate - position
           rest == SubSeq(input, take + 1, Len(input))
           others == Joined(Tail(inputs))
<1>1. IInv' /\ TypeOK
  BY NextInv DEF BInv, IInv, Next
<1>2. /\ inputs \in Seq(Seq(Word)) /\ inputs # <<>> /\ input \in Seq(Word)
      /\ Tail(inputs) \in Seq(Seq(Word)) /\ Len(input) \in Nat \ {0}
  <2>1. inputs \in Seq(Seq(Word)) /\ inputs # <<>> /\ input # <<>>
    BY DEF BInv, IInv, TypeOK, Absorb
  <2> QED
    BY <2>1
<1>3. /\ position \in 0 .. 5 /\ take \in 1 .. Len(input) /\ position + take \in 1 .. 6
      /\ absorbed \in Nat /\ blocks \in Seq(LaneWords) /\ Len(blocks) \in Nat
  <2>1. position \in 0 .. 5 /\ absorbed \in Nat /\ blocks \in Seq(LaneWords)
    BY DEF BInv, IInv, TypeOK, Rate
  <2> DEFINE n == Len(input)
  <2>2. n \in Nat \ {0}
    BY <1>2
  <2> HIDE DEF n
  <2>3. LET t == IF n < 6 - position THEN n ELSE 6 - position
        IN  t \in 1 .. n /\ position + t \in 1 .. 6
    BY <2>1, <2>2
  <2> QED
    BY <2>1, <2>3 DEF Rate, n
<1>4. /\ rest \in Seq(Word) /\ Len(rest) = Len(input) - take
      /\ \A i \in 1 .. Len(rest) : rest[i] = input[take + i]
  <2> HIDE DEF input, take
  <2> QED
    BY <1>2, <1>3
<1>5. others \in Seq(Word) /\ Len(others) \in Nat
  <2>1. others \in Seq(Word)
    BY <1>2, JoinedType
  <2> QED
    BY <2>1
<1>6. /\ Len(Left) = Len(input) + Len(others)
      /\ \A i \in 1 .. Len(input) : Left[i] = input[i]
      /\ \A i \in 1 .. Len(others) : Left[Len(input) + i] = others[i]
  <2>1. Left = input \o others
    BY <1>2, JoinedCons DEF Left
  <2> QED
    BY <1>2, <1>5, <2>1
<1>7. /\ inputs' = <<rest>> \o Tail(inputs) /\ absorbed' = absorbed + take
      /\ call' = call
  BY DEF Absorb
<1>8. inputs' \in Seq(Seq(Word)) /\ inputs' # <<>> /\ Head(inputs') = rest
      /\ Tail(inputs') = Tail(inputs)
  BY <1>2, <1>4, <1>7, RestFirst
<1>9. /\ Len(Left') = Len(rest) + Len(others)
      /\ \A i \in 1 .. Len(rest) : Left'[i] = rest[i]
      /\ \A i \in 1 .. Len(others) : Left'[Len(rest) + i] = others[i]
  <2>1. Left' = rest \o others
    BY <1>8, JoinedCons DEF Left
  <2> HIDE DEF rest, others
  <2>2. rest \in Seq(Word) /\ others \in Seq(Word)
    BY <1>4, <1>5
  <2> QED
    BY <2>1, <2>2, ConcatProperties
<1>10. Meant' = Meant /\ Len(Meant) \in Nat
  BY <1>1, <1>7, MeantType DEF Meant
<1> HIDE DEF input, take, rest, others
<1>11. Ordered'
  <2>1. absorbed' + Len(Left') = Len(Meant')
    <3>1. absorbed + Len(Left) = Len(Meant)
      BY DEF BInv, Ordered
    <3>2. /\ Len(Left) = Len(input) + Len(others) /\ Len(Left') = Len(rest) + Len(others)
          /\ Len(rest) = Len(input) - take /\ absorbed' = absorbed + take
          /\ take \in 1 .. Len(input) /\ Len(input) \in Nat /\ Len(others) \in Nat
          /\ absorbed \in Nat
      BY <1>2, <1>3, <1>4, <1>5, <1>6, <1>7, <1>9
    <3> QED
      BY <1>10, <3>1, <3>2
  <2>2. ASSUME NEW i \in 1 .. Len(Left')
        PROVE  Left'[i] = Meant[absorbed' + i]
    <3>1. take + i \in 1 .. Len(Left) /\ absorbed + (take + i) = absorbed' + i
      BY <1>2, <1>3, <1>4, <1>5, <1>6, <1>7, <1>9
    <3>2. Left[take + i] = Meant[absorbed' + i]
      BY <3>1 DEF BInv, Ordered
    <3>3. CASE i <= Len(rest)
      <4>1. i \in 1 .. Len(rest) /\ take + i \in 1 .. Len(input)
        BY <1>2, <1>3, <1>4, <3>3
      <4>2. Left'[i] = rest[i] /\ rest[i] = input[take + i] /\ Left[take + i] = input[take + i]
        BY <1>4, <1>6, <1>9, <4>1
      <4> QED
        BY <3>2, <4>2
    <3>4. CASE i > Len(rest)
      <4> DEFINE o == i - Len(rest)
      <4>1. o \in 1 .. Len(others) /\ i = Len(rest) + o /\ take + i = Len(input) + o
        BY <1>2, <1>3, <1>4, <1>5, <1>9, <3>4
      <4> HIDE DEF o
      <4>2. Left'[Len(rest) + o] = others[o] /\ Left[Len(input) + o] = others[o]
        BY <1>6, <1>9, <4>1
      <4> QED
        BY <3>2, <4>1, <4>2
    <3> QED
      BY <1>2, <1>3, <1>4, <3>3, <3>4
  <2> QED
    BY <1>10, <2>1, <2>2 DEF Ordered
<1>12. Absorbing /\ Collected
  BY DEF Absorb, Absorbing, BInv
<1> DEFINE full == Filled(input, take)
<1>13. /\ \A l \in Lanes : l < position + take => full[l] = Meant[6 * Len(blocks) + l + 1]
       /\ \A l \in Lanes : l >= position + take => full[l] = OfNat(0)
  <2> SUFFICES ASSUME NEW l \in Lanes
               PROVE  full[l] = IF l < position + take THEN Meant[6 * Len(blocks) + l + 1]
                                                       ELSE OfNat(0)
    BY <1>3
  <2>1. full[l] = IF l \in position .. position + take - 1 THEN input[l - position + 1]
                                                           ELSE buffer[l]
    BY DEF Filled
  <2>2. CASE l < position
    <3>1. l < position + take /\ l \notin position .. position + take - 1
      BY <1>3, <2>2
    <3>2. buffer[l] = Meant[6 * Len(blocks) + l + 1]
      BY <1>12, <2>2 DEF Collected
    <3> QED
      BY <2>1, <3>1, <3>2
  <2>3. CASE l >= position + take
    <3>1. ~(l < position + take) /\ ~(l < position) /\ l \notin position .. position + take - 1
      BY <1>3, <2>3
    <3>2. buffer[l] = OfNat(0)
      BY <1>12, <3>1 DEF Collected
    <3> QED
      BY <2>1, <3>1, <3>2
  <2>4. CASE l \in position .. position + take - 1
    <3>1. l - position + 1 \in 1 .. Len(input)
      BY <1>2, <1>3, <2>4
    <3>2. /\ Left[l - position + 1] = input[l - position + 1]
          /\ l - position + 1 \in 1 .. Len(Left)
      BY <1>2, <1>5, <1>6, <3>1
    <3>3. Left[l - position + 1] = Meant[absorbed + (l - position + 1)]
      BY <3>2 DEF BInv, Ordered
    <3>4. absorbed + (l - position + 1) = 6 * Len(blocks) + l + 1
      <4>1. absorbed = 6 * Len(blocks) + position
        BY <1>12 DEF Collected
      <4> QED
        BY <1>3, <4>1
    <3> QED
      BY <1>3, <2>1, <2>4, <3>2, <3>3, <3>4
  <2> QED
    BY <1>3, <2>2, <2>3, <2>4
<1> HIDE DEF full
<1>14. CASE position + take = Rate
  <2>1. CommitBlock(full, "absorb")
    BY <1>14 DEF Absorb, input, take, full
  <2>2. /\ blocks' = Append(blocks, full) /\ position' = 0 /\ buffer' = Empty
        /\ pc' = "permute" /\ then' = "absorb"
    BY <2>1 DEF CommitBlock, Permute
  <2>3. /\ Len(blocks') = Len(blocks) + 1 /\ blocks'[Len(blocks) + 1] = full
        /\ \A k \in 1 .. Len(blocks) : blocks'[k] = blocks[k]
    BY <1>3, <2>2
  <2>4. absorbed' = 6 * Len(blocks') + position'
    <3>1. absorbed = 6 * Len(blocks) + position /\ position + take = 6
      BY <1>12, <1>14 DEF Collected, Rate
    <3>2. take \in Nat /\ position \in Nat /\ Len(blocks) \in Nat
      BY <1>3, <3>1
    <3>3. absorbed' = absorbed + take /\ position' = 0 /\ Len(blocks') = Len(blocks) + 1
      BY <1>7, <2>2, <2>3
    <3> QED
      BY <3>1, <3>2, <3>3
  <2>5. ASSUME NEW k \in 1 .. Len(blocks'), NEW l \in Lanes
        PROVE  blocks'[k][l] = Meant[6 * (k - 1) + l + 1]
    <3>1. CASE k = Len(blocks) + 1
      <4>1. l < position + take /\ k - 1 = Len(blocks)
        BY <1>3, <1>14, <3>1 DEF Rate
      <4> QED
        BY <1>13, <2>3, <3>1, <4>1
    <3>2. CASE k # Len(blocks) + 1
      <4>1. k \in 1 .. Len(blocks)
        BY <1>3, <2>3, <3>2
      <4> QED
        BY <1>12, <2>3, <4>1 DEF Collected
    <3> QED
      BY <3>1, <3>2
  <2>6. \A l \in Lanes : ~(l < position') /\ buffer'[l] = OfNat(0)
    BY <2>2 DEF Empty
  <2>7. Collected'
    BY <1>10, <2>4, <2>5, <2>6 DEF Collected
  <2> QED
    BY <1>1, <1>11, <2>2, <2>7 DEF BInv, Absorbing
<1>15. CASE position + take # Rate
  <2>1. buffer' = full /\ position' = position + take /\ UNCHANGED <<blocks, pc, then>>
    BY <1>15 DEF Absorb, input, take, full
  <2>2. absorbed' = 6 * Len(blocks') + position'
    <3>1. absorbed = 6 * Len(blocks) + position
      BY <1>12 DEF Collected
    <3> QED
      BY <1>3, <1>7, <2>1, <3>1
  <2>3. \A l \in Lanes :
           buffer'[l] = IF l < position' THEN Meant[6 * Len(blocks) + l + 1] ELSE OfNat(0)
    <3> TAKE l \in Lanes
    <3>1. l < position + take \/ l >= position + take
      BY <1>3
    <3> QED
      BY <1>13, <2>1, <3>1
  <2>4. Collected'
    BY <1>10, <1>12, <2>1, <2>2, <2>3 DEF Collected
  <2> QED
    BY <1>1, <1>11, <1>12, <2>1, <2>4 DEF BInv, Absorbing
<1>16. QED
  BY <1>14, <1>15

\* The padding closes the last block.
LEMMA PadBlocks == BInv /\ PadBlock => BInv'
<1> SUFFICES ASSUME BInv, PadBlock PROVE BInv'
  OBVIOUS
<1> DEFINE once == Mark(buffer, position, Pad)
           full == Mark(once, Rate - 1, LastBit)
           bytes == Padded(call)
<1>1. IInv' /\ TypeOK /\ call \in Calls
  BY NextInv DEF BInv, IInv, Next, TypeOK
<1>2. Absorbing /\ Collected /\ inputs = <<>>
  BY DEF PadBlock, Absorbing, BInv
<1>3. /\ position \in 0 .. 5 /\ blocks \in Seq(LaneWords) /\ Len(blocks) \in Nat
      /\ buffer \in LaneWords /\ absorbed \in Nat
  BY <1>1 DEF TypeOK, Rate
<1>4. Left = <<>> /\ Len(Left) = 0
  BY <1>2, JoinedType DEF Left
<1>5. Len(Meant) = 6 * Len(blocks) + position
  <2>1. absorbed + Len(Left) = Len(Meant) /\ absorbed = 6 * Len(blocks) + position
    BY <1>2 DEF BInv, Ordered, Collected
  <2> QED
    BY <1>3, <1>4, <2>1
<1>6. Len(Meant) \div 6 = Len(blocks)
  <2> DEFINE b == Len(blocks)
  <2>1. b \in Nat /\ Len(Meant) = 6 * b + position
    BY <1>3, <1>5
  <2> HIDE DEF b
  <2>2. (6 * b + position) \div 6 = b
    BY <1>3, <2>1
  <2> QED
    BY <2>1, <2>2 DEF b
<1>7. /\ Len(bytes) = 6 * (Len(blocks) + 1)
      /\ \A i \in 1 .. Len(Meant) : i < Len(bytes) /\ bytes[i] = Meant[i]
      /\ \A i \in Len(Meant) + 1 .. Len(bytes) :
            bytes[i] = LET byte == IF i = Len(Meant) + 1 THEN Xor(OfNat(0), Pad) ELSE OfNat(0)
                       IN  IF i = Len(bytes) THEN Xor(byte, LastBit) ELSE byte
  BY <1>1, <1>6, PaddedBytes DEF Meant
<1>8. /\ blocks' = Append(blocks, full) /\ pc' = "permute" /\ then' = "finish"
      /\ UNCHANGED <<call, inputs, absorbed>>
  BY DEF PadBlock, CommitBlock, Permute
<1>9. /\ Len(blocks') = Len(blocks) + 1 /\ blocks'[Len(blocks) + 1] = full
      /\ \A k \in 1 .. Len(blocks) : blocks'[k] = blocks[k]
  BY <1>3, <1>8
<1> HIDE DEF bytes
<1>10. ASSUME NEW l \in Lanes
       PROVE  full[l] = bytes[6 * Len(blocks) + l + 1]
  <2> DEFINE i == 6 * Len(blocks) + l + 1
  <2>1. once[l] = IF l = position THEN Xor(buffer[l], Pad) ELSE buffer[l]
    BY <1>3 DEF Mark, LaneWords
  <2>2. full[l] = IF l = 5 THEN Xor(once[l], LastBit) ELSE once[l]
    <3>1. DOMAIN once = Lanes
      BY <1>3 DEF Mark, LaneWords
    <3> HIDE DEF once
    <3> QED
      BY <3>1 DEF Mark, Rate
  <2>3. buffer[l] = IF l < position THEN Meant[i] ELSE OfNat(0)
    BY <1>2 DEF Collected
  <2>4. /\ (l < position <=> i <= Len(Meant)) /\ (l = position <=> i = Len(Meant) + 1)
        /\ (l = 5 <=> i = Len(bytes)) /\ i \in 1 .. Len(bytes)
    BY <1>3, <1>5, <1>7
  <2> HIDE DEF i, once, full
  <2>5. CASE l < position
    <3>1. i \in 1 .. Len(Meant) /\ l # 5 /\ l # position
      BY <1>3, <2>4, <2>5
    <3>2. bytes[i] = Meant[i]
      BY <1>7, <3>1
    <3> QED
      BY <2>1, <2>2, <2>3, <2>5, <3>1, <3>2 DEF i
  <2>6. CASE ~(l < position)
    <3>1. i \in Len(Meant) + 1 .. Len(bytes)
      BY <1>3, <1>5, <2>4, <2>6
    <3>2. bytes[i] = LET byte == IF l = position THEN Xor(OfNat(0), Pad) ELSE OfNat(0)
                     IN  IF l = 5 THEN Xor(byte, LastBit) ELSE byte
      BY <1>7, <2>4, <3>1
    <3> QED
      BY <2>1, <2>2, <2>3, <2>6, <3>2 DEF i
  <2> QED
    BY <2>5, <2>6
<1> HIDE DEF full
<1>11. ASSUME NEW k \in 1 .. Len(blocks'), NEW l \in Lanes
       PROVE  blocks'[k][l] = bytes[6 * (k - 1) + l + 1]
  <2>1. CASE k = Len(blocks) + 1
    <3>1. k - 1 = Len(blocks)
      BY <1>3, <2>1
    <3> QED
      BY <1>9, <1>10, <2>1, <3>1
  <2>2. CASE k # Len(blocks) + 1
    <3>1. k \in 1 .. Len(blocks) /\ k - 1 \in Nat
      BY <1>3, <1>9, <2>2
    <3>2. blocks'[k][l] = Meant[6 * (k - 1) + l + 1]
      BY <1>2, <1>9, <3>1 DEF Collected
    <3>3. 6 * (k - 1) + l + 1 \in 1 .. Len(Meant)
      BY <1>3, <1>5, <3>1
    <3> QED
      BY <1>7, <3>2, <3>3
  <2> QED
    BY <2>1, <2>2
<1>12. Meant' = Meant /\ Left' = Left /\ Padded(call)' = bytes
  BY <1>8 DEF Meant, Left, bytes
<1>13. Ordered'
  BY <1>8, <1>12 DEF BInv, Ordered
<1>14. Complete'
  BY <1>2, <1>7, <1>8, <1>9, <1>11, <1>12 DEF Complete
<1>15. QED
  BY <1>1, <1>8, <1>13, <1>14 DEF BInv, Absorbing

\* Every step keeps blocks and inputs in order.
LEMMA BlocksInv == BInv /\ [Next]_vars => BInv'
<1> SUFFICES ASSUME BInv, [Next]_vars PROVE BInv'
  OBVIOUS
<1>1. IInv'
  BY NextInv DEF BInv
<1>2. CASE PermuteRound
  BY <1>1, <1>2, BlocksStay DEF PermuteRound, Absorbing
<1>3. CASE Finish
  BY <1>1, <1>3, BlocksStay DEF Finish, Permute, Absorbing
<1>4. CASE Squeeze
  <2>1. pc = "squeeze" /\ (pc' = "done" \/ (pc' = "permute" /\ then' = "squeeze"))
        /\ UNCHANGED <<call, inputs, absorbed, blocks>>
    <3>1. pc = "squeeze" /\ UNCHANGED <<call, inputs, absorbed, blocks>>
      BY <1>4 DEF Squeeze
    <3>2. pc' = "done" \/ Permute("squeeze")
      <4> HIDE DEF Permute
      <4> QED
        BY <1>4, Zenon DEF Squeeze
    <3>3. pc' = "done" \/ (pc' = "permute" /\ then' = "squeeze")
      BY <3>2 DEF Permute
    <3> QED
      BY <3>1, <3>3
  <2> QED
    BY <1>1, <2>1, BlocksStay DEF Absorbing
<1>5. CASE UNCHANGED vars
  BY <1>1, <1>5, BlocksStay DEF vars, Absorbing
<1>6. QED
  BY <1>2, <1>3, <1>4, <1>5, NextInputBlocks, AbsorbBlocks, PadBlocks DEF Next, Return

\* However the parts of a call fall on the blocks, and whatever their number and
\* their lengths, the blocks are the bytes of the parts in order, each once, with
\* the padding behind them (absorb, finalize).
THEOREM BlocksHoldInput == Spec => []BlocksAreInput
<1>1. BInv => BlocksAreInput
  <2> SUFFICES ASSUME BInv PROVE BlocksAreInput
    OBVIOUS
  <2> DEFINE bytes == Padded(call)
  <2>1. TypeOK /\ call \in Calls /\ blocks \in Seq(LaneWords)
    BY DEF BInv, IInv, TypeOK
  <2>2. DOMAIN blocks = 1 .. Len(blocks) /\ Len(blocks) \in Nat
    BY <2>1
  <2>3. Len(Meant) \in Nat /\ Len(Left) \in Nat
    BY <2>1, MeantType
  <2>4. /\ Len(bytes) \in Nat /\ Len(Meant) < Len(bytes)
        /\ \A i \in 1 .. Len(Meant) : bytes[i] = Meant[i]
    BY <2>1, PaddedBytes DEF Meant
  <2> HIDE DEF bytes
  <2>5. ASSUME NEW k \in 1 .. Len(blocks), NEW l \in Lanes
        PROVE  (k - 1) * 6 + l < Len(bytes) /\ blocks[k][l] = bytes[(k - 1) * 6 + l + 1]
    <3>1. CASE Absorbing
      <4>1. blocks[k][l] = Meant[6 * (k - 1) + l + 1] /\ absorbed = 6 * Len(blocks) + position
        BY <3>1 DEF BInv, Collected
      <4>2. absorbed + Len(Left) = Len(Meant) /\ position \in 0 .. 5
        BY <2>1 DEF BInv, Ordered, TypeOK, Rate
      <4>3. 6 * (k - 1) + l + 1 \in 1 .. Len(Meant) /\ 6 * (k - 1) = (k - 1) * 6
        BY <2>2, <2>3, <4>1, <4>2
      <4> QED
        BY <2>3, <2>4, <4>1, <4>3
    <3>2. CASE ~Absorbing
      <4>1. blocks[k][l] = bytes[6 * (k - 1) + l + 1] /\ 6 * Len(blocks) = Len(bytes)
        BY <3>2 DEF BInv, Complete, bytes
      <4>2. 6 * (k - 1) = (k - 1) * 6 /\ (k - 1) * 6 + l < 6 * Len(blocks)
        BY <2>2
      <4> QED
        BY <4>1, <4>2
    <3> QED
      BY <3>1, <3>2
  <2>6. pc = "done" => 6 * Len(blocks) = Len(bytes)
    BY DEF BInv, Absorbing, Complete, bytes
  <2> QED
    BY <2>2, <2>5, <2>6 DEF BlocksAreInput, Rate, bytes
<1>2. QED
  BY <1>1, InitBlocks, BlocksInv, PTL DEF Spec

-----------------------------------------------------------------------------
(* Calls are told apart *)

\* Numbers below the modulus are different words.
LEMMA NumbersDiffer ==
    ASSUME NEW m \in Nat, NEW n \in Nat, m < Modulus, n < Modulus, OfNat(m) = OfNat(n)
    PROVE  m = n
<1>1. Modulus \in Nat \ {0}
  BY SpongeAssumption
<1>2. m \in 0 .. Modulus - 1 /\ n \in 0 .. Modulus - 1 /\ m % Modulus = m /\ n % Modulus = n
  BY <1>1
<1>3. WordOf[m] = WordOf[n]
  BY <1>2 DEF OfNat
<1>4. QED
  BY <1>2, <1>3, EncodingAssumption

\* Parts whose lengths fit into a word.
Fitting == {parts \in Seq(Seq(Word)) : \A i \in 1 .. Len(parts) : Len(parts[i]) < Modulus}

\* A part after its length, and what follows.
Prefixed(length, part, more) == <<length>> \o (part \o more)

\* What is absorbed for a list of parts: the length of the first, the first, and
\* what is absorbed for the others.
LEMMA FirstPart ==
    ASSUME NEW parts \in Fitting, parts # <<>>
    PROVE  /\ Head(parts) \in Seq(Word) /\ Tail(parts) \in Fitting
           /\ Len(Head(parts)) \in Nat /\ Len(Head(parts)) < Modulus
           /\ Joined(Inputs(Tail(parts))) \in Seq(Word)
           /\ Joined(Inputs(parts)) =
                 Prefixed(OfNat(Len(Head(parts))), Head(parts), Joined(Inputs(Tail(parts))))
<1> DEFINE ins == Inputs(parts)
           rest == Tail(parts)
           more == Tail(ins)
<1>1. /\ parts \in Seq(Seq(Word)) /\ Len(parts) \in Nat \ {0}
      /\ \A i \in 1 .. Len(parts) : Len(parts[i]) < Modulus /\ parts[i] \in Seq(Word)
  BY DEF Fitting
<1>2. /\ rest \in Seq(Seq(Word)) /\ Len(rest) = Len(parts) - 1 /\ Head(parts) = parts[1]
      /\ \A i \in 1 .. Len(rest) : rest[i] = parts[i + 1]
  <2>1. /\ rest \in Seq(Seq(Word)) /\ Len(rest) = Len(parts) - 1
        /\ \A i \in 1 .. Len(rest) : rest[i] = parts[i + 1]
    BY <1>1, HeadTailProperties
  <2> QED
    BY <1>1, <2>1
<1> HIDE DEF rest
<1>3. rest \in Fitting
  <2>1. ASSUME NEW i \in 1 .. Len(rest) PROVE Len(rest[i]) < Modulus
    <3>1. i + 1 \in 1 .. Len(parts) /\ rest[i] = parts[i + 1]
      BY <1>1, <1>2
    <3> QED
      BY <1>1, <3>1
  <2> QED
    BY <1>2, <2>1 DEF Fitting
<1>4. /\ ins \in Seq(Seq(Word)) /\ Len(ins) = 2 * Len(parts)
      /\ \A i \in 1 .. 2 * Len(parts) :
            ins[i] = IF i % 2 = 1 THEN <<OfNat(Len(parts[(i + 1) \div 2]))>>
                                  ELSE parts[i \div 2]
  BY <1>1, PartsType
<1>5. /\ Inputs(rest) \in Seq(Seq(Word)) /\ Len(Inputs(rest)) = 2 * Len(rest)
      /\ \A i \in 1 .. 2 * Len(rest) :
            Inputs(rest)[i] = IF i % 2 = 1 THEN <<OfNat(Len(rest[(i + 1) \div 2]))>>
                                           ELSE rest[i \div 2]
  BY <1>2, PartsType
<1> HIDE DEF ins
<1>6. /\ ins # <<>> /\ Head(ins) = ins[1] /\ more \in Seq(Seq(Word))
      /\ Len(more) = Len(ins) - 1 /\ \A i \in 1 .. Len(more) : more[i] = ins[i + 1]
  <2>1. ins # <<>> /\ Head(ins) = ins[1]
    BY <1>1, <1>4
  <2> QED
    BY <1>4, <2>1, HeadTailProperties
<1> HIDE DEF more
<1>7. /\ more # <<>> /\ Head(more) = more[1] /\ Tail(more) \in Seq(Seq(Word))
      /\ Len(Tail(more)) = Len(more) - 1
      /\ \A i \in 1 .. Len(Tail(more)) : Tail(more)[i] = more[i + 1]
  <2>1. more # <<>> /\ Head(more) = more[1]
    BY <1>1, <1>4, <1>6
  <2> QED
    BY <1>6, <2>1, HeadTailProperties
<1>8. Head(ins) = <<OfNat(Len(Head(parts)))>>
  <2>1. 1 \in 1 .. 2 * Len(parts) /\ 1 % 2 = 1 /\ (1 + 1) \div 2 = 1
    BY <1>1
  <2> QED
    BY <1>2, <1>4, <1>6, <2>1
<1>9. Head(more) = Head(parts)
  <2>1. 2 \in 1 .. 2 * Len(parts) /\ 2 % 2 # 1 /\ 2 \div 2 = 1 /\ 1 \in 1 .. Len(more)
    BY <1>1, <1>4, <1>6
  <2>2. more[1] = ins[2]
    BY <1>6, <2>1
  <2> QED
    BY <1>2, <1>4, <1>7, <2>1, <2>2
<1>10. Tail(more) = Inputs(rest)
  <2>1. Len(Tail(more)) = Len(Inputs(rest)) /\ Len(Inputs(rest)) = 2 * Len(rest)
    <3>1. /\ Len(parts) \in Nat /\ Len(rest) = Len(parts) - 1 /\ Len(ins) = 2 * Len(parts)
          /\ Len(more) = Len(ins) - 1 /\ Len(Tail(more)) = Len(more) - 1
      BY <1>1, <1>2, <1>4, <1>6, <1>7, Zenon
    <3> QED
      BY <1>5, <3>1
  <2>2. ASSUME NEW i \in 1 .. Len(Tail(more))
        PROVE  Tail(more)[i] = Inputs(rest)[i]
    <3>1. /\ i \in 1 .. 2 * Len(rest) /\ i + 1 \in 1 .. Len(more)
          /\ (i + 1) + 1 \in 1 .. 2 * Len(parts)
      <4>1. /\ Len(parts) \in Nat /\ Len(rest) = Len(parts) - 1 /\ Len(ins) = 2 * Len(parts)
            /\ Len(more) = Len(ins) - 1 /\ Len(Tail(more)) = Len(more) - 1
        BY <1>1, <1>2, <1>4, <1>6, <1>7
      <4> QED
        BY <4>1
    <3>2. Tail(more)[i] = ins[(i + 1) + 1]
      BY <1>6, <1>7, <3>1
    <3>3. CASE i % 2 = 1
      <4>1. /\ ((i + 1) + 1) % 2 = 1 /\ (((i + 1) + 1) + 1) \div 2 = (i + 1) \div 2 + 1
            /\ (i + 1) \div 2 \in 1 .. Len(rest)
        BY <1>1, <1>2, <3>1, <3>3
      <4>2. rest[(i + 1) \div 2] = parts[(i + 1) \div 2 + 1]
        BY <1>2, <4>1
      <4> QED
        BY <1>4, <1>5, <3>1, <3>2, <3>3, <4>1, <4>2
    <3>4. CASE i % 2 # 1
      <4>1. /\ ((i + 1) + 1) % 2 # 1 /\ ((i + 1) + 1) \div 2 = i \div 2 + 1
            /\ i \div 2 \in 1 .. Len(rest)
        BY <1>1, <1>2, <3>1, <3>4
      <4>2. rest[i \div 2] = parts[i \div 2 + 1]
        BY <1>2, <4>1
      <4> QED
        BY <1>4, <1>5, <3>1, <3>2, <3>4, <4>1, <4>2
    <3> QED
      BY <3>3, <3>4
  <2> QED
    BY <1>5, <1>7, <2>1, <2>2, SeqEqual
<1>11. Joined(ins) = Head(ins) \o Joined(more)
  BY <1>4, <1>6, JoinedCons DEF more
<1>12. Joined(more) = Head(more) \o Joined(Tail(more))
  BY <1>6, <1>7, JoinedCons
<1>13. Joined(Inputs(rest)) \in Seq(Word)
  BY <1>5, JoinedType
<1>14. Len(Head(parts)) \in Nat /\ Len(Head(parts)) < Modulus /\ Head(parts) \in Seq(Word)
  BY <1>1, <1>2
<1>15. Joined(Inputs(parts)) =
          Prefixed(OfNat(Len(Head(parts))), Head(parts), Joined(Inputs(rest)))
  BY <1>8, <1>9, <1>10, <1>11, <1>12, Zenon DEF ins, Prefixed
<1>16. QED
  BY <1>3, <1>13, <1>14, <1>15 DEF rest

\* From a word and two sequences behind it the first and, by its length, the
\* second are read back.
LEMMA SplitEqual ==
    ASSUME NEW a \in Word, NEW b \in Word, NEW x \in Seq(Word), NEW y \in Seq(Word),
           NEW r \in Seq(Word), NEW s \in Seq(Word),
           Prefixed(a, x, r) = Prefixed(b, y, s)
    PROVE  a = b /\ (Len(x) = Len(y) => x = y /\ r = s)
<1>1. /\ Len(x) \in Nat /\ Len(y) \in Nat /\ Len(r) \in Nat /\ Len(s) \in Nat
  OBVIOUS
<1> DEFINE u == x \o r
           v == y \o s
<1>2. /\ u \in Seq(Word) /\ Len(u) = Len(x) + Len(r)
      /\ \A i \in 1 .. Len(x) : u[i] = x[i]
      /\ \A i \in 1 .. Len(r) : u[Len(x) + i] = r[i]
  BY <1>1
<1>3. /\ v \in Seq(Word) /\ Len(v) = Len(y) + Len(s)
      /\ \A i \in 1 .. Len(y) : v[i] = y[i]
      /\ \A i \in 1 .. Len(s) : v[Len(y) + i] = s[i]
  BY <1>1
<1>4. <<a>> \o u = <<b>> \o v
  BY DEF Prefixed
<1> HIDE DEF u, v
<1>5. a = b /\ u = v
  <2>1. <<a>> \in Seq(Word) /\ <<b>> \in Seq(Word) /\ Len(<<a>>) = 1 /\ Len(<<b>>) = 1
    OBVIOUS
  <2>2. /\ Len(<<a>> \o u) = 1 + Len(u) /\ (<<a>> \o u)[1] = a
        /\ \A i \in 1 .. Len(u) : (<<a>> \o u)[1 + i] = u[i]
    BY <1>1, <1>2, <2>1
  <2>3. /\ Len(<<b>> \o v) = 1 + Len(v) /\ (<<b>> \o v)[1] = b
        /\ \A i \in 1 .. Len(v) : (<<b>> \o v)[1 + i] = v[i]
    BY <1>1, <1>3, <2>1
  <2>4. Len(u) = Len(v)
    <3>1. 1 + Len(u) = 1 + Len(v)
      BY <1>4, <2>2, <2>3
    <3>2. Len(u) \in Nat /\ Len(v) \in Nat
      BY <1>2, <1>3
    <3> QED
      BY <3>1, <3>2
  <2>5. u = v
    BY <1>2, <1>3, <1>4, <2>2, <2>3, <2>4, SeqEqual
  <2> QED
    BY <1>4, <2>2, <2>3, <2>5
<1>6. ASSUME Len(x) = Len(y) PROVE x = y /\ r = s
  <2>1. x = y
    BY <1>2, <1>3, <1>5, <1>6, SeqEqual
  <2>2. Len(r) = Len(s)
    BY <1>1, <1>2, <1>3, <1>5, <1>6
  <2>3. r = s
    BY <1>2, <1>3, <1>5, <1>6, <2>2, SeqEqual
  <2> QED
    BY <2>1, <2>3
<1>7. QED
  BY <1>5, <1>6

\* Nothing is absorbed for no parts only.
LEMMA NoParts ==
    ASSUME NEW parts \in Fitting
    PROVE  Joined(Inputs(parts)) = <<>> <=> parts = <<>>
<1>1. CASE parts = <<>>
  <2>1. parts \in Seq(Seq(Word)) /\ Len(parts) = 0
    BY <1>1
  <2>2. Inputs(parts) \in Seq(Seq(Word)) /\ Len(Inputs(parts)) = 2 * Len(parts)
    BY <2>1, PartsType
  <2>3. Inputs(parts) = <<>>
    BY <2>1, <2>2
  <2> QED
    BY <1>1, <2>3, JoinedType
<1>2. CASE parts # <<>>
  <2> DEFINE w == OfNat(Len(Head(parts)))
             r == Head(parts) \o Joined(Inputs(Tail(parts)))
  <2>1. r \in Seq(Word) /\ w \in Word /\ Joined(Inputs(parts)) = <<w>> \o r
    <3>1. /\ Head(parts) \in Seq(Word) /\ Joined(Inputs(Tail(parts))) \in Seq(Word)
          /\ Len(Head(parts)) \in Nat /\ Joined(Inputs(parts)) = <<w>> \o r
      BY <1>2, FirstPart DEF Prefixed
    <3> QED
      BY <3>1, ConcatProperties, NumbersAreWords
  <2> HIDE DEF w, r
  <2>2. Len(<<w>> \o r) = 1 + Len(r) /\ Len(r) \in Nat
    BY <2>1
  <2>3. <<w>> \o r # <<>>
    BY <2>2
  <2> QED
    BY <1>2, <2>1, <2>3
<1>3. QED
  BY <1>1, <1>2

\* Different lists of parts are absorbed differently, whatever bytes are in them:
\* no part can pass for the end of one and the beginning of another (prf_parts).
THEOREM PartsDiffer ==
    \A p, q \in Fitting : Joined(Inputs(p)) = Joined(Inputs(q)) => p = q
<1> DEFINE Told(n) == \A p, q \in Fitting :
               Len(p) = n /\ Joined(Inputs(p)) = Joined(Inputs(q)) => p = q
           S == {n \in Nat : Told(n)}
<1>1. 0 \in S
  <2> SUFFICES ASSUME NEW p \in Fitting, NEW q \in Fitting, Len(p) = 0,
                      Joined(Inputs(p)) = Joined(Inputs(q))
               PROVE  p = q
    OBVIOUS
  <2>1. p = <<>>
    BY DEF Fitting
  <2> QED
    BY <2>1, NoParts
<1>2. ASSUME NEW n \in S PROVE n + 1 \in S
  <2> SUFFICES ASSUME NEW p \in Fitting, NEW q \in Fitting, Len(p) = n + 1,
                      Joined(Inputs(p)) = Joined(Inputs(q))
               PROVE  p = q
    OBVIOUS
  <2>1. p \in Seq(Seq(Word)) /\ q \in Seq(Seq(Word)) /\ p # <<>>
    <3>1. p \in Seq(Seq(Word)) /\ q \in Seq(Seq(Word)) /\ n \in Nat
      BY DEF Fitting
    <3> QED
      BY <3>1
  <2>2. q # <<>>
    BY <2>1, NoParts
  <2> DEFINE r == Joined(Inputs(Tail(p)))
             s == Joined(Inputs(Tail(q)))
  <2>3. /\ Head(p) \in Seq(Word) /\ Tail(p) \in Fitting /\ r \in Seq(Word)
        /\ Len(Head(p)) \in Nat /\ Len(Head(p)) < Modulus
        /\ Joined(Inputs(p)) = Prefixed(OfNat(Len(Head(p))), Head(p), r)
    BY <2>1, FirstPart
  <2>4. /\ Head(q) \in Seq(Word) /\ Tail(q) \in Fitting /\ s \in Seq(Word)
        /\ Len(Head(q)) \in Nat /\ Len(Head(q)) < Modulus
        /\ Joined(Inputs(q)) = Prefixed(OfNat(Len(Head(q))), Head(q), s)
    BY <2>2, FirstPart
  <2>5. OfNat(Len(Head(p))) \in Word /\ OfNat(Len(Head(q))) \in Word
    BY <2>3, <2>4, NumbersAreWords
  <2> HIDE DEF r, s
  <2> DEFINE a == OfNat(Len(Head(p)))
             b == OfNat(Len(Head(q)))
             x == Head(p)
             y == Head(q)
  <2>6. a = b /\ (Len(x) = Len(y) => x = y /\ r = s)
    <3>1. /\ a \in Word /\ b \in Word /\ x \in Seq(Word) /\ y \in Seq(Word)
          /\ r \in Seq(Word) /\ s \in Seq(Word)
          /\ Prefixed(a, x, r) = Prefixed(b, y, s)
      BY <2>3, <2>4, <2>5
    <3> HIDE DEF a, b, x, y
    <3> QED
      BY <3>1, SplitEqual
  <2>7. Len(Head(p)) = Len(Head(q))
    BY <2>3, <2>4, <2>6, NumbersDiffer
  <2>8. Head(p) = Head(q) /\ Tail(p) = Tail(q)
    <3>1. Len(Tail(p)) = n /\ n \in Nat
      BY <2>1
    <3> QED
      BY <2>3, <2>4, <2>6, <2>7, <3>1 DEF r, s
  <2>9. p = <<Head(p)>> \o Tail(p) /\ q = <<Head(q)>> \o Tail(q)
    BY <2>1, <2>2, HeadTailProperties
  <2> QED
    BY <2>8, <2>9
<1> HIDE DEF S
<1>3. \A n \in Nat : n \in S
  <2>1. S \in SUBSET Nat
    BY DEF S
  <2> QED
    BY <1>1, <1>2, <2>1, Numbers
<1>4. ASSUME NEW p \in Fitting, NEW q \in Fitting, Joined(Inputs(p)) = Joined(Inputs(q))
      PROVE  p = q
  <2>1. Len(p) \in Nat
    BY DEF Fitting
  <2> QED
    BY <1>3, <1>4, <2>1 DEF S
<1>5. QED
  BY <1>4

\* The padding tells where the input ends: no longer one is padded alike.
LEMMA PaddedLength ==
    ASSUME NEW c \in Calls, NEW d \in Calls, Padded(c) = Padded(d)
    PROVE  ~ (Len(Joined(Inputs(c.parts))) < Len(Joined(Inputs(d.parts))))
<1> DEFINE n == Len(Joined(Inputs(c.parts)))
           m == Len(Joined(Inputs(d.parts)))
           size == 6 * (m \div 6 + 1)
           one == Xor(OfNat(0), Pad)
<1>1. /\ n \in Nat /\ m \in Nat /\ m < size /\ size \in Nat
      /\ Len(Padded(c)) = 6 * (n \div 6 + 1) /\ Len(Padded(d)) = size
      /\ \A i \in n + 1 .. 6 * (n \div 6 + 1) :
            Padded(c)[i] = LET byte == IF i = n + 1 THEN one ELSE OfNat(0)
                           IN  IF i = 6 * (n \div 6 + 1) THEN Xor(byte, LastBit) ELSE byte
      /\ \A i \in m + 1 .. size :
            Padded(d)[i] = LET byte == IF i = m + 1 THEN one ELSE OfNat(0)
                           IN  IF i = size THEN Xor(byte, LastBit) ELSE byte
  BY PaddedBytes
<1>2. OfNat(0) \in Word /\ one \in Word /\ LastBit \in Word /\ one # OfNat(0)
  BY NumbersAreWords, SpongeAssumption, WordAssumption, EncodingAssumption
<1>3. Xor(one, LastBit) # Xor(OfNat(0), LastBit)
  <2> HIDE DEF one
  <2>1. Xor(Xor(one, LastBit), LastBit) = one
        /\ Xor(Xor(OfNat(0), LastBit), LastBit) = OfNat(0)
    BY <1>2, WordAssumption
  <2> QED
    BY <1>2, <2>1
<1> HIDE DEF n, m, size, one
<1>4. 6 * (n \div 6 + 1) = size
  BY <1>1
<1>5. ASSUME n < m PROVE FALSE
  <2>1. m + 1 \in n + 1 .. size /\ m + 1 \in m + 1 .. size /\ m + 1 # n + 1
    BY <1>1, <1>5
  <2>2. /\ Padded(c)[m + 1] = IF m + 1 = size THEN Xor(OfNat(0), LastBit) ELSE OfNat(0)
        /\ Padded(d)[m + 1] = IF m + 1 = size THEN Xor(one, LastBit) ELSE one
    BY <1>1, <1>4, <2>1
  <2> QED
    BY <1>2, <1>3, <2>2
<1>6. QED
  BY <1>5 DEF n, m

\* What is padded alike is the same.
LEMMA PaddedDiffers ==
    ASSUME NEW c \in Calls, NEW d \in Calls, Padded(c) = Padded(d)
    PROVE  Joined(Inputs(c.parts)) = Joined(Inputs(d.parts))
<1> DEFINE p == Joined(Inputs(c.parts))
           q == Joined(Inputs(d.parts))
<1>1. p \in Seq(Word) /\ q \in Seq(Word) /\ Len(p) \in Nat /\ Len(q) \in Nat
  <2>1. p \in Seq(Word) /\ q \in Seq(Word)
    BY InputsType, JoinedType
  <2> QED
    BY <2>1
<1>2. ~ (Len(p) < Len(q)) /\ ~ (Len(q) < Len(p))
  BY PaddedLength
<1>3. /\ \A i \in 1 .. Len(p) : Padded(c)[i] = p[i]
      /\ \A i \in 1 .. Len(q) : Padded(d)[i] = q[i]
  BY PaddedBytes
<1> HIDE DEF p, q
<1>4. Len(p) = Len(q)
  BY <1>1, <1>2
<1>5. p = q
  BY <1>1, <1>3, <1>4, SeqEqual
<1>6. QED
  BY <1>5 DEF p, q

\* Whatever the key, the domain, the parts and the output length are, two calls
\* that are fed alike are the same call (prf_parts).
THEOREM FedDiffers == \A c, d \in Calls : Fed(c) = Fed(d) => c = d
<1> SUFFICES ASSUME NEW c \in Calls, NEW d \in Calls, Fed(c) = Fed(d) PROVE c = d
  OBVIOUS
<1>1. Start(c) = Start(d) /\ Padded(c) = Padded(d) /\ OfNat(c.length) = OfNat(d.length)
  <2> DEFINE f(e) == OfNat(Len(Joined(Inputs(e.parts))))
  <2>1. <<Start(c), Padded(c), f(c), OfNat(c.length)>>
          = <<Start(d), Padded(d), f(d), OfNat(d.length)>>
    BY DEF Fed
  <2> HIDE DEF f
  <2> QED
    BY <2>1
<1>2. c.key = d.key /\ c.domain = d.domain
  BY <1>1, StartsDiffer
<1>3. \A e \in {c, d} : e.parts \in Fitting /\ e.length \in Nat /\ e.length < Modulus
  <2> TAKE e \in {c, d}
  <2>1. e.parts \in Seq(Seq(Word)) /\ e.length \in Nat
    BY SpongeAssumption
  <2>2. e.length < Modulus /\ \A i \in DOMAIN e.parts : Len(e.parts[i]) < Modulus
    BY EncodingAssumption
  <2> QED
    BY <2>1, <2>2 DEF Fitting
<1>4. c.parts = d.parts
  BY <1>1, <1>3, PaddedDiffers, PartsDiffer
<1>5. c.length = d.length
  BY <1>1, <1>3, NumbersDiffer
<1>6. QED
  <2>1. /\ c \in [key : LaneWords, domain : Word, parts : Seq(Seq(Word)), length : Nat]
        /\ d \in [key : LaneWords, domain : Word, parts : Seq(Seq(Word)), length : Nat]
    BY SpongeAssumption
  <2> QED
    BY <1>2, <1>4, <1>5, <2>1

\* When a call is done, what its steps put into the state is told apart from what
\* every other call would: the counts, the blocks and the start.
THEOREM CallsAreSeparate == Spec => []CallsDiffer
<1>1. ASSUME BInv PROVE CallsDiffer
  <2> SUFFICES ASSUME pc = "done", NEW c \in Calls \ {call},
                      FedBy[c] = <<Start(call),
                                   [i \in 1 .. Rate * Len(blocks) |->
                                       blocks[((i - 1) \div Rate) + 1][(i - 1) % Rate]],
                                   OfNat(absorbed), OfNat(call.length)>>
               PROVE  FALSE
    BY DEF CallsDiffer
  <2> DEFINE held == [i \in 1 .. Rate * Len(blocks) |->
                         blocks[((i - 1) \div Rate) + 1][(i - 1) % Rate]]
  <2>1. TypeOK /\ call \in Calls /\ Complete /\ Ordered
    BY <1>1 DEF BInv, IInv, TypeOK, Absorbing
  <2>2. absorbed = Len(Meant)
    <3>1. inputs = <<>> /\ absorbed + Len(Left) = Len(Meant) /\ absorbed \in Nat
      BY <2>1 DEF Complete, Ordered, TypeOK
    <3>2. Left = <<>>
      BY <3>1, JoinedType DEF Left
    <3> QED
      BY <3>1, <3>2
  <2>3. held = Padded(call)
    <3>1. Padded(call) \in Seq(Word) /\ Len(blocks) \in Nat
      BY <2>1, PaddedBytes DEF TypeOK
    <3>2. /\ 6 * Len(blocks) = Len(Padded(call))
          /\ \A k \in 1 .. Len(blocks), l \in Lanes :
                blocks[k][l] = Padded(call)[6 * (k - 1) + l + 1]
      BY <2>1 DEF Complete
    <3>3. held = [i \in 1 .. Len(Padded(call)) |->
                     blocks[((i - 1) \div 6) + 1][(i - 1) % 6]]
      BY <3>2 DEF Rate
    <3>4. ASSUME NEW i \in 1 .. Len(Padded(call))
          PROVE  blocks[((i - 1) \div 6) + 1][(i - 1) % 6] = Padded(call)[i]
      <4> DEFINE a == (i - 1) \div 6
                 b == (i - 1) % 6
                 k == a + 1
      <4>1. i \in Nat /\ 1 <= i /\ i <= 6 * Len(blocks)
        BY <3>1, <3>2
      <4>2. a \in Nat /\ b \in 0 .. 5 /\ i = 6 * a + b + 1
        BY <4>1
      <4> HIDE DEF a, b
      <4>3. k \in 1 .. Len(blocks) /\ 6 * (k - 1) + b + 1 = i
        BY <3>1, <4>1, <4>2
      <4> HIDE DEF k
      <4>4. blocks[k][b] = Padded(call)[6 * (k - 1) + b + 1]
        BY <3>2, <4>2, <4>3
      <4> QED
        BY <4>3, <4>4 DEF a, b, k
    <3>5. held = [i \in 1 .. Len(Padded(call)) |-> Padded(call)[i]]
      BY <3>3, <3>4
    <3> HIDE DEF held
    <3> QED
      BY <3>1, <3>5
  <2>4. FedBy[c] = Fed(c) /\ c # call
    BY DEF FedBy
  <2>5. Fed(call) = <<Start(call), held, OfNat(absorbed), OfNat(call.length)>>
    BY <2>2, <2>3 DEF Fed, Meant
  <2>6. Fed(c) = Fed(call)
    BY <2>4, <2>5
  <2> QED
    BY <2>1, <2>4, <2>6, FedDiffers
<1>2. QED
  BY <1>1, InitBlocks, BlocksInv, PTL DEF Spec

-----------------------------------------------------------------------------
(* What is squeezed *)

\* Between permutations six words have come out for each count, and more are to
\* come; at the end exactly the words that were asked for.
Squeezed ==
    /\ pc # "done" => /\ Len(output) = 6 * counter
                      /\ counter # 0 => 6 * counter < call.length
    /\ pc = "done" => Len(output) = call.length

\* A turn of the loop of squeeze takes what is left, at most six words.
LEMMA SqueezeOutput == IInv /\ Squeezed /\ Squeeze => Squeezed'
<1> SUFFICES ASSUME IInv, Squeezed, Squeeze PROVE Squeezed'
  OBVIOUS
<1> DEFINE left == call.length - Len(output)
           take == IF left < 6 THEN left ELSE 6
           out == [i \in 1 .. take |-> words.c[i - 1]]
<1>1. /\ call.length \in Nat /\ counter \in Nat /\ output \in Seq(Word) /\ Len(output) \in Nat
      /\ words.c \in LaneWords
  BY SpongeAssumption DEF IInv, TypeOK, State
<1>2. Len(output) = 6 * counter /\ left \in Nat /\ (counter # 0 => left # 0)
  BY <1>1 DEF Squeezed, Squeeze
<1>3. take \in 0 .. 6 /\ take <= left
  BY <1>2
<1>4. output' = output \o out /\ call' = call
  BY DEF Squeeze, Rate
<1>5. /\ take < left => counter' = counter + 1 /\ pc' = "permute"
      /\ ~ (take < left) => pc' = "done"
  BY DEF Squeeze, Rate, Permute
<1> HIDE DEF left, take
<1>6. out \in Seq(Word) /\ Len(out) = take
  <2>1. \A i \in 1 .. take : words.c[i - 1] \in Word
    BY <1>1, <1>3 DEF LaneWords
  <2> QED
    BY <1>3, <2>1
<1> HIDE DEF out
<1>7. Len(output') = Len(output) + take
  BY <1>1, <1>4, <1>6, ConcatProperties
<1>8. CASE take < left
  <2>1. take = 6 /\ 6 * (counter + 1) < call.length
    BY <1>1, <1>2, <1>3, <1>8 DEF take, left
  <2> QED
    BY <1>1, <1>2, <1>4, <1>5, <1>7, <1>8, <2>1 DEF Squeezed
<1>9. CASE ~ (take < left)
  <2>1. Len(output') = call.length
    BY <1>1, <1>2, <1>3, <1>7, <1>9 DEF left
  <2> QED
    BY <1>4, <1>5, <1>9, <2>1 DEF Squeezed
<1>10. QED
  BY <1>8, <1>9

\* The other steps put out nothing.
LEMMA SqueezedInv == IInv /\ Squeezed /\ [Next]_vars => Squeezed'
<1> SUFFICES ASSUME IInv, Squeezed, [Next]_vars PROVE Squeezed'
  OBVIOUS
<1>1. CASE PermuteRound
  BY <1>1 DEF PermuteRound, Squeezed, IInv, TypeOK
<1>2. CASE Absorb
  <2>1. UNCHANGED <<call, output, counter>> /\ pc = "absorb"
    BY <1>2 DEF Absorb
  <2>2. pc' = "permute" \/ pc' = pc
    BY <1>2 DEF Absorb, CommitBlock, Permute
  <2> QED
    BY <2>1, <2>2 DEF Squeezed
<1>3. CASE NextInput
  BY <1>3 DEF NextInput, Squeezed
<1>4. CASE PadBlock
  BY <1>4 DEF PadBlock, CommitBlock, Permute, Squeezed
<1>5. CASE Finish
  BY <1>5 DEF Finish, Permute, Squeezed
<1>6. CASE Squeeze
  BY <1>6, SqueezeOutput
<1>7. CASE UNCHANGED vars
  BY <1>7 DEF vars, Squeezed
<1>8. QED
  BY <1>1, <1>2, <1>3, <1>4, <1>5, <1>6, <1>7 DEF Next, Return

\* squeeze puts out exactly as many words as the caller asked for, also none and
\* also when the last block is whole.
THEOREM OutputIsWhole == Spec => [](pc = "done" => Len(output) = call.length)
<1>1. Init => Squeezed
  BY DEF Init, Squeezed
<1>2. Squeezed => (pc = "done" => Len(output) = call.length)
  BY DEF Squeezed
<1>3. QED
  BY <1>1, <1>2, InitInv, NextInv, SqueezedInv, PTL DEF Spec

=============================================================================
