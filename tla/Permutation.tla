------------------------------ MODULE Permutation ------------------------------
(***************************************************************************)
(* The native permutation of crates/orisyvra-core/src/permutation.rs: 18   *)
(* rounds over twelve words, six "collision" and six "wave" lanes, and the *)
(* inverse rounds.  Words and their operations are parameters, so that the *)
(* proofs hold for words of any width and TLC computes with small ones.    *)
(***************************************************************************)
EXTENDS Integers, Sequences

CONSTANTS
    Word,                        \* u64
    Xor(_, _),
    Add(_, _), Sub(_, _),        \* wrapping_add, wrapping_sub
    Rotl(_, _), Rotr(_, _),      \* rotate_left, rotate_right
    RcA, RcB, RcC                \* the round constants

Rounds == 18
RoundNumbers == 0 .. Rounds - 1
Lanes == 0 .. 5
Rotations == 1 .. 63

\* What the operations of u64 guarantee and the inverse relies on.
ASSUME WordAssumption ==
    /\ \A a, b \in Word :
        /\ Xor(a, b) \in Word /\ Add(a, b) \in Word /\ Sub(a, b) \in Word
        /\ Xor(Xor(a, b), b) = a /\ Xor(a, b) = Xor(b, a)
        /\ Sub(Add(a, b), b) = a
    /\ \A a \in Word, r \in Rotations :
        /\ Rotl(a, r) \in Word /\ Rotr(a, r) \in Word
        /\ Rotr(Rotl(a, r), r) = a
    /\ RcA \in [RoundNumbers -> Word]
    /\ RcB \in [RoundNumbers -> Word]
    /\ RcC \in [RoundNumbers -> Word]

LaneWords == [Lanes -> Word]

\* split_state and join_state: the state is kept split.
State == [c : LaneWords, w : LaneWords]

Pairings == << << <<0, 1>>, <<2, 3>>, <<4, 5>> >>,
               << <<0, 2>>, <<1, 4>>, <<3, 5>> >>,
               << <<0, 3>>, <<1, 5>>, <<2, 4>> >> >>
CPerm == << <<1, 4, 2, 5, 0, 3>>, <<2, 0, 5, 3, 1, 4>>, <<3, 5, 1, 0, 4, 2>> >>
WPerm == << <<5, 2, 0, 4, 1, 3>>, <<4, 1, 3, 0, 5, 2>>, <<2, 5, 1, 4, 0, 3>> >>
CRot == <<7, 17, 29, 37, 47, 59>>
WRot == <<11, 23, 31, 41, 53, 61>>
WaveLeftRot == <<5, 13, 19, 31, 43, 57>>
WaveRightRot == <<3, 11, 27, 35, 49, 63>>
KickCRot == <<9, 21, 33, 45, 55, 15>>
KickWRot == <<7, 25, 39, 51, 17, 29>>

RoundRot(base, round, lane, stride) == ((base + round * stride + lane * 5) % 63) + 1

Schedule(round) == (round % 3) + 1

-----------------------------------------------------------------------------
(* The forward round *)

CollideForward(lanes, i, j, round, pair) ==
    LET a == Add(lanes[i], Rotl(lanes[j], RoundRot(7, round, pair, 7)))
        b == Xor(lanes[j], Rotl(a, RoundRot(19, round, pair, 11)))
    IN  [lanes EXCEPT ![i] = Rotl(a, RoundRot(31, round, pair, 13)), ![j] = b]

CollidePair(lanes, round, pair) ==
    LET p == Pairings[Schedule(round)][pair + 1]
    IN  CollideForward(lanes, p[1], p[2], round, pair)

Collide(lanes, round) ==
    CollidePair(CollidePair(CollidePair(lanes, round, 0), round, 1), round, 2)

\* What a wave lane receives from its neighbours, as they are at its turn.
Neighbours(wave, lane) ==
    Xor(Rotl(wave[(lane + 5) % 6], WaveLeftRot[lane + 1]),
        Rotl(wave[(lane + 1) % 6], WaveRightRot[lane + 1]))
WaveLane(lane, wave) == [wave EXCEPT ![lane] = Add(@, Neighbours(wave, lane))]
Wave(wave) ==
    WaveLane(5, WaveLane(4, WaveLane(3, WaveLane(2, WaveLane(1, WaveLane(0, wave))))))

\* The wave kicks the collision lanes, and they kick the wave.
KickC(c, w, round) ==
    [l \in Lanes |-> Xor(c[l], Rotl(w[(l + round + 1) % 6], KickCRot[l + 1]))]
Impulse(c, l) == Rotl(Xor(c[(l + 2) % 6], c[(l + 5) % 6]), KickWRot[l + 1])
KickW(c, w) == [l \in Lanes |-> Add(w[l], Impulse(c, l))]

Turn(lanes, rot, round, stride) ==
    [l \in Lanes |-> Rotl(lanes[l], RoundRot(rot[l + 1], round, l, stride))]

PermuteWords(lanes, perm) == [l \in Lanes |-> lanes[perm[l + 1]]]

AddConstants(s, round) ==
    [c |-> [s.c EXCEPT ![0] = Xor(@, RcA[round]), ![3] = Add(@, RcC[round])],
     w |-> [s.w EXCEPT ![5] = Xor(@, RcB[round])]]

RoundForward(s, round) ==
    LET t  == AddConstants(s, round)
        w1 == Wave(t.w)
        c1 == KickC(Collide(t.c, round), w1, round)
        w2 == KickW(c1, w1)
    IN  [c |-> PermuteWords(Turn(c1, CRot, round, 3), CPerm[Schedule(round)]),
         w |-> PermuteWords(Turn(w2, WRot, round, 5), WPerm[Schedule(round)])]

-----------------------------------------------------------------------------
(* The inverse round *)

CollideInverse(lanes, i, j, round, pair) ==
    LET a == Rotr(lanes[i], RoundRot(31, round, pair, 13))
        b == Xor(lanes[j], Rotl(a, RoundRot(19, round, pair, 11)))
    IN  [lanes EXCEPT ![i] = Sub(a, Rotl(b, RoundRot(7, round, pair, 7))), ![j] = b]

UncollidePair(lanes, round, pair) ==
    LET p == Pairings[Schedule(round)][pair + 1]
    IN  CollideInverse(lanes, p[1], p[2], round, pair)

Uncollide(lanes, round) ==
    UncollidePair(UncollidePair(UncollidePair(lanes, round, 2), round, 1), round, 0)

UnwaveLane(lane, wave) == [wave EXCEPT ![lane] = Sub(@, Neighbours(wave, lane))]

\* Mutant: the wave lanes are undone in the order they were made.
UnwaveSameOrder(wave) ==
    UnwaveLane(5, UnwaveLane(4, UnwaveLane(3,
        UnwaveLane(2, UnwaveLane(1, UnwaveLane(0, wave))))))

\* The lanes in the opposite order.
Unwave(wave) ==
    UnwaveLane(0, UnwaveLane(1, UnwaveLane(2,
        UnwaveLane(3, UnwaveLane(4, UnwaveLane(5, wave))))))

UnkickW(c, w) == [l \in Lanes |-> Sub(w[l], Impulse(c, l))]

Unturn(lanes, rot, round, stride) ==
    [l \in Lanes |-> Rotr(lanes[l], RoundRot(rot[l + 1], round, l, stride))]

\* The word that PermuteWords sent to place output comes back from there.
InversePermuteWords(lanes, perm) ==
    [l \in Lanes |-> lanes[CHOOSE output \in Lanes : perm[output + 1] = l]]

RemoveConstants(s, round) ==
    [c |-> [s.c EXCEPT ![0] = Xor(@, RcA[round]), ![3] = Sub(@, RcC[round])],
     w |-> [s.w EXCEPT ![5] = Xor(@, RcB[round])]]

\* KickC is its own inverse.
RoundInverse(s, round) ==
    LET c1 == Unturn(InversePermuteWords(s.c, CPerm[Schedule(round)]), CRot, round, 3)
        w2 == Unturn(InversePermuteWords(s.w, WPerm[Schedule(round)]), WRot, round, 5)
        w1 == UnkickW(c1, w2)
    IN  RemoveConstants([c |-> Uncollide(KickC(c1, w1, round), round),
                         w |-> Unwave(w1)], round)

=============================================================================
