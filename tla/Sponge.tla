--------------------------------- MODULE Sponge ---------------------------------
(***************************************************************************)
(* prf_parts of crates/orisyvra-core/src/prf.rs: a keyed sponge absorbs    *)
(* length-prefixed parts in blocks and squeezes out as many words as are   *)
(* asked for.  A byte is a word here, so a block holds one byte per lane   *)
(* and a length, an output length and a counter are one word each.         *)
(***************************************************************************)
EXTENDS Permutation

CONSTANTS
    Calls,          \* [key, domain, parts, length]: the calls to prf_parts
    IV,             \* the initial state
    Modulus, WordOf, \* a length or counter is taken modulo 2^64, as a word
    Pad, LastBit,   \* the bytes 0x01 and 0x80
    Final,          \* 0x8000000000000001
    KeySize,        \* KEY_SIZE << 32
    Golden          \* 0x9e3779b97f4a7c15

ASSUME SpongeAssumption ==
    /\ IV \in State
    /\ Modulus \in Nat \ {0} /\ WordOf \in [0 .. Modulus - 1 -> Word]
    /\ {Pad, LastBit, Final, KeySize, Golden} \subseteq Word
    /\ Calls \subseteq [key : LaneWords, domain : Word,
                       parts : Seq(Seq(Word)), length : Nat]

VARIABLES
    call,       \* the arguments
    pc, then,   \* the step, and where it goes on after the permutation
    inputs,     \* what absorb is still to be called with; the first is in progress
    words,      \* state
    buffer, position, absorbed,
    turn,       \* the next round of the permutation under way
    last,       \* history: the state before the latest round
    blocks,     \* history: the blocks absorbed
    output, counter   \* what has been squeezed, block_index

vars == <<call, pc, then, inputs, words, buffer, position, absorbed, turn, last,
          blocks, output, counter>>

Rate == 6
OfNat(n) == WordOf[n % Modulus]
Empty == [l \in Lanes |-> OfNat(0)]

\* A usize fits into 64 bits, and 0x01 is not zero.
ASSUME EncodingAssumption ==
    /\ \A m, n \in 0 .. Modulus - 1 : WordOf[m] = WordOf[n] => m = n
    /\ \A c \in Calls :
        c.length < Modulus /\ \A i \in DOMAIN c.parts : Len(c.parts[i]) < Modulus
    /\ Xor(OfNat(0), Pad) # OfNat(0)

TypeOK ==
    /\ call \in Calls
    /\ pc \in {"absorb", "permute", "finish", "squeeze", "done"}
    /\ then \in {"absorb", "finish", "squeeze"}
    /\ inputs \in Seq(Seq(Word))
    /\ words \in State /\ last \in State
    /\ buffer \in LaneWords /\ position \in 0 .. Rate - 1 /\ absorbed \in Nat
    /\ turn \in 0 .. Rounds
    /\ blocks \in Seq(LaneWords)
    /\ output \in Seq(Word) /\ counter \in Nat

\* KeyedSponge::new up to its permutation
Start(c) ==
    LET mixed == [l \in Lanes |-> Add(IV.c[l], Rotl(c.key[l], (l * 9 + 7) % 64))]
        keyed == [l \in Lanes |-> Xor(IV.w[l], c.key[l])]
    IN  [c |-> [mixed EXCEPT ![0] = Xor(@, c.domain)],
         w |-> [keyed EXCEPT ![5] = Xor(@, KeySize)]]

\* The inputs of absorb.  Mutant: parts without their lengths.
InputsUnprefixed(parts) == parts

\* A part follows its length.
Inputs(parts) ==
    [i \in 1 .. 2 * Len(parts) |->
        IF i % 2 = 1 THEN <<OfNat(Len(parts[(i + 1) \div 2]))>> ELSE parts[i \div 2]]

Init ==
    /\ call \in Calls
    /\ pc = "permute" /\ then = "absorb" /\ turn = 0
    /\ inputs = Inputs(call.parts)
    /\ words = Start(call) /\ last = words
    /\ buffer = Empty /\ position = 0 /\ absorbed = 0
    /\ blocks = <<>> /\ output = <<>> /\ counter = 0

-----------------------------------------------------------------------------

\* permute, one round at a time
PermuteRound ==
    /\ pc = "permute" /\ turn < Rounds
    /\ words' = RoundForward(words, turn)
    /\ last' = words
    /\ turn' = turn + 1
    /\ pc' = IF turn' = Rounds THEN then ELSE "permute"
    /\ UNCHANGED <<call, then, inputs, buffer, position, absorbed, blocks, output, counter>>

Permute(next) == pc' = "permute" /\ then' = next /\ turn' = 0 /\ last' = words'

\* commit_block for a full or padded buffer
CommitBlock(full, next) ==
    /\ words' = [words EXCEPT !.c = [l \in Lanes |-> Xor(@[l], full[l])]]
    /\ blocks' = Append(blocks, full)
    /\ buffer' = Empty /\ position' = 0
    /\ Permute(next)

\* The buffer after the first take bytes of input went in at position.
Filled(input, take) ==
    [l \in Lanes |-> IF l \in position .. position + take - 1
                     THEN input[l - position + 1] ELSE buffer[l]]

\* Mutant: an input that does not fit into the buffer is cut.
AbsorbCut ==
    /\ pc = "absorb" /\ inputs # <<>> /\ Head(inputs) # <<>>
    /\ LET input == Head(inputs)
           take == IF Len(input) < Rate - position THEN Len(input) ELSE Rate - position
       IN  /\ inputs' = Tail(inputs)
           /\ absorbed' = absorbed + take
           /\ IF position + take = Rate
              THEN CommitBlock(Filled(input, take), "absorb")
              ELSE /\ buffer' = Filled(input, take) /\ position' = position + take
                   /\ UNCHANGED <<words, blocks, pc, then, turn, last>>
    /\ UNCHANGED <<call, output, counter>>

\* Mutant: a full buffer waits for the next byte.
AbsorbLate ==
    /\ pc = "absorb" /\ inputs # <<>> /\ Head(inputs) # <<>>
    /\ LET input == Head(inputs)
           take == IF Len(input) < Rate - position THEN Len(input) ELSE Rate - position
       IN  /\ inputs' = <<SubSeq(input, take + 1, Len(input))>> \o Tail(inputs)
           /\ absorbed' = absorbed + take
           /\ buffer' = Filled(input, take) /\ position' = position + take
    /\ UNCHANGED <<call, words, blocks, pc, then, turn, last, output, counter>>

\* One turn of the loop of absorb.
Absorb ==
    /\ pc = "absorb" /\ inputs # <<>> /\ Head(inputs) # <<>>
    /\ LET input == Head(inputs)
           take == IF Len(input) < Rate - position THEN Len(input) ELSE Rate - position
       IN  /\ inputs' = <<SubSeq(input, take + 1, Len(input))>> \o Tail(inputs)
           /\ absorbed' = absorbed + take
           /\ IF position + take = Rate
              THEN CommitBlock(Filled(input, take), "absorb")
              ELSE /\ buffer' = Filled(input, take) /\ position' = position + take
                   /\ UNCHANGED <<words, blocks, pc, then, turn, last>>
    /\ UNCHANGED <<call, output, counter>>

\* absorb returns.
NextInput ==
    /\ pc = "absorb" /\ inputs # <<>> /\ Head(inputs) = <<>>
    /\ inputs' = Tail(inputs)
    /\ UNCHANGED <<call, pc, then, words, buffer, position, absorbed, turn, last,
                   blocks, output, counter>>

Mark(lanes, lane, byte) == [lanes EXCEPT ![lane] = Xor(@, byte)]

\* finalize: the padding goes into the last block, into one byte twice when
\* only that is free.
PadBlock ==
    /\ pc = "absorb" /\ inputs = <<>>
    /\ CommitBlock(Mark(Mark(buffer, position, Pad), Rate - 1, LastBit), "finish")
    /\ UNCHANGED <<call, inputs, absorbed, output, counter>>

\* finalize goes on: the key again, and how much went in and shall come out.
Finish ==
    /\ pc = "finish"
    /\ words' = [c |-> Mark(Mark(words.c, 0, OfNat(absorbed)), 1, OfNat(call.length)),
                 w |-> Mark([l \in Lanes |-> Xor(words.w[l], call.key[l])], 5, Final)]
    /\ Permute("squeeze")
    /\ UNCHANGED <<call, inputs, buffer, position, absorbed, blocks, output, counter>>

\* One turn of the loop of squeeze.
Squeeze ==
    /\ pc = "squeeze"
    /\ LET left == call.length - Len(output)
           take == IF left < Rate THEN left ELSE Rate
       IN  /\ output' = output \o [i \in 1 .. take |-> words.c[i - 1]]
           /\ IF take < left
              THEN /\ counter' = counter + 1
                   /\ words' = [words EXCEPT !.w = [words.w EXCEPT
                                  ![4] = Xor(@, OfNat(counter')), ![5] = Add(@, Golden)]]
                   /\ Permute("squeeze")
              ELSE pc' = "done" /\ UNCHANGED <<counter, words, then, turn, last>>
    /\ UNCHANGED <<call, inputs, buffer, position, absorbed, blocks>>

Return == pc = "done" /\ UNCHANGED vars

Next == PermuteRound \/ Absorb \/ NextInput \/ PadBlock \/ Finish \/ Squeeze \/ Return

Spec == Init /\ [][Next]_vars

-----------------------------------------------------------------------------
(* Properties *)

\* The permutation loses nothing: whatever state it is in, the inverse round
\* leads back to the one before.
RoundsInvert == pc = "permute" /\ turn > 0 => RoundInverse(words, turn - 1) = last

\* All inputs of absorb behind each other.
Joined(s) ==
    LET upTo[n \in 0 .. Len(s)] == IF n = 0 THEN <<>> ELSE upTo[n - 1] \o s[n]
    IN  upTo[Len(s)]

\* The bytes a call means to absorb: the inputs, a one behind them, and the last
\* bit of the last block.
Padded(c) ==
    LET input == Joined(Inputs(c.parts))
        size  == ((Len(input) \div Rate) + 1) * Rate
        byte(i) == IF i <= Len(input) THEN input[i]
                   ELSE IF i = Len(input) + 1 THEN Xor(OfNat(0), Pad) ELSE OfNat(0)
    IN  [i \in 1 .. size |-> IF i = size THEN Xor(byte(i), LastBit) ELSE byte(i)]

\* However the inputs fall on the blocks, their bytes are absorbed in order, each
\* once, and padding follows them.
BlocksAreInput ==
    LET bytes == Padded(call)
    IN  /\ \A k \in DOMAIN blocks, l \in Lanes :
              (k - 1) * Rate + l < Len(bytes) /\ blocks[k][l] = bytes[(k - 1) * Rate + l + 1]
        /\ pc = "done" => Rate * Len(blocks) = Len(bytes)

\* No two calls are computed alike: the state they start from, what they absorb
\* and the lengths they end with tell key, domain, parts and output length.
Fed(c) ==
    LET start == Start(c)
    IN  <<start, Padded(c), OfNat(Len(Joined(Inputs(c.parts)))), OfNat(c.length)>>
FedBy == [c \in Calls |-> Fed(c)]
CallsDiffer ==
    pc = "done" =>
        \A c \in Calls \ {call} :
            FedBy[c] # <<Start(call),
                         [i \in 1 .. Rate * Len(blocks) |->
                             blocks[((i - 1) \div Rate) + 1][(i - 1) % Rate]],
                         OfNat(absorbed), OfNat(call.length)>>

=============================================================================
