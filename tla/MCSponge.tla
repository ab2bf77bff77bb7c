-------------------------------- MODULE MCSponge --------------------------------
(***************************************************************************)
(* An instance of Sponge for TLC: words of four bits, with the lowest bits *)
(* of the code's constants.                                                *)
(***************************************************************************)
EXTENDS Sponge

Bits == INSTANCE Bitwise

MCWord == 0 .. 15
XorTable == [a \in MCWord, b \in MCWord |-> Bits!^^(a, b)]
MCXor(a, b) == XorTable[a, b]
MCAdd(a, b) == (a + b) % 16
MCSub(a, b) == (a + 16 - b) % 16
MCRotl(a, r) == LET k == 2 ^ (r % 4) IN ((a * k) % 16) + ((a * k) \div 16)
MCRotr(a, r) == MCRotl(a, 4 - (r % 4))
MCWordOf == [n \in MCWord |-> n]

Of(s) == [r \in RoundNumbers |-> s[r + 1]]
MCRcA == Of(<<13, 13, 13, 14, 10, 13, 8, 2, 15, 13, 13, 14, 14, 13, 1, 12, 13, 4>>)
MCRcB == Of(<<11, 2, 3, 3, 9, 8, 12, 15, 4, 4, 2, 5, 5, 9, 0, 8, 8, 14>>)
MCRcC == Of(<<5, 5, 13, 13, 9, 8, 13, 12, 8, 11, 3, 10, 12, 8, 14, 14, 6, 15>>)
MCIV == [c |-> [l \in Lanes |-> <<8, 1, 9, 10, 1, 6>>[l + 1]],
         w |-> [l \in Lanes |-> <<2, 12, 4, 14, 5, 6>>[l + 1]]]

\* Three keys that differ in one lane, two domains, a tag's, a key's and a stream's
\* length of output.
Key(n) == [l \in Lanes |-> IF l = 4 THEN n ELSE l]
Lists == {<<>>, <<0>>, <<1>>, <<2>>, <<0, 1>>, <<1, 0>>, <<1, 1>>, <<2, 1>>}
Ones(n) == [i \in 1 .. n |-> 1]

\* Parts whose bytes could be another's length, and parts that end before, at and
\* after the end of a block.
ShortCalls == [key : {Key(0)}, domain : {1}, length : {4},
               parts : {<<>>} \cup {<<p>> : p \in Lists} \cup {<<p, q>> : p, q \in Lists}]
LongCalls == [key : {Key(0)}, domain : {1}, length : {6},
              parts : {<<Ones(n)>> : n \in 3 .. 12} \cup {<<Ones(n), Ones(3)>> : n \in 0 .. 6}]
OtherCalls == [key : {Key(0), Key(1), Key(8)}, domain : {1, 2}, length : {0, 7, 13},
               parts : {<< <<1>> >>}]
MCCalls == ShortCalls \cup LongCalls \cup OtherCalls

=============================================================================
