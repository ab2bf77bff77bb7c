SPECIFICATION Spec
CONSTANTS
    Word <- MCWord
    Xor <- MCXor
    Add <- MCAdd
    Sub <- MCSub
    Rotl <- MCRotl
    Rotr <- MCRotr
    Modulus = 16
    WordOf <- MCWordOf
    RcA <- MCRcA
    RcB <- MCRcB
    RcC <- MCRcC
    IV <- MCIV
    Calls <- MCCalls
    Pad = 1
    LastBit = 8
    Final = 9
    KeySize = 6
    Golden = 5
INVARIANTS
    TypeOK
    RoundsInvert
    BlocksAreInput
    CallsDiffer
