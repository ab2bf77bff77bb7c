----------------------------- MODULE CrashStore -----------------------------
(***************************************************************************)
(* What an encrypted volume promises to the filesystem above it, without a *)
(* log or a superblock: a map from blocks to contents that is updated by   *)
(* whole transactions, survives a power loss in one of a few states, and   *)
(* in exactly one state once a write has been acknowledged.                *)
(*                                                                         *)
(* Volume.tla implements it.                                               *)
(***************************************************************************)

CONSTANTS
    Blocks,     \* logical blocks of the volume
    Values,     \* block contents
    NoVal       \* the content of a block that was never written

VARIABLES
    view,       \* what a reader of the volume gets now
    maybe,      \* the views a power loss at this instant could leave
    acked,      \* the last write returned Ok and no write began since
    unsure      \* a write failed, but may have reached the medium

vars == <<view, maybe, acked, unsure>>

Views == [Blocks -> Values \cup {NoVal}]
Empty == [b \in Blocks |-> NoVal]

\* A transaction gives new contents to a nonempty set of blocks.
Transactions == UNION {[B -> Values] : B \in (SUBSET Blocks) \ {{}}}

Apply(v, txn) == [b \in Blocks |-> IF b \in DOMAIN txn THEN txn[b] ELSE v[b]]

TypeOK ==
    /\ view \in Views
    /\ maybe \in SUBSET Views
    /\ acked \in BOOLEAN
    /\ unsure \in BOOLEAN

Init ==
    /\ view = Empty
    /\ maybe = {Empty}
    /\ acked = FALSE
    /\ unsure = FALSE

\* A writer enters write_blocks: the previous promise is over.
Begin ==
    /\ acked' = FALSE
    /\ UNCHANGED <<view, maybe, unsure>>

\* The whole transaction becomes visible; the medium may or may not have it.
Commit ==
    /\ ~acked
    /\ view' \in {Apply(view, txn) : txn \in Transactions}
    /\ view' \in maybe'
    /\ maybe' \subseteq maybe \cup {view, view'}
    /\ UNCHANGED <<acked, unsure>>

\* A commit that reported an error may still have reached the medium, whole.
Doubt ==
    /\ ~acked
    /\ \E v \in {Apply(view, txn) : txn \in Transactions} :
          maybe' \subseteq maybe \cup {view, v}
    /\ unsure' = TRUE
    /\ UNCHANGED <<view, acked>>

\* Some outcome is ruled out (a flush, or an overwrite of an old superblock);
\* it is the one readers see only while a failed write is in doubt (and then
\* overwriting what landed may bring it back).
Harden ==
    /\ UNCHANGED <<acked, unsure, view>>
    /\ maybe' \subseteq maybe \cup {view}
    /\ view \in maybe' \/ (unsure /\ maybe' # {})

\* The write returns Ok: one outcome is left.
Ack ==
    /\ maybe' = {view}
    /\ acked' = TRUE
    /\ unsure' = FALSE
    /\ UNCHANGED view

\* The machine loses power and comes back with one of the outcomes.
PowerLoss ==
    /\ view' \in maybe
    /\ maybe' = {view'}
    /\ UNCHANGED <<acked, unsure>>

\* The process dies after a failed commit that did land: the next open
\* adopts the outcome that was in doubt.
Adopt ==
    /\ unsure
    /\ view' \in maybe
    /\ UNCHANGED <<maybe, acked, unsure>>

Next == Harden \/ Begin \/ Ack \/ Commit \/ Doubt \/ PowerLoss \/ Adopt

Spec == Init /\ [][Next]_vars

\* The durability promise of the abstract store: once a write is acknowledged
\* (write_blocks returned Ok), no power loss can leave anything but its result.
AckedIsDurable == acked => maybe = {view}

=============================================================================
