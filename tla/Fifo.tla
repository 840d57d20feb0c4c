--------------------------------- MODULE Fifo ---------------------------------
(***************************************************************************)
(* What the tracker expects of the queue of blocks (FifoQueue): the items  *)
(* of each producer are processed once, one at a time, in the order they   *)
(* were pushed, and a producer goes on after the last of them. There is no *)
(* water mark and no wake-up here. The process may end at any time.        *)
(***************************************************************************)
EXTENDS Sequences

CONSTANTS Producers, Work

VARIABLES
    left,       \* chunks that each producer has still to push
    pending,    \* items pushed and not yet processed
    processed,  \* items processed, in order
    returned,   \* producers that went on
    alive       \* the process runs

fifoVars == <<left, pending, processed, returned, alive>>

FifoInit ==
    /\ left = Work
    /\ pending = <<>> /\ processed = <<>>
    /\ returned = {} /\ alive = TRUE

Accept(p) ==
    /\ alive /\ left[p] # <<>>
    /\ pending' = pending \o Head(left[p])
    /\ left' = [left EXCEPT ![p] = Tail(@)]
    /\ UNCHANGED <<processed, returned, alive>>

Process ==
    /\ alive /\ pending # <<>>
    /\ processed' = Append(processed, Head(pending))
    /\ pending' = Tail(pending)
    /\ UNCHANGED <<left, returned, alive>>

GoOn(p) ==
    /\ alive /\ left[p] = <<>>
    /\ \A i \in DOMAIN pending : pending[i].of # p
    /\ returned' = returned \cup {p}
    /\ UNCHANGED <<left, pending, processed, alive>>

Stop ==
    /\ alive /\ alive' = FALSE
    /\ UNCHANGED <<left, pending, processed, returned>>

FifoNext ==
    \/ \E p \in Producers : Accept(p) \/ GoOn(p)
    \/ Process
    \/ Stop

FifoSpec == FifoInit /\ [][FifoNext]_fifoVars
=============================================================================
