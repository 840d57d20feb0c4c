-------------------------------- MODULE Queue --------------------------------
(***************************************************************************)
(* lib/queue.ts, FifoQueue, and its user: processBlockRange of the tracker *)
(* fetches blocks by chunks, pushes each chunk, waits while the queue is   *)
(* at its high water mark, and at the end until the queue is done.         *)
(*                                                                         *)
(* A queue is shared by any number of producers here; each call of         *)
(* processBlockRange makes one of its own. What runs between two awaits is *)
(* one step: a push begins the processing of the first item at once.       *)
(***************************************************************************)
EXTENDS Integers, FiniteSets, Sequences

CONSTANTS
    Producers,      \* calls of processBlockRange on the queue
    Work,           \* the chunks of blocks of each producer, in order
    NoItem,         \* processingFn is not running
    HighWaterMark,  \* length from which producers wait
    ChunkSize       \* bound of the length of a chunk

Items == [of : Producers, height : Nat]

ASSUME QueueAssumption ==
    /\ HighWaterMark \in Nat \ {0} /\ ChunkSize \in Nat \ {0}
    /\ IsFiniteSet(Producers)
    /\ NoItem \notin Items
    /\ Work \in [Producers -> Seq(Seq(Items))]
    /\ \A p \in Producers : \A i \in DOMAIN Work[p] :
         /\ Len(Work[p][i]) \in 1 .. ChunkSize
         /\ \A k \in DOMAIN Work[p][i] : Work[p][i][k].of = p

VARIABLES
    items,                  \* items waiting
    working,                \* the item that processingFn has
    isProcessing,
    isWaterMarkExceeded,
    producer,               \* where each producer is, and the chunks it has left
    alive,                  \* the process runs
    processed               \* history: the items processed, in order

queueVars == <<items, working, isProcessing, isWaterMarkExceeded, producer, alive, processed>>

QueueInit ==
    /\ items = <<>> /\ working = NoItem
    /\ isProcessing = FALSE /\ isWaterMarkExceeded = FALSE
    /\ producer = [p \in Producers |-> [step |-> "start", left |-> Work[p]]]
    /\ alive = TRUE
    /\ processed = <<>>

\* The sets of resolvers.
waterMarkQueue == {p \in Producers : producer[p].step = "waterMark"}
finishedEmitterQueue == {p \in Producers : producer[p].step = "finished"}

-----------------------------------------------------------------------------
\* Fault: nobody waits on the water mark.
NextWait_NoWaterMark(left, exceeded, processing) ==
    IF left # <<>> THEN "fetch" ELSE IF processing THEN "finished" ELSE "awake"

\* waitOnWaterMark while there are chunks to fetch, then waitOnFinished
NextWait(left, exceeded, processing) ==
    IF left # <<>> THEN IF exceeded THEN "waterMark" ELSE "fetch"
    ELSE IF processing THEN "finished" ELSE "awake"

StartRange(p) ==
    /\ producer[p].step = "start"
    /\ producer' = [producer EXCEPT ![p].step =
                      NextWait(producer[p].left, isWaterMarkExceeded, isProcessing)]
    /\ UNCHANGED <<items, working, isProcessing, isWaterMarkExceeded, alive, processed>>

\* Fault: each push begins a loop of its own.
OnPush_NoGuard(chunk) ==
    /\ isWaterMarkExceeded' = (Len(items \o chunk) >= HighWaterMark)
    /\ isProcessing' = TRUE
    /\ items' = Tail(items \o chunk)
    /\ working' = Head(items \o chunk)

\* The first push on an idle queue begins the loop, which takes an item at once.
OnPush(chunk) ==
    /\ isWaterMarkExceeded' = (Len(items \o chunk) >= HighWaterMark)
    /\ isProcessing' = TRUE
    /\ items' = IF isProcessing THEN items \o chunk ELSE Tail(items \o chunk)
    /\ working' = IF isProcessing THEN working ELSE Head(items \o chunk)

\* The pool has fetched a chunk: it is pushed, and the next wait begins.
PushChunk(p) ==
    LET left == Tail(producer[p].left)
    IN  /\ producer[p].step = "fetch"
        /\ OnPush(Head(producer[p].left))
        /\ producer' = [producer EXCEPT ![p] =
                          [step |-> NextWait(left, isWaterMarkExceeded', TRUE), left |-> left]]
        /\ UNCHANGED <<alive, processed>>

\* The producers whose promise checkWaterMark or onFinished resolves.
Woken(step, finished) ==
    IF step = "waterMark" /\ Len(items) < HighWaterMark THEN "fetch"
    ELSE IF step = "finished" /\ finished THEN "awake"
    ELSE step

\* Fault: the queue is busy for ever.
OnFinished_StaysBusy == isProcessing' = TRUE

OnFinished == isProcessing' = (items # <<>>)

\* processingFn is done: checkWaterMark, then the next item, or onFinished
FinishItem ==
    /\ working # NoItem
    /\ processed' = Append(processed, working)
    /\ isWaterMarkExceeded' = (isWaterMarkExceeded /\ Len(items) >= HighWaterMark)
    /\ items' = IF items = <<>> THEN <<>> ELSE Tail(items)
    /\ working' = IF items = <<>> THEN NoItem ELSE Head(items)
    /\ OnFinished
    /\ producer' = [p \in Producers |->
                      [producer[p] EXCEPT !.step = Woken(@, items = <<>>)]]
    /\ UNCHANGED alive

ReturnFromRange(p) ==
    /\ producer[p].step = "awake"
    /\ producer' = [producer EXCEPT ![p].step = "returned"]
    /\ UNCHANGED <<items, working, isProcessing, isWaterMarkExceeded, alive, processed>>

\* A block that cannot be fetched (process.exit()), an error of processingFn, which
\* onPush leaves unhandled, or any other end of the tracker.
Exit ==
    /\ alive' = FALSE
    /\ UNCHANGED <<items, working, isProcessing, isWaterMarkExceeded, producer, processed>>

Produce(p) == StartRange(p) \/ PushChunk(p) \/ ReturnFromRange(p)

QueueNext ==
    /\ alive
    /\ \/ \E p \in Producers : Produce(p)
       \/ FinishItem
       \/ Exit

QueueSpec == QueueInit /\ [][QueueNext]_queueVars

\* The event loop goes on; fetches and processingFn end, or end the process.
QueueFairness ==
    /\ \A p \in Producers : WF_queueVars(alive /\ Produce(p))
    /\ WF_queueVars(alive /\ FinishItem)

-----------------------------------------------------------------------------
(* Properties *)

QueueTypeOK ==
    /\ items \in Seq(Items) /\ working \in Items \cup {NoItem}
    /\ isProcessing \in BOOLEAN /\ isWaterMarkExceeded \in BOOLEAN
    /\ producer \in [Producers ->
         [step : {"start", "waterMark", "fetch", "finished", "awake", "returned"},
          left : Seq(Seq(Items))]]
    /\ alive \in BOOLEAN
    /\ processed \in Seq(Items)

\* checkWaterMark runs after an item only: a producer that waits at the mark, or for
\* the end, always has an item in work whose end will wake it.
NoMissedWakeup ==
    /\ waterMarkQueue # {} => isWaterMarkExceeded /\ working # NoItem
    /\ finishedEmitterQueue # {} => working # NoItem

\* The mark bounds the memory: the queue never holds more than the mark and one chunk
\* for each producer that had passed its wait when the others pushed.
QueueBounded == Len(items) < HighWaterMark + ChunkSize * Cardinality(Producers)

\* Back-pressure neither stops the import of blocks for ever nor lets it outgrow memory.
BackPressureWorks == NoMissedWakeup /\ QueueBounded

\* Each call of processBlockRange that begins ends, unless the process does.
EveryRangeReturns ==
    \A p \in Producers :
        producer[p].step # "start" ~> producer[p].step = "returned" \/ ~alive

\* The queue, with its water mark and its wake-ups, is the plain queue of Fifo: order
\* kept, nothing lost or processed twice, and nobody goes on before its last item is
\* processed (the tracker releases its semaphore on that).
Implemented == INSTANCE Fifo WITH
    left <- [p \in Producers |-> producer[p].left],
    pending <- (IF working = NoItem THEN <<>> ELSE <<working>>) \o items,
    returned <- {p \in Producers : producer[p].step = "returned"}

ImplementsFifo == Implemented!FifoSpec
=============================================================================
