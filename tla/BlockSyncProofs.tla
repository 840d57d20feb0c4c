--------------------------- MODULE BlockSyncProofs ---------------------------
(***************************************************************************)
(* Proofs about BlockSync, for every tree of blocks, every set of          *)
(* transactions and every bound.                                           *)
(***************************************************************************)
EXTENDS BlockSync, TLAPS

-----------------------------------------------------------------------------
(* Facts about branches *)

\* An ancestor of an ancestor is an ancestor.
LEMMA OnChainTransitive ==
    ASSUME NEW x \in Blocks, NEW y \in Blocks, NEW z \in Blocks,
           OnChain(x, y), OnChain(y, z)
    PROVE  OnChain(x, z)
BY TreeAssumption, BoundsAssumption DEF OnChain, Heights

LEMMA OnChainReflexive ==
    ASSUME NEW x \in Blocks
    PROVE  OnChain(x, x)
BY TreeAssumption, BoundsAssumption DEF OnChain, Heights

\* The block of height h of a branch.
LEMMA AncestorOnChain ==
    ASSUME NEW b \in Blocks, NEW h \in Nat, h <= Height[b]
    PROVE  /\ Anc[b][h] \in Blocks
           /\ Height[Anc[b][h]] = h
           /\ OnChain(Anc[b][h], b)
BY TreeAssumption, BoundsAssumption DEF OnChain, Heights

\* Two blocks of one branch are on one branch themselves.
LEMMA SameBranch ==
    ASSUME NEW x \in Blocks, NEW y \in Blocks, NEW b \in Blocks,
           OnChain(x, b), OnChain(y, b), Height[x] <= Height[y]
    PROVE  OnChain(x, y)
BY TreeAssumption, BoundsAssumption DEF OnChain, Heights

-----------------------------------------------------------------------------
(* The inductive invariant *)

RangeSteps == {"pull", "store", "add", "confirm"}
RewindSteps == {"select", "unconfirm", "delete"}

\* What the locals j of task w hold at each of its steps, D being the rows of
\* table blocks: the block in hand, the ids it has read, the known ancestor at
\* which the trace stopped.
TaskOK(w, j, D) ==
    /\ j.ref \in D \cup {NoBlock, Gone}
    /\ \A h \in Heights : j.got[h] # NoBlock => Height[j.got[h]] = h
    /\ j.step \in RangeSteps => j.hi \in Heights
    /\ j.step \notin RangeSteps => j.ref = NoBlock /\ \A h \in Heights : j.got[h] = NoBlock
    /\ j.step \in {"store", "add", "confirm"} =>
          j.at \in Heights /\ j.at <= j.hi /\ j.got[j.at] # NoBlock
    /\ j.step = "confirm" => j.ref \in {j.got[j.at], Gone}
    /\ w = "rescan" => j.step \in RangeSteps \cup {"idle"}
    /\ w = "chain" => j.ref # Gone
    /\ j.mode = "ibd" => w = "chain"
    /\ j.step \in RewindSteps \cup {"trace"} =>
          j.top \in Blocks /\ j.lo <= Height[j.top] /\ j.hi = Height[j.top]
    /\ j.step \in RewindSteps =>
          j.at = j.lo /\ (j.lo = 0 \/ Anc[j.top][j.lo - 1] \in D)

TasksOK == \A w \in Workers : TaskOK(w, job[w], dbBlocks)

CheckOK ==
    /\ chk.step # "off" => chk.tx \in Txs
    /\ chk.step = "confirm" => chk.ref \in dbBlocks \cup {Gone}

TypeInv == TypeOK /\ TasksOK /\ CheckOK

\* The next block to register sits right above a row, or on one.
NextToRow ==
    rescans = 0 =>
        /\ job["rescan"].step = "idle"
        /\ job["chain"].step \in RangeSteps =>
             \/ dbBlocks = {}
             \/ \E x \in dbBlocks : Height[x] \in {job["chain"].at - 1, job["chain"].at}

NoneFetched(w) == \A h \in Heights : job[w].got[h] = NoBlock

\* Rows off the best chain exist only while a switch waits to be handled.
SwitchPending ==
    /\ NoneFetched("chain") /\ NoneFetched("rescan")
    /\ job["rescan"].step = "idle"
    /\ job["chain"].step = "idle" \/ BeforeRewind("chain")
    /\ \A i \in 1 .. Len(inbox) : OnChain(inbox[i], tip)
    /\ BeforeRewind("chain") => OnChain(job["chain"].top, tip)
    /\ lost \/ inbox # <<>> \/ BeforeRewind("chain")

FetchedOnChain ==
    \A w \in Workers : \A h \in Heights :
        job[w].got[h] # NoBlock => OnChain(job[w].got[h], tip)

ChainInv ==
    ~exposed => /\ OneBranch
                /\ FetchedOnChain
                /\ Orphans(tip) # {} => SwitchPending

IInv == TypeInv /\ NoGap /\ NextToRow /\ ChainInv

-----------------------------------------------------------------------------
(* Types: one lemma for the actions that only move a task, then one step     *)
(* per action                                                                *)

LEMMA TaskMoves ==
    ASSUME NEW w \in Workers, NEW j \in Job, TypeInv, TaskOK(w, j, dbBlocks),
           job' = [job EXCEPT ![w] = j], UNCHANGED <<dbBlocks, dbParent, headerOnly>>
    PROVE  /\ job' \in [Workers -> Job]
           /\ job'[w] = j
           /\ \A v \in Workers \ {w} : job'[v] = job[v]
           /\ TasksOK'
BY DEF TypeInv, TypeOK, TasksOK

LEMMA IdleTask ==
    ASSUME NEW D, NEW w \in Workers
    PROVE  /\ Idle \in Job /\ TaskOK(w, Idle, D)
           /\ Down \in Job /\ TaskOK("chain", Down, D)
           /\ Idle.step = "idle" /\ Down.step = "down"
           /\ \A h \in Heights : Idle.got[h] = NoBlock /\ Down.got[h] = NoBlock
BY NamesAssumption DEF Idle, Down, TaskOK, Job, RangeSteps, RewindSteps

LEMMA RangeRecord ==
    ASSUME NEW k \in Job, NEW mode \in {"boot", "ibd", "rescan"},
           NEW from \in Nat, NEW to \in Heights, NEW row \in dbBlocks \cup {NoBlock},
           dbBlocks \subseteq Blocks
    PROVE  [k EXCEPT !.mode = mode, !.step = "pull",
                     !.lo = from, !.at = from, !.hi = to, !.ref = row] \in Job
<1>1. to \in Nat
  BY BoundsAssumption DEF Heights
<1>2. row \in Blocks \cup {NoBlock, Gone}
  OBVIOUS
<1> QED BY <1>1, <1>2 DEF Job

LEMMA RangeTask ==
    ASSUME NEW w \in Workers, NEW mode \in {"boot", "ibd", "rescan"},
           NEW from \in Nat, NEW to \in Heights, NEW row \in dbBlocks \cup {NoBlock},
           job[w] \in Job, NoneFetched(w), dbBlocks \subseteq Blocks,
           mode = "ibd" => w = "chain"
    PROVE  LET j == RunRange(w, mode, from, to, row)
           IN  /\ j \in Job /\ TaskOK(w, j, dbBlocks)
               /\ j.step = "pull" /\ j.at = from /\ j.got = job[w].got
<1> DEFINE j == RunRange(w, mode, from, to, row)
<1>1. j \in Job
  BY RangeRecord DEF RunRange
<1>2. j.step = "pull" /\ j.at = from /\ j.hi = to
  BY DEF RunRange, Job
<1>3. j.got = job[w].got /\ j.ref = row /\ j.mode = mode
  BY DEF RunRange, Job
<1> HIDE DEF j
<1>4. TaskOK(w, j, dbBlocks)
  BY <1>1, <1>2, <1>3, NamesAssumption DEF TaskOK, RangeSteps, RewindSteps, NoneFetched
<1> QED BY <1>1, <1>2, <1>3, <1>4 DEF j

LEMMA TasksTyped ==
    ASSUME TypeInv
    PROVE  /\ "chain" \in Workers /\ "rescan" \in Workers
           /\ job \in [Workers -> Job]
           /\ job["chain"] \in Job /\ job["rescan"] \in Job
           /\ \A w \in Workers : w = "chain" \/ w = "rescan"
           /\ \A w \in Workers : TaskOK(w, job[w], dbBlocks)
           /\ \A w \in Workers : job[w].step \notin RangeSteps =>
                 NoneFetched(w) /\ job[w].ref = NoBlock
BY DEF TypeInv, TypeOK, TasksOK, Workers, TaskOK, NoneFetched

\* getHighestBlock returns no row, or a row of the table.
LEMMA HighestRowsTyped ==
    ASSUME TypeInv, NEW row \in HighestRows
    PROVE  /\ row \in dbBlocks \cup {NoBlock}
           /\ RowHeight(row) \in Heights
           /\ row = NoBlock <=> dbBlocks = {}
           /\ \A c \in dbBlocks : Height[c] <= RowHeight(row)
BY TreeAssumption, BoundsAssumption, NamesAssumption
   DEF TypeInv, TypeOK, HighestRows, RowHeight, Heights

\* What every action that only moves task w, to the locals j, must establish.
LEMMA TypeMoves ==
    ASSUME NEW w \in Workers, NEW j \in Job, TypeInv, TaskOK(w, j, dbBlocks),
           job' = [job EXCEPT ![w] = j],
           UNCHANGED <<tip, dbBlocks, dbParent, headerOnly, chk, crashes>>,
           inbox' \in Seq(Blocks), lost' \in BOOLEAN, exposed' \in BOOLEAN, rescans' \in Nat,
           txBlock' \in [Txs -> dbBlocks \cup {NoBlock, Missing}]
    PROVE  TypeInv'
<1>1. job' \in [Workers -> Job] /\ TasksOK'
  BY TaskMoves
<1>2. TypeOK'
  BY <1>1 DEF TypeInv, TypeOK
<1>3. CheckOK'
  BY DEF TypeInv, CheckOK
<1> QED BY <1>1, <1>2, <1>3 DEF TypeInv

LEMMA GapMoves ==
    ASSUME NoGap, NextToRow, UNCHANGED <<dbBlocks, rescans>>,
           rescans = 0 => job'["rescan"].step = "idle",
           rescans = 0 /\ job'["chain"].step \in RangeSteps /\ dbBlocks # {} =>
              \E x \in dbBlocks : Height[x] \in {job'["chain"].at - 1, job'["chain"].at}
    PROVE  NoGap' /\ NextToRow'
BY DEF NoGap, NextToRow

LEMMA ChainMoves ==
    ASSUME ChainInv, UNCHANGED <<tip, dbBlocks>>,
           exposed' = FALSE => exposed = FALSE, exposed \in BOOLEAN, exposed' \in BOOLEAN,
           ~exposed /\ FetchedOnChain => FetchedOnChain',
           ~exposed' /\ Orphans(tip) # {} /\ SwitchPending => SwitchPending'
    PROVE  ChainInv'
BY DEF ChainInv, OneBranch, Orphans

\* Rows off the best chain, and a task outside idle, trace and rewind: one of
\* the windows has been hit.
LEMMA NotPending ==
    ASSUME ChainInv, ~exposed, NEW w \in Workers,
           \/ w = "rescan" /\ job[w].step # "idle"
           \/ w = "chain" /\ job[w].step \notin RewindSteps \cup {"idle", "trace"}
    PROVE  Orphans(tip) = {}
BY DEF ChainInv, SwitchPending, BeforeRewind, RewindSteps

\* A task that is neither idle nor tracing or rewinding a notification moves,
\* and leaves the table of blocks alone.
LEMMA BusyMoves ==
    ASSUME NEW w \in Workers, NEW j \in Job, IInv, TaskOK(w, j, dbBlocks),
           job' = [job EXCEPT ![w] = j],
           UNCHANGED <<tip, dbBlocks, dbParent, headerOnly, chk, crashes, rescans, exposed>>,
           inbox' \in Seq(Blocks), lost' \in BOOLEAN,
           txBlock' \in [Txs -> dbBlocks \cup {NoBlock, Missing}],
           job[w].step \notin RewindSteps \cup {"idle", "trace"},
           w = "chain" /\ j.step \in RangeSteps /\ rescans = 0 /\ dbBlocks # {} =>
              \E x \in dbBlocks : Height[x] \in {j.at - 1, j.at},
           ~exposed =>
              \A h \in Heights : j.got[h] # NoBlock => OnChain(j.got[h], tip)
    PROVE  IInv'
<1>1. job'[w] = j /\ \A v \in Workers \ {w} : job'[v] = job[v]
  BY TaskMoves DEF IInv
<1>2. TypeInv'
  BY TypeMoves DEF IInv, TypeInv, TypeOK
<1>3. NoGap' /\ NextToRow'
  BY <1>1, GapMoves DEF IInv, NextToRow, Workers
<1>4. ~exposed /\ FetchedOnChain => FetchedOnChain'
  BY <1>1 DEF FetchedOnChain
<1>5. ~exposed => Orphans(tip) = {}
  BY NotPending DEF IInv, Workers
<1>6. ChainInv'
  BY <1>4, <1>5, ChainMoves DEF IInv, TypeInv, TypeOK
<1> QED BY <1>2, <1>3, <1>6 DEF IInv

\* Before the move, what task w has fetched is on the best chain.
LEMMA FetchedBefore ==
    ASSUME IInv, NEW w \in Workers, NEW h \in Heights, job[w].got[h] # NoBlock
    PROVE  /\ job[w].got[h] \in Blocks
           /\ Height[job[w].got[h]] = h
           /\ ~exposed => OnChain(job[w].got[h], tip)
BY DEF IInv, TypeInv, TypeOK, TasksOK, TaskOK, Job, ChainInv, FetchedOnChain

-----------------------------------------------------------------------------
(* Startup *)

LEMMA RestartStep ==
    ASSUME IInv, Restart
    PROVE  IInv'
<1> DEFINE j == [job["chain"] EXCEPT !.step = "boot"]
<1>1. /\ j \in Job /\ j.step = "boot" /\ j.got = job["chain"].got
      /\ j.ref = job["chain"].ref
  BY TasksTyped DEF IInv, Job
<1>2. job["chain"].step = "down" /\ job' = [job EXCEPT !["chain"] = j]
  BY DEF Restart
<1> HIDE DEF j
<1>3. TaskOK("chain", j, dbBlocks)
  BY <1>1, <1>2, TasksTyped DEF IInv, TaskOK, RangeSteps, RewindSteps
<1> QED
  BY <1>1, <1>2, <1>3, BusyMoves, FetchedBefore
     DEF Restart, Workers, RangeSteps, RewindSteps, IInv, TypeInv, TypeOK

LEMMA CatchupStep ==
    ASSUME IInv, Catchup
    PROVE  IInv'
<1>1. PICK s \in {"bootIBD", "bootNormal"} :
         job["chain"].step = "boot" /\ job' = [job EXCEPT !["chain"].step = s]
  BY DEF Catchup
<1> DEFINE j == [job["chain"] EXCEPT !.step = s]
<1>2. /\ j \in Job /\ j.step = s /\ j.got = job["chain"].got
      /\ j.ref = job["chain"].ref
  BY TasksTyped DEF IInv, Job
<1>3. job' = [job EXCEPT !["chain"] = j]
  BY <1>1
<1> HIDE DEF j
<1>4. TaskOK("chain", j, dbBlocks)
  BY <1>1, <1>2, TasksTyped DEF IInv, TaskOK, RangeSteps, RewindSteps
<1> QED
  BY <1>1, <1>2, <1>3, <1>4, BusyMoves, FetchedBefore
     DEF Catchup, Workers, RangeSteps, RewindSteps, IInv, TypeInv, TypeOK

\* Startup ends: the task becomes idle.
LEMMA BecomesIdle ==
    ASSUME NEW w \in Workers, IInv, job' = [job EXCEPT ![w] = Idle],
           UNCHANGED <<tip, inbox, dbBlocks, dbParent, headerOnly, chk, crashes, rescans,
                       exposed, txBlock>>,
           lost' \in BOOLEAN,
           job[w].step \notin RewindSteps \cup {"idle", "trace"}
    PROVE  IInv'
BY BusyMoves, IdleTask DEF RangeSteps, IInv, TypeInv, TypeOK

\* Startup goes on with a range of blocks: what is in hand comes next.
LEMMA RangeStarts ==
    ASSUME IInv, NEW mode \in {"boot", "ibd"}, NEW from \in Nat, NEW to \in Heights,
           NEW row \in dbBlocks \cup {NoBlock},
           job' = [job EXCEPT !["chain"] = RunRange("chain", mode, from, to, row)],
           UNCHANGED <<tip, inbox, dbBlocks, dbParent, headerOnly, chk, crashes, rescans,
                       exposed, txBlock>>,
           lost' \in BOOLEAN,
           job["chain"].step \in {"bootNormal", "bootIBD"},
           dbBlocks # {} => \E x \in dbBlocks : Height[x] \in {from - 1, from}
    PROVE  IInv'
<1> DEFINE j == RunRange("chain", mode, from, to, row)
<1>1. "chain" \in Workers /\ job["chain"] \in Job /\ NoneFetched("chain")
      /\ dbBlocks \subseteq Blocks
  BY TasksTyped DEF IInv, TypeInv, TypeOK, RangeSteps
<1>2. /\ j \in Job /\ TaskOK("chain", j, dbBlocks)
      /\ j.step = "pull" /\ j.at = from /\ j.got = job["chain"].got
  BY <1>1, RangeTask
<1> HIDE DEF j
<1> QED
  BY <1>1, <1>2, BusyMoves
     DEF NoneFetched, RangeSteps, RewindSteps, IInv, TypeInv, TypeOK, j

LEMMA CatchupNormalModeStep ==
    ASSUME IInv, CatchupNormalMode
    PROVE  IInv'
<1>1. PICK row \in HighestRows :
         job' = [job EXCEPT !["chain"] =
                   IF Height[tip] <= RowHeight(row) THEN Idle
                   ELSE RunRange("chain", "boot", RowHeight(row), Height[tip], NoBlock)]
  BY DEF CatchupNormalMode
<1>2. /\ RowHeight(row) \in Nat
      /\ dbBlocks # {} => \E x \in dbBlocks : Height[x] = RowHeight(row)
  BY HighestRowsTyped, BoundsAssumption DEF IInv, Heights, RowHeight
<1>3. CASE Height[tip] <= RowHeight(row)
  BY <1>1, <1>3, BecomesIdle, TasksTyped
     DEF CatchupNormalMode, IInv, RewindSteps
<1>4. CASE ~(Height[tip] <= RowHeight(row))
  <2>1. Height[tip] \in Heights
    BY TreeAssumption DEF IInv, TypeInv, TypeOK
  <2> QED BY <1>1, <1>2, <1>4, <2>1, RangeStarts DEF CatchupNormalMode
<1> QED BY <1>3, <1>4

LEMMA CatchupNormalModeFailsStep ==
    ASSUME IInv, CatchupNormalModeFails
    PROVE  IInv'
BY BecomesIdle, TasksTyped DEF CatchupNormalModeFails, IInv, RewindSteps

LEMMA CatchupIBDModeStep ==
    ASSUME IInv, CatchupIBDMode
    PROVE  IInv'
<1>1. PICK row \in HighestRows :
         \/ /\ lost' = FALSE
            /\ job' = [job EXCEPT !["chain"] =
                         RunRange("chain", "ibd", RowHeight(row) + 1, Height[tip], row)]
         \/ /\ lost' = (RowHeight(row) < Height[tip])
            /\ job' = [job EXCEPT !["chain"] = Idle]
  BY DEF CatchupIBDMode
<1>2. job["chain"].step = "bootIBD"
  BY DEF CatchupIBDMode
<1>3. lost' \in BOOLEAN
  <2>1. (RowHeight(row) < Height[tip]) \in BOOLEAN
    OBVIOUS
  <2> QED BY <1>1, <2>1, Zenon
<1> DEFINE from == RowHeight(row) + 1
<1>4. /\ from \in Nat /\ row \in dbBlocks \cup {NoBlock}
      /\ dbBlocks # {} => \E x \in dbBlocks : Height[x] \in {from - 1, from}
  BY HighestRowsTyped, BoundsAssumption DEF IInv, Heights, RowHeight
<1> Height[tip] \in Heights
  BY TreeAssumption DEF IInv, TypeInv, TypeOK
<1>5. CASE job' = [job EXCEPT !["chain"] = RunRange("chain", "ibd", from, Height[tip], row)]
  <2> HIDE DEF from
  <2> QED BY <1>2, <1>3, <1>4, <1>5, RangeStarts DEF CatchupIBDMode
<1>6. CASE job' = [job EXCEPT !["chain"] = Idle]
  BY <1>2, <1>3, <1>6, BecomesIdle, TasksTyped DEF CatchupIBDMode, IInv, RewindSteps
<1> QED BY <1>1, <1>5, <1>6

-----------------------------------------------------------------------------
(* A notification is traced and the database rewound *)

\* The chain task moves while it is idle, tracing or rewinding, and leaves the
\* table of blocks alone. It has fetched nothing; a notification of the best
\* chain stays one.
LEMMA LiveMoves ==
    ASSUME NEW j \in Job, IInv, TaskOK("chain", j, dbBlocks),
           job' = [job EXCEPT !["chain"] = j],
           UNCHANGED <<tip, dbBlocks, dbParent, headerOnly, chk, crashes, rescans, exposed>>,
           inbox' \in Seq(Blocks), lost' \in BOOLEAN,
           txBlock' \in [Txs -> dbBlocks \cup {NoBlock, Missing}],
           j.step \in RewindSteps \cup {"idle", "trace"},
           SwitchPending =>
              /\ \A i \in 1 .. Len(inbox') : OnChain(inbox'[i], tip)
              /\ j.step # "idle" => OnChain(j.top, tip)
              /\ lost' \/ inbox' # <<>> \/ j.step # "idle"
    PROVE  IInv'
<1>1. /\ job'["chain"] = j /\ job'["rescan"] = job["rescan"]
  BY TaskMoves, TasksTyped DEF IInv, Workers
<1>2. j.step \notin RangeSteps /\ \A h \in Heights : j.got[h] = NoBlock
  BY DEF TaskOK, RangeSteps, RewindSteps
<1>3. TypeInv'
  BY TypeMoves, TasksTyped DEF IInv, TypeInv, TypeOK
<1>4. NoGap' /\ NextToRow'
  BY <1>1, <1>2, GapMoves DEF IInv, NextToRow
<1>5. FetchedOnChain => FetchedOnChain'
  BY <1>1, <1>2, TasksTyped DEF IInv, FetchedOnChain, Workers
<1>6. SwitchPending => SwitchPending'
  BY <1>1, <1>2 DEF SwitchPending, NoneFetched, BeforeRewind, RewindSteps
<1>7. ChainInv'
  BY <1>5, <1>6, ChainMoves DEF IInv, TypeInv, TypeOK
<1> QED BY <1>3, <1>4, <1>7 DEF IInv

LEMMA OnBlockHashStep ==
    ASSUME IInv, OnBlockHash
    PROVE  IInv'
<1> DEFINE b == Head(inbox)
           j == [Idle EXCEPT !.mode = "live", !.step = "trace", !.top = b,
                             !.lo = Height[b], !.hi = Height[b]]
<1>1. inbox \in Seq(Blocks) /\ inbox # <<>> /\ b \in Blocks /\ Height[b] \in Nat
      /\ inbox' = Tail(inbox) /\ inbox' \in Seq(Blocks)
  BY TreeAssumption, BoundsAssumption DEF OnBlockHash, IInv, TypeInv, TypeOK, Heights
<1> HIDE DEF b
<1>2. j \in Job
  BY <1>1, IdleTask DEF Job, Workers
<1>3. /\ j.step = "trace" /\ j.top = b /\ j.lo = Height[b] /\ j.hi = Height[b]
      /\ j.got = Idle.got /\ j.ref = Idle.ref
  BY IdleTask DEF Job, Workers
<1>4. job' = [job EXCEPT !["chain"] = j]
  BY DEF OnBlockHash, b
<1> HIDE DEF j
<1>5. TaskOK("chain", j, dbBlocks)
  BY <1>1, <1>3, IdleTask, NamesAssumption
     DEF TaskOK, RangeSteps, RewindSteps, Idle
<1>6. SwitchPending =>
         /\ \A i \in 1 .. Len(inbox') : OnChain(inbox'[i], tip)
         /\ OnChain(j.top, tip)
  BY <1>1, <1>3 DEF SwitchPending, b
<1> QED
  BY <1>1, <1>2, <1>3, <1>4, <1>5, <1>6, LiveMoves
     DEF OnBlockHash, IInv, TypeInv, TypeOK

LEMMA OnBlockHashFailsStep ==
    ASSUME IInv, OnBlockHashFails
    PROVE  IInv'
<1>1. lost' \in BOOLEAN
  <2>1. (inbox = <<>>) \in BOOLEAN
    OBVIOUS
  <2> QED BY <2>1, Zenon DEF OnBlockHashFails, IInv, TypeInv, TypeOK
<1>2. lost' \/ inbox' # <<>>
  BY DEF OnBlockHashFails
<1>3. Idle \in Job /\ TaskOK("chain", Idle, dbBlocks) /\ Idle.step = "idle"
  BY IdleTask DEF Workers
<1>4. job' = [job EXCEPT !["chain"] = Idle] /\ UNCHANGED inbox
  BY DEF OnBlockHashFails
<1>5. SwitchPending => \A i \in 1 .. Len(inbox') : OnChain(inbox'[i], tip)
  BY <1>4 DEF SwitchPending
<1> QED
  BY <1>1, <1>2, <1>3, <1>4, <1>5, LiveMoves DEF OnBlockHashFails, IInv, TypeInv, TypeOK

LEMMA ChainBacktraceStep ==
    ASSUME IInv, ChainBacktrace
    PROVE  IInv'
<1> DEFINE k == job["chain"]
           known == k.lo = 0 \/ Anc[k.top][k.lo - 1] \in dbBlocks
           j == IF known THEN [k EXCEPT !.step = "select", !.at = k.lo]
                ELSE [k EXCEPT !.lo = k.lo - 1]
<1>1. k \in Job /\ k.step = "trace" /\ TaskOK("chain", k, dbBlocks)
      /\ job' = [job EXCEPT !["chain"] = j]
  BY TasksTyped DEF IInv, ChainBacktrace
<1> HIDE DEF k
<1>2. k.top \in Blocks /\ k.lo \in Nat /\ k.lo <= Height[k.top] /\ k.hi = Height[k.top]
      /\ Height[k.top] \in Nat
  BY <1>1, TreeAssumption, BoundsAssumption DEF TaskOK, Job, Heights
<1>3. CASE known
  <2>1. /\ j \in Job /\ j.step = "select" /\ j.at = k.lo /\ j.lo = k.lo /\ j.hi = k.hi
        /\ j.top = k.top /\ j.got = k.got /\ j.ref = k.ref
    BY <1>1, <1>3 DEF Job
  <2> HIDE DEF j
  <2>2. TaskOK("chain", j, dbBlocks)
    BY <1>1, <1>2, <1>3, <2>1 DEF TaskOK, RangeSteps, RewindSteps
  <2> QED
    BY <1>1, <2>1, <2>2, LiveMoves
       DEF ChainBacktrace, IInv, TypeInv, TypeOK, SwitchPending, BeforeRewind, RewindSteps, k
<1>4. CASE ~known
  <2>1. /\ j \in Job /\ j.step = "trace" /\ j.lo = k.lo - 1 /\ j.hi = k.hi
        /\ j.top = k.top /\ j.got = k.got /\ j.ref = k.ref
    BY <1>1, <1>2, <1>4 DEF Job
  <2> HIDE DEF j
  <2>2. TaskOK("chain", j, dbBlocks)
    BY <1>1, <1>2, <1>4, <2>1 DEF TaskOK, RangeSteps, RewindSteps
  <2> QED
    BY <1>1, <2>1, <2>2, LiveMoves
       DEF ChainBacktrace, IInv, TypeInv, TypeOK, SwitchPending, BeforeRewind, RewindSteps, k
<1> QED BY <1>3, <1>4

\* Selecting the transactions to unconfirm, or unconfirming them.
LEMMA RewindMoves ==
    ASSUME IInv, NEW txids \in SUBSET Txs, NEW s \in {"unconfirm", "delete"},
           job["chain"].step \in {"select", "unconfirm"},
           job' = [job EXCEPT !["chain"].todo = txids, !["chain"].step = s],
           UNCHANGED <<tip, inbox, dbBlocks, dbParent, chk, crashes, rescans,
                       lost, exposed, headerOnly>>,
           txBlock' \in [Txs -> dbBlocks \cup {NoBlock, Missing}]
    PROVE  IInv'
<1> DEFINE k == job["chain"]
           j == [k EXCEPT !.todo = txids, !.step = s]
<1>1. k \in Job /\ TaskOK("chain", k, dbBlocks) /\ job \in [Workers -> Job]
      /\ "chain" \in Workers
  BY TasksTyped DEF IInv
<1>2. job' = [job EXCEPT !["chain"] = j]
  BY <1>1
<1> HIDE DEF k
<1>3. /\ j \in Job /\ j.step = s /\ j.at = k.at /\ j.lo = k.lo /\ j.hi = k.hi
      /\ j.top = k.top /\ j.got = k.got /\ j.ref = k.ref
  BY <1>1 DEF Job
<1> HIDE DEF j
<1>4. TaskOK("chain", j, dbBlocks)
  BY <1>1, <1>3 DEF TaskOK, RangeSteps, RewindSteps, k
<1> QED
  BY <1>2, <1>3, <1>4, LiveMoves
     DEF IInv, TypeInv, TypeOK, SwitchPending, BeforeRewind, RewindSteps, k

LEMMA RewindSelectStep ==
    ASSUME IInv, RewindSelect
    PROVE  IInv'
<1> DEFINE txids == {t \in Txs : txBlock[t] \in Blocks /\ Height[txBlock[t]] >= job["chain"].lo}
           s == IF txids = {} THEN "delete" ELSE "unconfirm"
<1>1. txids \in SUBSET Txs /\ s \in {"unconfirm", "delete"}
  OBVIOUS
<1>2. job' = [job EXCEPT !["chain"].todo = txids, !["chain"].step = s]
  BY DEF RewindSelect
<1> HIDE DEF txids, s
<1> QED BY <1>1, <1>2, RewindMoves DEF RewindSelect, IInv, TypeInv, TypeOK

LEMMA RewindUnconfirmStep ==
    ASSUME IInv, RewindUnconfirm
    PROVE  IInv'
<1>1. txBlock' \in [Txs -> dbBlocks \cup {NoBlock, Missing}]
  BY DEF RewindUnconfirm, IInv, TypeInv, TypeOK
<1> QED BY <1>1, RewindMoves DEF RewindUnconfirm

\* The rewind deletes every row off the branch of the notification, and leaves
\* the block right below the first one to register.
LEMMA RewindDeleteStep ==
    ASSUME IInv, RewindDelete
    PROVE  IInv'
<1> DEFINE k == job["chain"]
           dead == {b \in dbBlocks : Height[b] >= k.lo}
           j == [k EXCEPT !.step = "pull"]
           r == [job["rescan"] EXCEPT !.ref = Forget(dead, @)]
<1>1. /\ k \in Job /\ k.step = "delete" /\ TaskOK("chain", k, dbBlocks)
      /\ job["rescan"] \in Job /\ TaskOK("rescan", job["rescan"], dbBlocks)
      /\ job' = [[job EXCEPT !["chain"] = j] EXCEPT !["rescan"] = r]
      /\ job \in [Workers -> Job] /\ "chain" \in Workers /\ "rescan" \in Workers
      /\ \A w \in Workers : w = "chain" \/ w = "rescan"
  BY TasksTyped DEF IInv, RewindDelete, DeleteRows
<1>2. /\ dbBlocks \subseteq Blocks /\ dead \subseteq dbBlocks /\ dbBlocks' = dbBlocks \ dead
      /\ \A b \in dbBlocks' : Height[b] < k.lo
      /\ \A b \in dbBlocks : Height[b] < k.lo => b \in dbBlocks'
      /\ \A b \in Blocks : Height[b] \in Nat
  <2>1. dbBlocks' = dbBlocks \ dead /\ dbBlocks \subseteq Blocks
    BY DEF RewindDelete, DeleteRows, IInv, TypeInv, TypeOK
  <2>2. \A b \in Blocks : Height[b] \in Nat
    BY TreeAssumption, BoundsAssumption DEF Heights
  <2>3. k.lo \in Nat
    BY <1>1 DEF Job
  <2> HIDE DEF k
  <2> QED BY <2>1, <2>2, <2>3
<1>3. /\ k.top \in Blocks /\ k.lo \in Nat /\ k.lo <= Height[k.top] /\ k.hi = Height[k.top]
      /\ k.at = k.lo /\ k.ref = NoBlock /\ \A h \in Heights : k.got[h] = NoBlock
  BY <1>1 DEF TaskOK, Job, RewindSteps, RangeSteps
\* The known ancestor survives.
<1>4. ASSUME k.lo # 0
      PROVE  /\ Anc[k.top][k.lo - 1] \in dbBlocks'
             /\ Height[Anc[k.top][k.lo - 1]] = k.lo - 1
             /\ OnChain(Anc[k.top][k.lo - 1], k.top)
  <2>1. Anc[k.top][k.lo - 1] \in dbBlocks
    BY <1>1, <1>4 DEF TaskOK, RewindSteps
  <2>2. Height[Anc[k.top][k.lo - 1]] = k.lo - 1 /\ OnChain(Anc[k.top][k.lo - 1], k.top)
    BY <1>2, <1>3, <1>4, AncestorOnChain
  <2> QED BY <1>2, <1>3, <2>1, <2>2
<1>5. k.lo = 0 => dbBlocks' = {}
  BY <1>2
<1> HIDE DEF k, dead
<1>6. /\ j \in Job /\ j.step = "pull" /\ j.hi = k.hi /\ j.at = k.at /\ j.got = k.got
      /\ j.ref = k.ref
  BY <1>1 DEF Job
<1>7. /\ r \in Job /\ r.mode = job["rescan"].mode /\ r.step = job["rescan"].step
      /\ r.got = job["rescan"].got
      /\ r.hi = job["rescan"].hi /\ r.at = job["rescan"].at
      /\ r.ref = Forget(dead, job["rescan"].ref)
  BY <1>1 DEF Job, Forget
<1> HIDE DEF j, r
<1>8. /\ job' \in [Workers -> Job] /\ job'["chain"] = j /\ job'["rescan"] = r
  BY <1>1, <1>6, <1>7
<1>9. TasksOK'
  <2>1. TaskOK("chain", j, dbBlocks')
    BY <1>3, <1>6, NamesAssumption, TreeAssumption, BoundsAssumption
       DEF TaskOK, RangeSteps, RewindSteps
  <2>2. TaskOK("rescan", r, dbBlocks')
    <3> DEFINE q == job["rescan"]
    <3>1. /\ q.step \in RangeSteps \cup {"idle"} /\ r.ref \in dbBlocks' \cup {NoBlock, Gone}
          /\ q.ref = NoBlock => r.ref = NoBlock
          /\ r.ref \in {q.ref, Gone}
      BY <1>1, <1>2, <1>7, NamesAssumption DEF TaskOK, Forget
    <3> QED BY <1>1, <1>7, <3>1 DEF TaskOK, RangeSteps, RewindSteps
  <2> QED BY <1>1, <1>8, <2>1, <2>2 DEF TasksOK
<1>10. TypeOK'
  <2>1. txBlock' \in [Txs -> dbBlocks' \cup {NoBlock, Missing}]
    BY <1>2 DEF IInv, TypeInv, TypeOK, RewindDelete, NullBlockIDs, k, dead
  <2>2. dbParent' \in [Blocks -> dbBlocks' \cup {NoBlock}]
    BY <1>2 DEF IInv, TypeInv, TypeOK, RewindDelete, DeleteRows, k, dead
  <2>3. headerOnly' \subseteq dbBlocks'
    BY <1>2 DEF IInv, TypeInv, TypeOK, RewindDelete, DeleteRows, k, dead
  <2>4. chk' \in [step : {"off", "ask", "find", "confirm", "delete"},
                  tx : Txs \cup {Missing}, ref : Blocks \cup {NoBlock, Gone}]
    BY DEF IInv, TypeInv, TypeOK, RewindDelete, DeleteRows, Forget
  <2> QED
    BY <1>2, <1>8, <2>1, <2>2, <2>3, <2>4
       DEF IInv, TypeInv, TypeOK, RewindDelete, DeleteRows
<1>11. CheckOK'
  <2>1. chk' = [chk EXCEPT !.ref = IF chk.step = "confirm" THEN Forget(dead, @) ELSE @]
    BY DEF RewindDelete, DeleteRows, k, dead
  <2> QED BY <1>2, <2>1 DEF IInv, TypeInv, TypeOK, CheckOK, Forget
<1>12. NoGap'
  <2> SUFFICES ASSUME rescans = 0, NEW x \in dbBlocks', NEW y \in dbBlocks',
                      NEW h \in Height[x] .. Height[y]
               PROVE  \E z \in dbBlocks' : Height[z] = h
    BY DEF NoGap, RewindDelete, DeleteRows
  <2>1. PICK z \in dbBlocks : Height[z] = h
    BY <1>2 DEF IInv, NoGap
  <2> QED BY <1>2, <1>3, <2>1
<1>13. NextToRow'
  BY <1>3, <1>4, <1>5, <1>6, <1>7, <1>8 DEF IInv, NextToRow, RewindDelete, DeleteRows
<1>14. FetchedOnChain => FetchedOnChain'
  BY <1>1, <1>3, <1>6, <1>7, <1>8 DEF FetchedOnChain, RewindDelete, DeleteRows
<1>15. ASSUME ~exposed PROVE Orphans(tip)' = {}
  <2>1. OneBranch /\ (Orphans(tip) = {} \/ OnChain(k.top, tip)) /\ tip \in Blocks /\ tip' = tip
    BY <1>1, <1>15 DEF IInv, ChainInv, SwitchPending, BeforeRewind, TypeInv, TypeOK,
                       RewindDelete, DeleteRows, k
  <2> SUFFICES ASSUME NEW x \in dbBlocks' PROVE OnChain(x, tip)
    BY <2>1 DEF Orphans
  <2>2. CASE Orphans(tip) = {}
    BY <1>2, <2>2 DEF Orphans
  <2>3. CASE OnChain(k.top, tip)
    <3> DEFINE p == Anc[k.top][k.lo - 1]
    <3>1. p \in dbBlocks' /\ Height[p] = k.lo - 1 /\ OnChain(p, k.top)
      BY <1>4, <1>5
    <3> HIDE DEF p
    <3>2. OnChain(x, p)
      BY <1>2, <1>3, <1>15, <2>1, <3>1 DEF OneBranch
    <3> QED BY <1>2, <1>3, <2>1, <2>3, <3>1, <3>2, OnChainTransitive
  <2> QED BY <2>1, <2>2, <2>3
<1>16. ChainInv'
  BY <1>2, <1>14, <1>15 DEF IInv, ChainInv, OneBranch, RewindDelete, DeleteRows
<1> QED BY <1>8, <1>9, <1>10, <1>11, <1>12, <1>13, <1>16 DEF IInv, TypeInv

-----------------------------------------------------------------------------
(* A range of blocks *)

LEMMA RescanBlocksStep ==
    ASSUME IInv, NEW from \in Heights, NEW to \in Heights, RescanBlocks(from, to)
    PROVE  IInv'
<1> DEFINE j == RunRange("rescan", "rescan", from, to, NoBlock)
<1>1. /\ "rescan" \in Workers /\ job["rescan"] \in Job /\ NoneFetched("rescan")
      /\ job["rescan"].step = "idle" /\ job' = [job EXCEPT !["rescan"] = j]
      /\ dbBlocks \subseteq Blocks /\ rescans' # 0 /\ rescans' \in Nat
      /\ from \in Nat
  BY TasksTyped, BoundsAssumption
     DEF IInv, TypeInv, TypeOK, RangeSteps, RescanBlocks, Heights
<1>2. /\ j \in Job /\ TaskOK("rescan", j, dbBlocks) /\ j.got = job["rescan"].got
  BY <1>1, RangeTask
<1> HIDE DEF j
<1>3. exposed' \in BOOLEAN /\ (~exposed' => ~exposed /\ Orphans(tip) = {})
  <2>1. (Orphans(tip) # {}) \in BOOLEAN
    OBVIOUS
  <2> QED BY <2>1, Zenon DEF RescanBlocks, IInv, TypeInv, TypeOK
<1>4. TypeInv'
  BY <1>1, <1>2, <1>3, TypeMoves DEF IInv, TypeInv, TypeOK, RescanBlocks
<1>5. job'["rescan"] = j /\ job'["chain"] = job["chain"]
  BY <1>1, <1>2, TaskMoves, TasksTyped DEF IInv, RescanBlocks
<1>6. NoGap' /\ NextToRow'
  BY <1>1 DEF NoGap, NextToRow
<1>7. FetchedOnChain => FetchedOnChain'
  BY <1>1, <1>2, <1>5, TasksTyped DEF IInv, FetchedOnChain, RescanBlocks, NoneFetched
<1>8. ChainInv'
  BY <1>3, <1>7, ChainMoves DEF IInv, RescanBlocks, TypeInv, TypeOK
<1> QED BY <1>4, <1>6, <1>8 DEF IInv

\* The place of task w in its range, before it moves.
LEMMA RangeBefore ==
    ASSUME IInv, NEW w \in Workers, job[w].step \in RangeSteps
    PROVE  /\ job[w] \in Job /\ TaskOK(w, job[w], dbBlocks) /\ job \in [Workers -> Job]
           /\ job[w].step \notin RewindSteps \cup {"idle", "trace"}
           /\ w = "rescan" => rescans # 0
           /\ w = "chain" /\ rescans = 0 /\ dbBlocks # {} =>
                 \E x \in dbBlocks : Height[x] \in {job[w].at - 1, job[w].at}
           /\ \A x \in dbBlocks : x \in Blocks /\ Height[x] \in Nat
BY TasksTyped, TreeAssumption, BoundsAssumption
   DEF IInv, NextToRow, TypeInv, TypeOK, RangeSteps, RewindSteps, Heights

LEMMA FetchBlockStep ==
    ASSUME IInv, NEW w \in Workers, NEW h \in Heights, FetchBlock(w, h)
    PROVE  IInv'
<1> DEFINE k == job[w]
           b == Anc[tip][h]
           j == [k EXCEPT !.got[h] = b]
<1>1. /\ k \in Job /\ k.step \in RangeSteps /\ TaskOK(w, k, dbBlocks) /\ h >= k.at
      /\ job' = [job EXCEPT ![w] = j]
  <2>1. TypeInv
    BY DEF IInv
  <2>2. k \in Job /\ TaskOK(w, k, dbBlocks)
    BY <2>1, TasksTyped
  <2>3. k.step \in RangeSteps /\ h \in k.at .. k.hi /\ job' = [job EXCEPT ![w] = j]
    BY DEF FetchBlock, InRange, RangeSteps, Waiting
  <2>4. h >= k.at
    BY <2>3
  <2> QED BY <2>2, <2>3, <2>4
<1>2. b \in Blocks /\ Height[b] = h /\ OnChain(b, tip) /\ b # NoBlock
  BY AncestorOnChain, BoundsAssumption, NamesAssumption
     DEF FetchBlock, IInv, TypeInv, TypeOK, Heights
<1> HIDE DEF b
<1>3. /\ \A i \in Heights : k.got[i] # NoBlock =>
            k.got[i] \in Blocks /\ (~exposed => OnChain(k.got[i], tip))
      /\ k.got[h] = NoBlock
  BY FetchedBefore DEF IInv, FetchBlock, Waiting
<1>4. /\ w = "chain" /\ rescans = 0 /\ dbBlocks # {} =>
            \E x \in dbBlocks : Height[x] \in {k.at - 1, k.at}
      /\ k.step \notin RewindSteps \cup {"idle", "trace"}
  BY <1>1, RangeBefore
<1> HIDE DEF k
<1>5. /\ j \in Job /\ j.mode = k.mode /\ j.step = k.step /\ j.at = k.at /\ j.hi = k.hi /\ j.ref = k.ref
      /\ j.got = [k.got EXCEPT ![h] = b] /\ j.got \in [Heights -> Blocks \cup {NoBlock}]
      /\ k.got \in [Heights -> Blocks \cup {NoBlock}]
  BY <1>1, <1>2 DEF Job
<1> HIDE DEF j
<1>6. TaskOK(w, j, dbBlocks)
  BY <1>1, <1>2, <1>3, <1>5 DEF TaskOK, RangeSteps, RewindSteps
<1>7. ~exposed => \A i \in Heights : j.got[i] # NoBlock => OnChain(j.got[i], tip)
  BY <1>2, <1>3, <1>5
<1> QED
  BY <1>1, <1>4, <1>5, <1>6, <1>7, BusyMoves DEF FetchBlock, IInv, TypeInv, TypeOK, k

\* A step of the queue that changes neither the range nor the blocks in hand.
LEMMA QueueMoves ==
    ASSUME IInv, NEW w \in Workers, NEW j \in Job, job[w].step \in RangeSteps,
           TaskOK(w, j, dbBlocks), j.step \in RangeSteps,
           j.at = job[w].at, j.got = job[w].got,
           job' = [job EXCEPT ![w] = j],
           UNCHANGED <<tip, inbox, dbBlocks, dbParent, chk, crashes, rescans,
                       lost, exposed, headerOnly>>,
           txBlock' \in [Txs -> dbBlocks \cup {NoBlock, Missing}]
    PROVE  IInv'
<1>1. /\ job[w].step \notin RewindSteps \cup {"idle", "trace"}
      /\ w = "chain" /\ j.step \in RangeSteps /\ rescans = 0 /\ dbBlocks # {} =>
            \E x \in dbBlocks : Height[x] \in {j.at - 1, j.at}
  BY RangeBefore
<1>2. ~exposed => \A h \in Heights : j.got[h] # NoBlock => OnChain(j.got[h], tip)
  BY FetchedBefore
<1>3. inbox' \in Seq(Blocks) /\ lost' \in BOOLEAN
  BY DEF IInv, TypeInv, TypeOK
<1> QED BY <1>1, <1>2, <1>3, BusyMoves

LEMMA ProcessBlockStep ==
    ASSUME IInv, NEW w \in Workers, ProcessBlock(w)
    PROVE  IInv'
<1> DEFINE k == job[w]
           j == IF k.mode = "ibd" THEN [k EXCEPT !.step = "add"]
                ELSE [k EXCEPT !.step = "store", !.todo = BlockTxs[Cur(w)]]
<1>1. /\ k \in Job /\ k.step = "pull" /\ TaskOK(w, k, dbBlocks) /\ k.at <= k.hi
      /\ job' = [job EXCEPT ![w] = j]
  BY TasksTyped DEF IInv, ProcessBlock
<1>2. k.at \in Heights
  BY <1>1, BoundsAssumption DEF TaskOK, RangeSteps, Job, Heights
\* The block has been fetched: nothing of its chunk is awaited.
<1>3. k.got[k.at] # NoBlock
  <2>1. k.at \in k.at .. k.hi /\ ~(ChunkOf(w, k.at) > ChunkOf(w, k.at))
    BY <1>1, <1>2, BoundsAssumption DEF Heights, TaskOK, RangeSteps, ChunkOf, ChunkSize, Job
  <2> QED BY <2>1 DEF ProcessBlock, Waiting
<1>4. BlockTxs[Cur(w)] \in SUBSET Txs
  BY <1>1, <1>2, <1>3, NamesAssumption DEF Job, Cur
<1> HIDE DEF k
<1>5. /\ j \in Job /\ j.mode = k.mode /\ j.step \in {"store", "add"} /\ j.at = k.at /\ j.hi = k.hi
      /\ j.got = k.got /\ j.ref = k.ref
  BY <1>1, <1>4 DEF Job
<1> HIDE DEF j
<1>6. TaskOK(w, j, dbBlocks)
  BY <1>1, <1>2, <1>3, <1>5 DEF TaskOK, RangeSteps, RewindSteps
<1> QED
  BY <1>1, <1>5, <1>6, QueueMoves DEF ProcessBlock, RangeSteps, IInv, TypeInv, TypeOK, k

LEMMA StoreTxStep ==
    ASSUME IInv, NEW w \in Workers, NEW t \in Txs, StoreTx(w, t)
    PROVE  IInv'
<1> DEFINE k == job[w]
           j == [k EXCEPT !.todo = @ \ {t}]
<1>1. /\ k \in Job /\ k.step = "store" /\ TaskOK(w, k, dbBlocks)
      /\ job' = [job EXCEPT ![w] = j]
  BY TasksTyped DEF IInv, StoreTx
<1> HIDE DEF k
<1>2. /\ j \in Job /\ j.mode = k.mode /\ j.step = "store" /\ j.at = k.at /\ j.hi = k.hi
      /\ j.got = k.got /\ j.ref = k.ref
  BY <1>1 DEF Job
<1> HIDE DEF j
<1>3. TaskOK(w, j, dbBlocks)
  BY <1>1, <1>2 DEF TaskOK, RangeSteps, RewindSteps
<1>4. txBlock' \in [Txs -> dbBlocks \cup {NoBlock, Missing}]
  BY DEF StoreTx, IInv, TypeInv, TypeOK
<1> QED
  BY <1>1, <1>2, <1>3, <1>4, QueueMoves DEF StoreTx, RangeSteps, k

LEMMA ReadParentStep ==
    ASSUME IInv, NEW w \in Workers, ReadParent(w)
    PROVE  IInv'
<1> DEFINE k == job[w]
           p == ParentRow(Cur(w))
           j == [k EXCEPT !.step = "add", !.ref = p]
<1>1. /\ k \in Job /\ k.step = "store" /\ TaskOK(w, k, dbBlocks)
      /\ job' = [job EXCEPT ![w] = j] /\ dbBlocks \subseteq Blocks
      /\ NoBlock \notin Blocks /\ Gone \notin Blocks /\ NoBlock # Gone
  BY TasksTyped, NamesAssumption DEF IInv, ReadParent, TypeInv, TypeOK
<1>2. p \in dbBlocks \cup {NoBlock}
  BY DEF ParentRow
<1> HIDE DEF k, p
<1>3. /\ j \in Job /\ j.mode = k.mode /\ j.step = "add" /\ j.at = k.at /\ j.hi = k.hi
      /\ j.got = k.got /\ j.ref = p
  BY <1>1, <1>2 DEF Job
<1> HIDE DEF j
<1>4. TaskOK(w, j, dbBlocks)
  BY <1>1, <1>2, <1>3 DEF TaskOK, RangeSteps, RewindSteps
<1> QED
  BY <1>1, <1>3, <1>4, QueueMoves DEF ReadParent, RangeSteps, IInv, TypeInv, TypeOK, k

LEMMA ConfirmTransactionsStep ==
    ASSUME IInv, NEW w \in Workers, ConfirmTransactions(w)
    PROVE  IInv'
<1> DEFINE k == job[w]
           j == [k EXCEPT !.step = "pull", !.ref = NoBlock, !.at = k.at + 1,
                        !.got[k.at] = NoBlock]
<1>1. /\ k \in Job /\ k.step = "confirm" /\ TaskOK(w, k, dbBlocks)
      /\ job' = [job EXCEPT ![w] = j] /\ Gone \notin Blocks
  BY TasksTyped, NamesAssumption DEF IInv, ConfirmTransactions
<1>2. /\ k.at \in Heights /\ k.at \in Nat /\ k.got[k.at] \in Blocks
      /\ Height[k.got[k.at]] = k.at
      /\ k.ref \in {k.got[k.at], Gone} /\ k.ref \in dbBlocks \cup {NoBlock, Gone}
  <2>1. k.at \in Nat /\ k.got \in [Heights -> Blocks \cup {NoBlock}]
    BY <1>1 DEF Job
  <2> HIDE DEF k
  <2> QED BY <1>1, <2>1 DEF TaskOK
<1>3. \A i \in Heights : k.got[i] # NoBlock /\ ~exposed => OnChain(k.got[i], tip)
  BY FetchedBefore
\* The row of the block still names it, for the chain task at least.
<1>4. w = "chain" => k.got[k.at] \in dbBlocks
  BY <1>1, <1>2, NamesAssumption DEF TaskOK
<1>5. txBlock' \in [Txs -> dbBlocks \cup {NoBlock, Missing}]
  BY <1>1, <1>2, NamesAssumption
     DEF ConfirmTransactions, Confirmed, Cur, IInv, TypeInv, TypeOK
<1> HIDE DEF k
<1>6. /\ j \in Job /\ j.mode = k.mode /\ j.step = "pull" /\ j.at = k.at + 1 /\ j.hi = k.hi
      /\ j.got = [k.got EXCEPT ![k.at] = NoBlock] /\ j.ref = NoBlock
      /\ k.got \in [Heights -> Blocks \cup {NoBlock}]
  <2>1. k \in Job /\ k.at + 1 \in Nat /\ k.at \in Heights
    BY <1>1, <1>2
  <2>2. j \in Job
    BY <2>1 DEF Job
  <2>3. j.mode = k.mode /\ j.step = "pull" /\ j.at = k.at + 1 /\ j.hi = k.hi /\ j.ref = NoBlock
    BY <2>1 DEF Job
  <2>4. j.got = [k.got EXCEPT ![k.at] = NoBlock] /\ k.got \in [Heights -> Blocks \cup {NoBlock}]
    BY <2>1 DEF Job
  <2> QED BY <2>2, <2>3, <2>4
<1> HIDE DEF j
<1>7. TaskOK(w, j, dbBlocks)
  BY <1>1, <1>2, <1>6, NamesAssumption DEF TaskOK, RangeSteps, RewindSteps
<1>8. ~exposed => \A i \in Heights : j.got[i] # NoBlock => OnChain(j.got[i], tip)
  BY <1>2, <1>3, <1>6
<1>9. w = "chain" => \E x \in dbBlocks : Height[x] \in {j.at - 1, j.at}
  BY <1>2, <1>4, <1>6
<1> QED
  BY <1>1, <1>5, <1>6, <1>7, <1>8, <1>9, BusyMoves
     DEF ConfirmTransactions, RangeSteps, RewindSteps, IInv, TypeInv, TypeOK, k

LEMMA EndRangeStep ==
    ASSUME IInv, NEW w \in Workers, EndRange(w)
    PROVE  IInv'
<1>1. CASE job' = [job EXCEPT ![w] = Idle]
  BY <1>1, BecomesIdle DEF EndRange, RewindSteps, IInv, TypeInv, TypeOK
<1>2. CASE w = "chain" /\ job' = [job EXCEPT ![w] = [Idle EXCEPT !.step = "bootIBD"]]
  <2> DEFINE j == [Idle EXCEPT !.step = "bootIBD"]
  <2>1. /\ j \in Job /\ j.step = "bootIBD" /\ j.got = Idle.got /\ j.ref = Idle.ref
    BY IdleTask DEF Job, Workers
  <2> HIDE DEF j
  <2>2. TaskOK(w, j, dbBlocks) /\ \A h \in Heights : j.got[h] = NoBlock
    BY <1>2, <2>1, NamesAssumption DEF TaskOK, RangeSteps, RewindSteps, Idle
  <2> QED
    BY <1>2, <2>1, <2>2, BusyMoves
       DEF EndRange, RangeSteps, RewindSteps, IInv, TypeInv, TypeOK, j
<1>3. job[w].mode = "ibd" => w = "chain"
  BY TasksTyped DEF IInv, TaskOK
<1> QED BY <1>1, <1>2, <1>3 DEF EndRange

\* A block is registered right above, or on, the rows in place: nothing is
\* skipped, and the branch of the table grows.
LEMMA AddBlockStep ==
    ASSUME IInv, NEW w \in Workers, AddBlock(w)
    PROVE  IInv'
<1> DEFINE k == job[w]
           c == Cur(w)
           j == IF k.mode = "ibd"
                THEN [k EXCEPT !.step = "pull", !.ref = c, !.at = k.at + 1, !.got[k.at] = NoBlock]
                ELSE [k EXCEPT !.step = "confirm", !.ref = c]
<1>1. /\ k \in Job /\ k.step = "add" /\ TaskOK(w, k, dbBlocks)
      /\ job' = [job EXCEPT ![w] = j] /\ job \in [Workers -> Job]
      /\ dbBlocks' = dbBlocks \cup {c}
      /\ UNCHANGED <<tip, inbox, txBlock, chk, crashes, rescans, lost, exposed>>
  BY TasksTyped DEF IInv, AddBlock
<1>2. c = k.got[k.at]
  BY DEF Cur
<1>3. /\ k.at \in Heights /\ k.at \in Nat /\ c \in Blocks /\ Height[c] = k.at
      /\ ~exposed => OnChain(c, tip)
  <2>1. k.at \in Heights /\ k.got[k.at] # NoBlock /\ k.at \in Nat
    BY <1>1 DEF TaskOK, Job
  <2> QED BY <1>2, <2>1, FetchedBefore
<1>4. \A i \in Heights : k.got[i] # NoBlock /\ ~exposed => OnChain(k.got[i], tip)
  BY FetchedBefore
<1>5. /\ w = "rescan" => rescans # 0
      /\ k.step \notin RewindSteps \cup {"idle", "trace"}
      /\ w = "chain" /\ rescans = 0 /\ dbBlocks # {} =>
            \E x \in dbBlocks : Height[x] \in {k.at - 1, k.at}
      /\ \A x \in dbBlocks : x \in Blocks /\ Height[x] \in Nat
  BY <1>1, RangeBefore DEF RangeSteps
<1> HIDE DEF k, c
<1>6. /\ j \in Job /\ j.mode = k.mode /\ j.hi = k.hi /\ j.ref = c
      /\ j.got \in {k.got, [k.got EXCEPT ![k.at] = NoBlock]}
      /\ \/ j.step = "pull" /\ j.at = k.at + 1
         \/ j.step = "confirm" /\ j.at = k.at /\ j.got = k.got
      /\ k.got \in [Heights -> Blocks \cup {NoBlock}]
  <2>1. CASE k.mode = "ibd"
    <3>1. k \in Job /\ k.at + 1 \in Nat /\ k.at \in Heights /\ c \in Blocks \cup {NoBlock, Gone}
      BY <1>1, <1>3
    <3>2. j \in Job
      BY <2>1, <3>1 DEF Job
    <3>3. j.mode = k.mode /\ j.step = "pull" /\ j.at = k.at + 1 /\ j.hi = k.hi /\ j.ref = c
      BY <2>1, <3>1 DEF Job
    <3>4. j.got = [k.got EXCEPT ![k.at] = NoBlock] /\ k.got \in [Heights -> Blocks \cup {NoBlock}]
      BY <2>1, <3>1 DEF Job
    <3> QED BY <3>2, <3>3, <3>4
  <2>2. CASE k.mode # "ibd"
    BY <1>1, <1>3, <2>2 DEF Job
  <2> QED BY <2>1, <2>2
<1> HIDE DEF j
<1>7. job' \in [Workers -> Job] /\ job'[w] = j /\ \A v \in Workers \ {w} : job'[v] = job[v]
  BY <1>1, <1>6
<1>8. TasksOK'
  <2>1. TaskOK(w, j, dbBlocks')
    BY <1>1, <1>2, <1>3, <1>6, NamesAssumption DEF TaskOK, RangeSteps, RewindSteps
  <2>2. \A v \in Workers \ {w} : TaskOK(v, job[v], dbBlocks')
    BY <1>1, TasksTyped DEF IInv, TaskOK
  <2> QED BY <1>7, <2>1, <2>2 DEF TasksOK
<1>9. TypeOK'
  <2>1. dbParent' \in [Blocks -> dbBlocks' \cup {NoBlock}]
    BY <1>1, <1>2, <1>3 DEF IInv, TypeInv, TypeOK, AddBlock, TaskOK, k, c
  <2>2. headerOnly' \subseteq dbBlocks'
    BY <1>1 DEF IInv, TypeInv, TypeOK, AddBlock, c
  <2>3. txBlock' \in [Txs -> dbBlocks' \cup {NoBlock, Missing}]
    BY <1>1 DEF IInv, TypeInv, TypeOK
  <2> QED BY <1>1, <1>3, <1>7, <2>1, <2>2, <2>3 DEF IInv, TypeInv, TypeOK
<1>10. CheckOK'
  BY <1>1 DEF IInv, TypeInv, CheckOK
<1>11. NoGap'
  <2> SUFFICES ASSUME rescans = 0, NEW x \in dbBlocks', NEW y \in dbBlocks',
                      NEW h \in Height[x] .. Height[y]
               PROVE  \E z \in dbBlocks' : Height[z] = h
    BY <1>1 DEF NoGap
  <2>1. w = "chain" /\ NoGap /\ dbBlocks \subseteq dbBlocks' /\ c \in dbBlocks'
    BY <1>1, <1>5 DEF Workers, IInv
  <2>2. CASE h = k.at
    BY <1>3, <2>1, <2>2
  <2>3. CASE h # k.at
    <3>1. x \in dbBlocks \/ y \in dbBlocks
      BY <1>1, <1>3, <1>5, <2>3
    <3>2. PICK n \in dbBlocks : Height[n] \in {k.at - 1, k.at}
      BY <1>5, <2>1, <3>1
    <3>3. CASE x \in dbBlocks /\ y \in dbBlocks
      BY <2>1, <3>3 DEF NoGap
    <3>4. CASE x \in dbBlocks /\ y = c
      <4>1. h \in Height[x] .. Height[n]
        BY <1>3, <1>5, <2>3, <3>2, <3>4
      <4> QED BY <2>1, <3>4, <4>1 DEF NoGap
    <3>5. CASE x = c /\ y \in dbBlocks
      <4>1. h \in Height[n] .. Height[y]
        BY <1>3, <1>5, <2>3, <3>2, <3>5
      <4> QED BY <2>1, <3>5, <4>1 DEF NoGap
    <3> QED BY <1>1, <3>1, <3>3, <3>4, <3>5
  <2> QED BY <2>2, <2>3
<1>12. NextToRow'
  <2>1. rescans = 0 => job'["rescan"].step = "idle" /\ w = "chain"
    BY <1>5, <1>7 DEF IInv, NextToRow, Workers
  <2>2. c \in dbBlocks' /\ Height[c] \in {j.at - 1, j.at}
    BY <1>1, <1>3, <1>6
  <2> QED BY <1>1, <1>7, <2>1, <2>2 DEF NextToRow
<1>13. ASSUME ~exposed
       PROVE  OneBranch' /\ FetchedOnChain' /\ Orphans(tip)' = {}
  <2>1. FetchedOnChain /\ Orphans(tip) = {} /\ tip \in Blocks /\ tip' = tip
    BY <1>1, <1>5, <1>13, NotPending DEF IInv, ChainInv, TypeInv, TypeOK, Workers, k
  <2>2. \A x \in dbBlocks' : x \in Blocks /\ OnChain(x, tip)
    BY <1>1, <1>3, <1>5, <1>13, <2>1 DEF Orphans
  <2>3. OneBranch'
    BY <2>1, <2>2, SameBranch DEF OneBranch
  <2>4. FetchedOnChain'
    BY <1>3, <1>4, <1>6, <1>7, <1>13, <2>1 DEF FetchedOnChain
  <2> QED BY <2>1, <2>2, <2>3, <2>4 DEF Orphans
<1>14. ChainInv'
  BY <1>1, <1>13 DEF ChainInv
<1> QED BY <1>8, <1>9, <1>10, <1>11, <1>12, <1>14 DEF IInv, TypeInv

-----------------------------------------------------------------------------
(* Crashes, and the environment *)

LEMMA DieStep ==
    ASSUME IInv, Die
    PROVE  IInv'
<1>1. /\ job'["chain"] = Down /\ job'["rescan"] = Idle /\ job' \in [Workers -> Job]
      /\ chk' = ChkOff /\ inbox' = <<>> /\ crashes' = crashes + 1
      /\ UNCHANGED <<tip, dbBlocks, dbParent, txBlock, rescans, lost, headerOnly>>
  BY IdleTask DEF Die, Workers
<1>2. /\ TasksOK'
      /\ Down.step = "down" /\ Idle.step = "idle"
      /\ \A h \in Heights : Down.got[h] = NoBlock /\ Idle.got[h] = NoBlock
  <2>1. TaskOK("chain", Down, dbBlocks) /\ TaskOK("rescan", Idle, dbBlocks)
    BY IdleTask DEF Workers
  <2> QED BY <1>1, <2>1, IdleTask DEF TasksOK, Workers
<1>3. exposed' \in BOOLEAN /\ (~exposed' => ~exposed /\ Orphans(tip) = {})
  <2>1. (Orphans(tip) # {}) \in BOOLEAN
    OBVIOUS
  <2> QED BY <2>1, Zenon DEF Die, IInv, TypeInv, TypeOK
<1>4. TypeOK' /\ CheckOK'
  BY <1>1, <1>3 DEF IInv, TypeInv, TypeOK, CheckOK, ChkOff
<1>5. NoGap' /\ NextToRow'
  BY <1>1, <1>2, GapMoves DEF IInv, RangeSteps
<1>6. FetchedOnChain'
  BY <1>1, <1>2 DEF FetchedOnChain, Workers
<1>7. ChainInv'
  BY <1>1, <1>3, <1>6, ChainMoves DEF IInv, TypeInv, TypeOK
<1> QED BY <1>2, <1>4, <1>5, <1>7 DEF IInv, TypeInv

\* bitcoind extends or switches its best chain, outside the windows of Exposes.
LEMMA NewTipStep ==
    ASSUME IInv, NEW b \in Blocks, NEW told \in BOOLEAN, NewTip(b, told)
    PROVE  IInv'
<1>1. /\ tip' = b /\ inbox' = (IF told THEN Append(inbox, b) ELSE inbox)
      /\ UNCHANGED <<dbBlocks, dbParent, txBlock, job, chk, crashes, rescans, headerOnly>>
      /\ tip \in Blocks /\ inbox \in Seq(Blocks) /\ dbBlocks \subseteq Blocks
  BY DEF NewTip, IInv, TypeInv, TypeOK
<1>2. lost' = ~told /\ lost' \in BOOLEAN
  BY Zenon DEF NewTip
<1>3. exposed' \in BOOLEAN /\ (~exposed' => ~exposed /\ ~Exposes(b))
  <2>1. Exposes(b) \in BOOLEAN
    BY Zenon DEF Exposes
  <2> QED BY <2>1, Zenon DEF NewTip, IInv, TypeInv, TypeOK
<1>4. TypeInv'
  <2>1. TasksOK' /\ CheckOK'
    BY <1>1 DEF IInv, TypeInv, TasksOK, CheckOK
  <2> QED BY <1>1, <1>2, <1>3, <2>1 DEF IInv, TypeInv, TypeOK
<1>5. NoGap' /\ NextToRow'
  BY <1>1 DEF IInv, NoGap, NextToRow
\* Who tells the tracker of the new chain.
<1>6. lost' \/ inbox' # <<>>
  <2>1. Append(inbox, b) # <<>>
    BY <1>1
  <2> QED BY <1>1, <1>2, <2>1, Zenon
<1>7. ASSUME ~exposed'
      PROVE  OneBranch' /\ FetchedOnChain' /\ (Orphans(b) # {} => SwitchPending')
  <2>1. /\ ~exposed /\ OneBranch /\ FetchedOnChain /\ (Orphans(tip) # {} => SwitchPending)
        /\ OneBranch'
    BY <1>1, <1>3, <1>7 DEF IInv, ChainInv, OneBranch
  <2>2. \A w \in Workers : \A h \in Heights :
           job[w].got[h] # NoBlock => job[w].got[h] \in Blocks
    BY FetchedBefore
  <2>3. CASE OnChain(tip, b)
    <3>1. FetchedOnChain'
      BY <1>1, <2>1, <2>2, <2>3, OnChainTransitive DEF FetchedOnChain
    <3>2. Orphans(b) # {} => SwitchPending
      BY <1>1, <2>1, <2>3, OnChainTransitive DEF Orphans
    <3>3. SwitchPending => \A i \in 1 .. Len(inbox') : OnChain(inbox'[i], b)
      BY <1>1, <2>3, OnChainTransitive, OnChainReflexive DEF SwitchPending
    <3>4. SwitchPending /\ BeforeRewind("chain") => OnChain(job["chain"].top, b)
      <4>1. BeforeRewind("chain") => job["chain"].top \in Blocks
        BY TasksTyped DEF IInv, TaskOK, BeforeRewind, RewindSteps
      <4> QED BY <1>1, <2>3, <4>1, OnChainTransitive DEF SwitchPending
    <3>5. SwitchPending => SwitchPending'
      BY <1>1, <1>6, <3>3, <3>4 DEF SwitchPending, NoneFetched, BeforeRewind
    <3> QED BY <2>1, <3>1, <3>2, <3>5
  <2>4. CASE ~OnChain(tip, b) /\ Quiet
    <3>1. NoneFetched("chain") /\ NoneFetched("rescan")
          /\ job["chain"].step = "idle" /\ job["rescan"].step = "idle" /\ inbox = <<>>
      BY <2>4, TasksTyped DEF IInv, Quiet, RangeSteps
    <3>2. FetchedOnChain'
      BY <1>1, <3>1, TasksTyped DEF IInv, FetchedOnChain, NoneFetched
    <3>3. \A i \in 1 .. Len(inbox') : OnChain(inbox'[i], b)
      BY <1>1, <3>1, OnChainReflexive
    <3>4. SwitchPending'
      BY <1>1, <1>6, <3>1, <3>3 DEF SwitchPending, NoneFetched, BeforeRewind
    <3> QED BY <2>1, <3>2, <3>4
  <2>5. CASE ~OnChain(tip, b) /\ ~Quiet
    <3>1. \A x \in dbBlocks \cup InFlight : OnChain(x, b)
      BY <1>3, <1>7, <2>5 DEF Exposes
    <3>2. Orphans(b) = {}
      BY <3>1 DEF Orphans
    <3>3. FetchedOnChain'
      BY <1>1, <3>1 DEF FetchedOnChain, InFlight
    <3> QED BY <2>1, <3>2, <3>3
  <2> QED BY <2>3, <2>4, <2>5
<1>8. ChainInv'
  BY <1>1, <1>7 DEF ChainInv, Orphans
<1> QED BY <1>4, <1>5, <1>8 DEF IInv

-----------------------------------------------------------------------------
(* The check of unconfirmed transactions *)

LEMMA CheckMoves ==
    ASSUME IInv, UNCHANGED <<tip, inbox, dbBlocks, dbParent, job, crashes, rescans,
                             lost, exposed, headerOnly>>,
           chk' \in [step : {"off", "ask", "find", "confirm", "delete"},
                     tx : Txs \cup {Missing}, ref : Blocks \cup {NoBlock, Gone}],
           txBlock' \in [Txs -> dbBlocks \cup {NoBlock, Missing}],
           CheckOK'
    PROVE  IInv'
<1>1. TypeOK' /\ TasksOK'
  BY DEF IInv, TypeInv, TypeOK, TasksOK
<1>2. NoGap' /\ NextToRow'
  BY DEF IInv, NoGap, NextToRow
<1>3. ChainInv'
  BY DEF IInv, ChainInv, OneBranch, FetchedOnChain, Orphans, SwitchPending,
         NoneFetched, BeforeRewind
<1> QED BY <1>1, <1>2, <1>3 DEF IInv, TypeInv

LEMMA StoreMempoolTxStep ==
    ASSUME IInv, NEW t \in Txs, StoreMempoolTx(t)
    PROVE  IInv'
BY CheckMoves DEF StoreMempoolTx, IInv, TypeInv, TypeOK, CheckOK

LEMMA CheckUnconfirmedStep ==
    ASSUME IInv, NEW t \in Txs, CheckUnconfirmed(t)
    PROVE  IInv'
BY CheckMoves DEF CheckUnconfirmed, IInv, TypeInv, TypeOK, CheckOK

LEMMA CheckStep ==
    ASSUME IInv, Check
    PROVE  IInv'
<1>1. CASE AskTransaction
  <2>1. /\ UNCHANGED <<tip, inbox, dbBlocks, dbParent, txBlock, job, crashes, rescans,
                       lost, exposed, headerOnly>>
        /\ \/ \E b \in Blocks : chk' = [chk EXCEPT !.step = "find", !.ref = b]
           \/ chk' = ChkOff
           \/ chk' = [chk EXCEPT !.step = "delete"]
    BY <1>1 DEF AskTransaction, MainChain
  <2>2. /\ chk' \in [step : {"off", "ask", "find", "confirm", "delete"},
                     tx : Txs \cup {Missing}, ref : Blocks \cup {NoBlock, Gone}]
        /\ chk'.step # "off" => chk'.tx = chk.tx /\ chk'.step # "confirm"
    <3> chk \in [step : {"off", "ask", "find", "confirm", "delete"},
                 tx : Txs \cup {Missing}, ref : Blocks \cup {NoBlock, Gone}]
      BY DEF IInv, TypeInv, TypeOK
    <3>1. CASE \E b \in Blocks : chk' = [chk EXCEPT !.step = "find", !.ref = b]
      BY <3>1
    <3>2. CASE chk' = ChkOff
      BY <3>2 DEF ChkOff
    <3>3. CASE chk' = [chk EXCEPT !.step = "delete"]
      BY <3>3
    <3> QED BY <2>1, <3>1, <3>2, <3>3
  <2>3. CheckOK'
    BY <1>1, <2>2 DEF AskTransaction, IInv, TypeInv, CheckOK
  <2> QED BY <2>1, <2>2, <2>3, CheckMoves DEF IInv, TypeInv, TypeOK
<1>2. CASE FindBlock
  BY <1>2, CheckMoves DEF FindBlock, ChkOff, IInv, TypeInv, TypeOK, CheckOK
<1>3. CASE ConfirmChecked
  <2>1. txBlock' \in [Txs -> dbBlocks \cup {NoBlock, Missing}]
    BY <1>3 DEF ConfirmChecked, IInv, TypeInv, TypeOK, CheckOK
  <2> QED BY <1>3, <2>1, CheckMoves DEF ConfirmChecked, ChkOff, IInv, TypeInv, TypeOK, CheckOK
<1>4. CASE DeleteUnknown
  <2>1. txBlock' \in [Txs -> dbBlocks \cup {NoBlock, Missing}]
    BY <1>4 DEF DeleteUnknown, IInv, TypeInv, TypeOK
  <2> QED BY <1>4, <2>1, CheckMoves DEF DeleteUnknown, ChkOff, IInv, TypeInv, TypeOK, CheckOK
<1> QED BY <1>1, <1>2, <1>3, <1>4 DEF Check

-----------------------------------------------------------------------------
(* The theorems *)

LEMMA InitHolds ==
    ASSUME Init
    PROVE  IInv
<1>1. /\ job \in [Workers -> Job] /\ job["chain"] = Down /\ job["rescan"] = Idle
      /\ Down.step = "down" /\ Idle.step = "idle"
      /\ \A h \in Heights : Down.got[h] = NoBlock /\ Idle.got[h] = NoBlock
  <2>1. /\ Down \in Job /\ Idle \in Job /\ Down.step = "down" /\ Idle.step = "idle"
        /\ \A h \in Heights : Down.got[h] = NoBlock /\ Idle.got[h] = NoBlock
    BY IdleTask DEF Workers
  <2>2. job = [w \in Workers |-> IF w = "chain" THEN Down ELSE Idle]
    BY DEF Init
  <2> QED BY <2>1, <2>2 DEF Workers
<1>2. TasksOK
  <2>1. TaskOK("chain", Down, dbBlocks) /\ TaskOK("rescan", Idle, dbBlocks)
    BY IdleTask DEF Workers
  <2> QED BY <1>1, <2>1 DEF TasksOK, Workers
<1>3. TypeOK /\ CheckOK
  <2>1. inbox \in Seq(Blocks)
    BY DEF Init
  <2> QED BY <1>1, <2>1 DEF Init, TypeOK, CheckOK, ChkOff
<1>4. NoGap /\ NextToRow
  BY <1>1 DEF Init, NoGap, NextToRow, RangeSteps
<1>5. ChainInv
  BY <1>1 DEF Init, ChainInv, OneBranch, Orphans, FetchedOnChain, Workers
<1> QED BY <1>2, <1>3, <1>4, <1>5 DEF IInv, TypeInv

LEMMA NextHolds ==
    ASSUME IInv, [Next]_vars
    PROVE  IInv'
<1>1. CASE UNCHANGED vars
  <2>1. TypeInv'
    BY <1>1 DEF vars, IInv, TypeInv, TypeOK, TasksOK, CheckOK
  <2>2. NoGap' /\ NextToRow'
    BY <1>1 DEF vars, IInv, NoGap, NextToRow
  <2>3. ChainInv'
    BY <1>1 DEF vars, IInv, ChainInv, OneBranch, FetchedOnChain, Orphans, SwitchPending,
                NoneFetched, BeforeRewind
  <2> QED BY <2>1, <2>2, <2>3 DEF IInv
<1>2. CASE \E b \in Blocks, told \in BOOLEAN : NewTip(b, told)
  BY <1>2, NewTipStep
<1>3. CASE Crash
  BY <1>3, DieStep DEF Crash
<1>4. CASE Startup \/ CatchupNormalModeFails
  BY <1>4, RestartStep, CatchupStep, CatchupNormalModeStep, CatchupNormalModeFailsStep,
     CatchupIBDModeStep DEF Startup
<1>5. CASE Notification \/ OnBlockHashFails
  BY <1>5, OnBlockHashStep, OnBlockHashFailsStep, ChainBacktraceStep, RewindSelectStep,
     RewindUnconfirmStep, RewindDeleteStep DEF Notification
<1>6. CASE \E from, to \in Heights : RescanBlocks(from, to)
  BY <1>6, RescanBlocksStep
<1>7. CASE \E w \in Workers : BlockTask(w)
  BY <1>7, FetchBlockStep, ProcessBlockStep, StoreTxStep, ReadParentStep, AddBlockStep,
     ConfirmTransactionsStep, EndRangeStep, DieStep
     DEF BlockTask, AddBlockFails, ConfirmTransactionsFails
<1>8. CASE \E t \in Txs : StoreMempoolTx(t) \/ CheckUnconfirmed(t)
  BY <1>8, StoreMempoolTxStep, CheckUnconfirmedStep
<1>9. CASE Check
  BY <1>9, CheckStep
<1> QED
  BY <1>1, <1>2, <1>3, <1>4, <1>5, <1>6, <1>7, <1>8, <1>9 DEF Next

\* The strengthening of the invariants below holds in every reachable state.
THEOREM Inductive == Spec => []IInv
<1>1. Init => IInv
  BY InitHolds
<1>2. IInv /\ [Next]_vars => IInv'
  BY NextHolds
<1> QED BY <1>1, <1>2, PTL DEF Spec

\* The columns blockParent and blockID, foreign keys, always name existing rows,
\* and every task holds values of its types.
THEOREM TypeCorrect == Spec => []TypeOK
<1>1. IInv => TypeOK
  BY DEF IInv, TypeInv
<1> QED BY <1>1, Inductive, PTL

\* However many crashes, restarts and reorganisations: the heights of the rows of
\* table blocks are an interval (as long as no range was rescanned).
THEOREM TableHasNoGap == Spec => []NoGap
<1>1. IInv => NoGap
  BY DEF IInv
<1> QED BY <1>1, Inductive, PTL

\* Outside the windows of Exposes, the rows of table blocks are on one branch,
\* at every step of the handling of a reorganisation.
THEOREM TableIsOneBranch == Spec => []OneBranch
<1>1. IInv => OneBranch
  BY DEF IInv, ChainInv, OneBranch
<1> QED BY <1>1, Inductive, PTL

\* Outside those windows, a row off bitcoind's best chain is one whose rewind is
\* under way, or announced by a notification that waits or was lost.
THEOREM OrphansAreHandled == Spec => []OrphansArePending
<1>1. IInv => OrphansArePending
  BY DEF IInv, ChainInv, OrphansArePending, SwitchPending
<1> QED BY <1>1, Inductive, PTL

-----------------------------------------------------------------------------
(* What a registered block holds: its transactions, and the row of its parent *)

\* A transaction is confirmed in a block that has it.
MinedThere ==
    /\ \A t \in Txs : txBlock[t] \in Blocks => t \in BlockTxs[txBlock[t]]
    /\ chk.step \in {"find", "confirm"} /\ chk.ref \in Blocks => chk.tx \in BlockTxs[chk.ref]

\* The transactions of the block in hand are stored, or about to be.
HandOK(w) ==
    job[w].step \in {"store", "add"} /\ job[w].mode # "ibd" =>
        /\ job[w].step = "add" => job[w].todo = {}
        /\ \A t \in BlockTxs[Cur(w)] : t \in job[w].todo \/ txBlock[t] # Missing

\* The same of a task j, over the rows of the transactions
HandGood(j, rows) ==
    j.step \in {"store", "add"} /\ j.mode # "ibd" =>
        /\ j.step = "add" => j.todo = {}
        /\ \A t \in BlockTxs[j.got[j.at]] : t \in j.todo \/ rows[t] # Missing

StoredInv ==
    ~exposed =>
        /\ chk.step = "delete" => chk.tx \notin ChainTxs(tip)
        /\ \A w \in Workers : HandOK(w)
        /\ RegisteredIsStored

\* What the locals j of the chain task promise about the rows D: none is above the
\* block in hand, and the id read for its parent is the right one.
RangeGood(j, D) ==
    /\ j.step \in RangeSteps => \A x \in D : Height[x] <= j.at
    /\ j.mode = "ibd" =>
         /\ j.step \in {"pull", "add"}
         /\ IF j.ref = NoBlock THEN D = {} ELSE Height[j.ref] = j.at - 1
    /\ j.mode # "ibd" /\ j.step = "add" =>
         LET c == j.got[j.at]
         IN  j.ref = IF Height[c] > 0 /\ Prev(c) \in D THEN Prev(c) ELSE NoBlock

ParentInHand == rescans = 0 => RangeGood(job["chain"], dbBlocks)

LinkInv == ParentInHand /\ ParentLinked

\* The block in hand is on the best chain, and so are the rows.
LEMMA Hand ==
    ASSUME IInv, NEW w \in Workers, job[w].step \in {"store", "add", "confirm"}
    PROVE  /\ job[w].at \in Heights /\ job[w].at \in Nat
           /\ Cur(w) \in Blocks /\ Height[Cur(w)] = job[w].at
           /\ ~exposed => OnChain(Cur(w), tip) /\ Orphans(tip) = {}
<1>1. job[w].at \in Heights /\ job[w].got[job[w].at] # NoBlock /\ job[w].at \in Nat
  BY TasksTyped, BoundsAssumption DEF IInv, TaskOK, Heights
<1>2. ~exposed => Orphans(tip) = {}
  BY NotPending DEF IInv, Workers, RewindSteps
<1> QED BY <1>1, <1>2, FetchedBefore DEF Cur

\* The transactions of a block of a branch are those of the branch.
LEMMA OnChainTxs ==
    ASSUME NEW x \in Blocks, NEW b \in Blocks, OnChain(x, b)
    PROVE  BlockTxs[x] \subseteq ChainTxs(b)
<1>1. Height[x] \in 0 .. Height[b] /\ Anc[b][Height[x]] = x
  BY TreeAssumption, BoundsAssumption DEF OnChain, Heights
<1> QED BY <1>1 DEF ChainTxs

\* A branch mines a transaction in one block.
LEMMA OneBlockOnly ==
    ASSUME NEW x \in Blocks, NEW y \in Blocks, NEW b \in Blocks, OnChain(x, b), OnChain(y, b),
           NEW t \in BlockTxs[x], t \in BlockTxs[y]
    PROVE  x = y
<1>1. /\ Height[x] \in 0 .. Height[b] /\ Anc[b][Height[x]] = x
      /\ Height[y] \in 0 .. Height[b] /\ Anc[b][Height[y]] = y
  BY TreeAssumption, BoundsAssumption DEF OnChain, Heights
<1> QED BY <1>1, MinedOnceAssumption

LEMMA MinedThereInit == Init => MinedThere
BY NamesAssumption DEF Init, MinedThere, ChkOff

LEMMA MinedThereStep ==
    ASSUME IInv, MinedThere, [Next]_vars
    PROVE  MinedThere'
<1>0. /\ txBlock \in [Txs -> dbBlocks \cup {NoBlock, Missing}] /\ dbBlocks \subseteq Blocks
      /\ chk \in [step : {"off", "ask", "find", "confirm", "delete"},
                  tx : Txs \cup {Missing}, ref : Blocks \cup {NoBlock, Gone}]
      /\ NoBlock \notin Blocks /\ Missing \notin Blocks /\ Gone \notin Blocks
      /\ ChkOff.step = "off"
      /\ chk.step # "off" => chk.tx \in Txs
      /\ chk.step = "confirm" => chk.ref \in dbBlocks \cup {Gone}
  BY NamesAssumption DEF IInv, TypeInv, TypeOK, ChkOff, CheckOK
<1>1. CASE UNCHANGED <<txBlock, chk>>
  BY <1>1 DEF MinedThere
<1>2. CASE Die
  BY <1>0, <1>2 DEF Die, MinedThere
<1>3. CASE RewindUnconfirm
  BY <1>0, <1>3 DEF RewindUnconfirm, MinedThere
<1>4. CASE RewindDelete
  <2> DEFINE dead == {b \in dbBlocks : Height[b] >= job["chain"].lo}
  <2>1. /\ txBlock' = [t \in Txs |-> IF txBlock[t] \in dead THEN NoBlock ELSE txBlock[t]]
        /\ chk' = [chk EXCEPT !.ref = IF chk.step = "confirm" THEN Forget(dead, @) ELSE @]
    BY <1>4 DEF RewindDelete, DeleteRows, NullBlockIDs
  <2> HIDE DEF dead
  <2>2. \A t \in Txs : txBlock'[t] \in Blocks => txBlock'[t] = txBlock[t]
    BY <1>0, <2>1
  <2>3. chk'.step = chk.step /\ chk'.tx = chk.tx /\ (chk'.ref \in Blocks => chk'.ref = chk.ref)
    BY <1>0, <2>1 DEF Forget
  <2> QED BY <2>2, <2>3 DEF MinedThere
<1>5. ASSUME NEW w \in Workers, NEW t \in Txs, StoreTx(w, t) PROVE MinedThere'
  BY <1>0, <1>5 DEF StoreTx, MinedThere
<1>6. ASSUME NEW w \in Workers, ConfirmTransactions(w) PROVE MinedThere'
  BY <1>0, <1>6 DEF ConfirmTransactions, Confirmed, MinedThere
<1>7. ASSUME NEW t \in Txs, StoreMempoolTx(t) \/ CheckUnconfirmed(t) PROVE MinedThere'
  BY <1>0, <1>7 DEF StoreMempoolTx, CheckUnconfirmed, MinedThere
<1>8. CASE Check
  <2>1. CASE AskTransaction
    <3>1. /\ txBlock' = txBlock
          /\ chk'.step \in {"find", "confirm"} =>
               \E b \in Blocks : chk.tx \in BlockTxs[b] /\ chk' = [chk EXCEPT !.step = "find", !.ref = b]
      BY <1>0, <2>1 DEF AskTransaction, MainChain
    <3>2. ASSUME NEW b \in Blocks, chk.tx \in BlockTxs[b], chk' = [chk EXCEPT !.step = "find", !.ref = b]
          PROVE  chk'.tx \in BlockTxs[chk'.ref]
      BY <1>0, <3>2
    <3> QED BY <3>1, <3>2 DEF MinedThere
  <2>2. CASE FindBlock
    BY <1>0, <2>2 DEF FindBlock, MinedThere
  <2>3. CASE ConfirmChecked
    BY <1>0, <2>3 DEF ConfirmChecked, MinedThere
  <2>4. CASE DeleteUnknown
    BY <1>0, <2>4 DEF DeleteUnknown, MinedThere
  <2> QED BY <1>8, <2>1, <2>2, <2>3, <2>4 DEF Check
<1>9. ASSUME NEW w \in Workers, BlockTask(w) PROVE MinedThere'
  BY <1>1, <1>2, <1>5, <1>6, <1>9
     DEF BlockTask, FetchBlock, ProcessBlock, ReadParent, AddBlock, EndRange,
         AddBlockFails, ConfirmTransactionsFails
<1>10. CASE Startup \/ CatchupNormalModeFails
  BY <1>1, <1>10 DEF Startup, Restart, Catchup, CatchupNormalMode, CatchupIBDMode, CatchupNormalModeFails
<1>11. CASE Notification \/ OnBlockHashFails
  BY <1>1, <1>3, <1>4, <1>11
     DEF Notification, OnBlockHash, ChainBacktrace, RewindSelect, OnBlockHashFails
<1>12. CASE \/ \E b \in Blocks, told \in BOOLEAN : NewTip(b, told)
            \/ \E from, to \in Heights : RescanBlocks(from, to)
            \/ UNCHANGED vars
  BY <1>1, <1>12 DEF NewTip, RescanBlocks, vars
<1> QED BY <1>2, <1>7, <1>8, <1>9, <1>10, <1>11, <1>12 DEF Next, Crash

\* ConfirmationIsCancelledFirst: on one branch, a transaction is confirmed in the one block
\* that mines it; another block can only come after the rewind, which unconfirms it.
THEOREM CancelledFirst == Spec => ConfirmationIsCancelledFirst
<1>1. IInv /\ MinedThere /\ [Next]_vars =>
        [\A t \in Txs : {txBlock[t], txBlock'[t]} \subseteq Blocks /\ txBlock'[t] # txBlock[t]
                          => exposed]_vars
  <2> SUFFICES ASSUME IInv, MinedThere, Next, NEW t \in Txs, txBlock[t] \in Blocks,
                      txBlock'[t] \in Blocks, txBlock'[t] # txBlock[t], ~exposed
               PROVE  FALSE
    OBVIOUS
  <2>1. /\ txBlock \in [Txs -> dbBlocks \cup {NoBlock, Missing}] /\ dbBlocks \subseteq Blocks
        /\ tip \in Blocks /\ txBlock[t] \in dbBlocks /\ t \in BlockTxs[txBlock[t]]
        /\ NoBlock \notin Blocks /\ Missing \notin Blocks /\ Gone \notin Blocks /\ OneBranch
    BY NamesAssumption DEF IInv, TypeInv, TypeOK, ChainInv, MinedThere
  <2>2. ASSUME NEW w \in Workers, ConfirmTransactions(w) PROVE FALSE
    <3>1. t \in BlockTxs[Cur(w)] /\ txBlock'[t] = Cur(w)
      BY <2>1, <2>2 DEF ConfirmTransactions, Confirmed
    <3>2. Cur(w) \in Blocks /\ OnChain(Cur(w), tip) /\ Orphans(tip) = {}
      BY <2>2, Hand DEF ConfirmTransactions
    <3>3. OnChain(txBlock[t], tip)
      BY <2>1, <3>2 DEF Orphans
    <3> QED BY <2>1, <3>1, <3>2, <3>3, OneBlockOnly
  <2>3. CASE ConfirmChecked
    <3>1. t = chk.tx /\ txBlock'[t] = chk.ref /\ chk.ref \in dbBlocks /\ t \in BlockTxs[chk.ref]
      BY <2>1, <2>3 DEF ConfirmChecked, MinedThere, IInv, TypeInv, CheckOK
    <3>2. OnChain(chk.ref, txBlock[t]) \/ OnChain(txBlock[t], chk.ref)
      BY <2>1, <3>1, TreeAssumption, BoundsAssumption DEF OneBranch, Heights
    <3> QED BY <2>1, <3>1, <3>2, OneBlockOnly, OnChainReflexive
  <2>4. CASE RewindUnconfirm \/ RewindDelete
    BY <2>1, <2>4 DEF RewindUnconfirm, RewindDelete, NullBlockIDs
  <2>5. ASSUME NEW w \in Workers, NEW u \in Txs, StoreTx(w, u) PROVE FALSE
    BY <2>1, <2>5 DEF StoreTx
  <2>6. ASSUME NEW u \in Txs, StoreMempoolTx(u) \/ CheckUnconfirmed(u) PROVE FALSE
    BY <2>1, <2>6 DEF StoreMempoolTx, CheckUnconfirmed
  <2>7. ~AskTransaction /\ ~FindBlock /\ ~DeleteUnknown
    BY <2>1 DEF AskTransaction, FindBlock, DeleteUnknown
  <2>8. ASSUME NEW w \in Workers, BlockTask(w) PROVE FALSE
    BY <2>2, <2>5, <2>8 DEF BlockTask, FetchBlock, ProcessBlock, ReadParent, AddBlock, EndRange,
                            AddBlockFails, ConfirmTransactionsFails, Die
  <2>9. ~Startup /\ ~CatchupNormalModeFails /\ ~Crash
    BY DEF Startup, Restart, Catchup, CatchupNormalMode, CatchupIBDMode, CatchupNormalModeFails, Crash, Die
  <2>10. ~Notification /\ ~OnBlockHashFails
    BY <2>4 DEF Notification, OnBlockHash, ChainBacktrace, RewindSelect, OnBlockHashFails
  <2>11. /\ ~(\E b \in Blocks, told \in BOOLEAN : NewTip(b, told))
         /\ ~(\E from, to \in Heights : RescanBlocks(from, to))
    BY DEF NewTip, RescanBlocks
  <2> QED BY <2>3, <2>6, <2>7, <2>8, <2>9, <2>10, <2>11 DEF Next, Check
<1>2. Init => MinedThere
  BY MinedThereInit
<1>3. IInv /\ MinedThere /\ [Next]_vars => MinedThere'
  BY MinedThereStep
<1> QED BY <1>1, <1>2, <1>3, Inductive, PTL DEF Spec, ConfirmationIsCancelledFirst

-----------------------------------------------------------------------------
(* The transactions of registered blocks *)

\* A step that loses no transaction of the best chain, registers no block, and
\* leaves no task with a block in hand that it had not.
LEMMA StoredKept ==
    ASSUME IInv, StoredInv, tip' = tip, ~exposed' => ~exposed,
           ~exposed /\ chk'.step = "delete" => chk'.tx \notin ChainTxs(tip),
           dbBlocks' \ headerOnly' \subseteq dbBlocks \ headerOnly,
           \A w \in Workers : job'[w] = job[w] \/ job'[w].step \notin {"store", "add"},
           ~exposed => \A t \in Txs : txBlock[t] # Missing /\ t \in ChainTxs(tip) => txBlock'[t] # Missing
    PROVE  StoredInv'
<1> SUFFICES ASSUME ~exposed'
             PROVE  (\A w \in Workers : HandOK(w)') /\ RegisteredIsStored'
  BY DEF StoredInv
<1>1. ~exposed /\ (\A w \in Workers : HandOK(w)) /\ RegisteredIsStored
  BY DEF StoredInv
<1>2. ASSUME NEW w \in Workers PROVE HandOK(w)'
  <2> SUFFICES ASSUME job'[w].step \in {"store", "add"}, job'[w].mode # "ibd"
               PROVE  /\ job'[w].step = "add" => job'[w].todo = {}
                      /\ \A t \in BlockTxs[Cur(w)'] : t \in job'[w].todo \/ txBlock'[t] # Missing
    BY DEF HandOK
  <2>1. job'[w] = job[w] /\ Cur(w)' = Cur(w)
    BY DEF Cur
  <2>2. Cur(w) \in Blocks /\ OnChain(Cur(w), tip) /\ tip \in Blocks
    BY <1>1, <2>1, Hand DEF IInv, TypeInv, TypeOK
  <2>3. \A t \in BlockTxs[Cur(w)] : t \in Txs /\ t \in ChainTxs(tip)
    BY <2>2, OnChainTxs, NamesAssumption
  <2> QED BY <1>1, <2>1, <2>3 DEF HandOK
<1>3. RegisteredIsStored'
  <2> SUFFICES ASSUME NEW b \in (dbBlocks' \cap MainChain) \ headerOnly', NEW t \in BlockTxs[b]
               PROVE  txBlock'[t] # Missing
    BY DEF RegisteredIsStored, MainChain
  <2>1. b \in Blocks /\ OnChain(b, tip) /\ tip \in Blocks /\ b \in dbBlocks \ headerOnly
    BY DEF MainChain, IInv, TypeInv, TypeOK
  <2>2. t \in Txs /\ t \in ChainTxs(tip)
    BY <2>1, OnChainTxs, NamesAssumption
  <2> QED BY <1>1, <2>1, <2>2 DEF RegisteredIsStored
<1> QED BY <1>2, <1>3

\* A move of one task
LEMMA MovedTask ==
    ASSUME IInv, NEW w \in Workers, NEW j, job' = [job EXCEPT ![w] = j]
    PROVE  job'[w] = j /\ \A v \in Workers : v # w => job'[v] = job[v]
BY TasksTyped DEF IInv

\* The steps of startup, of a notification and of the end of a range
LEMMA StoredWhileMoving ==
    ASSUME IInv, StoredInv,
           \/ Startup \/ CatchupNormalModeFails \/ Notification \/ OnBlockHashFails
           \/ \E from, to \in Heights : RescanBlocks(from, to)
           \/ Die \/ UNCHANGED vars
           \/ \E w \in Workers : ConfirmTransactions(w) \/ EndRange(w)
    PROVE  StoredInv'
<1>0. /\ txBlock \in [Txs -> dbBlocks \cup {NoBlock, Missing}] /\ dbBlocks \subseteq Blocks
      /\ chk \in [step : {"off", "ask", "find", "confirm", "delete"},
                  tx : Txs \cup {Missing}, ref : Blocks \cup {NoBlock, Gone}]
      /\ NoBlock # Missing /\ Missing \notin Blocks /\ ChkOff.step = "off"
      /\ exposed \in BOOLEAN
  BY NamesAssumption DEF IInv, TypeInv, TypeOK, ChkOff
<1>t. /\ job \in [Workers -> Job] /\ "chain" \in Workers /\ "rescan" \in Workers
      /\ \A w \in Workers : job[w] \in Job
      /\ Idle \in Job /\ Idle.step = "idle" /\ Down.step = "down"
      /\ [Idle EXCEPT !.step = "bootIBD"].step = "bootIBD"
  BY TasksTyped, IdleTask DEF IInv, Job
<1>r. \A w \in Workers : \A mode, from, to, row : RunRange(w, mode, from, to, row).step = "pull"
  BY <1>t DEF RunRange, Job
<1>1. ~exposed /\ chk.step = "delete" => chk.tx \notin ChainTxs(tip)
  BY DEF StoredInv
<1>2. CASE Startup \/ CatchupNormalModeFails
  <2>1. /\ UNCHANGED <<tip, exposed, chk, dbBlocks, headerOnly, txBlock>>
        /\ \A w \in Workers : job'[w] = job[w] \/ job'[w].step \notin {"store", "add"}
    <3>1. CASE Restart
      BY <1>t, <3>1 DEF Restart, Job
    <3>2. CASE Catchup
      BY <1>t, <3>2 DEF Catchup, Job
    <3>3. CASE CatchupNormalMode
      BY <1>t, <1>r, <3>3 DEF CatchupNormalMode
    <3>4. CASE CatchupIBDMode
      <4>1. PICK j : job' = [job EXCEPT !["chain"] = j] /\ j.step \in {"pull", "idle"}
        BY <1>t, <1>r, <3>4 DEF CatchupIBDMode
      <4> QED BY <3>4, <4>1, MovedTask, <1>t DEF CatchupIBDMode
    <3>5. CASE CatchupNormalModeFails
      BY <1>t, <3>5 DEF CatchupNormalModeFails
    <3> QED BY <1>2, <3>1, <3>2, <3>3, <3>4, <3>5 DEF Startup
  <2> QED BY <1>1, <2>1, StoredKept
<1>3. CASE OnBlockHash \/ ChainBacktrace \/ RewindSelect \/ OnBlockHashFails
  <2>1. /\ UNCHANGED <<tip, exposed, chk, dbBlocks, headerOnly, txBlock>>
        /\ \A w \in Workers : job'[w] = job[w] \/ job'[w].step \notin {"store", "add"}
    <3>1. CASE OnBlockHash
      <4> DEFINE j == [Idle EXCEPT !.mode = "live", !.step = "trace", !.top = Head(inbox),
                                   !.lo = Height[Head(inbox)], !.hi = Height[Head(inbox)]]
      <4>1. j.step = "trace"
        BY <1>t DEF Job
      <4>2. job' = [job EXCEPT !["chain"] = j]
        BY <3>1 DEF OnBlockHash
      <4> HIDE DEF j
      <4> QED BY <1>t, <3>1, <4>1, <4>2 DEF OnBlockHash
    <3>2. CASE ChainBacktrace
      <4>1. job["chain"].step = "trace" /\ \E j \in {[job["chain"] EXCEPT !.step = "select", !.at = job["chain"].lo],
                                                    [job["chain"] EXCEPT !.lo = job["chain"].lo - 1]} :
              job' = [job EXCEPT !["chain"] = j]
        BY <3>2 DEF ChainBacktrace
      <4>2. \A j \in {[job["chain"] EXCEPT !.step = "select", !.at = job["chain"].lo],
                      [job["chain"] EXCEPT !.lo = job["chain"].lo - 1]} : j.step \in {"select", "trace"}
        BY <1>t, <4>1 DEF Job
      <4> QED BY <1>t, <3>2, <4>1, <4>2 DEF ChainBacktrace
    <3>3. CASE RewindSelect
      BY <1>t, <3>3 DEF RewindSelect, Job
    <3>4. CASE OnBlockHashFails
      BY <1>t, <3>4 DEF OnBlockHashFails
    <3> QED BY <1>3, <3>1, <3>2, <3>3, <3>4
  <2> QED BY <1>1, <2>1, StoredKept
<1>4. CASE RewindUnconfirm
  <2>1. \A w \in Workers : job'[w] = job[w] \/ job'[w].step \notin {"store", "add"}
    BY <1>t, <1>4 DEF RewindUnconfirm, Job
  <2>2. \A t \in Txs : txBlock[t] # Missing => txBlock'[t] # Missing
    BY <1>0, <1>4 DEF RewindUnconfirm
  <2> QED BY <1>1, <1>4, <2>1, <2>2, StoredKept DEF RewindUnconfirm
<1>6. CASE \E from, to \in Heights : RescanBlocks(from, to)
  <2>1. /\ UNCHANGED <<tip, chk, dbBlocks, headerOnly, txBlock>> /\ (~exposed' => ~exposed)
    BY <1>0, <1>6, Zenon DEF RescanBlocks
  <2>2. \A w \in Workers : job'[w] = job[w] \/ job'[w].step \notin {"store", "add"}
    <3>1. PICK from \in Heights, to \in Heights : RescanBlocks(from, to)
      BY <1>6
    <3>2. job' = [job EXCEPT !["rescan"] = RunRange("rescan", "rescan", from, to, NoBlock)]
      BY <3>1 DEF RescanBlocks
    <3> QED BY <1>r, <1>t, <3>2, MovedTask
  <2> QED BY <1>1, <2>1, <2>2, StoredKept
<1>7. CASE Die
  <2>1. UNCHANGED <<tip, dbBlocks, headerOnly, txBlock>> /\ chk' = ChkOff
    BY <1>7 DEF Die
  <2>2. ~exposed' => ~exposed
    BY <1>0, <1>7, Zenon DEF Die
  <2>3. \A w \in Workers : job'[w].step \notin {"store", "add"}
    BY <1>t, <1>7 DEF Die
  <2> QED BY <1>0, <2>1, <2>2, <2>3, StoredKept
<1>8. ASSUME NEW w \in Workers, ConfirmTransactions(w)
      PROVE  StoredInv'
  <2>1. \A v \in Workers : job'[v] = job[v] \/ job'[v].step \notin {"store", "add"}
    <3> DEFINE j == [job[w] EXCEPT !.step = "pull", !.ref = NoBlock, !.at = job[w].at + 1,
                                   !.got[job[w].at] = NoBlock]
    <3>1. j.step = "pull"
      BY <1>t DEF Job
    <3>2. job' = [job EXCEPT ![w] = j]
      BY <1>8 DEF ConfirmTransactions
    <3> HIDE DEF j
    <3> QED BY <3>1, <3>2, MovedTask
  <2>2. \A t \in Txs : txBlock[t] # Missing => txBlock'[t] # Missing
    <3>1. Cur(w) # Missing
      BY <1>0, <1>8, Hand DEF ConfirmTransactions
    <3> QED BY <1>8, <3>1 DEF ConfirmTransactions
  <2> QED BY <1>1, <1>8, <2>1, <2>2, StoredKept DEF ConfirmTransactions
<1>9. ASSUME NEW w \in Workers, EndRange(w)
      PROVE  StoredInv'
  <2>1. \A v \in Workers : job'[v] = job[v] \/ job'[v].step \notin {"store", "add"}
    BY <1>t, <1>9 DEF EndRange
  <2> QED BY <1>1, <1>9, <2>1, StoredKept DEF EndRange
<1>10. CASE UNCHANGED vars
  BY <1>1, <1>10, StoredKept DEF vars
<1>5. CASE RewindDelete
  <2> DEFINE dead == {b \in dbBlocks : Height[b] >= job["chain"].lo}
             r == [job["rescan"] EXCEPT !.ref = Forget(dead, @)]
             c == [job["chain"] EXCEPT !.step = "pull"]
  <2>1. /\ txBlock' = [t \in Txs |-> IF txBlock[t] \in dead THEN NoBlock ELSE txBlock[t]]
        /\ chk' = [chk EXCEPT !.ref = IF chk.step = "confirm" THEN Forget(dead, @) ELSE @]
        /\ dbBlocks' = dbBlocks \ dead /\ headerOnly' = headerOnly \ dead
        /\ job' = [[job EXCEPT !["chain"] = c] EXCEPT !["rescan"] = r]
        /\ UNCHANGED <<tip, exposed>>
    BY <1>t, <1>5 DEF RewindDelete, DeleteRows, NullBlockIDs
  <2>2. c.step = "pull" /\ r.step = job["rescan"].step /\ r.mode = job["rescan"].mode
        /\ r.todo = job["rescan"].todo /\ r.got = job["rescan"].got /\ r.at = job["rescan"].at
    BY <1>t DEF Job
  <2> HIDE DEF dead, r, c
  <2>3. \A t \in Txs : txBlock[t] # Missing => txBlock'[t] # Missing
    BY <1>0, <2>1
  <2>4. chk'.step = chk.step /\ chk'.tx = chk.tx
    BY <1>0, <2>1
  <2>5. job'["chain"] = c /\ job'["rescan"] = r
    BY <1>t, <2>1
  <2> SUFFICES ASSUME ~exposed
               PROVE  /\ chk'.step = "delete" => chk'.tx \notin ChainTxs(tip)
                      /\ (\A w \in Workers : HandOK(w)') /\ RegisteredIsStored'
    BY <2>1 DEF StoredInv, ChainTxs
  <2>6. HandOK("rescan") /\ RegisteredIsStored
    BY <1>t DEF StoredInv
  <2>7. HandOK("rescan")'
    <3> SUFFICES ASSUME r.step \in {"store", "add"}, r.mode # "ibd"
                 PROVE  /\ r.step = "add" => r.todo = {}
                        /\ \A t \in BlockTxs[r.got[r.at]] : t \in r.todo \/ txBlock'[t] # Missing
      BY <2>5 DEF HandOK, Cur
    <3>1. BlockTxs[Cur("rescan")] \subseteq Txs
      BY <1>t, <2>2, Hand, NamesAssumption
    <3> QED BY <2>2, <2>3, <2>6, <3>1 DEF HandOK, Cur
  <2>8. HandOK("chain")'
    BY <2>2, <2>5 DEF HandOK
  <2>9. RegisteredIsStored'
    <3> SUFFICES ASSUME NEW b \in (dbBlocks' \cap MainChain) \ headerOnly', NEW t \in BlockTxs[b]
                 PROVE  txBlock'[t] # Missing
      BY <2>1 DEF RegisteredIsStored, MainChain
    <3>1. b \in (dbBlocks \cap MainChain) \ headerOnly /\ t \in Txs
      BY <1>0, <2>1, NamesAssumption
    <3> QED BY <2>3, <2>6, <3>1 DEF RegisteredIsStored
  <2> QED BY <1>1, <2>4, <2>7, <2>8, <2>9 DEF Workers
<1> QED BY <1>2, <1>3, <1>4, <1>5, <1>6, <1>7, <1>8, <1>9, <1>10 DEF Notification

\* The steps of a block, up to its registration
LEMMA StoredByBlock ==
    ASSUME IInv, StoredInv, NEW w \in Workers,
           \/ \E h \in Heights : FetchBlock(w, h)
           \/ ProcessBlock(w) \/ (\E t \in Txs : StoreTx(w, t)) \/ ReadParent(w)
    PROVE  StoredInv'
<1> SUFFICES ASSUME ~exposed
             PROVE  /\ UNCHANGED <<tip, exposed, chk, dbBlocks, headerOnly>>
                    /\ \A t \in Txs : txBlock[t] # Missing => txBlock'[t] # Missing
                    /\ \A v \in Workers : HandOK(v)'
  <2>1. UNCHANGED <<tip, exposed, chk, dbBlocks, headerOnly>>
    BY DEF FetchBlock, ProcessBlock, StoreTx, ReadParent
  <2>2. (\A t \in Txs : txBlock[t] # Missing => txBlock'[t] # Missing) /\ RegisteredIsStored
          => RegisteredIsStored'
    BY <2>1, NamesAssumption DEF RegisteredIsStored, MainChain, IInv, TypeInv, TypeOK
  <2> QED BY <2>1, <2>2 DEF StoredInv, ChainTxs
<1>1. /\ UNCHANGED <<tip, exposed, chk, dbBlocks, headerOnly>>
      /\ \A t \in Txs : txBlock[t] # Missing => txBlock'[t] # Missing
      /\ NoBlock # Missing /\ job[w] \in Job /\ txBlock \in [Txs -> dbBlocks \cup {NoBlock, Missing}]
      /\ \A b \in Blocks : BlockTxs[b] \subseteq Txs
      /\ \A v \in Workers : HandOK(v)
  BY NamesAssumption, TasksTyped
     DEF FetchBlock, ProcessBlock, StoreTx, ReadParent, IInv, TypeInv, TypeOK, StoredInv
\* The other task is where it was.
<1>2. ASSUME NEW v \in Workers, v # w, job'[v] = job[v]
      PROVE  HandOK(v)'
  <2> SUFFICES ASSUME job[v].step \in {"store", "add"}, job[v].mode # "ibd"
               PROVE  /\ job[v].step = "add" => job[v].todo = {}
                      /\ \A t \in BlockTxs[Cur(v)] : t \in job[v].todo \/ txBlock'[t] # Missing
    BY <1>2 DEF HandOK, Cur
  <2>1. BlockTxs[Cur(v)] \subseteq Txs
    BY <1>1, Hand
  <2> QED BY <1>1, <2>1 DEF HandOK
<1>3. ASSUME NEW j, job' = [job EXCEPT ![w] = j], HandGood(j, txBlock')
      PROVE  \A v \in Workers : HandOK(v)'
  <2>1. job'[w] = j /\ \A v \in Workers : v # w => job'[v] = job[v]
    BY <1>3, MovedTask
  <2>2. HandOK(w)'
    BY <1>3, <2>1 DEF HandOK, HandGood, Cur
  <2> QED BY <1>2, <2>1, <2>2
<1>4. ASSUME NEW h \in Heights, FetchBlock(w, h)
      PROVE  \A v \in Workers : HandOK(v)'
  <2> DEFINE j == [job[w] EXCEPT !.got[h] = Anc[tip][h]]
  <2>1. /\ j.step = job[w].step /\ j.mode = job[w].mode /\ j.todo = job[w].todo /\ j.at = job[w].at
        /\ \A i \in Heights : i # h => j.got[i] = job[w].got[i]
    BY <1>1 DEF Job
  <2>2. job' = [job EXCEPT ![w] = j] /\ txBlock' = txBlock /\ job[w].got[h] = NoBlock
    BY <1>4 DEF FetchBlock, Waiting
  <2> HIDE DEF j
  <2>3. job[w].step \in {"store", "add"} => job[w].at \in Heights /\ job[w].at # h
    BY <2>2, Hand, NamesAssumption DEF Cur
  <2>4. HandGood(j, txBlock')
    BY <1>1, <2>1, <2>2, <2>3 DEF HandGood, HandOK, Cur
  <2> QED BY <1>3, <2>2, <2>4
<1>5. CASE ProcessBlock(w)
  <2>1. CASE job[w].mode = "ibd"
    <3> DEFINE j == [job[w] EXCEPT !.step = "add"]
    <3>1. j.mode = "ibd" /\ job' = [job EXCEPT ![w] = j]
      BY <1>1, <1>5, <2>1 DEF ProcessBlock, Job
    <3> HIDE DEF j
    <3>2. HandGood(j, txBlock')
      BY <3>1 DEF HandGood
    <3> QED BY <1>1, <1>3, <3>1, <3>2
  <2>2. CASE job[w].mode # "ibd"
    <3> DEFINE j == [job[w] EXCEPT !.step = "store", !.todo = BlockTxs[Cur(w)]]
    <3>1. /\ job' = [job EXCEPT ![w] = j] /\ j.step = "store" /\ j.todo = BlockTxs[Cur(w)]
          /\ j.got[j.at] = Cur(w)
      BY <1>1, <1>5, <2>2 DEF ProcessBlock, Job, Cur
    <3> HIDE DEF j
    <3>2. HandGood(j, txBlock')
      BY <3>1 DEF HandGood
    <3> QED BY <1>1, <1>3, <3>1, <3>2
  <2> QED BY <2>1, <2>2
<1>6. ASSUME NEW u \in Txs, StoreTx(w, u)
      PROVE  \A v \in Workers : HandOK(v)'
  <2> DEFINE j == [job[w] EXCEPT !.todo = job[w].todo \ {u}]
  <2>1. /\ j.step = job[w].step /\ j.mode = job[w].mode /\ j.todo = job[w].todo \ {u}
        /\ j.at = job[w].at /\ j.got = job[w].got
    BY <1>1 DEF Job
  <2>2. job' = [job EXCEPT ![w] = j] /\ job[w].step = "store" /\ txBlock'[u] # Missing
    BY <1>1, <1>6, NamesAssumption DEF StoreTx, IInv, TypeInv, TypeOK
  <2> HIDE DEF j
  <2>3. BlockTxs[Cur(w)] \subseteq Txs
    BY <1>1, <2>2, Hand
  <2>4. job[w].mode # "ibd" => \A t \in BlockTxs[Cur(w)] : t \in j.todo \/ txBlock'[t] # Missing
    BY <1>1, <2>1, <2>2, <2>3 DEF HandOK
  <2>5. HandGood(j, txBlock')
    BY <2>1, <2>2, <2>4 DEF HandGood, Cur
  <2> QED BY <1>3, <2>2, <2>5
<1>7. CASE ReadParent(w)
  <2> DEFINE j == [job[w] EXCEPT !.step = "add", !.ref = ParentRow(Cur(w))]
  <2>1. /\ j.step = "add" /\ j.mode = job[w].mode /\ j.todo = job[w].todo
        /\ j.at = job[w].at /\ j.got = job[w].got
    BY <1>1 DEF Job
  <2>2. /\ job' = [job EXCEPT ![w] = j] /\ job[w].step = "store" /\ job[w].todo = {}
        /\ txBlock' = txBlock
    BY <1>7 DEF ReadParent
  <2> HIDE DEF j
  <2>3. job[w].mode # "ibd" => \A t \in BlockTxs[Cur(w)] : txBlock'[t] # Missing
    BY <1>1, <2>2 DEF HandOK
  <2>4. HandGood(j, txBlock')
    BY <2>1, <2>2, <2>3 DEF HandGood, Cur
  <2> QED BY <1>1, <1>3, <2>2, <2>4
<1> QED BY <1>1, <1>4, <1>5, <1>6, <1>7

\* A block is registered: its transactions are there, or it comes from a header.
LEMMA StoredWhenRegistered ==
    ASSUME IInv, StoredInv, NEW w \in Workers, AddBlock(w)
    PROVE  StoredInv'
<1> SUFFICES ASSUME ~exposed
             PROVE  /\ UNCHANGED <<tip, exposed, chk, txBlock>>
                    /\ (\A v \in Workers : HandOK(v)') /\ RegisteredIsStored'
  BY DEF StoredInv, AddBlock, ChainTxs
<1>1. /\ UNCHANGED <<tip, exposed, chk, txBlock>> /\ job[w] \in Job /\ job[w].step = "add"
      /\ dbBlocks' = dbBlocks \cup {Cur(w)}
      /\ RegisteredIsStored /\ (\A v \in Workers : HandOK(v))
  BY TasksTyped DEF AddBlock, IInv, StoredInv
<1>2. PICK j : job' = [job EXCEPT ![w] = j] /\ j.step \in {"pull", "confirm"}
  <2>1. CASE job[w].mode = "ibd"
    <3> DEFINE j == [job[w] EXCEPT !.step = "pull", !.ref = Cur(w), !.at = job[w].at + 1,
                                   !.got[job[w].at] = NoBlock]
    <3>1. j.step = "pull" /\ job' = [job EXCEPT ![w] = j]
      BY <1>1, <2>1 DEF AddBlock, Job
    <3> QED BY <3>1
  <2>2. CASE job[w].mode # "ibd"
    <3> DEFINE j == [job[w] EXCEPT !.step = "confirm", !.ref = Cur(w)]
    <3>1. j.step = "confirm" /\ job' = [job EXCEPT ![w] = j]
      BY <1>1, <2>2 DEF AddBlock, Job
    <3> QED BY <3>1
  <2> QED BY <2>1, <2>2
<1>3. \A v \in Workers : HandOK(v)'
  <2>1. job'[w] = j /\ \A v \in Workers : v # w => job'[v] = job[v]
    BY <1>2, MovedTask
  <2> QED BY <1>1, <1>2, <2>1 DEF HandOK, Cur
<1>4. RegisteredIsStored'
  <2> SUFFICES ASSUME NEW b \in (dbBlocks' \cap MainChain) \ headerOnly', NEW t \in BlockTxs[b]
               PROVE  txBlock[t] # Missing
    BY <1>1 DEF RegisteredIsStored, MainChain
  <2>1. CASE b \in dbBlocks \ headerOnly
    BY <1>1, <2>1 DEF RegisteredIsStored
  <2>2. CASE b \notin dbBlocks \ headerOnly
    <3>1. b = Cur(w) /\ job[w].mode # "ibd"
      BY <1>1, <2>2 DEF AddBlock
    <3> QED BY <1>1, <3>1 DEF HandOK
  <2> QED BY <2>1, <2>2
<1> QED BY <1>1, <1>3, <1>4

\* The check of unconfirmed transactions deletes none of the best chain.
LEMMA StoredByCheck ==
    ASSUME IInv, StoredInv,
           Check \/ \E t \in Txs : StoreMempoolTx(t) \/ CheckUnconfirmed(t)
    PROVE  StoredInv'
<1>0. /\ txBlock \in [Txs -> dbBlocks \cup {NoBlock, Missing}] /\ dbBlocks \subseteq Blocks
      /\ chk \in [step : {"off", "ask", "find", "confirm", "delete"},
                  tx : Txs \cup {Missing}, ref : Blocks \cup {NoBlock, Gone}]
      /\ NoBlock # Missing /\ Missing \notin Blocks /\ ChkOff.step = "off"
      /\ chk.step = "confirm" => chk.ref \in dbBlocks \cup {Gone}
      /\ ~exposed /\ chk.step = "delete" => chk.tx \notin ChainTxs(tip)
  BY NamesAssumption DEF IInv, TypeInv, TypeOK, ChkOff, CheckOK, StoredInv
<1>1. CASE Check
  <2>1. UNCHANGED <<tip, exposed, dbBlocks, headerOnly, job>>
    BY <1>1 DEF Check, AskTransaction, FindBlock, ConfirmChecked, DeleteUnknown
  <2>2. ~exposed /\ chk'.step = "delete" => chk'.tx \notin ChainTxs(tip)
    <3>1. CASE AskTransaction
      BY <1>0, <3>1 DEF AskTransaction
    <3>2. CASE FindBlock \/ ConfirmChecked \/ DeleteUnknown
      BY <1>0, <3>2 DEF FindBlock, ConfirmChecked, DeleteUnknown
    <3> QED BY <1>1, <3>1, <3>2 DEF Check
  <2>3. ~exposed => \A t \in Txs : txBlock[t] # Missing /\ t \in ChainTxs(tip) => txBlock'[t] # Missing
    <3>1. CASE AskTransaction \/ FindBlock
      BY <3>1 DEF AskTransaction, FindBlock
    <3>2. CASE ConfirmChecked
      BY <1>0, <3>2 DEF ConfirmChecked
    <3>3. CASE DeleteUnknown
      BY <1>0, <3>3 DEF DeleteUnknown
    <3> QED BY <1>1, <3>1, <3>2, <3>3 DEF Check
  <2> QED BY <2>1, <2>2, <2>3, StoredKept
<1>2. ASSUME NEW t \in Txs, StoreMempoolTx(t) \/ CheckUnconfirmed(t)
      PROVE  StoredInv'
  <2>1. UNCHANGED <<tip, exposed, dbBlocks, headerOnly, job>>
    BY <1>2 DEF StoreMempoolTx, CheckUnconfirmed
  <2>2. ~exposed /\ chk'.step = "delete" => chk'.tx \notin ChainTxs(tip)
    BY <1>0, <1>2 DEF StoreMempoolTx, CheckUnconfirmed
  <2>3. \A u \in Txs : txBlock[u] # Missing => txBlock'[u] # Missing
    BY <1>0, <1>2 DEF StoreMempoolTx, CheckUnconfirmed
  <2> QED BY <2>1, <2>2, <2>3, StoredKept
<1> QED BY <1>1, <1>2

\* A new best chain, outside the windows of Exposes
LEMMA StoredAtNewTip ==
    ASSUME IInv, StoredInv, NEW b \in Blocks, NEW told \in BOOLEAN, NewTip(b, told)
    PROVE  StoredInv'
<1>1. /\ tip' = b
      /\ UNCHANGED <<dbBlocks, dbParent, txBlock, job, chk, crashes, rescans, headerOnly>>
      /\ dbBlocks \subseteq Blocks
  BY DEF NewTip, IInv, TypeInv, TypeOK
<1>2. ~exposed' => ~exposed /\ ~Exposes(b)
  <2>1. Exposes(b) \in BOOLEAN
    BY Zenon DEF Exposes
  <2> QED BY <2>1, Zenon DEF NewTip, IInv, TypeInv, TypeOK
<1> SUFFICES ASSUME ~exposed, ~Exposes(b)
             PROVE  /\ chk.step = "delete" => chk.tx \notin ChainTxs(b)
                    /\ (\A w \in Workers : HandOK(w)') /\ RegisteredIsStored'
  BY <1>1, <1>2 DEF StoredInv, ChainTxs
<1>3. chk.step = "delete" => chk.tx \notin ChainTxs(b)
  BY DEF Exposes
<1>4. \A w \in Workers : HandOK(w)'
  BY <1>1 DEF StoredInv, HandOK, Cur
<1>5. RegisteredIsStored'
  <2> SUFFICES ASSUME NEW x \in dbBlocks \ headerOnly, OnChain(x, b), NEW t \in BlockTxs[x]
               PROVE  txBlock[t] # Missing
    BY <1>1 DEF RegisteredIsStored, MainChain, OnChain
  <2>1. CASE OnChain(x, tip)
    BY <1>1, <2>1 DEF StoredInv, RegisteredIsStored, MainChain
  <2>2. CASE ~OnChain(x, tip)
    BY <2>2 DEF Exposes
  <2> QED BY <2>1, <2>2
<1> QED BY <1>3, <1>4, <1>5

LEMMA StoredStep ==
    ASSUME IInv, StoredInv, [Next]_vars
    PROVE  StoredInv'
<1>1. ASSUME NEW w \in Workers, BlockTask(w) PROVE StoredInv'
  BY <1>1, StoredByBlock, StoredWhenRegistered, StoredWhileMoving
     DEF BlockTask, AddBlockFails, ConfirmTransactionsFails
<1>2. CASE Crash
  BY <1>2, StoredWhileMoving DEF Crash
<1> QED BY <1>1, <1>2, StoredWhileMoving, StoredByCheck, StoredAtNewTip DEF Next

-----------------------------------------------------------------------------
(* The parent of a row *)

\* A step that leaves the table alone and the chain task in order.
LEMMA LinkMoves ==
    ASSUME LinkInv, UNCHANGED <<dbBlocks, dbParent>>, ~exposed' => ~exposed,
           rescans' = 0 => rescans = 0 /\ RangeGood(job'["chain"], dbBlocks)
    PROVE  LinkInv'
<1>1. ParentInHand'
  BY DEF ParentInHand, RangeGood
<1>2. ParentLinked'
  BY DEF LinkInv, ParentLinked
<1> QED BY <1>1, <1>2 DEF LinkInv

\* A step of the chain task outside its ranges
LEMMA LinkOutside ==
    ASSUME IInv, LinkInv, NEW j, j.step \notin RangeSteps, j.mode # "ibd",
           job'["chain"] = j,
           UNCHANGED <<dbBlocks, dbParent>>, ~exposed' => ~exposed, rescans' = 0 => rescans = 0
    PROVE  LinkInv'
<1>1. RangeGood(job'["chain"], dbBlocks)
  BY DEF RangeGood, RangeSteps
<1> QED BY <1>1, LinkMoves

\* The steps of startup, of a notification and of the end of a range
LEMMA LinkWhileMoving ==
    ASSUME IInv, LinkInv,
           \/ Startup \/ CatchupNormalModeFails
           \/ OnBlockHash \/ ChainBacktrace \/ RewindSelect \/ RewindUnconfirm \/ OnBlockHashFails
           \/ Die \/ EndRange("chain")
    PROVE  LinkInv'
<1>1. /\ job \in [Workers -> Job] /\ "chain" \in Workers /\ job["chain"] \in Job
      /\ Idle \in Job /\ Idle.step = "idle" /\ Down.step = "down"
      /\ Idle.mode = "none" /\ Down.mode = "none"
      /\ rescans = 0 => RangeGood(job["chain"], dbBlocks)
  BY TasksTyped, IdleTask DEF IInv, Idle, Down, LinkInv, ParentInHand
<1>2. ASSUME NEW j, job' = [job EXCEPT !["chain"] = j], j.step \notin RangeSteps, j.mode # "ibd",
             UNCHANGED <<dbBlocks, dbParent, exposed, rescans>>
      PROVE  LinkInv'
  BY <1>1, <1>2, LinkOutside
\* A range begins.
<1>3. ASSUME NEW mode \in {"boot", "ibd"}, NEW from \in Nat, NEW to, NEW row \in HighestRows,
             NEW ref,
             job' = [job EXCEPT !["chain"] = RunRange("chain", mode, from, to, ref)],
             mode = "ibd" => ref = row /\ from = RowHeight(row) + 1,
             RowHeight(row) <= from,
             UNCHANGED <<dbBlocks, dbParent, exposed, rescans>>
      PROVE  LinkInv'
  <2> DEFINE j == RunRange("chain", mode, from, to, ref)
  <2>1. j.step = "pull" /\ j.at = from /\ j.ref = ref /\ j.mode = mode
    BY <1>1 DEF RunRange, Job
  <2>2. job'["chain"] = j
    BY <1>1, <1>3
  <2> HIDE DEF j
  <2>3. /\ row \in dbBlocks \cup {NoBlock} /\ row = NoBlock <=> dbBlocks = {}
        /\ \A c \in dbBlocks : Height[c] <= RowHeight(row) /\ Height[c] \in Nat
        /\ RowHeight(row) \in Nat /\ dbBlocks \subseteq Blocks
        /\ row # NoBlock => RowHeight(row) = Height[row]
    BY HighestRowsTyped, TreeAssumption, BoundsAssumption
       DEF IInv, TypeInv, TypeOK, Heights, RowHeight
  <2>4. \A x \in dbBlocks : Height[x] <= from
    BY <1>3, <2>3
  <2>5. mode = "ibd" => IF ref = NoBlock THEN dbBlocks = {} ELSE Height[ref] = from - 1
    BY <1>3, <2>3
  <2>6. RangeGood(j, dbBlocks)
    BY <2>1, <2>4, <2>5 DEF RangeGood
  <2> QED BY <1>3, <2>2, <2>6, LinkMoves
<1>4. CASE Restart
  <2> DEFINE j == [job["chain"] EXCEPT !.step = "boot"]
  <2>1. j.step = "boot" /\ j.mode = job["chain"].mode /\ job' = [job EXCEPT !["chain"] = j]
    BY <1>1, <1>4 DEF Restart, Job
  <2> HIDE DEF j
  <2>2. rescans = 0 => RangeGood(j, dbBlocks)
    BY <1>1, <1>4, <2>1 DEF Restart, RangeGood, RangeSteps
  <2>3. job'["chain"] = j
    BY <1>1, <2>1
  <2> QED BY <1>4, <2>2, <2>3, LinkMoves DEF Restart
<1>5. CASE Catchup
  <2>1. PICK s \in {"bootIBD", "bootNormal"} :
           job["chain"].step = "boot" /\ job' = [job EXCEPT !["chain"].step = s]
    BY <1>5 DEF Catchup
  <2> DEFINE j == [job["chain"] EXCEPT !.step = s]
  <2>2. j.step = s /\ j.mode = job["chain"].mode /\ job' = [job EXCEPT !["chain"] = j]
    BY <1>1, <2>1 DEF Job
  <2> HIDE DEF j
  <2>3. rescans = 0 => RangeGood(j, dbBlocks)
    BY <1>1, <2>1, <2>2 DEF RangeGood, RangeSteps
  <2>4. job'["chain"] = j
    BY <1>1, <2>2
  <2> QED BY <1>5, <2>3, <2>4, LinkMoves DEF Catchup
<1>6. ASSUME job' = [job EXCEPT !["chain"] = Idle], UNCHANGED <<dbBlocks, dbParent, exposed, rescans>>
      PROVE  LinkInv'
  BY <1>1, <1>2, <1>6 DEF RangeSteps
<1>7. CASE CatchupNormalMode
  <2>1. PICK row \in HighestRows :
           job' = [job EXCEPT !["chain"] =
                     IF Height[tip] <= RowHeight(row) THEN Idle
                     ELSE RunRange("chain", "boot", RowHeight(row), Height[tip], NoBlock)]
    BY <1>7 DEF CatchupNormalMode
  <2>2. RowHeight(row) \in Nat
    BY HighestRowsTyped, BoundsAssumption DEF IInv, Heights
  <2>3. UNCHANGED <<dbBlocks, dbParent, exposed, rescans>>
    BY <1>7 DEF CatchupNormalMode
  <2>4. CASE Height[tip] <= RowHeight(row)
    BY <1>6, <2>1, <2>3, <2>4
  <2>5. CASE ~(Height[tip] <= RowHeight(row))
    <3>1. job' = [job EXCEPT !["chain"] =
                    RunRange("chain", "boot", RowHeight(row), Height[tip], NoBlock)]
      BY <2>1, <2>5
    <3>2. RowHeight(row) <= RowHeight(row)
      BY <2>2
    <3> QED BY <1>3, <2>2, <2>3, <3>1, <3>2
  <2> QED BY <2>4, <2>5
<1>8. CASE CatchupIBDMode
  <2>1. PICK row \in HighestRows :
           \/ job' = [job EXCEPT !["chain"] =
                        RunRange("chain", "ibd", RowHeight(row) + 1, Height[tip], row)]
           \/ job' = [job EXCEPT !["chain"] = Idle]
    BY <1>8 DEF CatchupIBDMode
  <2>2. RowHeight(row) + 1 \in Nat /\ RowHeight(row) <= RowHeight(row) + 1
    BY HighestRowsTyped, BoundsAssumption DEF IInv, Heights
  <2>3. UNCHANGED <<dbBlocks, dbParent, exposed, rescans>>
    BY <1>8 DEF CatchupIBDMode
  <2> QED BY <1>3, <1>6, <2>1, <2>2, <2>3
<1>9. CASE CatchupNormalModeFails \/ OnBlockHashFails
  BY <1>6, <1>9 DEF CatchupNormalModeFails, OnBlockHashFails
<1>10. CASE OnBlockHash
  <2> DEFINE j == [Idle EXCEPT !.mode = "live", !.step = "trace", !.top = Head(inbox),
                               !.lo = Height[Head(inbox)], !.hi = Height[Head(inbox)]]
  <2>1. job' = [job EXCEPT !["chain"] = j] /\ j.step = "trace" /\ j.mode = "live"
    BY <1>10 DEF OnBlockHash, Idle
  <2> HIDE DEF j
  <2> QED BY <1>2, <1>10, <2>1 DEF OnBlockHash, RangeSteps
\* Before the deletion the table is left alone.
<1>11. ASSUME job["chain"].step \in {"trace", "select", "unconfirm"},
              job'["chain"].mode = job["chain"].mode,
              job'["chain"].step \in {"trace", "select", "unconfirm", "delete"},
              UNCHANGED <<dbBlocks, dbParent, exposed, rescans>>
       PROVE  LinkInv'
  <2>1. rescans = 0 => RangeGood(job'["chain"], dbBlocks)
    BY <1>1, <1>11 DEF RangeGood, RangeSteps
  <2> QED BY <1>11, <2>1, LinkMoves
<1>12. CASE ChainBacktrace
  <2> DEFINE k == job["chain"]
             known == k.lo = 0 \/ Anc[k.top][k.lo - 1] \in dbBlocks
             j == IF known THEN [k EXCEPT !.step = "select", !.at = k.lo]
                  ELSE [k EXCEPT !.lo = k.lo - 1]
  <2>1. job'["chain"] = j /\ k.step = "trace"
    BY <1>1, <1>12 DEF ChainBacktrace
  <2>2. UNCHANGED <<dbBlocks, dbParent, exposed, rescans>>
    BY <1>12 DEF ChainBacktrace
  <2>3. j.mode = k.mode /\ j.step \in {k.step, "select"}
    BY <1>1 DEF Job
  <2> HIDE DEF j
  <2> QED BY <1>11, <2>1, <2>2, <2>3
<1>13. CASE RewindSelect
  <2> DEFINE k == job["chain"]
             ids == {t \in Txs : txBlock[t] \in Blocks /\ Height[txBlock[t]] >= k.lo}
             j == [k EXCEPT !.todo = ids, !.step = IF ids = {} THEN "delete" ELSE "unconfirm"]
  <2>1. job'["chain"] = j /\ k.step = "select"
    BY <1>1, <1>13 DEF RewindSelect
  <2>2. UNCHANGED <<dbBlocks, dbParent, exposed, rescans>>
    BY <1>13 DEF RewindSelect
  <2> HIDE DEF ids
  <2>3. j.mode = k.mode /\ j.step \in {"delete", "unconfirm"}
    BY <1>1 DEF Job
  <2> HIDE DEF j
  <2> QED BY <1>11, <2>1, <2>2, <2>3
<1>14. CASE RewindUnconfirm
  <2> DEFINE j == [job["chain"] EXCEPT !.todo = {}, !.step = "delete"]
  <2>1. j.mode = job["chain"].mode /\ j.step = "delete" /\ job'["chain"] = j
    BY <1>1, <1>14 DEF RewindUnconfirm, Job
  <2>2. job["chain"].step = "unconfirm" /\ UNCHANGED <<dbBlocks, dbParent, exposed, rescans>>
    BY <1>14 DEF RewindUnconfirm
  <2> HIDE DEF j
  <2> QED BY <1>11, <2>1, <2>2
<1>15. CASE Die
  <2>1. job'["chain"] = Down /\ UNCHANGED <<dbBlocks, dbParent, rescans>> /\ (~exposed' => ~exposed)
    BY <1>1, <1>15 DEF Die
  <2> QED BY <1>1, <2>1, LinkOutside DEF RangeSteps
<1>16. CASE EndRange("chain")
  <2> DEFINE j == [Idle EXCEPT !.step = "bootIBD"]
  <2>1. j.step = "bootIBD" /\ j.mode = "none"
    BY DEF Idle
  <2>2. job' = [job EXCEPT !["chain"] = j] \/ job' = [job EXCEPT !["chain"] = Idle]
    BY <1>16 DEF EndRange
  <2> HIDE DEF j
  <2> QED BY <1>2, <1>6, <1>16, <2>1, <2>2 DEF EndRange, RangeSteps
<1> QED
  BY <1>4, <1>5, <1>7, <1>8, <1>9, <1>10, <1>12, <1>13, <1>14, <1>15, <1>16 DEF Startup

\* The steps of a range that leave the table alone
LEMMA LinkInRange ==
    ASSUME IInv, LinkInv,
           \/ \E h \in Heights : FetchBlock("chain", h)
           \/ ProcessBlock("chain") \/ (\E t \in Txs : StoreTx("chain", t))
           \/ ReadParent("chain") \/ ConfirmTransactions("chain")
    PROVE  LinkInv'
<1> DEFINE k == job["chain"]
<1>1. /\ job \in [Workers -> Job] /\ "chain" \in Workers /\ k \in Job
      /\ rescans = 0 => RangeGood(k, dbBlocks)
      /\ k.step \in {"store", "add", "confirm"} => k.at \in Heights /\ k.got[k.at] # NoBlock
      /\ k.at \in Nat /\ \A x \in dbBlocks : Height[x] \in Nat
  <2>1. TypeInv /\ dbBlocks \subseteq Blocks
    BY DEF IInv, TypeInv, TypeOK
  <2>2. /\ job \in [Workers -> Job] /\ "chain" \in Workers /\ k \in Job
        /\ TaskOK("chain", k, dbBlocks)
    BY <2>1, TasksTyped
  <2>3. k.step \in {"store", "add", "confirm"} => k.at \in Heights /\ k.got[k.at] # NoBlock
    BY <2>2 DEF TaskOK
  <2>4. k.at \in Nat
    BY <2>2 DEF Job
  <2>5. \A x \in dbBlocks : Height[x] \in Nat
    BY <2>1, TreeAssumption, BoundsAssumption DEF Heights
  <2>6. rescans = 0 => RangeGood(k, dbBlocks)
    BY DEF LinkInv, ParentInHand
  <2> QED BY <2>2, <2>3, <2>4, <2>5, <2>6
<1>2. UNCHANGED <<dbBlocks, dbParent, exposed, rescans>>
  BY DEF FetchBlock, ProcessBlock, StoreTx, ReadParent, ConfirmTransactions
<1>3. ASSUME NEW j, job' = [job EXCEPT !["chain"] = j], rescans = 0 => RangeGood(j, dbBlocks)
      PROVE  LinkInv'
  <2>1. job'["chain"] = j
    BY <1>1, <1>3
  <2> QED BY <1>2, <1>3, <2>1, LinkMoves
<1>4. ASSUME NEW h \in Heights, FetchBlock("chain", h) PROVE LinkInv'
  <2> DEFINE j == [k EXCEPT !.got[h] = Anc[tip][h]]
  <2>1. /\ j.step = k.step /\ j.mode = k.mode /\ j.ref = k.ref /\ j.at = k.at
        /\ \A i \in Heights : i # h => j.got[i] = k.got[i]
    BY <1>1 DEF Job
  <2>2. job' = [job EXCEPT !["chain"] = j] /\ k.got[h] = NoBlock
    BY <1>4 DEF FetchBlock, Waiting
  <2> HIDE DEF j, k
  <2>3. rescans = 0 => RangeGood(j, dbBlocks)
    BY <1>1, <2>1, <2>2 DEF RangeGood
  <2> QED BY <1>3, <2>2, <2>3
<1>5. CASE ProcessBlock("chain")
  <2> DEFINE j == IF k.mode = "ibd" THEN [k EXCEPT !.step = "add"]
                  ELSE [k EXCEPT !.step = "store", !.todo = BlockTxs[Cur("chain")]]
  <2>1. /\ j.step = (IF k.mode = "ibd" THEN "add" ELSE "store")
        /\ j.mode = k.mode /\ j.ref = k.ref /\ j.at = k.at
    BY <1>1 DEF Job
  <2>2. job' = [job EXCEPT !["chain"] = j] /\ k.step = "pull"
    BY <1>5 DEF ProcessBlock
  <2> HIDE DEF j, k
  <2>3. rescans = 0 => RangeGood(j, dbBlocks)
    BY <1>1, <2>1, <2>2 DEF RangeGood, RangeSteps
  <2> QED BY <1>3, <2>2, <2>3
<1>6. ASSUME NEW t \in Txs, StoreTx("chain", t) PROVE LinkInv'
  <2> DEFINE j == [k EXCEPT !.todo = k.todo \ {t}]
  <2>1. j.step = k.step /\ j.mode = k.mode /\ j.ref = k.ref /\ j.at = k.at /\ j.got = k.got
    BY <1>1 DEF Job
  <2>2. job' = [job EXCEPT !["chain"] = j]
    BY <1>6 DEF StoreTx
  <2> HIDE DEF j, k
  <2>3. rescans = 0 => RangeGood(j, dbBlocks)
    BY <1>1, <2>1 DEF RangeGood
  <2> QED BY <1>3, <2>2, <2>3
<1>7. CASE ReadParent("chain")
  <2> DEFINE j == [k EXCEPT !.step = "add", !.ref = ParentRow(Cur("chain"))]
  <2>1. /\ j.step = "add" /\ j.mode = k.mode /\ j.ref = ParentRow(Cur("chain"))
        /\ j.at = k.at /\ j.got = k.got
    BY <1>1 DEF Job
  <2>2. job' = [job EXCEPT !["chain"] = j] /\ k.step = "store" /\ Cur("chain") = k.got[k.at]
    BY <1>7 DEF ReadParent, Cur
  <2> HIDE DEF j, k
  <2>3. rescans = 0 => RangeGood(j, dbBlocks)
    BY <1>1, <2>1, <2>2 DEF RangeGood, RangeSteps, ParentRow
  <2> QED BY <1>3, <2>2, <2>3
<1>8. CASE ConfirmTransactions("chain")
  <2> DEFINE j == [k EXCEPT !.step = "pull", !.ref = NoBlock, !.at = k.at + 1, !.got[k.at] = NoBlock]
  <2>1. j.step = "pull" /\ j.mode = k.mode /\ j.at = k.at + 1
    BY <1>1 DEF Job
  <2>2. job' = [job EXCEPT !["chain"] = j] /\ k.step = "confirm"
    BY <1>8 DEF ConfirmTransactions
  <2> HIDE DEF j, k
  <2>3. rescans = 0 => RangeGood(j, dbBlocks)
    BY <1>1, <2>1, <2>2 DEF RangeGood, RangeSteps
  <2> QED BY <1>3, <2>2, <2>3
<1> QED BY <1>4, <1>5, <1>6, <1>7, <1>8

\* The rewind deletes the rows from the height at which the range starts.
LEMMA LinkRewound ==
    ASSUME IInv, LinkInv, RewindDelete
    PROVE  LinkInv'
<1> DEFINE k == job["chain"]
           dead == {b \in dbBlocks : Height[b] >= k.lo}
           j == [k EXCEPT !.step = "pull"]
<1>1. /\ k \in Job /\ k.step = "delete" /\ k.at = k.lo /\ k.lo \in Nat
      /\ job \in [Workers -> Job] /\ "chain" \in Workers /\ "rescan" \in Workers
      /\ dbBlocks \subseteq Blocks /\ \A b \in Blocks : Height[b] \in Nat
      /\ rescans = 0 => RangeGood(k, dbBlocks)
  BY TasksTyped, TreeAssumption, BoundsAssumption
     DEF IInv, RewindDelete, TaskOK, RewindSteps, Job, TypeInv, TypeOK, Heights, LinkInv, ParentInHand
<1>2. /\ dbBlocks' = dbBlocks \ dead /\ UNCHANGED <<rescans, exposed>>
      /\ dbParent' = [b \in Blocks |-> IF b \in dead \/ dbParent[b] \in dead
                                       THEN NoBlock ELSE dbParent[b]]
      /\ job'["chain"] = j
  BY <1>1 DEF RewindDelete, DeleteRows
<1>3. j.step = "pull" /\ j.mode = k.mode /\ j.at = k.at
  BY <1>1 DEF Job
<1> HIDE DEF j, k
<1>4. rescans = 0 => RangeGood(j, dbBlocks')
  <2>1. \A x \in dbBlocks' : Height[x] <= k.at
    BY <1>1, <1>2
  <2> QED BY <1>1, <1>3, <2>1 DEF RangeGood, RangeSteps
<1>5. ParentLinked'
  <2> SUFFICES ASSUME ~exposed, rescans = 0, NEW b \in dbBlocks', Height[b] > 0, Prev(b) \in dbBlocks'
               PROVE  dbParent'[b] = Prev(b)
    BY <1>2 DEF ParentLinked
  <2>1. b \in dbBlocks /\ Prev(b) \in dbBlocks /\ b \notin dead /\ Prev(b) \notin dead /\ b \in Blocks
    BY <1>1, <1>2
  <2>2. dbParent[b] = Prev(b)
    BY <2>1 DEF LinkInv, ParentLinked
  <2> HIDE DEF dead
  <2> QED BY <1>2, <2>1, <2>2
<1>6. ParentInHand'
  BY <1>2, <1>4 DEF ParentInHand, RangeGood
<1> QED BY <1>5, <1>6 DEF LinkInv

\* A block is registered on top of the rows, with the id of its parent's.
LEMMA LinkRegistered ==
    ASSUME IInv, LinkInv, AddBlock("chain")
    PROVE  LinkInv'
<1> DEFINE k == job["chain"]
           c == Cur("chain")
           j == IF k.mode = "ibd"
                THEN [k EXCEPT !.step = "pull", !.ref = c, !.at = k.at + 1, !.got[k.at] = NoBlock]
                ELSE [k EXCEPT !.step = "confirm", !.ref = c]
<1>1. /\ k \in Job /\ k.step = "add" /\ job \in [Workers -> Job] /\ "chain" \in Workers
      /\ k.at \in Nat /\ c \in Blocks /\ Height[c] = k.at /\ c = k.got[k.at] /\ c # NoBlock
      /\ dbBlocks \subseteq Blocks /\ \A b \in Blocks : Height[b] \in Nat
      /\ rescans = 0 => RangeGood(k, dbBlocks)
      /\ k.ref \in dbBlocks \cup {NoBlock}
  BY Hand, TasksTyped, TreeAssumption, BoundsAssumption, NamesAssumption
     DEF IInv, AddBlock, TaskOK, Cur, TypeInv, TypeOK, Heights, LinkInv, ParentInHand
<1>2. /\ dbBlocks' = dbBlocks \cup {c} /\ UNCHANGED <<rescans, exposed>>
      /\ job'["chain"] = j
      /\ dbParent' = IF c \in dbBlocks THEN dbParent ELSE [dbParent EXCEPT ![c] = k.ref]
      /\ dbParent \in [Blocks -> dbBlocks \cup {NoBlock}]
  BY <1>1 DEF AddBlock, IInv, TypeInv, TypeOK
<1>3. /\ j.mode = k.mode
      /\ k.mode = "ibd" => j.step = "pull" /\ j.ref = c /\ j.at = k.at + 1
      /\ k.mode # "ibd" => j.step = "confirm" /\ j.at = k.at
  BY <1>1 DEF Job
<1> HIDE DEF j, k, c
<1>4. rescans = 0 => \A x \in dbBlocks : Height[x] <= k.at
  BY <1>1 DEF RangeGood, RangeSteps
<1>5. rescans = 0 => RangeGood(j, dbBlocks')
  <2> SUFFICES ASSUME rescans = 0 PROVE RangeGood(j, dbBlocks')
    OBVIOUS
  <2>1. k.at <= j.at /\ j.step \in {"pull", "confirm"}
    BY <1>1, <1>3
  <2>2. \A x \in dbBlocks' : Height[x] <= j.at
    BY <1>1, <1>2, <1>3, <1>4
  <2>3. k.mode = "ibd" => j.ref # NoBlock /\ Height[j.ref] = j.at - 1
    BY <1>1, <1>3
  <2> QED BY <1>3, <2>1, <2>2, <2>3 DEF RangeGood
<1>6. ParentLinked'
  <2> SUFFICES ASSUME ~exposed, rescans = 0, NEW b \in dbBlocks', Height[b] > 0, Prev(b) \in dbBlocks'
               PROVE  dbParent'[b] = Prev(b)
    BY <1>2 DEF ParentLinked
  <2>1. b \in Blocks /\ Prev(b) \in Blocks /\ Height[Prev(b)] = Height[b] - 1
    <3>1. b \in Blocks /\ Height[b] - 1 \in Nat /\ Height[b] - 1 <= Height[b]
      BY <1>1, <1>2
    <3> QED BY <3>1, AncestorOnChain DEF Prev
\* No row was above the new one.
  <2>2. Prev(b) \in dbBlocks \/ c \in dbBlocks
    <3>1. ASSUME Prev(b) = c, b \in dbBlocks PROVE FALSE
      BY <1>1, <1>4, <2>1, <3>1
    <3>2. ASSUME Prev(b) = c, b = c PROVE FALSE
      BY <1>1, <2>1, <3>2
    <3> QED BY <1>2, <3>1, <3>2
  <2>3. CASE b \in dbBlocks
    <3>1. Prev(b) \in dbBlocks
      BY <1>2, <2>2
    <3>2. dbParent[b] = Prev(b)
      BY <2>3, <3>1 DEF LinkInv, ParentLinked
    <3> QED BY <1>2, <2>3, <3>2
  <2>4. CASE b \notin dbBlocks
    <3>1. b = c /\ c \notin dbBlocks /\ Prev(c) \in dbBlocks /\ Height[c] > 0
      BY <1>2, <2>2, <2>4
    <3>2. CASE k.mode # "ibd"
      <4>1. k.ref = Prev(c)
        BY <1>1, <3>1, <3>2 DEF RangeGood
      <4> QED BY <1>1, <1>2, <3>1, <4>1
\* In IBD mode the row read at the start, or just added, is the parent: one branch.
    <3>3. CASE k.mode = "ibd"
      <4>1. k.ref \in dbBlocks /\ Height[k.ref] = k.at - 1
        BY <1>1, <3>1, <3>3 DEF RangeGood
      <4>2. OnChain(k.ref, Prev(c))
        BY <1>1, <2>1, <3>1, <4>1 DEF IInv, ChainInv, OneBranch
      <4>3. k.ref = Prev(c)
        BY <1>1, <2>1, <3>1, <4>1, <4>2, TreeAssumption DEF OnChain
      <4> QED BY <1>1, <1>2, <3>1, <4>3
    <3> QED BY <3>2, <3>3
  <2> QED BY <2>3, <2>4
<1>7. ParentInHand'
  BY <1>2, <1>5 DEF ParentInHand, RangeGood
<1> QED BY <1>6, <1>7 DEF LinkInv

LEMMA LinkStep ==
    ASSUME IInv, LinkInv, [Next]_vars
    PROVE  LinkInv'
<1>1. /\ job \in [Workers -> Job] /\ "chain" \in Workers /\ rescans \in Nat
      /\ \A w \in Workers : w = "chain" \/ w = "rescan"
      /\ rescans = 0 => RangeGood(job["chain"], dbBlocks) /\ job["rescan"].step = "idle"
  BY TasksTyped DEF IInv, TypeInv, TypeOK, LinkInv, ParentInHand, NextToRow
\* The chain task is where it was.
<1>2. ASSUME job'["chain"] = job["chain"], UNCHANGED <<dbBlocks, dbParent>>, ~exposed' => ~exposed,
             rescans' = 0 => rescans = 0
      PROVE  LinkInv'
  BY <1>1, <1>2, LinkMoves
<1>3. ASSUME NEW b \in Blocks, NEW told \in BOOLEAN, NewTip(b, told) PROVE LinkInv'
  <2>1. ~exposed' => ~exposed
    <3>1. Exposes(b) \in BOOLEAN
      BY Zenon DEF Exposes
    <3> QED BY <1>3, <3>1, Zenon DEF NewTip, IInv, TypeInv, TypeOK
  <2> QED BY <1>2, <1>3, <2>1 DEF NewTip
<1>4. ASSUME NEW from \in Heights, NEW to \in Heights, RescanBlocks(from, to) PROVE LinkInv'
  <2>1. rescans' # 0 /\ UNCHANGED <<dbBlocks, dbParent>>
    BY <1>1, <1>4 DEF RescanBlocks
  <2> QED BY <2>1 DEF LinkInv, ParentInHand, ParentLinked
\* While no rescan was asked for, its task has no step.
<1>5. ASSUME BlockTask("rescan") PROVE LinkInv'
  <2>1. rescans # 0 \/ Die
    BY <1>1, <1>5 DEF BlockTask, FetchBlock, InRange, ProcessBlock, StoreTx, ReadParent, AddBlock,
                      AddBlockFails, ConfirmTransactions, ConfirmTransactionsFails, EndRange
  <2>2. CASE Die
    BY <2>2, LinkWhileMoving
  <2>3. CASE rescans # 0
    <3>1. (rescans' = rescans /\ (~exposed' => ~exposed)) \/ Die
      BY <1>5 DEF BlockTask, FetchBlock, ProcessBlock, StoreTx, ReadParent, AddBlock,
                  AddBlockFails, ConfirmTransactions, ConfirmTransactionsFails, EndRange
    <3>2. rescans' = rescans => LinkInv'
      BY <2>3 DEF LinkInv, ParentInHand, ParentLinked
    <3> QED BY <2>2, <3>1, <3>2
  <2> QED BY <2>1, <2>2, <2>3
<1>6. ASSUME BlockTask("chain") PROVE LinkInv'
  BY <1>6, LinkInRange, LinkRegistered, LinkWhileMoving
     DEF BlockTask, AddBlockFails, ConfirmTransactionsFails
<1>7. CASE Check \/ (\E t \in Txs : StoreMempoolTx(t) \/ CheckUnconfirmed(t)) \/ UNCHANGED vars
  <2>1. UNCHANGED <<job, dbBlocks, dbParent, exposed, rescans>>
    BY <1>7 DEF Check, AskTransaction, FindBlock, ConfirmChecked, DeleteUnknown,
                StoreMempoolTx, CheckUnconfirmed, vars
  <2> QED BY <1>2, <2>1
<1>8. CASE Startup \/ CatchupNormalModeFails \/ Notification \/ OnBlockHashFails \/ Crash
  BY <1>8, LinkWhileMoving, LinkRewound DEF Notification, Crash
<1>9. ASSUME NEW w \in Workers, BlockTask(w) PROVE LinkInv'
  BY <1>1, <1>5, <1>6, <1>9
<1> QED BY <1>3, <1>4, <1>7, <1>8, <1>9 DEF Next

\* RowsAreComplete: a registered block has lost neither its transactions, because processBlock
\* stores them first and only an unknown transaction is deleted, nor the link to its parent.
THEOREM RowsComplete == Spec => []RowsAreComplete
<1>1. Init => StoredInv /\ LinkInv
  <2>1. Init => StoredInv
    BY NamesAssumption DEF Init, StoredInv, HandOK, RegisteredIsStored, Workers, Idle, Down, ChkOff
  <2>2. Init => LinkInv
    BY DEF Init, LinkInv, ParentInHand, ParentLinked, RangeGood, RangeSteps, Workers, Idle, Down
  <2> QED BY <2>1, <2>2
<1>2. IInv /\ StoredInv /\ LinkInv /\ [Next]_vars => StoredInv' /\ LinkInv'
  BY StoredStep, LinkStep
<1>3. StoredInv /\ LinkInv => RowsAreComplete
  BY DEF StoredInv, LinkInv, RegisteredIsStored, RowsAreComplete
<1> QED BY <1>1, <1>2, <1>3, Inductive, PTL DEF Spec

=============================================================================
