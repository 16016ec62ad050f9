------------------------------ MODULE L1Reader ------------------------------
(***************************************************************************)
(* The L1 reader (btcio/src/reader) and the two parts it stands between:   *)
(* the Bitcoin client it polls, and the ASM worker it submits blocks to.   *)
(*                                                                         *)
(* Blocks are positive integers, ordered as block ids are, and form a tree *)
(* rooted in block 1, which the node has already processed when a          *)
(* behaviour begins: the first start of a fresh node, at the L1 genesis    *)
(* block, is left out.  Heights count from that block, so a chain is the   *)
(* sequence of its blocks, the block of height h in position h.            *)
(*                                                                         *)
(* The client moves to a higher block of another branch, or falls back to  *)
(* an earlier block of its own, but never gives up a block that was        *)
(* SafeDepth deep under its highest tip: that is the assumption that       *)
(* l1_reorg_safe_depth stands for.                                         *)
(***************************************************************************)
EXTENDS Integers, Sequences, SequencesExt, FiniteSets, FiniteSetsExt

CONSTANTS
    Parent,         \* function from the blocks above the root to their parents
    SafeDepth,      \* l1_reorg_safe_depth
    MaxReorgs,      \* bound: moves of the client off its chain
    MaxFaults       \* bound: crashes of the node and failed client calls

Root == 1
Blocks == {Root} \union DOMAIN Parent
None == 0

ASSUME TreeAssumption ==
    /\ DOMAIN Parent \subseteq Nat \ {None, Root}
    /\ \A b \in DOMAIN Parent : Parent[b] \in Blocks /\ Parent[b] < b
    /\ SafeDepth \in Nat \ {0}
    /\ MaxReorgs \in Nat /\ MaxFaults \in Nat

\* The chain that ends in a block.
ChainTo[b \in Blocks] ==
    IF b = Root THEN <<Root>> ELSE Append(ChainTo[Parent[b]], b)
Chain == [b \in Blocks |-> ChainTo[b]]

Height(b) == Len(Chain[b])
Ancestors(b) == Range(Chain[b])

VARIABLES
    client,     \* best block of the Bitcoin client
    peak,       \* highest height the client has had
    reorgs,     \* moves of the client off its chain so far
    faults,     \* crashes and failed calls so far
    canon,      \* durable: the canonical chain of the node
    asm,        \* durable: blocks with an ASM state and logs
    asmq,       \* blocks submitted to the ASM worker
    status,     \* block of the latest ASM status the CSM worker has not seen
    reader      \* the reader task

clientVars == <<client, peak, reorgs>>
readerVars == <<clientVars, faults, canon, asm, asmq, status, reader>>

ReaderOff == [pc |-> "off", queue |-> <<>>, next |-> 0, to |-> 0,
              evs |-> <<>>, delivered |-> FALSE]

ReaderTypeOK ==
    /\ client \in Blocks /\ peak \in Nat
    /\ reorgs \in 0..MaxReorgs /\ faults \in 0..MaxFaults
    /\ Range(canon) \subseteq Blocks
    /\ asm \subseteq Blocks
    /\ Range(asmq) \subseteq Blocks
    /\ status \in Blocks \union {None}
    /\ reader.pc \in {"off", "poll", "scan", "events", "submit", "failed"}
    /\ Range(reader.queue) \subseteq Blocks

ReaderInit ==
    /\ client = Root /\ peak = 1 /\ reorgs = 0 /\ faults = 0
    /\ canon = <<Root>> /\ asm = {Root} /\ asmq = <<>> /\ status = None
    /\ reader = ReaderOff

-----------------------------------------------------------------------------
(***************************************************************************)
(* The Bitcoin client.                                                     *)
(***************************************************************************)

MineBlock ==
    \E b \in DOMAIN Parent :
        /\ Parent[b] = client
        /\ client' = b
        /\ peak' = Max({peak, Height(b)})
        /\ UNCHANGED <<reorgs, faults, canon, asm, asmq, status, reader>>

\* The blocks that a reorg may not touch any more.
Settled == SubSeq(Chain[client], 1, Max({1, peak - SafeDepth + 1}))

\* The client goes to a block off its chain.
ClientMoves(b) ==
    /\ reorgs < MaxReorgs
    /\ IsPrefix(Settled, Chain[b])
    /\ client' = b
    /\ peak' = Max({peak, Height(b)})
    /\ reorgs' = reorgs + 1
    /\ UNCHANGED <<faults, canon, asm, asmq, status, reader>>

\* Another branch has become higher.
ClientReorg ==
    \E b \in Blocks :
        /\ Height(b) > Height(client)
        /\ ~ IsPrefix(Chain[client], Chain[b])
        /\ ClientMoves(b)

\* The client has lost its last blocks, or the node was given another one.
ClientFallsBack ==
    \E b \in Ancestors(client) \ {client} : ClientMoves(b)

-----------------------------------------------------------------------------
(***************************************************************************)
(* The canonical chain, as storage/src/managers/l1.rs keeps it.            *)
(***************************************************************************)

IsCanonical(b) == Height(b) <= Len(canon) /\ canon[Height(b)] = b

\* reconcile_unmaterialized_canonical_tip: the entries above the highest
\* block that the ASM worker has stored are dropped.
Materialized ==
    SubSeq(canon, 1, Max({h \in DOMAIN canon : canon[h] \in asm}))

-----------------------------------------------------------------------------
(***************************************************************************)
(* The reader task.                                                        *)
(***************************************************************************)

\* Twice the reorg-safe depth of blocks is kept to find a pivot in.
Lookback == 2 * SafeDepth

ReaderStart ==
    LET seed == SubSeq(Materialized, Max({1, Len(Materialized) - Lookback}),
                       Len(Materialized))
    IN  /\ reader.pc = "off"
        /\ canon' = Materialized
        /\ reader' = [ReaderOff EXCEPT !.pc = "poll", !.queue = seed,
                                       !.next = Len(Materialized) + 1]
        /\ UNCHANGED <<clientVars, faults, asm, asmq, status>>

Best == Last(reader.queue)
BestHeight == reader.next - 1
Tracked(h) == reader.queue[Len(reader.queue) - (BestHeight - h)]

\* find_pivot_block: the heights where the reader and the client agree.
Agreed ==
    {h \in (reader.next - Len(reader.queue))..BestHeight :
        h <= Height(client) /\ Chain[client][h] = Tracked(h)}

PivotHeight == Max(Agreed)

\* The client is at the reader's best block and nothing was submitted since
\* the start: the tip is submitted once more.
ResubmitTip ==
    /\ reader.pc = "poll"
    /\ client = Best
    /\ ~ reader.delivered
    /\ asmq' = Append(asmq, Best)
    /\ reader' = [reader EXCEPT !.delivered = TRUE]
    /\ UNCHANGED <<clientVars, faults, canon, asm, status>>

\* The client left the reader's chain.  A client whose tip the reader has
\* already passed is waited for.
DetectReorg ==
    /\ reader.pc = "poll"
    /\ client # Best
    /\ Agreed # {}
    /\ PivotHeight < BestHeight
    /\ ~ (Height(client) < BestHeight /\ PivotHeight = Height(client))
    /\ reader' = [reader EXCEPT
                    !.queue = SubSeq(@, 1, Len(@) - (BestHeight - PivotHeight)),
                    !.next = PivotHeight + 1,
                    !.evs = <<[op |-> "revert", at |-> PivotHeight]>>,
                    !.pc = "events"]
    /\ UNCHANGED <<clientVars, faults, canon, asm, asmq, status>>

StartScan ==
    /\ reader.pc = "poll"
    /\ client # Best
    /\ BestHeight \in Agreed
    /\ reader' = [reader EXCEPT !.pc = "scan", !.to = Height(client)]
    /\ UNCHANGED <<clientVars, faults, canon, asm, asmq, status>>

\* accept_new_block
Accepted(queue, b) ==
    Append(IF Len(queue) > Lookback THEN Tail(queue) ELSE queue, b)

\* The block is the one the client has at that height when it is asked.
FetchBlock ==
    LET b == Chain[client][reader.next]
    IN  /\ reader.pc = "scan"
        /\ reader.next <= Height(client)
        /\ reader' = [reader EXCEPT
                        !.queue = Accepted(@, b),
                        !.next = @ + 1,
                        !.evs = Append(@, [op |-> "block", at |-> reader.next, blk |-> b]),
                        !.pc = IF reader.next = reader.to THEN "events" ELSE "scan"]
        /\ UNCHANGED <<clientVars, faults, canon, asm, asmq, status>>

\* The scan ends early: the call fails, or the client has become shorter.
FetchFails ==
    /\ reader.pc = "scan"
    /\ \/ reader.next > Height(client) /\ UNCHANGED faults
       \/ faults < MaxFaults /\ faults' = faults + 1
    /\ reader' = [reader EXCEPT !.pc = IF reader.evs = <<>> THEN "poll" ELSE "events"]
    /\ UNCHANGED <<clientVars, canon, asm, asmq, status>>

\* The reader after its first event is done with.
EventDone(r) ==
    [r EXCEPT !.evs = Tail(@),
              !.pc = IF Len(r.evs) = 1 THEN "poll" ELSE "events"]

\* revert_canonical_chain fails above the tip.
HandleRevert ==
    LET ev == Head(reader.evs)
    IN  /\ reader.pc = "events"
        /\ ev.op = "revert"
        /\ IF ev.at <= Len(canon)
           THEN /\ canon' = SubSeq(canon, 1, ev.at)
                /\ reader' = EventDone(reader)
           ELSE /\ reader' = [reader EXCEPT !.pc = "failed"]
                /\ UNCHANGED canon
        /\ UNCHANGED <<clientVars, faults, asm, asmq, status>>

\* extend_canonical_chain takes the block of the next height only.
HandleBlock ==
    LET ev == Head(reader.evs)
    IN  /\ reader.pc = "events"
        /\ ev.op = "block"
        /\ IF ev.at = Len(canon) + 1
           THEN /\ canon' = Append(canon, ev.blk)
                /\ reader' = [reader EXCEPT !.pc = "submit"]
           ELSE /\ reader' = [reader EXCEPT !.pc = "failed"]
                /\ UNCHANGED canon
        /\ UNCHANGED <<clientVars, faults, asm, asmq, status>>

SubmitBlock ==
    /\ reader.pc = "submit"
    /\ asmq' = Append(asmq, Head(reader.evs).blk)
    /\ reader' = EventDone([reader EXCEPT !.delivered = TRUE])
    /\ UNCHANGED <<clientVars, faults, canon, asm, status>>

-----------------------------------------------------------------------------
(***************************************************************************)
(* The ASM worker: it stores a state for each block between the submitted  *)
(* one and its nearest ancestor that has one, oldest first, and reports    *)
(* the submitted block when all are stored.                                *)
(***************************************************************************)

AsmMissing(b) == {a \in Ancestors(b) : a \notin asm}

AsmStore ==
    /\ asmq # <<>>
    /\ AsmMissing(Head(asmq)) # {}
    /\ asm' = asm \union {Min(AsmMissing(Head(asmq)))}
    /\ UNCHANGED <<clientVars, faults, canon, asmq, status, reader>>

\* A listener that is behind sees the latest status only.
AsmReport ==
    /\ asmq # <<>>
    /\ AsmMissing(Head(asmq)) = {}
    /\ status' = Head(asmq)
    /\ asmq' = Tail(asmq)
    /\ UNCHANGED <<clientVars, faults, canon, asm, reader>>

=============================================================================
