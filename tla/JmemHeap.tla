------------------------------ MODULE JmemHeap ------------------------------
(***************************************************************************)
(* The heap allocator (jmem-heap.c, without the system allocator) and the  *)
(* program that allocates, frees and resizes its blocks.                   *)
(*                                                                         *)
(* The area is a row of units of JMEM_ALIGNMENT bytes, 1 to Area.  A free  *)
(* region starts with a header, its size and the offset of the next one,   *)
(* and the regions are on a list in the order of their addresses, which    *)
(* starts at the header `first', here at 0.  The list is searched one      *)
(* region at a time, from its start or from the region that the last       *)
(* operation left in jmem_heap_list_skip_p.                                *)
(*                                                                         *)
(* When an allocation finds no region the garbage collector runs in the    *)
(* middle of it and frees any of the blocks of the program.  A chunk of a  *)
(* pool (jmem-poolman.c) is a block like any other here: it belongs to the *)
(* program until the collector frees the empty chunks.                     *)
(***************************************************************************)
EXTENDS Integers, FiniteSets

CONSTANTS Area,         \* JMEM_HEAP_AREA_SIZE in units
          GCLimit,      \* CONFIG_GC_LIMIT in units
          Blocks,       \* the names the program has for its blocks
          NoBlock,      \* no block: the unit is free
          Fresh         \* the unit is allocated and nothing is written to it yet

ASSUME HeapAssumption ==
    /\ Area \in Nat \ {0}
    /\ GCLimit \in Nat \ {0}
    /\ NoBlock \notin Blocks
    /\ Fresh \notin Blocks \cup {NoBlock}

Units == 1 .. Area
Nodes == 0 .. Area
END == Area + 2         \* JMEM_HEAP_END_OF_LIST, which is not the end of any region

NONE == 0               \* jmem_pressure_t
LOW == 1
HIGH == 2
FULL == 3

VARIABLES size,         \* the size in the header at a node, 0 where there is no header
          next,         \* the next_offset in the header at a node
          skip,         \* jmem_heap_list_skip_p
          allocated,    \* jmem_heap_allocated_size
          limit,        \* jmem_heap_limit
          data,         \* the block whose data a unit holds
          live,         \* the address, or 0, and the size of the blocks of the program
          pc,           \* where the allocator is
          goal,         \* what the call of the program is to do next
          call,         \* its arguments, and the new region of a block that is moved
          pressure,     \* the memory pressure of the allocation
          freed,        \* the block that is being freed
          at,           \* prev_p of a search
          target        \* block_p of jmem_heap_find_prev

list == <<size, next, skip>>
count == <<allocated, limit>>
client == <<data, live>>
search == <<at, target>>
vars == <<list, count, client, pc, goal, call, pressure, freed, search>>

NoCall == [block |-> NoBlock, size |-> 0, max |-> NONE, result |-> 0]

\* jmem_heap_init
Init == /\ size = [p \in Nodes |-> IF p = 1 THEN Area ELSE 0]
        /\ next = [p \in Nodes |-> IF p = 0 THEN 1 ELSE END]
        /\ skip = 0
        /\ allocated = 0
        /\ limit = GCLimit
        /\ data = [u \in Units |-> NoBlock]
        /\ live = [b \in Blocks |-> [at |-> 0, size |-> 0]]
        /\ pc = "idle"
        /\ goal = "none"
        /\ call = NoCall
        /\ pressure = NONE
        /\ freed = NoBlock
        /\ at = 0
        /\ target = 0

Heads == {p \in Units : size[p] > 0}
Region(p, n) == p .. p + n - 1
UnitsOf(b) == Region(live[b].at, live[b].size)
Free(u) == \E h \in Heads : u \in Region(h, size[h])

-----------------------------------------------------------------------------
(* The limit: the loops that raise it above what is allocated, and lower   *)
(* it to at most GCLimit above.                                            *)

Raised(a, l) == IF a >= l THEN a + GCLimit - ((a - l) % GCLimit) ELSE l
Lowered(a, l) == IF a + GCLimit <= l THEN a + ((l - a) % GCLimit) ELSE l

Count(n) == /\ allocated' = allocated + n
            /\ limit' = Raised(allocated + n, limit)

\* Mutant of Uncount: the limit stays where it was raised to.
UncountOnly(n) == /\ allocated' = allocated - n
                  /\ UNCHANGED limit

Uncount(n) == /\ allocated' = allocated - n
              /\ limit' = Lowered(allocated - n, limit)

-----------------------------------------------------------------------------
(* The list.  A header that is merged or allocated is no longer a header:  *)
(* the model forgets it.                                                   *)

\* The first n units of the region cur, which follows prev, leave the list.
Carve(prev, cur, n) ==
    LET rest == size[cur] - n
        onward == IF rest > 0 THEN cur + n ELSE next[cur]
    IN  /\ size' = [p \in Nodes |-> IF p = cur THEN 0
                                    ELSE IF p = cur + n /\ rest > 0 THEN rest
                                    ELSE size[p]]
        /\ next' = [p \in Nodes |-> IF p = prev THEN onward
                                    ELSE IF p = cur THEN END
                                    ELSE IF p = cur + n /\ rest > 0 THEN next[cur]
                                    ELSE next[p]]

\* Mutant of Insert: a region is merged with the one before it only.
InsertBehind(block, prev, n) ==
    LET joined == prev + size[prev] = block
        base == IF joined THEN prev ELSE block
    IN  /\ size' = [size EXCEPT ![base] = IF joined THEN @ + n ELSE n]
        /\ next' = [next EXCEPT ![prev] = block, ![base] = next[prev]]

\* jmem_heap_insert_block, but for the skip pointer
Insert(block, prev, n) ==
    LET after == next[prev]
        joined == prev + size[prev] = block
        base == IF joined THEN prev ELSE block
        grown == IF joined THEN size[prev] + n ELSE n
        merged == base + grown = after
    IN  /\ size' = [p \in Nodes |-> IF p = base THEN IF merged THEN grown + size[after] ELSE grown
                                    ELSE IF merged /\ p = after THEN 0
                                    ELSE size[p]]
        /\ next' = [p \in Nodes |-> IF p = base THEN IF merged THEN next[after] ELSE after
                                    ELSE IF p = prev THEN block
                                    ELSE IF merged /\ p = after THEN END
                                    ELSE next[p]]

\* Mutant of InsertBlock: the position that is left is the block, also when it was merged.
InsertAndStay(block, prev, n) == Insert(block, prev, n) /\ skip' = block

InsertBlock(block, prev, n) == Insert(block, prev, n) /\ skip' = prev

\* What the memory holds when units are released, and when n units at p go to a block.
Released(d, us) == [u \in Units |-> IF u \in us THEN NoBlock ELSE d[u]]
Written(d, p, n, b) == [u \in Units |-> IF u \in Region(p, n) THEN b ELSE d[u]]

\* memcpy or memmove of a block b of n units; the program writes to the units that are new.
Copied(d, b, from, n, to, m) ==
    [u \in Units |-> IF u \in Region(to, n) THEN d[from + (u - to)]
                     ELSE IF u \in Region(to + n, m - n) THEN b
                     ELSE d[u]]

\* jmem_heap_find_prev, where it starts
FindPrev(block) == /\ pc' = "find"
                   /\ target' = block
                   /\ at' = IF block > skip THEN skip ELSE 0

Scan == /\ pc' = "scan"
        /\ at' = 0
        /\ UNCHANGED target

Return == /\ pc' = "idle"
          /\ goal' = "none"
          /\ call' = NoCall
          /\ pressure' = NONE
          /\ UNCHANGED <<freed, search>>

-----------------------------------------------------------------------------
(* Allocation                                                              *)

\* The start of jmem_heap_gc_and_alloc_block; the request is slack bytes short of n units.
GcAndAlloc(n, slack, counted) ==
    IF counted + n - slack >= limit
    THEN /\ pc' = "reclaim"
         /\ pressure' = LOW
         /\ UNCHANGED search
    ELSE /\ pressure' = NONE
         /\ Scan

AllocBlock(b, n, max, slack) ==
    /\ pc = "idle"
    /\ live[b].at = 0
    /\ goal' = "alloc"
    /\ call' = [block |-> b, size |-> n, max |-> max, result |-> 0]
    /\ GcAndAlloc(n, slack, allocated)
    /\ UNCHANGED <<list, count, client, freed>>

\* The region at cur is found: it is the block of the program, or the place a block moves to.
Found(cur) ==
    \/ /\ goal = "alloc"
       /\ data' = Written(data, cur, call.size, call.block)
       /\ live' = [live EXCEPT ![call.block] = [at |-> cur, size |-> call.size]]
       /\ Return
    \/ /\ goal = "copy"
       /\ data' = Written(data, cur, call.size, Fresh)
       /\ goal' = "move"
       /\ call' = [call EXCEPT !.result = cur]
       /\ pc' = "find"
       /\ target' = live[call.block].at
       /\ at' = IF target' > skip' THEN skip' ELSE 0
       /\ UNCHANGED <<live, pressure, freed>>

\* jmem_heap_alloc, the fast path: one unit of the first region.
AllocFirst ==
    /\ pc = "scan"
    /\ call.size = 1
    /\ next[0] # END
    /\ Carve(0, next[0], 1)
    /\ skip' = IF skip = next[0] THEN next'[0] ELSE skip
    /\ allocated' = allocated + 1
    /\ limit' = IF allocated' >= limit THEN limit + GCLimit ELSE limit
    /\ Found(next[0])

\* jmem_heap_alloc, the slow path: the first region that is large enough.
SkipRegion ==
    /\ pc = "scan"
    /\ next[at] # END
    /\ size[next[at]] < call.size
    /\ at' = next[at]
    /\ UNCHANGED <<list, count, client, pc, goal, call, pressure, freed, target>>

AllocRegion ==
    /\ pc = "scan"
    /\ call.size > 1
    /\ next[at] # END
    /\ size[next[at]] >= call.size
    /\ Carve(at, next[at], call.size)
    /\ skip' = at
    /\ Count(call.size)
    /\ Found(next[at])

\* No region: reclaim with more pressure, which ends the program when it is FULL, or give NULL.
NotFound ==
    /\ pc = "scan"
    /\ next[at] = END

Retry ==
    /\ NotFound
    /\ pressure < call.max
    /\ pressure' = pressure + 1
    /\ pc' = IF pressure' = FULL THEN "fatal" ELSE "reclaim"
    /\ UNCHANGED <<list, count, client, goal, call, freed, search>>

\* Mutant of GiveNull: it does not try again.
GiveNullAtOnce ==
    /\ NotFound
    /\ Return
    /\ UNCHANGED <<list, count, client>>

GiveNull ==
    /\ NotFound
    /\ pressure = call.max
    /\ Return
    /\ UNCHANGED <<list, count, client>>

\* The end of ecma_free_unused_memory.
EndReclaim ==
    /\ pc = "reclaim"
    /\ IF goal = "extend" THEN FindPrev(live[call.block].at) ELSE Scan
    /\ UNCHANGED <<list, count, client, goal, call, pressure, freed>>

-----------------------------------------------------------------------------
(* Release                                                                 *)

\* jmem_heap_free_block_internal, from the program or from the collector.
FreeBlock(b) ==
    /\ pc \in {"idle", "reclaim"}
    /\ live[b].at # 0
    /\ b # call.block
    /\ freed' = b
    /\ FindPrev(live[b].at)
    /\ UNCHANGED <<list, count, client, goal, call, pressure>>

FindNext ==
    /\ pc = "find"
    /\ next[at] < target
    /\ at' = next[at]
    /\ UNCHANGED <<list, count, client, pc, goal, call, pressure, freed, target>>

PrevFound == pc = "find" /\ next[at] >= target

Release ==
    /\ PrevFound
    /\ freed # NoBlock
    /\ InsertBlock(target, at, live[freed].size)
    /\ Uncount(live[freed].size)
    /\ data' = Released(data, UnitsOf(freed))
    /\ live' = [live EXCEPT ![freed] = [at |-> 0, size |-> 0]]
    /\ freed' = NoBlock
    /\ pc' = IF goal = "none" THEN "idle" ELSE "reclaim"
    /\ UNCHANGED <<goal, call, pressure, search>>

-----------------------------------------------------------------------------
(* jmem_heap_realloc_block                                                 *)

ShrinkBlock(b, n) ==
    /\ pc = "idle"
    /\ live[b].at # 0
    /\ n < live[b].size
    /\ goal' = "shrink"
    /\ call' = [block |-> b, size |-> n, max |-> NONE, result |-> 0]
    /\ FindPrev(live[b].at)
    /\ UNCHANGED <<list, count, client, pressure, freed>>

Shrink ==
    /\ PrevFound
    /\ goal = "shrink"
    /\ LET b == call.block
           cut == live[b].size - call.size
       IN  /\ InsertBlock(target + call.size, at, cut)
           /\ Uncount(cut)
           /\ data' = Released(data, Region(target + call.size, cut))
           /\ live' = [live EXCEPT ![b].size = call.size]
    /\ Return

GrowBlock(b, n) ==
    /\ pc = "idle"
    /\ live[b].at # 0
    /\ n > live[b].size
    /\ goal' = "extend"
    /\ call' = [block |-> b, size |-> n, max |-> FULL, result |-> 0]
    /\ IF allocated + n - live[b].size >= limit
       THEN pc' = "reclaim" /\ UNCHANGED search
       ELSE FindPrev(live[b].at)
    /\ UNCHANGED <<list, count, client, pressure, freed>>

Required == call.size - live[call.block].size

Extending == PrevFound /\ goal = "extend" /\ freed = NoBlock

\* Is there a free region right after, or right before the block?
FreeAfter == target + live[call.block].size = next[at]
FreeBefore == ~FreeAfter /\ at + size[at] = target

CanExtendEnd == FreeAfter /\ Required <= size[next[at]]
CanExtendFront == FreeBefore /\ Required <= size[at]

\* The block takes units after it.
ExtendEnd ==
    /\ Extending
    /\ CanExtendEnd
    /\ Carve(at, next[at], Required)
    /\ skip' = at
    /\ Count(Required)
    /\ data' = Written(data, next[at], Required, call.block)
    /\ live' = [live EXCEPT ![call.block].size = call.size]
    /\ Return

\* The data of the block moves to the front.
MovedToFront ==
    LET b == call.block
        to == live[b].at - Required
    IN  /\ data' = Copied(data, b, live[b].at, live[b].size, to, call.size)
        /\ live' = [live EXCEPT ![b] = [at |-> to, size |-> call.size]]

\* The block takes a part of the region before it.
ExtendFront ==
    /\ Extending
    /\ CanExtendFront
    /\ Required < size[at]
    /\ size' = [size EXCEPT ![at] = @ - Required]
    /\ UNCHANGED next
    /\ skip' = at
    /\ Count(Required)
    /\ MovedToFront
    /\ Return

\* It takes all of it: the region must leave the list, so its predecessor is looked for.
ExtendFrontAll ==
    /\ Extending
    /\ CanExtendFront
    /\ Required = size[at]
    /\ goal' = "unlink"
    /\ FindPrev(at)
    /\ UNCHANGED <<list, count, client, call, pressure, freed>>

Unlink ==
    /\ PrevFound
    /\ goal = "unlink"
    /\ Carve(at, target, Required)
    /\ skip' = at
    /\ Count(Required)
    /\ MovedToFront
    /\ Return

\* The block must move: its units are not counted while a new region is allocated.
AllocateNew(slack) ==
    /\ Extending
    /\ ~CanExtendEnd
    /\ ~CanExtendFront
    /\ goal' = "copy"
    /\ allocated' = allocated - live[call.block].size
    /\ GcAndAlloc(call.size, slack, allocated')
    /\ UNCHANGED <<list, limit, client, call, freed>>

\* Mutant of Move: the old region becomes free before its data is copied.
ReleaseThenMove ==
    /\ PrevFound
    /\ goal = "move"
    /\ LET b == call.block
           old == live[b].size
       IN  /\ data' = Copied(Released(data, UnitsOf(b)), b, target, old, call.result, call.size)
           /\ InsertBlock(target, at, old)
           /\ live' = [live EXCEPT ![b] = [at |-> call.result, size |-> call.size]]
    /\ UNCHANGED count
    /\ Return

\* The data is copied before the old region becomes free.
Move ==
    /\ PrevFound
    /\ goal = "move"
    /\ LET b == call.block
           old == live[b].size
       IN  /\ data' = Released(Copied(data, b, target, old, call.result, call.size), UnitsOf(b))
           /\ InsertBlock(target, at, old)
           /\ live' = [live EXCEPT ![b] = [at |-> call.result, size |-> call.size]]
    /\ UNCHANGED count
    /\ Return

-----------------------------------------------------------------------------

\* jerry_fatal does not return.
Ended == pc = "fatal" /\ UNCHANGED vars

Next == \/ \E b \in Blocks, n \in Units, max \in {HIGH, FULL}, slack \in {0, 1} : AllocBlock(b, n, max, slack)
        \/ AllocFirst
        \/ SkipRegion
        \/ AllocRegion
        \/ Retry
        \/ GiveNull
        \/ EndReclaim
        \/ \E b \in Blocks : FreeBlock(b)
        \/ FindNext
        \/ Release
        \/ \E b \in Blocks, n \in Units : ShrinkBlock(b, n)
        \/ Shrink
        \/ \E b \in Blocks, n \in Units : GrowBlock(b, n)
        \/ ExtendEnd
        \/ ExtendFront
        \/ ExtendFrontAll
        \/ Unlink
        \/ \E slack \in {0, 1} : AllocateNew(slack)
        \/ Move
        \/ Ended

Spec == Init /\ [][Next]_vars

-----------------------------------------------------------------------------

Pressure == NONE .. FULL
Goals == {"none", "alloc", "shrink", "extend", "unlink", "copy", "move"}

TypeOK ==
    /\ size \in [Nodes -> Nodes]
    /\ next \in [Nodes -> Units \cup {END}]
    /\ skip \in Nodes \cup {END}
    /\ allocated \in Nat
    /\ limit \in Nat
    /\ data \in [Units -> Blocks \cup {NoBlock, Fresh}]
    /\ live \in [Blocks -> [at: Nodes, size: Nodes]]
    /\ pc \in {"idle", "reclaim", "scan", "find", "fatal"}
    /\ goal \in Goals
    /\ call \in [block: Blocks \cup {NoBlock}, size: Nodes, max: {NONE, HIGH, FULL}, result: Nodes]
    /\ pressure \in Pressure
    /\ freed \in Blocks \cup {NoBlock}
    /\ at \in Nodes
    /\ target \in Nodes

\* A unit belongs to the one block whose data it holds, or to a new region of a block that is
\* moved, or to one free region: no operation, and no collection in the middle of one, lets two
\* blocks share a unit, loses a unit or writes a header over the data of a block
\* (jmem-heap.c:410, 464 and the search again after an allocation, 649-653).
BlocksIntact ==
    /\ \A b \in Blocks, u \in Units : data[u] = b <=> live[b].at # 0 /\ u \in UnitsOf(b)
    /\ \A u \in Units : data[u] = NoBlock <=> Free(u)

\* The list has every free region once, in the order of addresses and merged with its
\* neighbours: what follows a node is a header beyond its end, with no other in between
\* (the search of jmem-heap.c:389 and the merges at 427 and 441 rely on it).
FreeListSorted ==
    \A p \in {0} \cup Heads : /\ next[p] \in Heads \cup {END}
                              /\ p + size[p] < next[p]
                              /\ \A h \in Heads : ~(p < h /\ h < next[p])

\* No search starts or stands at a header that was merged or allocated: neither the position
\* that the last operation left (jmem-heap.c:375) nor that of a running search is stale, not
\* even when a collection ran since, and a search for a predecessor does not pass the block.
NothingStale ==
    /\ skip \in {0, END} \cup Heads
    /\ pc \in {"scan", "find"} => at \in {0} \cup Heads
    /\ pc = "find" => at < target
    /\ goal = "unlink" => target \in Heads

\* The counter is the number of units the program has, without those of the block that is being
\* moved, and the limit is near it, as asserted at jmem-heap.c:468, 469 and 494.
Held == {u \in Units : data[u] # NoBlock}
Moving == IF goal \in {"copy", "move"} THEN UnitsOf(call.block) ELSE {}

Accounting ==
    /\ allocated = Cardinality(Held \ Moving)
    /\ allocated <= limit
    /\ goal # "copy" => limit <= allocated + GCLimit

\* An allocation fails, or ends the program, only when a complete search found no region of the
\* size, the collector having run with high pressure before (jmem-heap.c:300).
FailsOnlyWhenFull ==
    [][pc' = "fatal" \/ (goal = "alloc" /\ pc' = "idle" /\ live' = live) =>
            pc = "fatal" \/ (pressure = HIGH /\ \A h \in Heads : size[h] < call.size)]_vars

=============================================================================
