----------------------------- MODULE LinkBuffer -----------------------------
(***************************************************************************)
(* The zero-copy buffer: a chain of reference-counted nodes over memory    *)
(* from a cache, with a read end (head, read) and a write end (flush,      *)
(* write).  The operations are operators on a record h that holds          *)
(* everything one may touch:                                               *)
(*   h.node   the nodes; refer = 0 means the node is back in linkedPool    *)
(*   h.lb     the buffers: Main, a second one to append, readers of Slice  *)
(*   h.mem    the bytes in each block of memory, and                       *)
(*   h.freed  the blocks given back to mcache while somebody refers to them*)
(*   h.twice  whether a block was given back that was back already         *)
(*   h.held   the slices of memory that were handed out and may be used    *)
(*   h.ret    the bytes returned by the last operation                     *)
(* A node or block is reused only when nothing refers to it any more, so   *)
(* that a stale pointer stays visible; reuse of one that is referred to is *)
(* what MemoryIntact and RefCounts exclude.  Bytes are numbered in the     *)
(* order they are written, 0 is a byte nobody assigned.                    *)
(***************************************************************************)
EXTENDS Integers, Sequences, SequencesExt, FiniteSetsExt

CONSTANTS
    MaxNodes,       \* number of linkBufferNodes
    MaxBlocks,      \* number of blocks of memory
    LinkBufferCap,  \* smallest node, also block4k
    BinaryInplaceThreshold,
    PageSize,       \* a tail node larger than this is not kept
    CacheMin,       \* block1k: a longer copy made by Next comes from mcache
    MinReuse,       \* minReuseBytes
    Barrier,        \* number of slices GetBytes can fill
    InSizes,        \* arguments of the operations in mode "in",
    OutSizes,       \* in mode "out",
    OtherSizes,     \* and in the other modes, but
    DirectReads,    \* for the reads in mode "direct"
    AckSizes,       \* arguments of MallocAck
    Delims,         \* and of Until
    Sharing,        \* the modes that run with featureAlwaysNoCopyRead
    Slicing,        \* the modes in which Slice is used
    MaxBytes,       \* bound on the bytes written,
    MaxDirect       \* in mode "direct"

Nil == 0
Nodes == 1..MaxNodes
Blocks == 1..MaxBlocks
Max2(i, j) == IF i > j THEN i ELSE j
Min2(i, j) == IF i < j THEN i ELSE j
Main == 1
Other == 2
Reader1 == 3
Reader2 == 4
Bufs == {Main, Other, Reader1, Reader2}
Modes == {"in", "out", "direct", "zc"}

VARIABLES
    heap,      \* the record h described above
    view,      \* the bytes that heap holds, for the properties: see View
    mode,      \* how Main is used: filled by the poller, by a user's writer,
               \* by a user of WriteDirect, or by a zcReader
    booked,    \* length of the slice given to the poller by book, or 0
    maxSize,   \* connection.maxSize
    appended,  \* readable bytes that Append added to Main since its last Flush
    spoiled,   \* a call broke Main: see Severs and Recuts
    written    \* number of bytes written

vars == <<heap, view, mode, booked, maxSize, appended, spoiled, written>>

Blank == [blk |-> Nil, beg |-> 0, len |-> 0, cap |-> 0, off |-> 0, malloc |-> 0,
          refer |-> 0, ro |-> FALSE, ncr |-> FALSE, origin |-> Nil, next |-> Nil]

\* left is history: malloc bytes that MallocLen does not count, since the
\* MallocAck(0) that should have discarded them did not.
Closed == [length |-> 0, mallocSize |-> 0, left |-> 0, head |-> Nil, read |-> Nil,
           flush |-> Nil, write |-> Nil, caches |-> {}, peek |-> [blk |-> Nil, cap |-> 0, len |-> 0]]

-----------------------------------------------------------------------------
(* Memory *)

Pointers(h) == UNION {{h.node[x].next, h.node[x].origin} : x \in Nodes}
               \cup UNION {{h.lb[b].head, h.lb[b].read, h.lb[b].flush, h.lb[b].write} : b \in Bufs}

Scratch(h) == {s.blk : s \in h.held}
              \cup UNION {h.lb[b].caches \cup {h.lb[b].peek.blk} : b \in Bufs}

FreshNode(h) == Min({x \in Nodes : h.node[x].refer = 0} \ Pointers(h))
FreshBlock(h) == Min(Blocks \ (Scratch(h) \cup {h.node[x].blk : x \in Nodes}))

\* Write the bytes s into a block at position i.
Put(h, blk, i, s) ==
    [h EXCEPT !.mem[blk] = SubSeq(@, 1, i) \o s \o SubSeq(@, i + Len(s) + 1, Len(@))]

free(h, blk) ==
    IF blk = Nil THEN h
    ELSE [h EXCEPT !.freed = @ \cup {blk}, !.twice = @ \/ blk \in h.freed]

RECURSIVE Chain(_, _, _)
Chain(h, x, last) ==
    IF x = Nil THEN <<>>
    ELSE <<x>> \o IF x = last THEN <<>> ELSE Chain(h, h.node[x].next, last)

\* Every value of s but Nil, once, in the order of their first places.
Distinct(s) ==
    LET once(i) == IF s[i] = Nil \/ \E j \in 1..i - 1 : s[j] = s[i] THEN <<>> ELSE <<s[i]>>
    IN FlattenSeq([i \in DOMAIN s |-> once(i)])

\* What the garbage collector does: only the nodes in a chain, those they were
\* made from and the memory in use stay.  They are named in the order they are
\* found, since names do not matter.
Collect(h) ==
    LET chains == FlattenSeq([b \in Bufs |-> Chain(h, h.lb[b].head, Nil)])
        ns == Distinct(chains \o [i \in DOMAIN chains |-> h.node[chains[i]].origin])
        used == Scratch(h)
        ms == Distinct([i \in DOMAIN ns |-> h.node[ns[i]].blk]
                       \o SelectSeq([m \in Blocks |-> m], LAMBDA m : m \in used))
        N(x) == SelectInSeq(ns, LAMBDA y : y = x)
        B(m) == SelectInSeq(ms, LAMBDA y : y = m)
        node(x) == [h.node[x] EXCEPT !.blk = B(@), !.origin = N(@),
                                     !.next = IF Contains(chains, x) THEN N(@) ELSE Nil]
        lb(b) == [h.lb[b] EXCEPT !.head = N(@), !.read = N(@), !.flush = N(@), !.write = N(@),
                                 !.caches = {B(m) : m \in @}, !.peek.blk = B(@)]
    IN [h EXCEPT !.node = [i \in Nodes |-> IF i <= Len(ns) THEN node(ns[i]) ELSE Blank],
                 !.lb = [b \in Bufs |-> lb(b)],
                 !.mem = [i \in Blocks \cup {Nil} |->
                              IF i \in DOMAIN ms THEN h.mem[ms[i]] ELSE <<>>],
                 !.freed = {B(m) : m \in @} \ {Nil},
                 !.held = {[s EXCEPT !.blk = B(@)] : s \in @}]

-----------------------------------------------------------------------------
(* linkBufferNode *)

newLinkBufferNode(h, size) ==
    LET m == IF size <= 0 THEN Nil ELSE FreshBlock(h)
    IN [h EXCEPT !.node[FreshNode(h)] =
                     [Blank EXCEPT !.refer = 1, !.ro = size <= 0, !.blk = m,
                                   !.cap = IF size <= 0 THEN 0 ELSE Max2(size, LinkBufferCap)],
                 !.mem[m] = <<>>, !.freed = @ \ {m}]

NodeLen(h, x) == h.node[x].len - h.node[x].off

\* The first n unread bytes of the chain that starts at x.
RECURSIVE Gather(_, _, _)
Gather(h, x, n) ==
    LET nd == h.node[x]
        k == Min2(n, nd.len - nd.off)
        s == SubSeq(h.mem[nd.blk], nd.beg + nd.off + 1, nd.beg + nd.off + k)
    IN IF k = n THEN s ELSE s \o Gather(h, nd.next, n - k)

\* Node.Malloc, and the assignment of the bytes by its caller.
NodeMalloc(h, x, s) ==
    [Put(h, h.node[x].blk, h.node[x].beg + h.node[x].malloc, s)
        EXCEPT !.node[x].malloc = @ + Len(s)]

\* Mutant: a slice of a slice counts on the slice.
Refer_miscounted(h, x, n) ==
    LET nd == h.node[x]
        root == IF nd.origin # Nil THEN nd.origin ELSE x
    IN [newLinkBufferNode(h, 0)
            EXCEPT !.node[FreshNode(h)] =
                     [@ EXCEPT !.blk = nd.blk, !.beg = nd.beg + nd.off, !.len = n,
                               !.cap = n, !.origin = root],
                   !.node[x].off = @ + n,
                   !.node[x].refer = @ + 1]

Refer(h, x, n) ==
    LET nd == h.node[x]
        root == IF nd.origin # Nil THEN nd.origin ELSE x
        g == newLinkBufferNode(h, 0)
    IN [g EXCEPT !.node[FreshNode(h)] =
                     [@ EXCEPT !.blk = nd.blk, !.beg = nd.beg + nd.off, !.len = n,
                               !.cap = n, !.origin = root],
                 !.node[x].off = @ + n,
                 !.node[root].refer = @ + 1]

reusable(nd) == ~nd.ro /\ ~nd.ncr

RECURSIVE NodeRelease(_, _)
NodeRelease(h, x) ==
    LET g == IF h.node[x].origin # Nil THEN NodeRelease(h, h.node[x].origin) ELSE h
        nd == g.node[x]
    IN IF nd.refer = 1
       THEN [(IF reusable(nd) THEN free(g, nd.blk) ELSE g) EXCEPT !.node[x] = Blank]
       ELSE [g EXCEPT !.node[x].refer = @ - 1]

\* Release the nodes from x up to, and without, the node end.
RECURSIVE ReleaseUntil(_, _, _)
ReleaseUntil(h, x, end) ==
    IF x = end THEN h ELSE ReleaseUntil(NodeRelease(h, x), h.node[x].next, end)

-----------------------------------------------------------------------------
(* Reader *)

NewLinkBuffer(h, b, size) ==
    LET x == FreshNode(h)
    IN [newLinkBufferNode(h, size)
            EXCEPT !.lb[b] = [Closed EXCEPT !.head = x, !.read = x, !.flush = x, !.write = x]]

\* Mutant: a read leaves the copy made by an earlier Peek in place.
recalLen_peekKept(h, b, delta) == [h EXCEPT !.lb[b].length = @ + delta]

recalLen(h, b, delta) ==
    [h EXCEPT !.lb[b].length = @ + delta,
              !.lb[b].peek.len = IF delta < 0 THEN 0 ELSE @]

\* The loop of isSingleNode and of Release: leave the empty nodes behind.
RECURSIVE SkipEmpty(_, _)
SkipEmpty(h, b) ==
    LET x == h.lb[b].read
    IN IF x # h.lb[b].flush /\ NodeLen(h, x) = 0
       THEN SkipEmpty([h EXCEPT !.lb[b].read = h.node[x].next], b)
       ELSE h

\* The loop of Next, readBinary and ReadByte: the nodes passed are read up.
RECURSIVE Advance(_, _, _)
Advance(h, b, ack) ==
    LET x == h.lb[b].read
        l == NodeLen(h, x)
    IN IF l >= ack
       THEN [h EXCEPT !.node[x].off = @ + ack]
       ELSE Advance([h EXCEPT !.node[x].off = @ + l, !.lb[b].read = h.node[x].next], b, ack - l)

\* Hand out n bytes of a block; who = Nil when no Release ends their use.
Hold(h, who, blk, beg, n) ==
    LET s == SubSeq(h.mem[blk], beg + 1, beg + n)
    IN [h EXCEPT !.held = @ \cup {[buf |-> who, blk |-> blk, beg |-> beg, val |-> s]},
                 !.ret = s]

HoldNode(h, who, nd, n) == Hold(h, who, nd.blk, nd.beg + nd.off, n)

Next_(h, b, n) ==
    LET g == SkipEmpty(recalLen(h, b, -n), b)
        x == g.lb[b].read
        s == Gather(g, x, n)
        m == FreshBlock(g)
        k == Advance(g, b, n)
    IN IF NodeLen(g, x) >= n THEN HoldNode(k, b, g.node[x], n)
       ELSE IF n > CacheMin
            THEN Hold([k EXCEPT !.mem[m] = s, !.lb[b].caches = @ \cup {m}, !.freed = @ \ {m}],
                      b, m, 0, n)
            ELSE [k EXCEPT !.ret = s]

\* A slice of cachePeek is handed out until the cache is replaced by a larger
\* one, or filled again after a read has emptied it.
Peek(h, b, n) ==
    LET g == SkipEmpty(h, b)
        x == g.lb[b].read
        old == g.lb[b].peek
        small == old.blk # Nil /\ old.cap < n
        fill == small \/ old.len = 0
        k == [(IF small THEN free(g, old.blk) ELSE g)
                  EXCEPT !.held = {s \in @ : ~fill \/ s.buf # b \/ s.blk # old.blk}]
        p == IF small \/ old.blk = Nil
             THEN [blk |-> FreshBlock(k), cap |-> n, len |-> 0]
             ELSE old
        more == SubSeq(Gather(k, x, n), p.len + 1, n)
        j == [Put(k, p.blk, p.len, more) EXCEPT !.lb[b].peek = [p EXCEPT !.len = Max2(@, n)],
                                              !.freed = @ \ {p.blk}]
    IN IF NodeLen(g, x) >= n THEN HoldNode(g, b, g.node[x], n)
       ELSE Hold(j, b, p.blk, 0, n)

Skip(h, b, n) ==
    LET RECURSIVE step(_, _)
        step(g, ack) ==
            LET x == g.lb[b].read
                l == NodeLen(g, x)
            IN IF l >= ack
               THEN [g EXCEPT !.node[x].off = @ + ack]
               ELSE step([g EXCEPT !.lb[b].read = g.node[x].next], ack - l)
    IN [step(recalLen(h, b, -n), n) EXCEPT !.ret = <<>>]

Release(h, b) ==
    LET g == SkipEmpty(h, b)
        k == ReleaseUntil(g, g.lb[b].head, g.lb[b].read)
        scratch == k.lb[b].caches \cup ({k.lb[b].peek.blk} \ {Nil})
    IN [k EXCEPT !.lb[b] = [@ EXCEPT !.head = k.lb[b].read, !.caches = {}, !.peek = Closed.peek],
                 !.freed = @ \cup scratch, !.twice = @ \/ scratch \cap k.freed # {},
                 !.held = {s \in @ : s.buf # b},
                 !.ret = <<>>]

\* Mutant: the node whose memory was given away is not marked.
readBinary_unmarked(h, b, n, always) ==
    LET g == SkipEmpty(recalLen(h, b, -n), b)
        nd == g.node[g.lb[b].read]
        k == Advance(g, b, n)
    IN IF nd.len - nd.off >= n /\ ~nd.ro /\ (nd.ncr \/ (always /\ n >= MinReuse))
       THEN HoldNode(k, Nil, nd, n)
       ELSE [k EXCEPT !.ret = Gather(g, g.lb[b].read, n)]

\* Without featureAlwaysNoCopyRead the bytes are copied; with it they stay
\* where they are and the node is never given back to mcache.
readBinary(h, b, n, always) ==
    LET g == SkipEmpty(recalLen(h, b, -n), b)
        x == g.lb[b].read
        nd == g.node[x]
        share == NodeLen(g, x) >= n /\ ~nd.ro /\ (nd.ncr \/ (always /\ n >= MinReuse))
        k == Advance(g, b, n)
    IN IF share
       THEN HoldNode([k EXCEPT !.node[x].ncr = TRUE], Nil, nd, n)
       ELSE [k EXCEPT !.ret = Gather(g, x, n)]

ReadByte(h, b) ==
    [Advance(recalLen(h, b, -1), b, 1) EXCEPT !.ret = Gather(h, h.lb[b].read, 1)]

\* The place of byte c among the unread bytes after the first skip, or -1.
indexByte(h, b, c, skip) ==
    LET s == Gather(h, h.lb[b].read, h.lb[b].length)
        at == {i \in skip + 1..Len(s) : s[i] = c}
    IN IF at = {} THEN -1 ELSE Min(at) - 1

Until(h, b, c) ==
    LET n == indexByte(h, b, c, 0)
    IN IF n < 0 THEN [h EXCEPT !.ret = <<>>] ELSE Next_(h, b, n + 1)

\* The loop of Slice: refer to the next ack bytes from a new buffer p.
RECURSIVE ReferAll(_, _, _, _)
ReferAll(h, b, p, ack) ==
    LET x == h.lb[b].read
        l == NodeLen(h, x)
        y == FreshNode(h)
        tail == h.lb[p].flush
        r == Refer(h, x, Min2(l, ack))
        g == IF l = 0 THEN h
             ELSE IF tail = Nil
             THEN [r EXCEPT !.lb[p].head = y, !.lb[p].read = y, !.lb[p].flush = y]
             ELSE [r EXCEPT !.node[tail].next = y, !.lb[p].flush = y]
    IN IF l >= ack THEN g
       ELSE ReferAll([g EXCEPT !.lb[b].read = g.node[x].next], b, p, ack - l)

\* The new reader has no write end: its flush and write are nil.
Slice(h, b, p, n) ==
    LET g == SkipEmpty(recalLen(h, b, -n), b)
        single == NodeLen(g, g.lb[b].read) >= n
        k == ReferAll([g EXCEPT !.lb[p] = [Closed EXCEPT !.length = n]], b, p, n)
        j == [k EXCEPT !.lb[p].flush = Nil, !.ret = <<>>]
    IN IF single THEN j ELSE Release(j, b)

\* GetBytes with room for max slices: the bytes they cover.
RECURSIVE Slices(_, _, _, _)
Slices(h, b, x, max) ==
    IF max = 0 THEN <<>>
    ELSE LET s == Gather(h, x, NodeLen(h, x))
         IN IF x = h.lb[b].flush THEN s
            ELSE s \o Slices(h, b, h.node[x].next, IF s = <<>> THEN max ELSE max - 1)

\* Without slices to fill it makes one for every node before the flush node.
GetBytes(h, b, max) ==
    LET nodes == Len(Chain(h, h.lb[b].read, h.lb[b].flush))
    IN [h EXCEPT !.ret = Slices(h, b, h.lb[b].read, IF max = 0 THEN nodes - 1 ELSE max)]

Bytes(h, b) == [h EXCEPT !.ret = Slices(h, b, h.lb[b].read, -1)]

-----------------------------------------------------------------------------
(* Writer *)

RECURSIVE growth(_, _, _)
growth(h, b, n) ==
    LET w == h.lb[b].write
        nd == h.node[w]
        y == FreshNode(h)
    IN IF ~nd.ro /\ nd.cap - nd.malloc >= n THEN h
       ELSE IF nd.next = Nil
       THEN [newLinkBufferNode(h, n) EXCEPT !.node[w].next = y, !.lb[b].write = y]
       ELSE growth([h EXCEPT !.lb[b].write = nd.next], b, n)

\* Malloc of Len(s) bytes that the caller then sets to s.
Malloc(h, b, s) ==
    LET g == growth([h EXCEPT !.lb[b].mallocSize = @ + Len(s)], b, Len(s))
    IN [NodeMalloc(g, g.lb[b].write, s) EXCEPT !.ret = <<>>]

MallocAck(h, b, n) ==
    LET RECURSIVE keep(_, _)
        keep(g, ack) ==
            LET w == g.lb[b].write
                l == g.node[w].malloc - g.node[w].len
            IN IF ack <= 0 THEN g
               ELSE IF l >= ack THEN [g EXCEPT !.node[w].malloc = ack + g.node[w].len]
               ELSE keep([g EXCEPT !.lb[b].write = g.node[w].next], ack - l)
        RECURSIVE discard(_, _)
        discard(g, x) ==
            IF x = Nil THEN g
            ELSE discard([g EXCEPT !.node[x] = [@ EXCEPT !.off = 0, !.malloc = 0, !.refer = 1,
                                                         !.len = 0]], g.node[x].next)
        f == h.node[h.lb[b].flush]
        k == keep([h EXCEPT !.lb[b].mallocSize = n, !.lb[b].write = h.lb[b].flush,
                            !.lb[b].left = IF n = 0 THEN f.malloc - f.len ELSE 0], n)
    IN [discard(k, k.node[k.lb[b].write].next) EXCEPT !.ret = <<>>]

\* Link a new node without memory behind the write node, and write there.
NewTail(h, b) ==
    [newLinkBufferNode(h, 0)
        EXCEPT !.node[h.lb[b].write].next = FreshNode(h), !.lb[b].write = FreshNode(h)]

Flush(h, b) ==
    LET g == IF h.node[h.lb[b].write].cap > PageSize THEN NewTail(h, b) ELSE h
        RECURSIVE submit(_, _, _)
        submit(k, x, n) ==
            LET nd == k.node[x]
                delta == Max2(0, nd.malloc - nd.len)
                j == [k EXCEPT !.node[x].len = nd.len + delta]
            IN IF x = k.lb[b].write
               THEN recalLen([j EXCEPT !.lb[b].flush = x], b, n + delta)
               ELSE submit(j, nd.next, n + delta)
    IN [submit([g EXCEPT !.lb[b].mallocSize = 0, !.lb[b].left = 0], g.lb[b].flush, 0)
            EXCEPT !.ret = <<>>]

\* Mutant: the readable bytes that come along are not counted.
WriteBuffer_uncounted(h, b, w) ==
    LET from == h.lb[w]
        g == [h EXCEPT !.node[h.lb[b].write].next = from.read, !.lb[b].write = from.write]
        j == ReleaseUntil(g, from.head, from.read)
    IN IF from.length + from.mallocSize <= 0 THEN [h EXCEPT !.ret = <<>>]
       ELSE [j EXCEPT !.lb[w] = Closed, !.node[from.write].next = Nil, !.ret = <<>>,
                      !.lb[b].mallocSize = @ + from.mallocSize,
                      !.held = {s \in @ : s.buf # w}]

\* Everything of w moves behind b and w is closed, with the slices it returned.
WriteBuffer(h, b, w) ==
    LET from == h.lb[w]
        g == [h EXCEPT !.node[h.lb[b].write].next = from.read, !.lb[b].write = from.write]
        k == ReleaseUntil(g, from.head, from.read)
        j == ReleaseUntil(k, k.node[from.write].next, Nil)
    IN IF from.length + from.mallocSize <= 0 THEN [h EXCEPT !.ret = <<>>]
       ELSE [recalLen([j EXCEPT !.lb[w] = Closed, !.node[from.write].next = Nil],
                      b, from.length)
                 EXCEPT !.lb[b].mallocSize = @ + from.mallocSize, !.ret = <<>>,
                        !.lb[b].left = @ + from.left,
                        !.held = {s \in @ : s.buf # w}]

\* Memory of the caller, with the bytes s in it, that stays the caller's.
Lend(h, m, s) ==
    [h EXCEPT !.mem[m] = s, !.freed = @ \ {m},
              !.held = @ \cup {[buf |-> Nil, blk |-> m, beg |-> 0, val |-> s]}]

WriteBinary(h, b, s) ==
    LET m == FreshBlock(h)
        y == FreshNode(h)
    IN IF Len(s) <= BinaryInplaceThreshold THEN Malloc(h, b, s)
       ELSE [Lend(NewTail(h, b), m, s)
                EXCEPT !.node[y] = [@ EXCEPT !.blk = m, !.cap = Len(s), !.malloc = Len(s)],
                       !.ret = <<>>, !.lb[b].mallocSize = @ + Len(s)]

\* The node in which the byte at position i of the malloc bytes lies, with
\* its place there; at the border of two nodes the first one.
RECURSIVE Origin(_, _, _)
Origin(h, x, i) ==
    LET t == h.node[x].malloc - h.node[x].len
    IN IF t < i THEN Origin(h, h.node[x].next, i - t) ELSE <<x, i + h.node[x].len>>

RECURSIVE Last_(_, _)
Last_(h, x) == IF h.node[x].next = Nil THEN x ELSE Last_(h, h.node[x].next)

WriteDirect(h, b, s, remain) ==
    LET at == Origin(h, h.lb[b].flush, h.lb[b].mallocSize - remain)
        x == at[1]
        m == FreshBlock(h)
        data == FreshNode(h)
        g == [Lend(newLinkBufferNode(h, 0), m, s)
                 EXCEPT !.node[data] = [@ EXCEPT !.blk = m, !.cap = Len(s), !.malloc = Len(s),
                                                 !.next = h.node[x].next],
                        !.node[x].next = data]
        new == FreshNode(g)
        split == [newLinkBufferNode(g, 0)
                     EXCEPT !.node[new] = [h.node[x] EXCEPT !.off = at[2], !.len = at[2], !.refer = 1,
                                               !.ro = FALSE, !.ncr = FALSE, !.origin = Nil],
                            !.node[data].next = new,
                            !.node[x].malloc = at[2], !.node[x].ro = TRUE]
        k == IF remain > 0 THEN split ELSE g
    IN [k EXCEPT !.lb[b].write = Last_(k, h.lb[b].write), !.ret = <<>>,
                 !.lb[b].mallocSize = @ + Len(s)]

Close(h, b) ==
    LET g == Release(h, b)
    IN [ReleaseUntil(g, g.lb[b].head, Nil) EXCEPT !.lb[b] = Closed]

-----------------------------------------------------------------------------
(* What a connection does with its input buffer *)

bookLen(h, bookSize, max) ==
    LET nd == h.node[h.lb[Main].write]
        l == nd.cap - nd.malloc
    IN Min2(bookSize, IF l = 0 THEN max ELSE l)

book(h, bookSize, max) ==
    LET w == h.lb[Main].write
        y == FreshNode(h)
        g == IF h.node[w].cap > h.node[w].malloc THEN h
             ELSE [newLinkBufferNode(h, max) EXCEPT !.node[w].next = y, !.lb[Main].write = y]
    IN [g EXCEPT !.node[g.lb[Main].write].malloc = @ + bookLen(h, bookSize, max), !.ret = <<>>]

\* The poller read the bytes s into the slice it was given.
bookAck(h, s) ==
    LET w == h.lb[Main].write
        n == h.node[w].len + Len(s)
    IN recalLen([Put(h, h.node[w].blk, h.node[w].beg + h.node[w].len, s)
                    EXCEPT !.node[w].malloc = n, !.node[w].len = n, !.lb[Main].flush = w,
                           !.ret = <<>>],
                Main, Len(s))

RECURSIVE calcMaxSize(_, _)
calcMaxSize(h, x) ==
    h.node[x].len + IF x = h.lb[Main].read THEN 0 ELSE calcMaxSize(h, h.node[x].next)

resetTail(h, max) ==
    IF max <= PageSize THEN h
    ELSE LET g == NewTail(h, Main) IN [g EXCEPT !.lb[Main].flush = g.lb[Main].write]

-----------------------------------------------------------------------------
(* The bytes of a heap *)

Members(b) == ToSet(Chain(heap, heap.lb[b].head, Nil))

\* The bytes i+1..j of the slice of node nd.
Span(h, nd, i, j) == SubSeq(h.mem[nd.blk], nd.beg + i + 1, nd.beg + j)

\* What can be read from a buffer, and what was written and not submitted.
Readable(h, b) ==
    LET c == Chain(h, h.lb[b].read, h.lb[b].flush)
        span(nd) == Span(h, nd, nd.off, nd.len)
    IN FlattenSeq([i \in DOMAIN c |-> span(h.node[c[i]])])

Pending(h, b) ==
    LET f == h.node[h.lb[b].flush]
        c == IF h.lb[b].flush = h.lb[b].write THEN <<>> ELSE Chain(h, f.next, h.lb[b].write)
        span(nd) == Span(h, nd, nd.off, Max2(nd.len, nd.malloc))
    IN Span(h, f, f.len, f.malloc) \o FlattenSeq([i \in DOMAIN c |-> span(h.node[c[i]])])

\* In mode "in" the malloc bytes are the poller's to fill.
View(h, m) ==
    [readable |-> [b \in Bufs |-> Readable(h, b)],
     pending |-> [b \in Bufs |-> IF h.lb[b].flush = Nil \/ m = "in" THEN <<>> ELSE Pending(h, b)]]

-----------------------------------------------------------------------------
(* Actions *)

Empty == [node |-> [x \in Nodes |-> Blank], lb |-> [b \in Bufs |-> Closed],
          mem |-> [m \in Blocks \cup {Nil} |-> <<>>], freed |-> {}, twice |-> FALSE,
          held |-> {}, ret |-> <<>>]

Init ==
    /\ mode \in Modes
    /\ heap = LET h == NewLinkBuffer(Empty, Main, IF mode = "in" THEN LinkBufferCap ELSE 0)
              IN IF mode = "out" THEN NewLinkBuffer(h, Other, 0) ELSE h
    /\ view = View(heap, mode)
    /\ booked = 0 /\ maxSize = LinkBufferCap /\ appended = 0 /\ spoiled = FALSE /\ written = 0

Sizes == CASE mode = "in" -> InSizes [] mode = "out" -> OutSizes [] OTHER -> OtherSizes
ReadSizes == IF mode = "direct" THEN DirectReads ELSE Sizes
Open(b) == heap.lb[b].head # Nil
Fresh(n) == [i \in 1..n |-> written + i]
Write(n) ==
    /\ written + n <= IF mode = "direct" THEN MaxDirect ELSE MaxBytes
    /\ written' = written + n

\* What a broken buffer does is not followed.
Do(h) == ~spoiled /\ heap' = Collect(h) /\ view' = View(heap', mode)
Idle == UNCHANGED <<mode, booked, maxSize, appended, spoiled, written>>

\* Readable bytes that were appended can be read once they are submitted
\* ("you must actively submit before read the data").
Submitted(b) == b = Main => appended = 0

\* Operations of a Reader; each returns an error and does nothing when there
\* are fewer than n bytes.
Read(b, n) ==
    /\ n \in 1..heap.lb[b].length /\ Idle
    /\ Submitted(b)
    /\ \/ Do(Next_(heap, b, n))
       \/ b = Main /\ Do(Peek(heap, b, n))
       \/ Do(Skip(heap, b, n))
       \/ Do(readBinary(heap, b, n, mode \in Sharing))
       \/ n = 1 /\ Do(ReadByte(heap, b))

Find(b, c) == Submitted(b) /\ heap.lb[b].length > 0 /\ Do(Until(heap, b, c)) /\ Idle

DoSlice(b, n) ==
    LET idle == {p \in {Reader1, Reader2} : heap.lb[p].length = 0 /\ ~Open(p)}
    IN /\ n \in 1..heap.lb[b].length /\ idle # {}
       /\ mode \in Slicing /\ Submitted(b)
       /\ Do(Slice(heap, b, Min(idle), n)) /\ Idle

DoGetBytes(max) ==
    /\ mode \in {"out", "direct"} /\ Open(Main)
    /\ Do(GetBytes(heap, Main, max)) /\ Idle

\* Operations of a Writer.
DoWrite(b, n) ==
    /\ Open(b) /\ b \in {Main, Other} /\ mode \in {"out", "direct"} /\ Write(n)
    /\ \/ Do(Malloc(heap, b, Fresh(n)))
       \/ mode = "out" /\ Do(WriteBinary(heap, b, Fresh(n)))
    /\ UNCHANGED <<mode, booked, maxSize, appended, spoiled>>

\* The node to be cut already shares its memory, with the caller or with the
\* half that an earlier cut left: the new half counts as the buffer's own.
Recuts(remain) ==
    LET x == heap.node[Origin(heap, heap.lb[Main].flush, heap.lb[Main].mallocSize - remain)[1]]
    IN remain > 0 /\ x.ro /\ x.blk # Nil

DoWriteDirect(n, remain) ==
    /\ Open(Main) /\ mode = "direct" /\ Write(n)
    /\ remain \in 0..heap.lb[Main].mallocSize
    /\ Do(WriteDirect(heap, Main, Fresh(n), remain))
    /\ spoiled' = Recuts(remain)
    /\ UNCHANGED <<mode, booked, maxSize, appended>>

\* The nodes behind the last byte that MallocAck(n) keeps are emptied although
\* one of them holds appended bytes that Len counts, or shares its memory with
\* a node that is kept.
Severs(b, n) ==
    LET nodes == Chain(heap, heap.lb[b].flush, Nil)
        last == MallocAck(heap, b, n).lb[b].write
        at == SelectInSeq(nodes, LAMBDA x : x = last)
        kept == {heap.node[nodes[i]].blk : i \in 1..at} \ {Nil}
    IN \E i \in at + 1..Len(nodes) :
           NodeLen(heap, nodes[i]) > 0 \/ heap.node[nodes[i]].blk \in kept

DoMallocAck(b, n) ==
    /\ Open(b) /\ b \in {Main, Other} /\ mode \in {"out", "direct"}
    /\ n <= heap.lb[b].mallocSize
    /\ Do(MallocAck(heap, b, n))
    /\ spoiled' = Severs(b, n)
    /\ UNCHANGED <<mode, booked, maxSize, appended, written>>

DoFlush(b) ==
    /\ Open(b) /\ b \in {Main, Other} /\ mode \in {"out", "direct"}
    /\ Do(Flush(heap, b))
    /\ appended' = IF b = Main THEN 0 ELSE appended
    /\ UNCHANGED <<mode, booked, maxSize, spoiled, written>>

DoAppend ==
    /\ Open(Main) /\ Open(Other)
    /\ Do(WriteBuffer(heap, Main, Other))
    /\ appended' = appended + heap.lb[Other].length
    /\ UNCHANGED <<mode, booked, maxSize, spoiled, written>>

DoRelease(b) ==
    /\ Open(b) /\ (b = Main => mode # "in")
    /\ Do(Release(heap, b)) /\ Idle

DoClose(b) ==
    /\ Open(b) /\ booked = 0
    /\ Do(Close(heap, b))
    /\ appended' = IF b = Main THEN 0 ELSE appended
    /\ UNCHANGED <<mode, booked, maxSize, spoiled, written>>

\* The poller between inputs and inputAck, with the reader in between.
inputs(bookSize) ==
    /\ mode = "in" /\ Open(Main) /\ booked = 0
    /\ booked' = bookLen(heap, bookSize, maxSize)
    /\ Do(book(heap, bookSize, maxSize))
    /\ UNCHANGED <<mode, maxSize, appended, spoiled, written>>

inputAck(n) ==
    /\ booked > 0 /\ n <= booked /\ Write(n)
    /\ Do(bookAck(heap, Fresh(n)))
    /\ maxSize' = IF n = 0 THEN maxSize ELSE Max2(maxSize, heap'.lb[Main].length)
    /\ booked' = 0 /\ UNCHANGED <<mode, appended, spoiled>>

\* connection.Release: operator.do succeeds unless the poller is reading.
ConnRelease ==
    LET tidy == heap.lb[Main].length = 0 /\ booked = 0
        max == Max2(maxSize, calcMaxSize(heap, heap.lb[Main].head))
    IN /\ mode = "in" /\ Open(Main)
       /\ maxSize' = IF tidy THEN max ELSE maxSize
       /\ Do(Release(IF tidy THEN resetTail(heap, max) ELSE heap, Main))
       /\ UNCHANGED <<mode, booked, appended, spoiled, written>>

\* One turn of zcReader.fill for a reader that waits for more bytes than there
\* are: n bytes came into the LinkBufferCap it asked for.
fill(n) ==
    LET s == Fresh(n) \o [i \in 1..LinkBufferCap - n |-> 0]
    IN /\ mode = "zc" /\ Open(Main) /\ heap.lb[Main].length < Max(Sizes) /\ n <= LinkBufferCap /\ Write(n)
       /\ Do(Flush(MallocAck(Malloc(heap, Main, s), Main, n), Main))
       /\ UNCHANGED <<mode, booked, maxSize, appended, spoiled>>

\* zcWriter.Flush: the writer below takes the first n bytes.
zcFlush(n) ==
    LET g == Bytes(Flush(heap, Main), Main)
    IN /\ mode = "out" /\ Open(Main) /\ n <= Len(g.ret)
       /\ Do([(IF n > 0 THEN Release(Skip(g, Main, n), Main) ELSE g) EXCEPT !.ret = <<>>])
       /\ appended' = 0
       /\ UNCHANGED <<mode, booked, maxSize, spoiled, written>>

ioRead(n) ==
    LET g == Next_(heap, Main, n)
    IN /\ mode \in {"out", "zc"} /\ n \in 1..heap.lb[Main].length /\ Submitted(Main)
       /\ Do([Release(g, Main) EXCEPT !.ret = g.ret]) /\ Idle

ioWrite(n) ==
    /\ mode = "out" /\ Open(Main) /\ Write(n)
    /\ Do(Flush(Malloc(heap, Main, Fresh(n)), Main))
    /\ appended' = 0
    /\ UNCHANGED <<mode, booked, maxSize, spoiled>>

Next ==
    \/ \E b \in Bufs, n \in ReadSizes : Read(b, n) \/ DoSlice(b, n)
    \/ \E b \in Bufs, n \in Sizes : DoWrite(b, n)
    \/ \E b \in Bufs, c \in Delims : Find(b, c)
    \/ \E b \in Bufs : DoFlush(b) \/ DoRelease(b) \/ DoClose(b)
    \/ \E b \in Bufs, n \in AckSizes : DoMallocAck(b, n)
    \/ \E n \in Sizes, remain \in 0..MaxDirect : DoWriteDirect(n, remain)
    \/ \E n \in Sizes : inputs(n) \/ ioRead(n) \/ ioWrite(n)
    \/ \E n \in Sizes \cup {0} : inputAck(n) \/ fill(n) \/ zcFlush(n)
    \/ \E max \in {0, Barrier} : DoGetBytes(max)
    \/ DoAppend \/ ConnRelease

Spec == Init /\ [][Next]_vars

-----------------------------------------------------------------------------
(* Properties *)

\* Memory that somebody may still read is neither recycled nor overwritten:
\* the nodes of every buffer, the slices returned by Next and Peek since the
\* last Release, the bytes shared by ReadBinary for good, and the memory
\* callers lent to WriteBinary and WriteDirect; and nothing is recycled twice.
\* Two limits are the code's: what Peek copied into its cache lasts until the
\* cache is filled again (nocopy.go:46 says until Release), and a WriteDirect
\* that cuts a node which shares its memory ends the promise (Recuts).
MemoryIntact ==
    /\ ~heap.twice
    /\ \A s \in heap.held :
           s.blk \notin heap.freed
           /\ SubSeq(heap.mem[s.blk], s.beg + 1, s.beg + Len(s.val)) = s.val
    /\ \A b \in Bufs : \A x \in Members(b) : heap.node[x].blk \notin heap.freed

\* The reference count of a node is the number of buffers whose chain it is
\* in plus the number of nodes made from it by Slice: a reader's Release and
\* the Release or Close of the buffer it was cut from may come in any order.
RefCounts ==
    \A x \in Nodes :
        heap.node[x].refer =
            Cardinality({b \in Bufs : x \in Members(b)})
            + Cardinality({y \in Nodes : heap.node[y].refer > 0 /\ heap.node[y].origin = x})

\* Len, on which every read relies, is the number of bytes that the nodes
\* between the read end and the submitted end hold, besides the readable bytes
\* of an appended buffer until they are submitted; MallocLen is the number of
\* the others that a Flush would submit, besides those that MallocAck(0) left
\* in the flush node.  In any order of Malloc, MallocAck, WriteDirect, Append
\* and Flush, up to a MallocAck that empties a node in use (Severs).
LengthsExact ==
    ~spoiled => \A b \in Bufs :
        LET early == IF b = Main THEN appended ELSE 0
        IN /\ heap.lb[b].length = Len(view.readable[b]) + early
           /\ heap.lb[b].mallocSize + heap.lb[b].left = Len(view.pending[b]) - early

\* Every operation is one of a queue of bytes: across nodes, slices, appended
\* buffers and inserted memory nothing is lost, repeated or reordered, what was
\* not submitted is not read, and a read returns the first bytes.  MallocAck
\* keeps a first part of what was written, n bytes by LengthsExact, or what lies
\* in the flush node when n = 0, which a Flush then publishes.
Queue == INSTANCE ByteQueue WITH readable <- view.readable,
                                 pending <- view.pending,
                                 ret <- heap.ret
ImplementsByteQueue == Queue!Spec
=============================================================================
