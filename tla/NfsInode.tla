------------------------------ MODULE NfsInode ------------------------------
(***************************************************************************)
(* The data of nfs files: direct blocks, the chain of address blocks, the  *)
(* position that every nfs_inode object remembers from its last indirect   *)
(* transfer, truncation, deletion, and the allocator of blocks             *)
(* (fs/nfs/inode.cc, fs/nfs/nfs.cc).                                       *)
(*                                                                         *)
(* Offsets and sizes count words of four bytes, so that a block of         *)
(* BlockSize words is either data or an address block: word 0 the number   *)
(* of the next address block, the others numbers of data blocks.  An       *)
(* operation holds the mutex of its inode and no other operation reaches   *)
(* the blocks of that inode, hence it is one step; bitmap and super block  *)
(* are shared by all files, and a bit is found and set under the mutex of  *)
(* its bitmap buffer.  Blocks are read and written through the buffer      *)
(* cache, here as the one copy that cache promises.                        *)
(*                                                                         *)
(* The remembered position belongs to the object and nothing resets it:    *)
(* truncate, init_data and init keep it.  It is stale once the blocks it   *)
(* was remembered for are no longer the file's, and data_rw uses it all    *)
(* the same; what such a transfer reaches is whatever the blocks hold by   *)
(* then.  History variable strayed tells that it has happened.             *)
(***************************************************************************)
EXTENDS Integers, FiniteSetsExt, SequencesExt

CONSTANTS
    Files,        \* inode numbers
    TotalBlocks,  \* generic blocks 0 .. TotalBlocks - 1
    BitmapSize,   \* bits of a bitmap block
    BlockSize,    \* words of a block
    NumDirect,    \* NUM_DIRECT_DATA
    MaxOffset,    \* bound: words a file may have
    Starts,       \* bound: offsets where transfers of each file start
    Lengths,      \* bound: lengths of transfers
    MaxOps,       \* bound: number of operations
    CacheFull     \* kernel_inode_cache holds as many inodes as it may before it reuses one

ASSUME NfsAssumption ==
    /\ TotalBlocks \in Nat /\ BitmapSize \in Nat \ {0} /\ NumDirect \in Nat
    /\ BlockSize \in Nat \ {0, 1} /\ MaxOffset \in Nat /\ MaxOps \in Nat
    /\ Starts \in [Files -> SUBSET Nat] /\ Lengths \subseteq Nat \ {0}
    /\ CacheFull \in BOOLEAN

VARIABLES
    block,      \* content of each block
    bitmap,     \* blocks whose bit is set
    next_free_bitmap, used_generic_blocks,
    inode,      \* nfs_inode objects
    linked,     \* files that have a name
    written,    \* history: the words of each file as last written
    stale,      \* history: files whose position was remembered for other blocks than theirs
    strayed,    \* history: a transfer has started from such a position
    lost,       \* history: blocks of deleted files that were not freed
    ops         \* operations so far

vars == <<block, bitmap, next_free_bitmap, used_generic_blocks, inode, linked, written, stale,
          strayed, lost, ops>>

Blocks == 0 .. TotalBlocks - 1

\* (uint32)-1: no block
NoBlock == -1

NumAddrs == BlockSize - 1
AddrBlockDataSize == NumAddrs * BlockSize
DirectDataSize == NumDirect * BlockSize

Words == 0 .. BlockSize - 1

Offsets == 0 .. MaxOffset - 1

\* init_data(), and the initializers of the remembered position.
NewInode ==
    [size |-> 0, addrs |-> [i \in 0 .. NumDirect - 1 |-> NoBlock], next_addr_block |-> NoBlock,
     cache_raw |-> -1, cache_offset |-> -1, cache_addr_block |-> -1]

-----------------------------------------------------------------------------
(* Operations work on a record of what they may change: the disk, the      *)
(* inode, the words done, and whether the coroutine has failed, after      *)
(* which nothing more happens in it.                                       *)

Disk(f) ==
    [block |-> block, bitmap |-> bitmap, nfb |-> next_free_bitmap, used |-> used_generic_blocks,
     ino |-> inode[f], stale |-> stale[f], strayed |-> FALSE, out |-> <<>>, done |-> 0,
     failed |-> FALSE]

\* Blocks that alloc_block() can find: it scans from next_free_bitmap on and
\* does not come back to the bitmap blocks before it.
Candidates(d) == {b \in Blocks \ d.bitmap : b \div BitmapSize >= d.nfb}

\* Without a block the awaiting coroutines fail.
CanAlloc(d) == d.used < TotalBlocks /\ Candidates(d) /= {}

AllocIndex(d) == Min(Candidates(d))

\* alloc_block(); the block is AllocIndex of the disk before.
Alloc(d) ==
    IF CanAlloc(d)
    THEN [d EXCEPT !.bitmap = @ \cup {AllocIndex(d)}, !.used = @ + 1,
                   !.nfb = AllocIndex(d) \div BitmapSize]
    ELSE [d EXCEPT !.failed = TRUE]

\* memset(data, 0xff) of a new address block.
InitAddrBlock(d, b) == [d EXCEPT !.block[b] = [w \in Words |-> NoBlock]]

\* memcpy between the buffer and n words at word o of block b.  What a write
\* leaves of a new block is cleared; a read of a missing block gives zeros.
CopyBlock(d, rw, b, o, n, clear) ==
    IF rw.write
    THEN [d EXCEPT !.block[b] = [w \in Words |-> IF w \in o .. o + n - 1 THEN rw.value
                                                 ELSE IF clear THEN 0 ELSE @[w]],
                   !.done = @ + n]
    ELSE [d EXCEPT !.out = @ \o [i \in 1 .. n |-> IF b = NoBlock THEN 0 ELSE d.block[b][o + i - 1]],
                   !.done = @ + n]

-----------------------------------------------------------------------------
(* data_rw *)

\* direct_data_block_rw
DirectRW(d, rw, i, o, n) ==
    LET b == d.ino.addrs[i]
        a == Alloc(d)
        nb == AllocIndex(d)
    IN IF b /= NoBlock \/ ~rw.write THEN CopyBlock(d, rw, b, o, n, FALSE)
       ELSE IF a.failed THEN a
       ELSE CopyBlock([a EXCEPT !.ino.addrs[i] = nb], rw, nb, o, n, TRUE)

\* data_block_rw
IndirectRW(d, rw, ab, i, o, n) ==
    LET b == d.block[ab][i + 1]
        a == Alloc(d)
        nb == AllocIndex(d)
    IN IF b /= NoBlock \/ ~rw.write THEN CopyBlock(d, rw, b, o, n, FALSE)
       ELSE IF a.failed THEN a
       ELSE CopyBlock([a EXCEPT !.block[ab][i + 1] = nb], rw, nb, o, n, TRUE)

\* get_block_index(): the address block for an offset relative to block ab,
\* creating the missing ones, also for a read.
RECURSIVE GetBlockIndex(_, _, _)
GetBlockIndex(d, ab, offset) ==
    LET next == d.block[ab][0]
        a == Alloc(d)
        nb == AllocIndex(d)
    IN IF offset < AddrBlockDataSize THEN [disk |-> d, addr_block |-> ab]
       ELSE IF next /= NoBlock THEN GetBlockIndex(d, next, offset - AddrBlockDataSize)
       ELSE IF a.failed THEN [disk |-> a, addr_block |-> ab]
       ELSE GetBlockIndex([InitAddrBlock(a, nb) EXCEPT !.block[ab][0] = nb],
                          nb, offset - AddrBlockDataSize)

\* Fault: the offset is kept relative to the block before.
RememberUnreduced(d, raw, offset, ab) ==
    [d EXCEPT !.ino.cache_raw = raw, !.ino.cache_offset = raw, !.ino.cache_addr_block = ab,
              !.stale = FALSE]

\* The position after an indirect transfer is remembered in the inode.
Remember(d, raw, offset, ab) ==
    [d EXCEPT !.ino.cache_raw = raw, !.ino.cache_offset = offset, !.ino.cache_addr_block = ab,
              !.stale = FALSE]

\* The second loop of data_rw; offset is relative to address block ab.
RECURSIVE IndirectLoop(_, _, _, _, _, _)
IndirectLoop(d, rw, ab, offset, n, raw) ==
    LET found == GetBlockIndex(d, ab, offset)
        o == offset % AddrBlockDataSize
        k == Min({n, BlockSize - (o % BlockSize)})
    IN IF d.failed THEN d
       ELSE IF n = 0 THEN Remember(d, raw, offset, ab)
       ELSE IF found.disk.failed THEN found.disk
       ELSE IndirectLoop(IndirectRW(found.disk, rw, found.addr_block, o \div BlockSize, o % BlockSize, k),
                         rw, found.addr_block, o + k, n - k, raw)

\* data_rw behind the direct blocks: from the first address block, or from
\* the remembered one if the transfer starts where the last one ended.
IndirectPart(d, rw, offset, n) ==
    LET first == d.ino.next_addr_block
        a == Alloc(d)
        nb == AllocIndex(d)
        e == IF first /= NoBlock THEN d ELSE InitAddrBlock([a EXCEPT !.ino.next_addr_block = nb], nb)
    IN IF first = NoBlock /\ ~rw.write THEN CopyBlock(d, rw, NoBlock, 0, n, FALSE)
       ELSE IF first = NoBlock /\ a.failed THEN a
       ELSE IF e.ino.cache_raw = offset
       THEN IndirectLoop([e EXCEPT !.strayed = e.stale], rw, e.ino.cache_addr_block, e.ino.cache_offset, n, offset + n)
       ELSE IndirectLoop(e, rw, e.ino.next_addr_block, offset, n, offset + n)

\* data_rw: direct blocks first.
RECURSIVE DataRW(_, _, _, _)
DataRW(d, rw, offset, n) ==
    LET o == offset % BlockSize
        k == Min({n, BlockSize - o})
    IN IF d.failed \/ n = 0 THEN d
       ELSE IF offset < DirectDataSize
       THEN DataRW(DirectRW(d, rw, offset \div BlockSize, o, k), rw, offset + k, n - k)
       ELSE IndirectPart(d, rw, offset - DirectDataSize, n)

-----------------------------------------------------------------------------
(* Operations *)

MayTransfer(f, offset, n) ==
    /\ ops < MaxOps
    /\ f \in linked
    /\ offset + n <= MaxOffset

\* What data_rw leaves behind, finished or failed.
Commit(f, d, ino) ==
    /\ block' = d.block
    /\ bitmap' = d.bitmap
    /\ next_free_bitmap' = d.nfb
    /\ used_generic_blocks' = d.used
    /\ inode' = [inode EXCEPT ![f] = ino]
    /\ stale' = [stale EXCEPT ![f] = d.stale]
    /\ strayed' = (strayed \/ d.strayed)
    /\ ops' = ops + 1
    /\ UNCHANGED <<linked, lost>>

\* write(): the size grows only if the transfer is complete.  Every write has a
\* value of its own.
Write(f, offset, n) ==
    /\ MayTransfer(f, offset, n)
    /\ LET v == ops + 1
           d == DataRW(Disk(f), [write |-> TRUE, value |-> v], offset, n)
       IN /\ Commit(f, d, IF d.failed THEN d.ino ELSE [d.ino EXCEPT !.size = Max({@, offset + n})])
          /\ written' = [written EXCEPT ![f] =
                            [w \in Offsets |-> IF w \in offset .. offset + d.done - 1 THEN v ELSE @[w]]]

\* read(), which changes the remembered position and may create address blocks.
Read(f, offset, n) ==
    /\ MayTransfer(f, offset, n)
    /\ LET d == DataRW(Disk(f), [write |-> FALSE, value |-> 0], offset, n)
       IN Commit(f, d, d.ino)
    /\ UNCHANGED written

\* The address blocks of a file in their order.
RECURSIVE ChainFrom(_, _)
ChainFrom(b, bound) ==
    IF b = NoBlock \/ bound = 0 THEN <<>> ELSE <<b>> \o ChainFrom(block[b][0], bound - 1)

AddrBlocks(f) == ChainFrom(inode[f].next_addr_block, TotalBlocks)

DirectRefs(f) == {i \in DOMAIN inode[f].addrs : inode[f].addrs[i] /= NoBlock}

IndirectRefs(f) ==
    LET chain == AddrBlocks(f)
    IN {r \in (DOMAIN chain) \X (1 .. NumAddrs) : block[chain[r[1]]][r[2]] /= NoBlock}

DataBlocks(f) ==
    LET chain == AddrBlocks(f)
    IN {inode[f].addrs[i] : i \in DirectRefs(f)} \cup
           {block[chain[r[1]]][r[2]] : r \in IndirectRefs(f)}

\* How many blocks a file refers to, a block counted as often as it is named.
Refs(f) == Cardinality(DirectRefs(f)) + Len(AddrBlocks(f)) + Cardinality(IndirectRefs(f))

\* Fault: address blocks are not freed.
ReleasedData(f) == DataBlocks(f)

\* The blocks that truncate() frees, one free_block() for every reference.
Released(f) == DataBlocks(f) \cup ToSet(AddrBlocks(f))

\* truncate(0); an inode of size 0 is left as it is, so that blocks of a first
\* write that failed stay with it.  The remembered position is kept.
TruncateData(f) ==
    IF inode[f].size = 0
    THEN UNCHANGED <<bitmap, used_generic_blocks, inode, stale>>
    ELSE /\ bitmap' = bitmap \ Released(f)
         /\ used_generic_blocks' = used_generic_blocks - Refs(f)
         /\ inode' = [inode EXCEPT ![f].size = 0, ![f].addrs = NewInode.addrs,
                                   ![f].next_addr_block = NoBlock]
         /\ stale' = [stale EXCEPT ![f] = TRUE]

Truncate(f) ==
    /\ ops < MaxOps
    /\ f \in linked
    /\ inode[f].size /= 0
    /\ TruncateData(f)
    /\ written' = [written EXCEPT ![f] = [w \in Offsets |-> 0]]
    /\ ops' = ops + 1
    /\ UNCHANGED <<block, next_free_bitmap, linked, strayed, lost>>

\* unlink() of the last name: truncate, flush, free_inode.
UnlinkLast(f) ==
    /\ ops < MaxOps
    /\ f \in linked
    /\ TruncateData(f)
    /\ linked' = linked \ {f}
    /\ lost' = IF inode[f].size = 0 THEN lost \cup Released(f) ELSE lost
    /\ ops' = ops + 1
    /\ UNCHANGED <<block, next_free_bitmap, written, strayed>>

\* alloc_inode() of the number that was freed, with init_data() of the object
\* that is still cached for it.
Recreate(f) ==
    /\ ops < MaxOps
    /\ f \notin linked
    /\ linked' = linked \cup {f}
    /\ inode' = [inode EXCEPT ![f].size = 0, ![f].addrs = NewInode.addrs,
                              ![f].next_addr_block = NoBlock]
    /\ stale' = [stale EXCEPT ![f] = TRUE]
    /\ written' = [written EXCEPT ![f] = [w \in Offsets |-> 0]]
    /\ ops' = ops + 1
    /\ UNCHANGED <<block, bitmap, next_free_bitmap, used_generic_blocks, strayed, lost>>

\* kernel_inode_cache gives file f, which is not cached, the object that served
\* file g: init() sets its number and the next load the rest, not the position.
\* When g is used again, it gets a new object.
Recycle(f, g) ==
    /\ CacheFull
    /\ ops < MaxOps
    /\ f /= g
    /\ inode' = [inode EXCEPT
                    ![f].cache_raw = inode[g].cache_raw,
                    ![f].cache_offset = inode[g].cache_offset,
                    ![f].cache_addr_block = inode[g].cache_addr_block,
                    ![g].cache_raw = -1, ![g].cache_offset = -1, ![g].cache_addr_block = -1]
    /\ stale' = [stale EXCEPT ![f] = TRUE, ![g] = FALSE]
    /\ ops' = ops + 1
    /\ UNCHANGED <<block, bitmap, next_free_bitmap, used_generic_blocks, linked, written, strayed,
                   lost>>

Init ==
    /\ block = [b \in Blocks |-> [w \in Words |-> 0]]
    /\ bitmap = {}
    /\ next_free_bitmap = 0
    /\ used_generic_blocks = 0
    /\ inode = [f \in Files |-> NewInode]
    /\ linked = Files
    /\ written = [f \in Files |-> [w \in Offsets |-> 0]]
    /\ stale = [f \in Files |-> FALSE]
    /\ strayed = FALSE
    /\ lost = {}
    /\ ops = 0

Next ==
    \E f \in Files :
        \/ \E offset \in Starts[f], n \in Lengths : Write(f, offset, n) \/ Read(f, offset, n)
        \/ Truncate(f) \/ UnlinkLast(f) \/ Recreate(f)
        \/ \E g \in Files : Recycle(f, g)

Spec == Init /\ [][Next]_vars

-----------------------------------------------------------------------------
(* Properties *)

\* What read() would return, as far as it gets.
Reading(f, offset, n) == DataRW(Disk(f), [write |-> FALSE, value |-> 0], offset, n)

Transfers ==
    {t \in UNION {{f} \X Starts[f] \X Lengths : f \in linked} : t[2] + t[3] <= MaxOffset}

\* As long as no transfer has started from a stale position, a read of a file
\* that does not start from one either returns the words that were last written
\* there, and zeros where nothing was: no write of this or another file,
\* complete or cut short by a full disk, shows through a block that was used for
\* something else before, also after truncations and after the inode number and
\* the object have served other files (data_rw, get_block_index).
ReadsBack ==
    ~strayed => \A t \in Transfers :
        LET d == Reading(t[1], t[2], t[3])
        IN ~d.strayed => \A i \in 1 .. d.done : d.out[i] = written[t[1]][t[2] + i - 1]

\* Every read returns what was last written there, wherever it starts and
\* whatever happened before, as the tests expect of a file they have written.
\* data_rw does not guarantee it: it does not ask whether the position it
\* remembers is still one of this file.
ReadsBackAlways ==
    \A t \in Transfers :
        LET d == Reading(t[1], t[2], t[3])
        IN \A i \in 1 .. d.done : d.out[i] = written[t[1]][t[2] + i - 1]

\* As long as no transfer has started from a stale position, a block whose bit
\* is set is used exactly once, as direct block, address block or data block of
\* one file, also after a full disk stopped a write half-way, or it was left
\* behind when a file of size 0 was deleted, whose first write had failed
\* (unlink, which truncates nothing then); a block whose bit is clear is used by
\* nobody; and the super block counts the bits.
BlocksOwned ==
    ~strayed =>
        LET used == UNION {DataBlocks(f) \cup ToSet(AddrBlocks(f)) : f \in linked}
        IN /\ used \cap lost = {} /\ used \cup lost = bitmap
           /\ MapThenSumSet(Refs, linked) = Cardinality(used)
           /\ used_generic_blocks = Cardinality(bitmap)
====
