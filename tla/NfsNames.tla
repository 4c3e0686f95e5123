---- MODULE NfsNames ----
(***************************************************************************)
(* Directories, inode numbers, the dentry cache, mount and unmount of nfs  *)
(* (fs/nfs/nfs.cc, fs/nfs/inode.cc, fs/dentry.cc).                         *)
(*                                                                         *)
(* The inode table is an array of dinodes; entry 0 is the head of the list *)
(* of free inode numbers.  A directory is an array of dirents.  Both are   *)
(* files, whose reading and writing is the subject of NfsInode; here an    *)
(* entry is written at once, and past the end of a file there are zeros.   *)
(*                                                                         *)
(* One client calls the operations of directories one after the other, as  *)
(* test_nfs.cc does, so each of them is one step; other tasks hold inodes  *)
(* (open files, the result of get_root) and let go of them at any time.    *)
(* unmount is several steps, because that is where they meet.              *)
(***************************************************************************)
EXTENDS Integers, FiniteSetsExt, SequencesExt

CONSTANTS Names,        \* names of files, not the empty name of the root
          RootName,     \* the empty name
          Buckets,      \* functions from names to hash_table indices that are tried
          Begins,       \* <<x, y>>: the name y begins with x
          MaxInode,     \* bound: largest inode number
          MaxCalls,     \* bound: calls of the client
          MaxMounts,    \* bound: mounts
          UseStale      \* the client uses dentries of names that were unlinked

Inodes == 1 .. MaxInode
Root == 1

ASSUME NamesAssumption ==
    /\ Begins \subseteq (Names \cup {RootName}) \X (Names \cup {RootName})
    /\ \A x \in Names \cup {RootName} : <<x, x>> \in Begins /\ <<RootName, x>> \in Begins
    /\ RootName \notin Names
    /\ \A b \in Buckets : DOMAIN b = Names \cup {RootName}

VARIABLES nfs,          \* the file system in memory and on disk, see NewFs
          phase,        \* mounted, unmounted, or the step of unmount
          cur,          \* dentry at which the client's path walk stands
          held,         \* inodes held by tasks, with the type of the pointer
          orphans,      \* inodes erased from the cache while somebody held them
          parked,       \* those of them to which the erased list cell still points
          puts,         \* scheduled put_inode tasks, with their next step
          failed_count, no_ref_count, wait_count,
          saved,        \* superblock on disk
          before,       \* history: the names when unmount was called
          bucket,       \* hash_table index of every name
          calls, mounts

namesVars == <<nfs, phase, cur, held, orphans, parked, puts, failed_count, no_ref_count,
               wait_count, saved, before, bucket, calls, mounts>>

NoMeta == [type |-> "NONE", nlinks |-> 0, size |-> 0]
NoInode == [cached |-> FALSE, valid |-> FALSE, dirty |-> FALSE, meta |-> NoMeta]

\* make_fs: the root and the head of the free list, which is the number after
\* the root; dinodes that were never written are zero.
NewFs ==
    [table |-> [n \in 0 .. MaxInode |->
                  CASE n = 0 -> [type |-> "NEXT_FREE_INODE", nlinks |-> 1, size |-> Root + 1]
                    [] n = Root -> [type |-> "DIR", nlinks |-> 1, size |-> 0]
                    [] OTHER -> NoMeta],
     size |-> Root + 1,                         \* of the inode table
     ninodes |-> 2,
     content |-> [n \in Inodes |-> <<>>],       \* dirents of directories
     icache |-> [n \in Inodes |-> NoInode],     \* kernel_inode_cache
     dentries |-> <<>>,                         \* kernel_dentry_cache, front first
     next |-> 1]                                \* address of the next dentry

-----------------------------------------------------------------------------
\* Inodes.  get_inode: the cached inode, or a new one that is not loaded.
GetInode(f, n) == IF f.icache[n].cached THEN f ELSE [f EXCEPT !.icache[n].cached = TRUE]

\* load and __load.
LoadInode(f, n) ==
    IF f.icache[n].valid THEN f
    ELSE [f EXCEPT !.icache[n] = [@ EXCEPT !.valid = TRUE, !.dirty = FALSE, !.meta = f.table[n]]]

\* The metadata a load leaves in memory.
MetaOf(f, n) == IF f.icache[n].valid THEN f.icache[n].meta ELSE f.table[n]

WriteTable(f, n, meta) == [f EXCEPT !.table[n] = meta, !.size = Max({@, n + 1})]

\* flush and __flush.
FlushInode(f, n) ==
    IF f.icache[n].valid /\ f.icache[n].dirty
    THEN [WriteTable(f, n, f.icache[n].meta) EXCEPT !.icache[n].dirty = FALSE]
    ELSE f

NextNumber(f) == f.table[0].size

\* Fault: numbers that were freed are not chained.
AfterNextPlain(f) == NextNumber(f) + 1

\* The head of the free list once its first number is taken.
AfterNext(f) == LET n == NextNumber(f)
                IN IF f.table[n].type = "NEXT_FREE_INODE" THEN f.table[n].size ELSE n + 1

\* alloc_inode, with init_data.
AllocInode(f) ==
    LET n == NextNumber(f)
        g == GetInode([f EXCEPT !.table[0].size = AfterNext(f), !.ninodes = @ + 1], n)
    IN [g EXCEPT !.icache[n] = [@ EXCEPT !.valid = TRUE, !.dirty = TRUE, !.meta = NoMeta]]

\* free_inode.  The link count it writes is uninitialised; alloc_inode clears it.
FreeInode(f, n) ==
    [WriteTable(f, n, [type |-> "NEXT_FREE_INODE", nlinks |-> 0, size |-> NextNumber(f)])
        EXCEPT !.table[0].size = n, !.ninodes = @ - 1]

-----------------------------------------------------------------------------
\* The dentry cache.
Dentry(f, id) == LET k == CHOOSE i \in DOMAIN f.dentries : f.dentries[i].id = id
                 IN f.dentries[k]

\* Fault: a new dentry at the end of its bucket.
AddDentryLast(f, name, parent, n) ==
    [f EXCEPT !.dentries = @ \o <<[id |-> f.next, name |-> name, parent |-> parent, inode |-> n]>>,
              !.next = @ + 1]

\* __get_free_dentry, __add: a new dentry at the front; none is ever reused.
AddDentry(f, name, parent, n) ==
    [f EXCEPT !.dentries = <<[id |-> f.next, name |-> name, parent |-> parent, inode |-> n]>> \o @,
              !.next = @ + 1]

\* dentry_cache::create with no inode, for a name that is to be linked.
CreateDentry(f, name, parent) == AddDentry(f, name, parent, 0)

\* dentry_cache::destroy.
DestroyDentries(f) == [f EXCEPT !.dentries = <<>>, !.next = 1]

\* The dentries of the bucket that lookup takes for the name: strncmp compares
\* as many characters as the name asked for has.
Matches(f, parent, name) ==
    {k \in DOMAIN f.dentries :
        /\ bucket[f.dentries[k].name] = bucket[name]
        /\ <<name, f.dentries[k].name>> \in Begins
        /\ f.dentries[k].parent = parent}

SetDentry(f, id, field, v) ==
    [f EXCEPT !.dentries = [k \in DOMAIN @ |->
        IF @[k].id = id THEN [@[k] EXCEPT ![field] = v] ELSE @[k]]]

\* dentry_cache::lookup: the first match, moved to the front.
MoveToFront(f, k) == [f EXCEPT !.dentries = <<@[k]>> \o RemoveAt(@, k)]

-----------------------------------------------------------------------------
\* Directories.  The entry for a name in directory d, 0 if there is none.
Entry(f, d, name) ==
    LET ks == {k \in DOMAIN f.content[d] :
                 /\ k <= MetaOf(f, d).size
                 /\ f.content[d][k].inode /= 0
                 /\ f.content[d][k].name = name}
    IN IF ks = {} THEN 0 ELSE Min(ks)

\* The first unused entry, or the one after the last.
FreeEntry(f, d) ==
    LET size == f.icache[d].meta.size
    IN Min({k \in 1 .. size : f.content[d][k].inode = 0} \cup {size + 1})

\* nfs_inode::lookup for dentry id in directory d, and what get does with it.
LookupDentry(f, id, d) ==
    LET g == LoadInode(f, d)
        k == Entry(g, d, Dentry(g, id).name)
        n == g.content[d][k].inode
    IN IF k = 0 THEN SetDentry(g, id, "parent", 0)
       ELSE SetDentry(LoadInode(GetInode(g, n), n), id, "inode", n)

\* dentry_cache::get.
Get(f, parent, name) ==
    LET ks == Matches(f, parent, name)
    IN IF ks /= {} THEN MoveToFront(f, Min(ks))
       ELSE LookupDentry(AddDentry(f, name, parent, 0), f.next, Dentry(f, parent).inode)

\* The dentry that get returns, which is now the first one; 0 for nullptr.
Got(f, parent) == IF Head(f.dentries).parent = parent THEN Head(f.dentries).id ELSE 0

\* get_or_create, for the inode n of a directory entry.
GetOrCreate(f, parent, name, n) ==
    LET ks == Matches(f, parent, name)
    IN IF ks /= {} THEN MoveToFront(f, Min(ks)) ELSE AddDentry(f, name, parent, n)

\* Fault: the link is not counted.
CountLinkNot(f, n) == f

CountLink(f, n) == [f EXCEPT !.icache[n].meta.nlinks = @ + 1, !.icache[n].dirty = TRUE]

\* __link: dentry id becomes a name of inode n in directory d.
LinkEntry(f, id, n, d) ==
    LET h == SetDentry(CountLink(LoadInode(f, n), n), id, "inode", n)
        k == FreeEntry(h, d)
        e == [inode |-> n, name |-> Dentry(f, id).name]
    IN [h EXCEPT !.content[d] = IF k <= Len(@) THEN [@ EXCEPT ![k] = e] ELSE Append(@, e),
                 !.icache[d].meta.size = Max({@, k}),
                 !.icache[d].dirty = @ \/ k > h.icache[d].meta.size]

\* create and mkdir, for a dentry that dentry_cache::create has just made.
CreateIn(f, parent, name, type) ==
    LET d == Dentry(f, parent).inode
        g == LoadInode(CreateDentry(f, name, parent), d)
        n == NextNumber(g)
    IN LinkEntry([AllocInode(g) EXCEPT !.icache[n].meta.type = type], f.next, n, d)

\* The inode of the last name: truncate, flush, free_inode.
Discard(f, n) ==
    LET g == [f EXCEPT !.icache[n] = [@ EXCEPT !.dirty = @ \/ f.icache[n].meta.size /= 0,
                                               !.meta.size = 0],
                       !.content[n] = <<>>]
    IN [FreeInode(FlushInode(g, n), n) EXCEPT !.icache[n].valid = FALSE,
                                              !.icache[n].dirty = FALSE]

\* unlink of dentry id from directory d, if it has an entry of that name.
UnlinkIn(f, id, d) ==
    LET n == Dentry(f, id).inode
        e == Entry(f, d, Dentry(f, id).name)
        g == [LoadInode(LoadInode(f, d), n) EXCEPT !.icache[n].meta.nlinks = @ - 1]
        h == IF g.icache[n].meta.nlinks = 0 THEN Discard(g, n)
             ELSE [g EXCEPT !.icache[n].dirty = TRUE]
    IN IF e = 0 THEN LoadInode(f, d) ELSE [h EXCEPT !.content[d][e].inode = 0]

-----------------------------------------------------------------------------
\* What can be seen of the directories.
NameOf(f, d, name) ==
    LET k == Entry(f, d, name)
    IN IF MetaOf(f, d).type /= "DIR" \/ k = 0 THEN 0 ELSE f.content[d][k].inode

Visible(f) == [p \in Inodes \X Names |-> NameOf(f, p[1], p[2])]

\* The dentry that a walk of one component finds in the cache.
FirstMatch(f, parent, name) ==
    LET ks == Matches(f, parent, name)
    IN IF ks = {} THEN {} ELSE {f.dentries[Min(ks)].id}

\* The newest dentry of every path of existing names.
Newest(f, parent, name) ==
    LET ks == {k \in DOMAIN f.dentries : f.dentries[k].parent = parent /\ f.dentries[k].name = name}
    IN IF ks = {} THEN {} ELSE {f.dentries[Min(ks)].id}

Walked(f) ==
    LET present(id) == {name \in Names : NameOf(f, Dentry(f, id).inode, name) /= 0}
        R[k \in 0 .. MaxInode] ==
            IF k = 0 THEN Newest(f, 0, RootName)
            ELSE LET r == R[k - 1]
                 IN r \cup UNION {Newest(f, p[1], p[2]) :
                                    p \in {q \in r \X Names : q[2] \in present(q[1])}}
    IN R[MaxInode]

-----------------------------------------------------------------------------
\* The client.
HasInode(id) == id /= 0 /\ Dentry(nfs, id).inode /= 0

IsDir(id) == HasInode(id) /\ MetaOf(nfs, Dentry(nfs, id).inode).type = "DIR"

Usable(id) == HasInode(id) /\ (UseStale \/ id \in Walked(nfs))

Step(f) ==
    /\ phase = "mounted"
    /\ nfs' = f
    /\ UNCHANGED <<phase, held, orphans, parked, puts, failed_count, no_ref_count, wait_count,
                   saved, before, mounts>>

Call(f) == Step(f) /\ calls < MaxCalls /\ calls' = calls + 1

\* get_at, one component of a path after the other.  With components left after
\* one that does not exist the code follows a null pointer; the client has
\* none.
WalkRoot ==
    /\ phase = "mounted" /\ ~Usable(cur)
    /\ LET f == MoveToFront(nfs, Min(Matches(nfs, 0, RootName)))
       IN Step(f) /\ cur' = Got(f, 0)
    /\ UNCHANGED calls

WalkDown(name) ==
    /\ Usable(cur) /\ IsDir(cur)
    /\ LET f == Get(nfs, cur, name) IN Call(f) /\ cur' = Got(f, cur)

WalkUp ==
    /\ Usable(cur)
    /\ Dentry(nfs, cur).parent /= 0
    /\ Step(nfs)
    /\ cur' = Dentry(nfs, cur).parent
    /\ UNCHANGED calls

\* The name is new: the code does not look.
CreateFile(name, type) ==
    /\ Usable(cur) /\ IsDir(cur)
    /\ NameOf(nfs, Dentry(nfs, cur).inode, name) = 0
    /\ NextNumber(nfs) <= MaxInode
    /\ Call(CreateIn(nfs, cur, name, type))
    /\ UNCHANGED cur

Link(old, name) ==
    /\ Usable(cur) /\ IsDir(cur)
    /\ Usable(old) /\ ~IsDir(old)
    /\ NameOf(nfs, Dentry(nfs, cur).inode, name) = 0
    /\ LET d == Dentry(nfs, cur).inode
           f == LoadInode(CreateDentry(nfs, name, cur), d)
       IN Call(LinkEntry(f, nfs.next, Dentry(nfs, old).inode, d))
    /\ UNCHANGED cur

\* unlink of the dentry that the path leads to.  The code would also unlink a
\* directory that is not empty.
Unlink(name) ==
    /\ Usable(cur) /\ IsDir(cur)
    /\ LET d == Dentry(nfs, cur).inode
           n == NameOf(nfs, d, name)
           f == Get(nfs, cur, name)
           id == Got(f, cur)
       IN /\ n /= 0
          /\ \A m \in Names : NameOf(nfs, Dentry(f, id).inode, m) = 0
          /\ Call(UnlinkIn(f, id, d))
    /\ UNCHANGED cur

\* read_dir: a generator at its k-th entry.
ReadDir(k) ==
    /\ Usable(cur) /\ IsDir(cur)
    /\ LET d == Dentry(nfs, cur).inode
           f == LoadInode(nfs, d)
       IN /\ k \in 1 .. f.icache[d].meta.size
          /\ f.content[d][k].inode /= 0
          /\ LET e == f.content[d][k]
             IN Call(GetOrCreate(GetInode(f, e.inode), cur, e.name, e.inode))
    /\ UNCHANGED cur

\* The first write of a file.
WriteFile ==
    /\ Usable(cur) /\ ~IsDir(cur)
    /\ LET n == Dentry(nfs, cur).inode
           f == LoadInode(nfs, n)
       IN /\ f.icache[n].meta.size = 0
          /\ Call([f EXCEPT !.icache[n].meta.size = 1, !.icache[n].dirty = TRUE])
    /\ UNCHANGED cur

\* A task takes an inode: the root with get_root, a file as simple_file does.
Hold(kind, n) ==
    /\ \/ kind = "nfs_inode" /\ n = Root
       \/ kind = "inode" /\ Usable(cur) /\ n = Dentry(nfs, cur).inode
    /\ <<kind, n>> \notin held
    /\ held' = held \cup {<<kind, n>>}
    /\ phase = "mounted" /\ calls < MaxCalls /\ calls' = calls + 1
    /\ UNCHANGED <<nfs, phase, cur, orphans, parked, puts, failed_count, no_ref_count, wait_count,
                   saved, before, mounts>>

-----------------------------------------------------------------------------
\* The pointers to an erased inode: those of tasks, and the one in the list cell
\* that held it.  An erased cell is kept for the next push with what is in it.
LastPointer(n, tasks, cells) == n \in orphans \ cells /\ \A h \in tasks : h[2] /= n

\* The end of an inode.
DeleteInode(n) ==
    /\ nfs' = [nfs EXCEPT !.icache[n] = NoInode]
    /\ orphans' = orphans \ {n}

\* A pointer goes.  The last one to an nfs_inode runs on_destroy, which
\* schedules put_inode if there is something to flush; a pointer to its base
\* class inode has no on_destroy.
Release(h) ==
    /\ h \in held
    /\ held' = held \ {h}
    /\ LET n == h[2]
           last == LastPointer(n, held', parked)
           flush_needed == nfs.icache[n].valid /\ nfs.icache[n].dirty
       IN \/ /\ last /\ h[1] = "nfs_inode" /\ flush_needed
             /\ puts' = puts \cup {<<n, "flush">>}
             /\ UNCHANGED <<nfs, orphans>>
          \/ /\ last /\ ~(h[1] = "nfs_inode" /\ flush_needed)
             /\ DeleteInode(n)
             /\ UNCHANGED puts
          \/ /\ ~last
             /\ UNCHANGED <<nfs, orphans, puts>>
    /\ UNCHANGED <<phase, cur, parked, failed_count, no_ref_count, wait_count, saved, before,
                   calls, mounts>>

\* An inode of another file system takes the cell.  The pointer that was in it
\* is one to the base class.
ReuseCell(n) ==
    /\ n \in parked
    /\ parked' = parked \ {n}
    /\ IF LastPointer(n, held, parked') THEN DeleteInode(n) ELSE UNCHANGED <<nfs, orphans>>
    /\ UNCHANGED <<phase, cur, held, puts, failed_count, no_ref_count, wait_count, saved, before,
                   calls, mounts>>

\* Fault: put_inode does not flush.
PutFlushed(n) == nfs

\* put_inode: flush.
PutFlush(n) == FlushInode(nfs, n)

PutInode(n) ==
    /\ <<n, "flush">> \in puts
    /\ puts' = (puts \ {<<n, "flush">>}) \cup {<<n, "count">>}
    /\ nfs' = PutFlush(n)
    /\ UNCHANGED <<phase, cur, held, orphans, parked, failed_count, no_ref_count, wait_count,
                   saved, before, calls, mounts>>

\* __put_inode, then the end of the inode.
PutInodeCount(n) ==
    /\ <<n, "count">> \in puts
    /\ puts' = puts \ {<<n, "count">>}
    /\ DeleteInode(n)
    /\ no_ref_count' = IF phase /= "mounted" /\ wait_count /= -1
                       THEN no_ref_count + 1 ELSE no_ref_count
    /\ UNCHANGED <<phase, cur, held, parked, failed_count, wait_count, saved, before, calls, mounts>>

-----------------------------------------------------------------------------
\* mount.  What the superblock on disk does not reach of the inode table is
\* lost; other inodes are not cached yet.
OnDisk == [nfs EXCEPT !.table = [n \in 0 .. MaxInode |->
              IF n < saved.size THEN @[n] ELSE NoMeta]]

Mount ==
    /\ phase = "unmounted"
    /\ mounts < MaxMounts
    /\ mounts' = mounts + 1
    /\ phase' = "mounted"
    /\ nfs' = AddDentry(GetInode([OnDisk EXCEPT !.size = saved.size, !.ninodes = saved.ninodes],
                                 Root), RootName, 0, Root)
    /\ wait_count' = -1
    /\ UNCHANGED <<cur, held, orphans, parked, puts, failed_count, no_ref_count, saved, before, calls>>

\* unmount, up to the dentry cache, which it clears.
UnmountBegin ==
    /\ phase = "mounted"
    /\ phase' = "destroy"
    /\ cur' = 0
    /\ before' = Visible(nfs)
    /\ nfs' = DestroyDentries(nfs)
    /\ UNCHANGED <<held, orphans, parked, puts, failed_count, no_ref_count, wait_count, saved,
                   calls, mounts>>

\* kernel_inode_cache.destroy: inodes that only the cache points to are set
\* aside to be flushed, the others are erased.  The list keeps up to eight
\* erased cells, and deletes the others with their pointers.
UnmountErase ==
    /\ phase = "destroy"
    /\ phase' = "flush"
    /\ orphans' = {n \in Inodes : nfs.icache[n].cached /\ \E h \in held : h[2] = n}
    /\ parked' \in SUBSET orphans'
    /\ failed_count' = Cardinality(orphans')
    /\ UNCHANGED <<nfs, cur, held, puts, no_ref_count, wait_count, saved, before, calls, mounts>>

\* One of the inodes set aside; they are taken in the order of their numbers,
\* where the code follows the list.
FlushOne(f, n) == [FlushInode(f, n) EXCEPT !.icache[n] = NoInode]

UnmountFlush ==
    /\ phase = "flush"
    /\ LET ns == {n \in Inodes \ orphans : nfs.icache[n].cached}
       IN ns /= {} /\ nfs' = FlushOne(nfs, Min(ns))
    /\ UNCHANGED <<phase, cur, held, orphans, parked, puts, failed_count, no_ref_count, wait_count,
                   saved, before, calls, mounts>>

\* Wait for the erased inodes, if there are any.
UnmountCount ==
    /\ phase = "flush"
    /\ \A n \in Inodes \ orphans : ~nfs.icache[n].cached
    /\ IF failed_count /= 0
       THEN no_ref_count' = 0 /\ wait_count' = failed_count
       ELSE UNCHANGED <<no_ref_count, wait_count>>
    /\ phase' = "wait"
    /\ UNCHANGED <<nfs, cur, held, orphans, parked, puts, failed_count, saved, before, calls, mounts>>

\* Then the inode table and the superblock.
UnmountEnd ==
    /\ phase = "wait"
    /\ failed_count = 0 \/ no_ref_count = failed_count
    /\ phase' = "unmounted"
    /\ saved' = [size |-> nfs.size, ninodes |-> nfs.ninodes]
    /\ UNCHANGED <<nfs, cur, held, orphans, parked, puts, failed_count, no_ref_count, wait_count,
                   before, calls, mounts>>

-----------------------------------------------------------------------------
NamesInit ==
    /\ nfs = NewFs
    /\ phase = "unmounted"
    /\ cur = 0
    /\ held = {} /\ orphans = {} /\ parked = {} /\ puts = {}
    /\ bucket \in Buckets
    /\ failed_count = 0 /\ no_ref_count = 0 /\ wait_count = -1
    /\ saved = [size |-> NewFs.size, ninodes |-> NewFs.ninodes]
    /\ before = [p \in Inodes \X Names |-> 0]
    /\ calls = 0 /\ mounts = 0

NamesNext ==
    /\ UNCHANGED bucket
    /\ \/ Mount \/ WalkRoot \/ WalkUp \/ WriteFile
       \/ \E name \in Names :
            \/ WalkDown(name) \/ Unlink(name)
            \/ \E type \in {"FILE", "DIR"} : CreateFile(name, type)
            \/ \E old \in Walked(nfs) : Link(old, name)
       \/ \E k \in 1 .. MaxCalls : ReadDir(k)
       \/ \E n \in Inodes :
            \/ \E kind \in {"inode", "nfs_inode"} : Hold(kind, n) \/ Release(<<kind, n>>)
            \/ PutInode(n) \/ PutInodeCount(n) \/ ReuseCell(n)
       \/ UnmountBegin \/ UnmountErase \/ UnmountFlush \/ UnmountCount \/ UnmountEnd

NamesSpec == NamesInit /\ [][NamesNext]_namesVars

-----------------------------------------------------------------------------
\* The names on disk while unmounted, those in memory while mounted, and while
\* unmount runs those it has to save.
CurrentNames == CASE phase = "mounted" -> Visible(nfs)
                  [] phase = "unmounted" -> Visible(OnDisk)
                  [] OTHER -> before

NS == INSTANCE NameSpace WITH names <- CurrentNames

\* Directories are a map of names: every call changes one binding or none, a
\* new file gets an inode no name leads to, and when unmount has returned, the
\* disk has the names there were when it was called, whatever inodes other
\* tasks held and let go of meanwhile (create, mkdir, link, unlink, unmount,
\* mount).
ImplementsNameSpace == NS!Spec

\* While mounted, the link count of an inode is the number of directory
\* entries that name it, over both copies of its metadata (__link, unlink).
LinksCounted ==
    phase = "mounted" =>
        LET names == Visible(nfs)
        IN \A n \in Inodes \ {Root} :
             LET links == Cardinality({p \in DOMAIN names : names[p] = n})
             IN links > 0 => /\ MetaOf(nfs, n).nlinks = links
                             /\ MetaOf(nfs, n).type \in {"FILE", "DIR"}

\* While mounted, the chain of free inode numbers has no cycle and reaches no
\* inode that has a name, no number is lost, and ninodes counts those in use
\* (alloc_inode, free_inode).
InodesOwned ==
    phase = "mounted" =>
        LET freed == {n \in Inodes : ~nfs.icache[n].valid /\ nfs.table[n].type = "NEXT_FREE_INODE"}
            R[k \in 0 .. MaxInode] ==
                IF k = 0 THEN <<NextNumber(nfs)>>
                ELSE LET r == R[k - 1]
                     IN IF Last(r) \in freed THEN Append(r, nfs.table[Last(r)].size) ELSE r
            chain == R[MaxInode]
            used == Range(Visible(nfs)) \ {0}
        IN /\ IsInjective(chain)
           /\ ToSet(Front(chain)) = freed
           /\ used = {n \in Inodes \ {Root} : n < Last(chain)} \ freed
           /\ nfs.ninodes = 2 + Cardinality(used)

\* Another name than the one asked for passes lookup's comparison.
Mistaken(parent, name) == \E k \in Matches(nfs, parent, name) : nfs.dentries[k].name /= name

\* A walk over an existing name ends at the inode the directory entry names,
\* and one from the top at the root, whatever dentries of names unlinked since
\* and of failed lookups are still cached, in the same bucket or not; unless the
\* bucket has a dentry of the same parent with a longer name that begins with
\* the one asked for, which lookup does not tell from it (dentry_cache::lookup,
\* get, __add).
Resolves ==
    phase = "mounted" =>
        /\ ~Mistaken(0, RootName) => FirstMatch(nfs, 0, RootName) = Newest(nfs, 0, RootName)
        /\ \A id \in Walked(nfs), name \in Names :
             LET n == NameOf(nfs, Dentry(nfs, id).inode, name)
             IN n /= 0 /\ ~Mistaken(id, name) =>
                    \A m \in FirstMatch(nfs, id, name) : Dentry(nfs, m).inode = n
====
