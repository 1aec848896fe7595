------------------------------- MODULE ExtFs --------------------------------
\* The ext2 file system (userland/extfs/extfs.cpp): what its handlers do to the disk, next to
\* what the handlers of TmpFs do to an abstract tree.
\*
\* The server is one thread and a request is handled to its end, so a request is a step. The
\* disk and the memory of the server are a record
\*   table, mem     the inodes on disk, and inode_data of the file entries in memory (of an
\*                  inode that no pseudo fd refers to, the two are the same between requests)
\*   ibits, bbits   the bits set in the bitmaps of inodes and of blocks
\*   groups, sb     the counters in the group descriptors and in the superblock
\*   content        the blocks: records of a directory, pointers, or data
\*   open           pseudo_fds
\*   failed         the assertion that failed
\* A handler gives [w, err, val], where an error keeps what was done before it was thrown.
\* Space in a directory block is counted in units of four bytes, space in a file in units of
\* which a block holds BlockSize. Times, permissions, sectorcount and num_directories are left
\* out, as are
\* errors of the block device.
EXTENDS TmpFs, SequencesExt, Integers

CONSTANTS FirstBlock,       \* first_block: 1 if blocks have 1024 bytes
          Groups,           \* number_of_block_groups
          BlocksPerGroup, InodesPerGroup,
          FirstInode,       \* first_nonreserved_inode
          Direct,           \* direct block pointers in an inode: 12 in the code
          PointersPerBlock,
          BlockSize,        \* units of data in a block
          DirSize,          \* units of four bytes in a block of a directory
          NameSize,         \* units of four bytes that a name takes
          OthersTake,       \* the bits that may be taken at first
          MaxRequests       \* requests made

VARIABLES ext,       \* the disk and the memory of the server
          abs,       \* the abstract file system, of the same requests
          id,        \* history: the abstract node of an inode
          held,      \* an inode number that the kernel has looked up and not opened yet
          agree,     \* history: the requests had the answers of the abstract file system
          torn,      \* history: inodes that ran out of space and were not written since
          leaked,    \* history: bits of blocks that are lost by then
          extodd,    \* history: operations after which the disk is wrong
          others,    \* bits of the blocks that files outside this tree take
          requests   \* requests made, bounded by MaxRequests

xvars == <<ext, abs, id, held, agree, torn, leaked, extodd, others, requests>>

RootInode == 2
Inodes == 1 .. Groups * InodesPerGroup
Bits == 0 .. Groups * BlocksPerGroup - 1
BlocksOnDisk == FirstBlock .. Groups * BlocksPerGroup + FirstBlock - 1
GroupOfInode(i) == (i - 1) \div InodesPerGroup

R(w, err, val) == [w |-> w, err |-> err, val |-> val]
Done(w, val) == R(w, "ok", val)
Throw(w, e) == R(w, e, 0)
Assertion(w, name) == R([w EXCEPT !.failed = name], "assert", 0)
\* Bind(v, F) is F(v), with v evaluated once. Then goes on after a call that did not throw.
Bind(v, F(_)) == CHOOSE y \in {F(x) : x \in {v}} : TRUE
Then(r, F(_, _)) == Bind(r, LAMBDA x : IF x.err = "ok" THEN F(x.w, x.val) ELSE x)

\* ------------------------------------------------------------ blocks and inodes

Zeroes == [u \in 1 .. BlockSize |-> Hole]
Inode(type, nlink, size, ptr) ==
  [type |-> type, nlink |-> nlink, size |-> size, ptr |-> ptr, ind |-> 0, target |-> <<>>]
NoInode == Inode("none", 0, 0, <<>>)

\* ext2_block_iterator: the direct pointers, then those in the singly indirect block, up to the
\* first that is zero. Pointers that are zero are left out of the sequences.
Blocks(w, i) == w.mem[i].ptr \o (IF w.mem[i].ind = 0 THEN <<>> ELSE w.content[w.mem[i].ind])

\* allocate_block: the first block that is free in the first group that has one.
allocate_block(w) ==
  LET Take(bit) ==
        LET g == bit \div BlocksPerGroup
            block == (bit % BlocksPerGroup) + FirstBlock
            set == g * BlocksPerGroup + block - 1
            b == block + g * BlocksPerGroup
        IN IF set \in w.bbits \/ w.groups[g].blocks = 0 \/ w.sb.blocks = 0 THEN Assertion(w, "bitmap")
           ELSE Done([w EXCEPT !.bbits = @ \cup {set}, !.groups[g].blocks = @ - 1, !.sb.blocks = @ - 1,
                               !.content[b] = Zeroes], b)
  IN IF Bits \subseteq w.bbits THEN Throw(w, "ENOSPC") ELSE Bind(Min(Bits \ w.bbits), Take)

\* deallocate_block, of the blocks of a sequence.
deallocate_blocks(w, s) ==
  LET bits == {b - FirstBlock : b \in Range(s)}
      In(g) == {b \in bits : b \div BlocksPerGroup = g}
  IN IF Cardinality(bits) # Len(s) \/ ~(bits \subseteq w.bbits) THEN [w EXCEPT !.failed = "deallocate"]
     ELSE [w EXCEPT !.bbits = @ \ bits, !.sb.blocks = @ + Len(s),
                    !.groups = [g \in DOMAIN @ |-> [@[g] EXCEPT !.blocks = @ + Cardinality(In(g))]]]

\* ext2_block_iterator::assign_new_block at the end of an inode, and the assertion of its
\* callers that no pointer follows the new one, which always holds here. (refblock is not
\* initialised in the branch that makes the indirect block: see Answered.)
assign_new_block(w, i) ==
  LET n == Len(Blocks(w, i))
      ind == w.mem[i].ind
      First(a, b) == [a EXCEPT !.mem[i].ind = b, !.content[b] = <<>>]
  IN IF n < Direct
     THEN Then(allocate_block(w), LAMBDA a, b : Done([a EXCEPT !.mem[i].ptr = Append(@, b)], b))
     ELSE IF n = Direct /\ ind # 0 THEN Assertion(w, "singly_blockptr")
     ELSE IF n = Direct
     THEN Then(allocate_block(w), LAMBDA a, b :
          Then(allocate_block(First(a, b)), LAMBDA c, d : Done([c EXCEPT !.content[b] = <<d>>], d)))
     ELSE IF n < Direct + PointersPerBlock
     THEN Then(allocate_block(w), LAMBDA a, b : Done([a EXCEPT !.content[ind] = Append(@, b)], b))
     ELSE Assertion(w, "doubly_blockptr")

write_inode(w, i) == [w EXCEPT !.table[i] = w.mem[i]]

\* allocate(entry, size): blocks up to `size', which becomes the size.
allocate_file(w, i, size) ==
  LET needed == (size + BlockSize - 1) \div BlockSize - Len(Blocks(w, i))
      Add(r, k) == Then(r, LAMBDA a, b : assign_new_block(a, i))
  IN Then(FoldLeft(Add, Done(w, 0), [k \in 1 .. needed |-> k]),
          LAMBDA a, b : Done([a EXCEPT !.mem[i].size = size], 0))

\* A mutant of deallocate_inode: the blocks of directories are not freed.
deallocate_inodeFiles(w, i) ==
  LET g == GroupOfInode(i)
      f == IF w.mem[i].type # "file" THEN w ELSE deallocate_blocks(w, Blocks(w, i))
  IN [f EXCEPT !.table[i] = NoInode, !.mem[i] = NoInode, !.ibits = @ \ {i},
               !.groups[g].inodes = @ + 1, !.sb.inodes = @ + 1]
\* deallocate_inode: the data blocks are freed, the indirect block is not.
deallocate_inode(w, i) ==
  LET g == GroupOfInode(i)
      f == IF w.mem[i].type = "link" THEN w ELSE deallocate_blocks(w, Blocks(w, i))
  IN [f EXCEPT !.table[i] = NoInode, !.mem[i] = NoInode, !.ibits = @ \ {i},
               !.groups[g].inodes = @ + 1, !.sb.inodes = @ + 1]

\* ~extfs_file_entry: file entries live as long as a pseudo fd or the handler refers to them,
\* and take the inode along if it has no links.
Referenced(w) == Range(w.open)
Dead(w) == {i \in w.ibits \ Referenced(w) : i >= FirstInode /\ w.mem[i].nlink = 0}
Dispose(w) ==
  Bind(FoldLeft(deallocate_inode, w, SetToSeq(Dead(w))),
       LAMBDA f : [f EXCEPT !.mem = [i \in Inodes |-> IF i \in Referenced(f) THEN @[i] ELSE f.table[i]]])

\* ------------------------------------------------------------------ directories

Entry(ino, name, size) == [ino |-> ino, name |-> name, size |-> size]
Needed(name) == 2 + NameSize[name]
\* readdir: the entries of a directory that are not removed.
Listing(w, dir) ==
  Bind(Blocks(w, dir), LAMBDA blocks :
       FlattenSeq([n \in DOMAIN blocks |-> SelectSeq(w.content[blocks[n]], LAMBDA e : e.ino # 0)]))
Find(w, dir, name) ==
  LET blocks == Range(Blocks(w, dir))
      naming == UNION {{e \in Range(w.content[b]) : e.ino # 0 /\ e.name = name} : b \in blocks}
  IN Bind(naming, LAMBDA es : IF es = {} THEN 0 ELSE (CHOOSE e \in es : TRUE).ino)
directory_is_empty(w, dir) == \A e \in Range(Listing(w, dir)) : e.name \in Dots

\* add_entry_into_directory: in a removed entry, behind an entry that leaves room, or in a new
\* block that it has for itself.
add_entry(w, dir, name, ino) ==
  LET blocks == Blocks(w, dir)
      Room(e) == \/ e.ino = 0 /\ e.size >= Needed(name)
                 \/ e.size - Needed(e.name) >= Needed(name)
      Into(b, k) ==
        LET e == w.content[b][k]
        IN IF e.ino = 0 THEN [w EXCEPT !.content[b][k] = Entry(ino, name, e.size)]
           ELSE [w EXCEPT !.content[b] = InsertAt(ReplaceAt(@, k, [e EXCEPT !.size = Needed(e.name)]), k + 1,
                                                  Entry(ino, name, e.size - Needed(e.name)))]
      Apart(a, b) == [write_inode([a EXCEPT !.mem[dir].size = @ + BlockSize], dir)
                        EXCEPT !.content[b] = <<Entry(ino, name, DirSize)>>]
  IN Bind(SelectInSeq(blocks, LAMBDA b : \E e \in Range(w.content[b]) : Room(e)), LAMBDA n :
       IF n = 0 THEN Then(assign_new_block(w, dir), LAMBDA a, b : Done(Apart(a, b), 0))
       ELSE Done(Into(blocks[n], SelectInSeq(w.content[blocks[n]], Room)), 0))

\* remove_entry_from_directory: an entry that is alone in its block is marked removed, the first
\* of several is overwritten by the second, any other is added to the one before it.
remove_entry(w, dir, name) ==
  LET blocks == Blocks(w, dir)
      Is(e) == e.name = name
      Without(es, k) ==
        LET keep == IF k = 1 THEN 2 ELSE k - 1
        IN IF Len(es) = 1 THEN <<Entry(0, "", DirSize)>>
           ELSE RemoveAt([es EXCEPT ![keep].size = @ + es[k].size], k)
  IN Bind(SelectInSeq(blocks, LAMBDA b : \E e \in Range(w.content[b]) : Is(e)), LAMBDA n :
       IF n = 0 THEN Throw(w, "ENOENT")
       ELSE Done([w EXCEPT !.content[blocks[n]] = Without(@, SelectInSeq(@, Is))], 0))

\* --------------------------------------------------------------------- handlers

Grown(w, dir) == [w EXCEPT !.mem[dir].nlink = @ + 1]
\* create: the first free inode; its entry; and in a new directory the entries for itself and
\* its parent. The scan stops in front of a group that starts with the last inode.
FreeInodes(w) ==
  {i \in FirstInode .. Groups * InodesPerGroup :
     /\ i \notin w.ibits
     /\ \/ GroupOfInode(i) = GroupOfInode(FirstInode) /\ FirstInode < Groups * InodesPerGroup
        \/ GroupOfInode(i) * InodesPerGroup + 1 < Groups * InodesPerGroup}
ext_create(w, fd, name, type) ==
  LET dir == w.open[fd]
      new == Inode(type, IF type = "dir" THEN 2 ELSE 1, 0, <<>>)
      Made(i) == [w EXCEPT !.table[i] = new, !.mem[i] = new, !.ibits = @ \cup {i},
                           !.groups[GroupOfInode(i)].inodes = @ - 1, !.sb.inodes = @ - 1]
      Dotted(a, i) == Then(add_entry(a, i, ".", i), LAMBDA b, v :
                      Then(add_entry(b, i, "..", dir), LAMBDA c, u : Done(Grown(c, dir), 0)))
      Entered(i) == Then(add_entry(Made(i), dir, name, i), LAMBDA a, v :
                         IF type = "dir" THEN Dotted(a, i) ELSE Done(a, 0))
  IN IF Find(w, dir, name) # 0 THEN Throw(w, "EEXIST")
     ELSE IF w.sb.inodes = 0 \/ FreeInodes(w) = {} THEN Throw(w, "ENOSPC")
     ELSE Bind(Min(FreeInodes(w)), LAMBDA i : Then(Entered(i), LAMBDA a, v : Done(write_inode(a, dir), i)))

\* lookup writes the inode of the directory, for its access time.
ext_lookup(w, fd, name, oflags) ==
  LET dir == w.open[fd]
      d == write_inode(w, dir)
  IN IF d.mem[dir].type # "dir" THEN Throw(d, "ENOTDIR")
     ELSE Bind(Find(d, dir, name), LAMBDA i :
       IF i \notin d.ibits
       THEN IF "creat" \in oflags THEN ext_create(d, fd, name, "file") ELSE Throw(d, "ENOENT")
       ELSE IF "excl" \in oflags THEN Throw(d, "EEXIST")
       ELSE Done(d, i))

\* open, by the number of the inode.
ext_open(w, ino) ==
  LET fd == CHOOSE n \in 0 .. Cardinality(DOMAIN w.open) : n \notin DOMAIN w.open
  IN IF ino \notin w.ibits THEN Throw(w, "ENOENT")
     ELSE IF w.mem[ino].type = "link" THEN Throw(w, "ELOOP")
     ELSE Done([write_inode(w, ino) EXCEPT !.open = @ @@ (fd :> ino)], fd)

ext_close(w, fd) == Done([w EXCEPT !.open = Restrict(@, DOMAIN @ \ {fd})], 0)

\* link writes the new count of links before it adds the entry.
ext_link(w, fd1, name1, fd2, name2) ==
  LET dir2 == w.open[fd2]
  IN Then(ext_lookup(w, fd1, name1, {}), LAMBDA a, i :
       IF a.mem[i].type = "dir" THEN Throw(a, "EPERM")
       ELSE IF Find(a, dir2, name2) # 0 THEN Throw(a, "EEXIST")
       ELSE Then(add_entry(write_inode(Grown(a, i), i), dir2, name2, i),
                 LAMBDA b, v : Done(write_inode(b, dir2), 0)))

\* symlink and readlink: the target is kept where the block pointers are.
ext_symlink(w, fd, target, name) ==
  Then(ext_create(w, fd, name, "link"), LAMBDA a, i :
       Done(write_inode([a EXCEPT !.mem[i].target = target, !.mem[i].size = Len(target)], i), i))
ext_readlink(w, fd, name) ==
  Then(ext_lookup(w, fd, name, {}), LAMBDA a, i :
       IF a.mem[i].type # "link" THEN Throw(a, "EINVAL") ELSE Done(a, a.mem[i].target))

Less(w, i, n) == [w EXCEPT !.mem[i].nlink = @ - n]
\* A mutant of Undotted: the parent keeps its count of links.
UndottedParent(w, i, dir) ==
  Then(remove_entry(w, i, ".."), LAMBDA a, v :
  Then(remove_entry(a, i, "."), LAMBDA b, u : Done(Less(b, i, 2), 0)))
\* What unlink does to a directory that it has taken out of its parent.
Undotted(w, i, dir) ==
  Then(remove_entry(w, i, ".."), LAMBDA a, v :
  Then(remove_entry(a, i, "."), LAMBDA b, u : Done(Less(Less(b, i, 2), dir, 1), 0)))
ext_unlink(w, fd, name, removedir) ==
  LET dir == w.open[fd]
      Unlinked(a, i) == IF a.mem[i].type = "dir" THEN Undotted(a, i, dir) ELSE Done(Less(a, i, 1), 0)
  IN Then(ext_lookup(w, fd, name, {}), LAMBDA f, i :
       LET isdir == f.mem[i].type = "dir"
       IN IF isdir /\ ~removedir THEN Throw(f, "EPERM")
          ELSE IF isdir /\ ~directory_is_empty(f, i) THEN Throw(f, "ENOTEMPTY")
          ELSE IF ~isdir /\ removedir THEN Throw(f, "ENOTDIR")
          ELSE Then(Then(remove_entry(f, dir, name), LAMBDA a, v : Unlinked(a, i)),
                    LAMBDA a, v : Done(write_inode(write_inode(a, dir), i), 0)))

\* rename to a name that is not taken: a directory that moves is told its new parent, whose
\* count of links grows by two.
RenameNew(f, i, dir1, name1, dir2, name2) ==
  LET Parent == Then(remove_entry(f, i, ".."), LAMBDA a, v :
                Then(add_entry(a, i, "..", dir2), LAMBDA b, u :
                     Done(Grown(Grown(Less(b, dir1, 1), dir2), dir2), 0)))
      Moved == IF f.mem[i].type = "dir" /\ dir1 # dir2 THEN Parent ELSE Done(f, 0)
  IN Then(Then(Moved, LAMBDA a, v : remove_entry(a, dir1, name1)),
          LAMBDA a, v : add_entry(a, dir2, name2, i))
\* rename over an empty directory, which loses its entries.
RenameOverDirectory(f, i, over, dir1, name1, dir2, name2) ==
  LET Emptied == Then(remove_entry(f, over, "."), LAMBDA a, v :
                 Then(remove_entry(a, over, ".."), LAMBDA b, u : remove_entry(b, dir2, name2)))
  IN IF f.mem[i].type # "dir" THEN Throw(f, "EISDIR")
     ELSE IF ~directory_is_empty(f, over) THEN Throw(f, "ENOTEMPTY")
     ELSE Then(Emptied, LAMBDA a, v :
          IF a.mem[over].nlink # 2 THEN Assertion(a, "nlink")
          ELSE Then(remove_entry(Less(a, over, 2), dir1, name1),
                    LAMBDA b, u : add_entry(Less(b, dir1, 1), dir2, name2, i)))
\* rename over a file, which keeps its count of links.
RenameOverFile(f, i, dir1, name1, dir2, name2) ==
  IF f.mem[i].type = "dir" THEN Throw(f, "ENOTDIR")
  ELSE Then(Then(remove_entry(f, dir1, name1), LAMBDA a, v : remove_entry(a, dir2, name2)),
            LAMBDA a, v : add_entry(a, dir2, name2, i))
ext_rename(w, fd1, name1, fd2, name2) ==
  LET dir1 == w.open[fd1]
      dir2 == w.open[fd2]
      Renamed(f, i, over) ==
        IF over = 0 THEN RenameNew(f, i, dir1, name1, dir2, name2)
        ELSE IF f.mem[over].type = "dir" THEN RenameOverDirectory(f, i, over, dir1, name1, dir2, name2)
        ELSE RenameOverFile(f, i, dir1, name1, dir2, name2)
  IN IF name1 \in Dots THEN Throw(w, "EINVAL")
     ELSE Then(ext_lookup(w, fd1, name1, {}), LAMBDA f, i :
          Then(Renamed(f, i, Find(f, dir2, name2)), LAMBDA a, v :
               Done(write_inode(write_inode(write_inode(a, dir1), dir2), i), 0)))

\* The units lo + 1 .. hi of a file become c.
Fill(w, i, lo, hi, c) ==
  LET blocks == Blocks(w, i)
      New(n) == [u \in 1 .. BlockSize |->
                   IF (n - 1) * BlockSize + u \in lo + 1 .. hi THEN c ELSE w.content[blocks[n]][u]]
  IN [w EXCEPT !.content = [b \in DOMAIN @ |->
        IF b \in Range(blocks) THEN New(CHOOSE n \in DOMAIN blocks : blocks[n] = b) ELSE @[b]]]
FileData(w, i) ==
  [u \in 1 .. w.mem[i].size |->
     w.content[Blocks(w, i)[(u - 1) \div BlockSize + 1]][((u - 1) % BlockSize) + 1]]

ext_allocate(w, fd, offset, length) ==
  LET i == w.open[fd]
  IN IF w.mem[i].type # "file" THEN Throw(w, "EINVAL")
     ELSE IF w.mem[i].size >= offset + length THEN Done(w, 0)
     ELSE Then(allocate_file(w, i, offset + length), LAMBDA a, v : Done(write_inode(a, i), 0))

ext_pread(w, fd, offset, n) ==
  LET i == w.open[fd]
      end == IF offset + n < w.mem[i].size THEN offset + n ELSE w.mem[i].size
  IN IF w.mem[i].type # "file" THEN Throw(w, "EBADF")
     ELSE Done(write_inode(w, i), SubSeq(FileData(w, i), offset + 1, end))

ext_pwrite(w, fd, offset, n, c) ==
  LET i == w.open[fd]
      d == write_inode(w, i)
      room == IF offset + n > d.mem[i].size
              THEN Then(allocate_file(d, i, offset + n), LAMBDA a, v : Done(write_inode(a, i), 0))
              ELSE Done(d, 0)
  IN IF w.mem[i].type # "file" THEN Throw(w, "EBADF")
     ELSE Then(room, LAMBDA a, v : IF Blocks(a, i) = <<>> THEN Assertion(a, "pwrite")
                                ELSE Done(Fill(a, i, offset, offset + n, c), 0))

\* update_file_entry_stat with CLOUDABI_FILESTAT_SIZE: a file that shrinks keeps its blocks, and
\* what is behind the new end is cleared.
update_file_entry_stat(w, i, size) ==
  LET old == w.mem[i].size
      end == Len(Blocks(w, i)) * BlockSize
      r == IF old < size THEN allocate_file(w, i, size)
           ELSE IF old > size THEN Done(Fill([w EXCEPT !.mem[i].size = size], i, size, end, Hole), 0)
           ELSE Done(w, 0)
  IN IF w.mem[i].type # "file" THEN Throw(w, "EINVAL")
     ELSE Then(r, LAMBDA a, v : Done(write_inode(a, i), 0))
ext_stat_fput(w, fd, size) == update_file_entry_stat(w, w.open[fd], size)
ext_stat_put(w, fd, name, size) ==
  Then(ext_lookup(w, fd, name, {}), LAMBDA a, i : update_file_entry_stat(a, i, size))

\* readdir with room for one entry: the cookie counts the entries, and is zero again once the
\* last one is copied.
ext_readdir(w, fd, cookie) ==
  LET dir == w.open[fd]
      list == Listing(w, dir)
  IN IF w.mem[dir].type # "dir" THEN Throw(w, "ENOTDIR")
     ELSE Done(write_inode(w, dir), [copied |-> cookie < Len(list),
                                     next |-> IF cookie + 1 < Len(list) THEN cookie + 1 ELSE 0])

ext_stat_fget(w, fd) ==
  Done(w, [type |-> w.mem[w.open[fd]].type,
           size |-> IF w.mem[w.open[fd]].type = "dir" THEN 0 ELSE w.mem[w.open[fd]].size])

\* ---------------------------------------------------------------- specification

\* A disk with a directory d, which is open, and in it a file f, which is open or which the
\* kernel has looked up. In every group the first block
\* is taken by the descriptors, bitmaps and tables; `more' are the bits of blocks that are taken
\* by files outside this tree.
Dot(ino, parent, name, child) ==
  <<Entry(ino, ".", Needed(".")), Entry(parent, "..", Needed("..")),
    Entry(child, name, DirSize - Needed(".") - Needed(".."))>>
InitialInodes ==
  [i \in Inodes |-> CASE i = RootInode -> Inode("dir", 3, BlockSize, <<2>>)
                      [] i = 3 -> Inode("dir", 2, BlockSize, <<3>>)
                      [] i = 4 -> Inode("file", 1, 1, <<4>>)
                      [] OTHER -> NoInode]
Counters(ibits, bbits, ino(_), bit(_)) ==
  [blocks |-> Cardinality({b \in Bits \ bbits : bit(b)}), inodes |-> Cardinality({i \in Inodes \ ibits : ino(i)})]
GroupCounters(g, ibits, bbits) ==
  Counters(ibits, bbits, LAMBDA i : GroupOfInode(i) = g, LAMBDA b : b \div BlocksPerGroup = g)
AllCounters(ibits, bbits) == Counters(ibits, bbits, LAMBDA i : TRUE, LAMBDA b : TRUE)
Taken(more) == {g * BlocksPerGroup : g \in 0 .. Groups - 1} \cup more
Opened(fds, r, d, f) == [fd \in fds |-> <<r, d, f>>[fd + 1]]
InitialDisk(more, fds) ==
  LET bits == Taken(more) \cup {2 - FirstBlock, 3 - FirstBlock, 4 - FirstBlock}
  IN [table |-> InitialInodes, mem |-> InitialInodes, ibits |-> 1 .. 4, bbits |-> bits,
      groups |-> [g \in 0 .. Groups - 1 |-> GroupCounters(g, 1 .. 4, bits)],
      sb |-> AllCounters(1 .. 4, bits),
      content |-> [b \in BlocksOnDisk |-> CASE b = 2 -> Dot(RootInode, RootInode, "d", 3)
                                            [] b = 3 -> Dot(3, RootInode, "f", 4)
                                            [] b = 4 -> [Zeroes EXCEPT ![1] = "x"]
                                            [] OTHER -> Zeroes],
      open |-> Opened(fds, RootInode, 3, 4), failed |-> ""]
NotHeld == [ino |-> 0, node |-> 0]

XInit ==
  /\ others \in OthersTake
  /\ \E fds \in {0 .. 2} \cup (IF others = {} THEN {0 .. 1} ELSE {}) :
       /\ ext = InitialDisk(others, fds)
       /\ abs = [nodes |-> <<Node("dir", "." :> 1 @@ ".." :> 1 @@ "d" :> 2, <<>>),
                             Node("dir", "." :> 2 @@ ".." :> 1 @@ "f" :> 3, <<>>), Node("file", <<>>, <<"x">>)>>,
                 open |-> Opened(fds, 1, 2, 3)]
       /\ held = IF 2 \in fds THEN NotHeld ELSE [ino |-> 4, node |-> 3]
  /\ id = [i \in Inodes |-> IF i \in 2 .. 4 THEN i - 1 ELSE 0]
  /\ agree = TRUE /\ torn = {} /\ leaked = {} /\ extodd = {} /\ requests = 0

\* The bits of the blocks that an inode points to.
BitsOf(inode, content) ==
  {b - FirstBlock : b \in Range(inode.ptr)
     \cup (IF inode.ind = 0 THEN {} ELSE {inode.ind} \cup Range(content[inode.ind]))}
Live(w) == w.ibits \ {1}
OwnedBits(w) == UNION {BitsOf(w.mem[i], w.content) : i \in Live(w)}
Wear(w) == {i \in Live(w) : w.mem[i] # w.table[i]}

\* A request that has the answer r here and a in the abstract file system; `odd' is what goes
\* wrong in it. Known to lose blocks are: an indirect block when its file goes; an error for
\* lack of space after some blocks were found; and the close of a file after such an error.
\* A request that makes an indirect block may find that the rest of it, which comes from the
\* stack, is not zero: then the assertion that no pointer follows the first one fails.
Indirect(w) == {i \in Live(w) : w.mem[i].ind # 0 /\ w.content[w.mem[i].ind] # <<>>}
Answered(r, a, same, odd) ==
  \E after \in {Dispose(r.w)} :
  LET full == r.err = "ENOSPC"
      dead == {r.w.mem[i].ind - FirstBlock : i \in {j \in Dead(r.w) : r.w.mem[j].ind # 0}}
      closed == (torn \ Referenced(after)) \ Dead(r.w)
      unwritten == UNION {BitsOf(r.w.mem[i], r.w.content) \ BitsOf(after.table[i], after.content) : i \in closed}
      garbage == Indirect(r.w) \ Indirect(ext) # {}
  IN /\ ext' \in {after} \cup (IF garbage THEN {[ext EXCEPT !.failed = "refblock"]} ELSE {})
     /\ abs' = IF r.err = "ok" THEN a.fs ELSE abs
     /\ id' = IF r.err = "ok" /\ Len(a.fs.nodes) > Len(abs.nodes)
              THEN [id EXCEPT ![r.val] = Len(a.fs.nodes)] ELSE id
     /\ agree' = (r.err \in {"ENOSPC", "assert"} \/ (r.err = a.err /\ (r.err = "ok" => same)))
     /\ torn' = (IF full THEN torn \cup Wear(after) ELSE torn) \cap Wear(after)
     /\ leaked' = leaked \cup dead \cup unwritten
                    \cup (IF full THEN (after.bbits \ ext.bbits) \ OwnedBits(after) ELSE {})
     /\ extodd' = odd
     /\ requests' = requests + 1 /\ UNCHANGED others

DirFds == {fd \in DOMAIN ext.open : ext.mem[ext.open[fd]].type = "dir"}
Names == DOMAIN NameSize \ (Dots \cup {""})
\* Requests on a removed directory, which the file systems treat differently, and requests that
\* run out of space when an entry is added.
Removed(fd) == IF ext.mem[ext.open[fd]].nlink = 0 THEN {"removed directory"} ELSE {}
Adds(r, fd) == Removed(fd) \cup (IF r.err = "ENOSPC" THEN {"no room for an entry"} ELSE {})

XCreate ==
  \E fd \in DirFds, name \in Names :
    \E r \in {ext_create(ext, fd, name, "dir")}, a \in {create(abs, fd, name, "dir")} :
      Answered(r, a, TRUE, Adds(r, fd)) /\ UNCHANGED held

XLookup ==
  \E fd \in DOMAIN ext.open, name \in Names \cup Dots, oflags \in {{}, {"creat"}, {"creat", "excl"}} :
    \E r \in {ext_lookup(ext, fd, name, oflags)}, a \in {lookup(abs, fd, name, oflags)} :
      /\ Answered(r, a, id'[r.val] = a.val.ino, Adds(r, fd))
      /\ held' = IF r.err = "ok" THEN [ino |-> r.val, node |-> id'[r.val]] ELSE held

\* The kernel opens what it has looked up before: by then the inode may be gone, or be that of
\* another file.
XOpen ==
  /\ held # NotHeld
  /\ \E r \in {ext_open(ext, held.ino)} :
       Answered(r, IF r.err = "ENOENT" THEN Err(abs, "ENOENT") ELSE open(abs, held.node), TRUE,
               IF r.err # "ENOENT" /\ id[held.ino] # held.node THEN {"another file"} ELSE {})
  /\ held' = NotHeld

XClose ==
  \E fd \in DOMAIN ext.open \ {0} :
    Answered(ext_close(ext, fd), close(abs, fd), TRUE, {}) /\ UNCHANGED held

XLink ==
  \E fd1, fd2 \in DirFds, name1, name2 \in Names :
    \E r \in {ext_link(ext, fd1, name1, fd2, name2)}, a \in {link(abs, fd1, name1, fd2, name2)} :
      Answered(r, a, TRUE, Removed(fd1) \cup Adds(r, fd2)) /\ UNCHANGED held

XSymlink ==
  \E fd \in DirFds, name \in Names, target \in {<<"f">>} :
    \E r \in {ext_symlink(ext, fd, target, name)}, a \in {symlink(abs, fd, target, name)} :
      Answered(r, a, TRUE, Adds(r, fd)) /\ UNCHANGED held

XReadlink ==
  \E fd \in DirFds, name \in Names :
    \E r \in {ext_readlink(ext, fd, name)}, a \in {readlink(abs, fd, name, MaxSize)} :
      Answered(r, a, r.val = a.val, Removed(fd)) /\ UNCHANGED held

XUnlink ==
  \E fd \in DirFds, name \in Names, removedir \in BOOLEAN :
    \E r \in {ext_unlink(ext, fd, name, removedir)}, a \in {unlink(abs, fd, name, removedir)} :
      Answered(r, a, TRUE, Removed(fd)) /\ UNCHANGED held

\* A directory that moves, and anything that is overwritten, leave wrong counts of links.
XRename ==
  \E fd1, fd2 \in DirFds, name1, name2 \in Names :
    \E r \in {ext_rename(ext, fd1, name1, fd2, name2)}, a \in {rename(abs, fd1, name1, fd2, name2)} :
      LET i == Find(ext, ext.open[fd1], name1)
          over == Find(ext, ext.open[fd2], name2) # 0 /\ r.err \in {"ok", "ENOENT"} /\ i # 0
          moved == r.err = "ok" /\ ext.mem[i].type = "dir" /\ ext.open[fd1] # ext.open[fd2]
      IN Answered(r, a, TRUE, Removed(fd1) \cup Adds(r, fd2) \cup (IF over THEN {"overwritten"} ELSE {})
                               \cup (IF moved THEN {"moved directory"} ELSE {})) /\ UNCHANGED held

XAllocate ==
  \E fd \in DOMAIN ext.open :
    \E r \in {ext_allocate(ext, fd, 1, 2)}, a \in {allocate(abs, fd, 1, 2)} :
      Answered(r, a, TRUE, {}) /\ UNCHANGED held

XPread ==
  \E fd \in DOMAIN ext.open :
    \E r \in {ext_pread(ext, fd, 1, 3)}, a \in {pread(abs, fd, 1, 3)} :
      Answered(r, a, r.val = a.val, {}) /\ UNCHANGED held

XPwrite ==
  \E fd \in DOMAIN ext.open, at \in {<<0, 0>>, <<0, 1>>, <<1, 2>>, <<4, 1>>} :
    \E r \in {ext_pwrite(ext, fd, at[1], at[2], "y")},
       a \in {pwrite(abs, fd, at[1], [u \in 1 .. at[2] |-> "y"])} :
      Answered(r, a, TRUE, {}) /\ UNCHANGED held

XTruncate ==
  \E fd \in DOMAIN ext.open, size \in {0, 1, 3} :
    \E r \in {ext_stat_fput(ext, fd, size)}, a \in {stat_fput(abs, fd, size)} :
      Answered(r, a, TRUE, {}) /\ UNCHANGED held

XStatPut ==
  \E fd \in DirFds, name \in Names, size \in {0, 3} :
    \E r \in {ext_stat_put(ext, fd, name, size)}, a \in {stat_put(abs, fd, name, size)} :
      Answered(r, a, TRUE, Removed(fd)) /\ UNCHANGED held

XReaddir ==
  \E fd \in DOMAIN ext.open, cookie \in {0, 2} :
    \E r \in {ext_readdir(ext, fd, cookie)}, a \in {readdir(abs, fd, cookie)} :
      Answered(r, a, r.val.copied = (a.val # 0), IF fd \in DirFds THEN Removed(fd) ELSE {}) /\ UNCHANGED held

XStat ==
  \E fd \in DOMAIN ext.open :
    \E r \in {ext_stat_fget(ext, fd)}, a \in {stat_fget(abs, fd)} :
      Answered(r, a, r.val = [type |-> a.val.type, size |-> a.val.size], {}) /\ UNCHANGED held

XNext ==
  /\ requests < MaxRequests /\ extodd = {} /\ ext.failed = ""
  /\ \/ XCreate \/ XLookup \/ XOpen \/ XClose \/ XLink \/ XSymlink \/ XReadlink \/ XUnlink
     \/ XRename \/ XAllocate \/ XPread \/ XPwrite \/ XTruncate \/ XStatPut \/ XReaddir \/ XStat

XSpec == XInit /\ [][XNext]_xvars

\* ------------------------------------------------------------------- properties

\* Accounts. A block is used by at most one inode, once, and its bit is set as long as an inode
\* uses it; the bits that are set without one are the blocks that are known to be lost; and the
\* counters in the group descriptors and the superblock count the bits. This is what fsck would
\* check, at any moment between two requests, with files that are open and unlinked and after
\* errors for lack of space (allocate_block, deallocate_inode, ~extfs_file_entry).
BlocksAccounted ==
  /\ \A owned \in {[i \in Live(ext) |-> BitsOf(ext.mem[i], ext.content)]} :
       LET all == UNION Range(owned)
       IN /\ \A i, j \in DOMAIN owned : i # j => owned[i] \cap owned[j] = {}
          /\ \A i \in DOMAIN owned : Cardinality(Range(Blocks(ext, i))) = Len(Blocks(ext, i))
          /\ (Taken(others) \cup leaked) \cap all = {}
          /\ ext.failed = "" => ext.bbits = Taken(others) \cup leaked \cup all
  /\ \A g \in 0 .. Groups - 1 : ext.groups[g] = GroupCounters(g, ext.ibits, ext.bbits)
  /\ ext.sb = AllCounters(ext.ibits, ext.bbits)

\* Links. The count of links of an inode is the number of directory entries that name it, "."
\* and ".." included, on the disk as in memory; and an inode without links is one that is still
\* open. (After a request that leaves wrong counts, see XRename, nothing is claimed.)
LinksTrue ==
  extodd = {} /\ ext.failed = "" =>
    \A list \in {[d \in {i \in Live(ext) : ext.mem[i].type = "dir"} |-> Listing(ext, d)]} :
    \A i \in Live(ext) :
      /\ ext.mem[i].nlink = Cardinality(UNION {{<<d, k>> : k \in {n \in DOMAIN list[d] : list[d][n].ino = i}}
                                                 : d \in DOMAIN list})
      /\ ext.table[i].nlink = ext.mem[i].nlink
      /\ ext.mem[i].nlink = 0 => i \in Referenced(ext)

\* Directories. The entries of a directory fill each of its blocks to the end, each with room
\* for its name, as the assertions of add_entry_into_directory and remove_entry_from_directory
\* demand; no name is there twice, and every entry names an inode that is in use. The only
\* assertions that fail are those about indirect blocks, and the one of pwrite that there is a
\* block to write to, when nothing is written to a file that has none.
DirectoriesWellFormed ==
  /\ ext.failed \in {"", "refblock", "singly_blockptr", "doubly_blockptr", "pwrite"}
  /\ ext.failed = "" =>
     \A d \in {i \in Live(ext) : ext.mem[i].type = "dir"} :
       \A list \in {Listing(ext, d)} :
          /\ \A b \in Range(Blocks(ext, d)) :
               LET es == ext.content[b]
               IN /\ FoldLeft(LAMBDA n, e : n + e.size, 0, es) = DirSize
                  /\ \A k \in DOMAIN es : es[k].size >= Needed(es[k].name)
          /\ \A m, n \in DOMAIN list : list[m].name = list[n].name => m = n
          /\ extodd = {} => \A k \in DOMAIN list : list[k].ino \in ext.ibits

\* The directories on the disk, as add_entry_into_directory and remove_entry_from_directory leave
\* them through every create, link, rename and unlink, are well formed and agree with the links.
DirectoriesTrue == LinksTrue /\ DirectoriesWellFormed

=============================================================================
