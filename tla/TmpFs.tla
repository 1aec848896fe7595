------------------------------- MODULE TmpFs --------------------------------
\* The handlers of the temporary file system (userland/tmpfs/tmpfs.cpp), as functions from a
\* file system to an answer [fs, err, val]; err is "ok" or the error that is thrown.
\*
\* A file system is a record
\*   nodes  the file entries, in order of creation: none is ever erased
\*   open   pseudo_fds: what the pseudo fds refer to
\* Times are left out. A name is a string, the target of a symbolic link a sequence of
\* names, and the contents of a file the sequence of what was written. The root is node 1.
EXTENDS Naturals, FiniteSets, Sequences, Functions, TLC

CONSTANTS MaxNodes,  \* file entries ever made
          MaxSize    \* length of a file

Root == 1
Dots == {".", ".."}
Node(type, files, data) == [type |-> type, files |-> files, data |-> data, links |-> 1]
Hole == "0"

Ok(fs, val) == [fs |-> fs, err |-> "ok", val |-> val]
Err(fs, e) == [fs |-> fs, err |-> e, val |-> 0]

\* get_file_entry_from_pseudo: a pseudo fd that the kernel has not closed is always known.
Of(fs, pseudo) == fs.open[pseudo]
Files(fs, pseudo) == fs.nodes[Of(fs, pseudo)].files
Has(fs, pseudo, name) == name \in DOMAIN Files(fs, pseudo)
Named(fs, pseudo, name) == Files(fs, pseudo)[name]
TypeOf(fs, i) == fs.nodes[i].type
\* Directories only hold the entries for themselves and their parent.
Empty(fs, i) == DOMAIN fs.nodes[i].files \subseteq Dots

SetFile(fs, dir, name, i) == [fs EXCEPT !.nodes[dir].files = @ @@ (name :> i) ]
Replace(fs, dir, name, i) == [fs EXCEPT !.nodes[dir].files[name] = i]
Erase(fs, dir, name) == [fs EXCEPT !.nodes[dir].files = Restrict(@, DOMAIN @ \ {name})]

\* What file_entry_to_filestat tells of a node.
Stat(fs, i) == [ino |-> i, type |-> TypeOf(fs, i), size |-> Len(fs.nodes[i].data)]

create(fs, pseudo, name, type) ==
  LET dir == Of(fs, pseudo)
      ino == Len(fs.nodes) + 1
      files == IF type = "dir" THEN "." :> ino @@ ".." :> dir ELSE <<>>
  IN IF Has(fs, pseudo, name) THEN Err(fs, "EEXIST")
     ELSE Ok(SetFile([fs EXCEPT !.nodes = Append(@, Node(type, files, <<>>))], dir, name, ino), ino)

\* lookup may create the file; with O_EXCL a file that exists is an error.
lookup(fs, pseudo, name, oflags) ==
  LET made == create(fs, pseudo, name, "file")
  IN IF TypeOf(fs, Of(fs, pseudo)) # "dir" THEN Err(fs, "ENOTDIR")
     ELSE IF ~Has(fs, pseudo, name)
     THEN IF "creat" \in oflags THEN Ok(made.fs, Stat(made.fs, made.val)) ELSE Err(fs, "ENOENT")
     ELSE IF "excl" \in oflags THEN Err(fs, "EEXIST")
     ELSE Ok(fs, Stat(fs, Named(fs, pseudo, name)))

\* A pseudo fd number is an address: any that is not in use.
open(fs, ino) ==
  LET fd == CHOOSE n \in 0 .. Cardinality(DOMAIN fs.open) : n \notin DOMAIN fs.open
  IN IF TypeOf(fs, ino) = "link" THEN Err(fs, "ELOOP")
     ELSE Ok([fs EXCEPT !.open = @ @@ (fd :> ino)], [fd |-> fd, type |-> TypeOf(fs, ino)])

close(fs, pseudo) == Ok([fs EXCEPT !.open = Restrict(@, DOMAIN @ \ {pseudo})], 0)

\* A mutant of link: it relies on the lookup that the kernel has made before.
linkUnchecked(fs, pseudo1, name1, pseudo2, name2) ==
  LET i == Named(fs, pseudo1, name1)
  IN IF ~Has(fs, pseudo1, name1) THEN Err(fs, "ENOENT")
     ELSE IF TypeOf(fs, i) = "dir" THEN Err(fs, "EPERM")
     ELSE Ok([SetFile(fs, Of(fs, pseudo2), name2, i) EXCEPT !.nodes[i].links = @ + 1], 0)
link(fs, pseudo1, name1, pseudo2, name2) ==
  LET i == Named(fs, pseudo1, name1)
  IN IF ~Has(fs, pseudo1, name1) THEN Err(fs, "ENOENT")
     ELSE IF TypeOf(fs, i) = "dir" THEN Err(fs, "EPERM")
     ELSE IF Has(fs, pseudo2, name2) THEN Err(fs, "EEXIST")
     ELSE Ok([SetFile(fs, Of(fs, pseudo2), name2, i) EXCEPT !.nodes[i].links = @ + 1], 0)

symlink(fs, pseudo, target, name) ==
  LET dir == Of(fs, pseudo)
  IN IF Has(fs, pseudo, name) THEN Err(fs, "EEXIST")
     ELSE Ok(SetFile([fs EXCEPT !.nodes = Append(@, Node("link", <<>>, target))],
                     dir, name, Len(fs.nodes) + 1), 0)

\* The target, cut to the buffer of the caller.
readlink(fs, pseudo, name, len) ==
  LET i == Named(fs, pseudo, name)
      n == IF Len(fs.nodes[i].data) < len THEN Len(fs.nodes[i].data) ELSE len
  IN IF ~Has(fs, pseudo, name) THEN Err(fs, "ENOENT")
     ELSE IF TypeOf(fs, i) # "link" THEN Err(fs, "EINVAL")
     ELSE Ok(fs, SubSeq(fs.nodes[i].data, 1, n))

\* unlink of the last link leaves the entry in the table of inodes.
unlink(fs, pseudo, name, removedir) ==
  LET dir == Of(fs, pseudo)
      i == Named(fs, pseudo, name)
  IN IF ~Has(fs, pseudo, name) THEN Err(fs, "ENOENT")
     ELSE IF TypeOf(fs, i) = "dir" /\ ~removedir THEN Err(fs, "EPERM")
     ELSE IF TypeOf(fs, i) = "dir" /\ ~Empty(fs, i) THEN Err(fs, "ENOTEMPTY")
     ELSE IF TypeOf(fs, i) # "dir" /\ removedir THEN Err(fs, "ENOTDIR")
     ELSE Ok([Erase(fs, dir, name) EXCEPT !.nodes[i].links = @ - 1], 0)

\* rename: the moved directory learns its new parent. An entry that is overwritten keeps its
\* count of links.
rename(fs, pseudo1, name1, pseudo2, name2) ==
  LET dir1 == Of(fs, pseudo1)
      dir2 == Of(fs, pseudo2)
      i == Named(fs, pseudo1, name1)
      over == Named(fs, pseudo2, name2)
      Moved(f) == IF TypeOf(fs, i) = "dir" THEN Replace(f, i, "..", dir2) ELSE f
  IN IF name1 \in Dots THEN Err(fs, "EINVAL")
     ELSE IF ~Has(fs, pseudo1, name1) THEN Err(fs, "ENOENT")
     ELSE IF ~Has(fs, pseudo2, name2)
     THEN Ok(SetFile(Moved(Erase(fs, dir1, name1)), dir2, name2, i), 0)
     ELSE IF TypeOf(fs, over) = "dir" /\ TypeOf(fs, i) # "dir" THEN Err(fs, "EISDIR")
     ELSE IF TypeOf(fs, over) = "dir" /\ ~Empty(fs, over) THEN Err(fs, "ENOTEMPTY")
     ELSE IF TypeOf(fs, over) # "dir" /\ TypeOf(fs, i) = "dir" THEN Err(fs, "ENOTDIR")
     ELSE Ok(Erase(Moved(Replace(fs, dir2, name2, i)), dir1, name1), 0)

\* Contents: resize fills with zeroes.
Resize(data, n) == [k \in 1 .. n |-> IF k <= Len(data) THEN data[k] ELSE Hole]
Grow(data, n) == IF Len(data) < n THEN Resize(data, n) ELSE data
IsFile(fs, pseudo) == TypeOf(fs, Of(fs, pseudo)) = "file"
Data(fs, pseudo) == fs.nodes[Of(fs, pseudo)].data
SetData(fs, pseudo, data) == [fs EXCEPT !.nodes[Of(fs, pseudo)].data = data]

allocate(fs, pseudo, offset, length) ==
  IF ~IsFile(fs, pseudo) THEN Err(fs, "EINVAL")
  ELSE Ok(SetData(fs, pseudo, Grow(Data(fs, pseudo), offset + length)), 0)

pread(fs, pseudo, offset, n) ==
  LET end == IF offset + n < Len(Data(fs, pseudo)) THEN offset + n ELSE Len(Data(fs, pseudo))
  IN IF ~IsFile(fs, pseudo) THEN Err(fs, "EBADF") ELSE Ok(fs, SubSeq(Data(fs, pseudo), offset + 1, end))

pwrite(fs, pseudo, offset, buf) ==
  LET d == Grow(Data(fs, pseudo), offset + Len(buf))
  IN IF ~IsFile(fs, pseudo) THEN Err(fs, "EBADF")
     ELSE Ok(SetData(fs, pseudo, [k \in DOMAIN d |-> IF k \in offset + 1 .. offset + Len(buf)
                                                     THEN buf[k - offset] ELSE d[k]]), 0)

\* readdir: the cookie counts entries of the map, which is ordered by name.
readdir(fs, pseudo, cookie) ==
  IF TypeOf(fs, Of(fs, pseudo)) # "dir" THEN Err(fs, "ENOTDIR")
  ELSE Ok(fs, IF cookie < Cardinality(DOMAIN Files(fs, pseudo)) THEN cookie + 1 ELSE 0)

\* update_file_entry_stat with CLOUDABI_FILESTAT_SIZE.
Truncate(fs, i, size) ==
  IF TypeOf(fs, i) # "file" THEN Err(fs, "EINVAL")
  ELSE Ok([fs EXCEPT !.nodes[i].data = Resize(@, size)], 0)
stat_fget(fs, pseudo) == Ok(fs, Stat(fs, Of(fs, pseudo)))
stat_fput(fs, pseudo, size) == Truncate(fs, Of(fs, pseudo), size)
stat_put(fs, pseudo, name, size) ==
  IF ~Has(fs, pseudo, name) THEN Err(fs, "ENOENT") ELSE Truncate(fs, Named(fs, pseudo, name), size)
=============================================================================
