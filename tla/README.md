# ext2s-fs in TLA+

Specifications, model-checking runs and proofs for
[ext2s-fs](https://github.com/Delta-in-hub/ext2s-fs), a user-space file system
with an ext2 layout, served to several clients by one process. Source lines are
those of the files under `src/` of the repository.

## The system

```
 client.cpp ── TCP ── server.cpp: one handler thread per client ── Shell (shell.hpp)
                        │ one std::mutex around every call of VFS     │
                        │                                             ▼
                      sync thread (every 10 s) ───────────────────► VFS (vfs.hpp)
                                                                      ▼
                                                                   Ext2m (ext2m.hpp, bitmap.hpp)
                                                                      ▼
                                                                   Cache (cache.hpp)
                                                                      ▼
                                                                   Disk (disk.hpp): disk.img through a FILE
```

| Component | State | Operations | What makes it correct |
|---|---|---|---|
| `Disk` | the image file, the buffer of the `FILE`, a counter of writes | `read_block`, `write_block` (an `fflush` every 4096th), `sync` (`fflush`) | a read returns the last write; after `sync` the file holds everything |
| `Cache` | slots, queue of free slots, LRU list, map from blocks to list positions | `read_block`, `write_block`, `flushb`, `flush_all` | the four structures agree; no write is lost by an eviction; a crash leaves recent values; the victim is the least recently used |
| `BitMap` | bits of a group | `nextBit`, `get`, `set`, `reset` | `nextBit` is the first clear bit at or after its argument |
| `Ext2m`, allocation | bitmaps, inode table | `format`, `ialloc`, `ballocs`, `bfree`, `ifree`, `add_block_to_inode`, `get_inode_all_blocks` | a block belongs to one live inode; metadata is never given away; freeing returns an inode's own blocks |
| `Ext2m`, directories | entries packed in blocks | `add_entry_to_inode`, `free_entry_to_inode`, `get_inode_all_entry`, `get_father_inode_num` | records tile a block; a directory is a set of entries |
| `VFS`, names | none of its own | `mkdir`, `create`, `rmdir`, `unlink`, `mv`, `ls`, `stat`, `exists`, `real_path` | directories form a tree; `..` is the parent; every live inode has one entry |
| `VFS`, files | the table of descriptors | `open`, `close`, `read`, `write`, `lseek`, `fstat` | a read returns the last bytes written there; descriptors are not shared |
| `Shell` | the working directory of one client | `cd`, `pwd`, `ls`, `cat`, `touch`, `write`, `unlink`, `mkdir`, `rmdir`, `mv` | the working directory is the directory that was asked for; a command is one critical section |
| `server.cpp`, `util.hpp` | login state of a session, the position of strtok | receive, dispatch, reply; the sync thread; `split` | one reply to each request; a session's error ends no other session; a split returns the words of its own string |
| `client.cpp` | none | login, then send a command and wait for the reply | it never waits for a reply that does not come |
| `user.hpp` | the table of users, read by each handler | `login` | only the last line of a name counts |
| `src/extern` | sockets | third-party wrapper | |

The components call one another downwards only. Threads share the `VFS` object
and the mutex; everything below `Shell` runs under the mutex, so that one shell
call is one step for the others, with three exceptions: `cd` releases the mutex
between its two halves, `split` (strtok) is also called outside it, and a crash
may fall between any two disk writes.

What is hard to test here, and what the properties are for: crashes between the
steps of a flush; the cache when it is full; allocation at the ends of groups and
inode numbers; the `i_block` of inodes that died; long sequences of entries
added and freed in a directory; sequences of `mv`, `rmdir` and `touch` that
leave the tree in a shape no handler expects; files walked as if they were directories;
two sessions in the gap of `cd`; requests that get no reply; a walk that never ends, under the mutex. `PROJECT.json` lists them at their lines.

## Modules

| Module | Models | Kind |
|---|---|---|
| `BlockDev` | what a cached block device promises | abstract specification |
| `BlockCache` | `cache.hpp` over `disk.hpp`, with crashes | state machine, refines `BlockDev` |
| `LruOrder` | `BlockCache` with a history of accesses | composition |
| `Ext2Alloc` | inode and block allocation of `ext2m.hpp` | state machine |
| `Directory` | what a directory promises: a set of entries | abstract specification |
| `DirBlock` | `entry_block` and the listing of `ext2m.hpp` | operators |
| `DirInode` | the entries of one directory over its blocks | state machine, refines `Directory` |
| `Tree` | what the path calls promise: a tree of names | abstract specification |
| `Namespace` | the path calls of `vfs.hpp`, composing `Ext2Alloc` and `DirBlock` | state machine, refines `Tree` until a defect strikes |
| `Shells` | `shell.hpp` and `real_path`: sessions over `Namespace`, with `cd` in two halves | state machine, composition |
| `FileStore` | what files promise: names with bytes | abstract specification |
| `VfsFile` | descriptors, `read` and `write` of `vfs.hpp` over the block lists of `ext2m.hpp` | state machine, refines `FileStore` until a defect strikes |
| `Sessions` | `server.cpp`, `client.cpp`, `user.hpp`, `util.hpp`: threads, mutex, protocol | state machine |
| `Mount` | the constructor of `Ext2m`: `format` write by write, with crashes | state machine |
| `BlockCache_proofs` (with `LruOrder`), `Ext2Alloc_proofs`, `DirInode_proofs`, `Namespace_proofs`, `Sessions_proofs`, `Mount_proofs`, `VfsFile_proofs`, `NatFacts` | theorems | proofs |
| `MCBlockCache`, `MCDirInode`, `MCNamespace`, `MCShells`, `MCVfsFile`, `MCSessions`, `MCMount` | definitions for TLC | instances |

`Namespace` and `VfsFile` instantiate `Ext2Alloc`, with their own bitmaps for its
variables, and use its operators; `Shells` extends `Namespace`, so that a command of
a shell is a step of it. `Sessions` is apart from these: what VFS does inside a
critical section is nothing to the protocol but for whether it ends, and the other way round
a critical section is one step for `Shells` because `Sessions` shows (`LockedWhileInside`) that
no two overlap.

A definition preceded by a comment that begins with "Slip:" is not the code: it
is the definition below it, changed as a slip of the pen would change it, and
serves to see that a property notices.

### BlockCache

`cache`, `free_position`, `lru_list` and `lru_map` are the four members of
`Cache`; a list iterator is represented by the slot it points to, which
`SlotsPartitioned` shows to be the same thing. The disk image is seen twice:
`image` is what the stream returns, `file` what a new process would find. A
`fseek` before a read empties the stream's buffer, so `Disk_read_block` makes
them equal; a write leaves the choice open unless the counter forces an `fflush`.
`read_block` and `write_block` are one step, for they run under the mutex and
touch the file only through the stream; `flush_all` is one step per slot,
because the process may die between two of its writes. `Crash` is possible
anywhere and keeps `file` only. A crash of the machine, where pages the kernel
has not written are lost, is not modelled: the code calls `fflush` and never
`fsync`.

`BlockDev` states the promise without any of this: a read returns what was last
written, a completed flush makes it durable, and a crash leaves in each block,
independently, a value it had since the last completed flush. `recent` is the
history variable that says which values those are.

### Ext2Alloc

Bitmaps are sets of bits, `i_block[n]` the blocks of an inode up to the first
0. The numbers are those of the code, group arithmetic included, with its two
oddities: `ballocs` never looks at the group before the one it starts with, and
its callers pass `inode / inodes_per_group`. `ifree(n)` frees the blocks of
inode `n - 1`, as the code does. `misfreed` records the blocks that
were freed so while a live inode held them; `written` the inodes whose table
entry was ever written, for the code reads no other. `add_block_to_inode` stops
at the direct blocks; `VfsFile` goes on to the pointer block. `Init` is what `format` leaves on a fresh image.

An assert that fails is a value of `failed`, after which nothing happens.

### DirBlock, DirInode

A block is a function from the offsets where its entries start to entries with a
name, an inode and a `rec_len`; what lies in the gaps is not modelled, because
nothing reads it. `add_entry` cuts the first record with room, `free` gives the
record to the entry before. `DirInode` is one directory under any sequence of
`add_entry_to_inode` and `free_entry_to_inode`, freeing inodes that have no entry
included, and of listings. Blocks beyond the direct ones are `PastDirect`: the code gives the
directory a pointer block, in which the word for the new block is followed by those of
a block bitmap (see VfsFile), the first of them no block of the disk. What `add_entry_to_inode` and
`free_entry_to_inode` find before they come to that word they still find; a listing, which
reads all blocks, and a search that goes on to it fail the assert of `read_block` (`Astray`).
So the 13th block of a directory is its end. Names are values with a length: the code only compares and measures
them. The handlers never add a name or an inode that is already there, except
through `mv` (see Namespace), and the guard says so for the inode; names may
repeat.

### Namespace

The record `fs` holds the bitmaps, the inode table and the contents of blocks;
each handler of `vfs.hpp` is one action, with all that it calls. Paths are
sequences of names. `fs.failed` names the assert that failed or the walk that went
astray, after which nothing happens.

What a regular file holds is `Bytes`, and all that is told of it is that it is no
directory entries. It has to be told, for no handler asks whether a component of a
path is a directory: `find_dir_from_inode` reads whatever blocks an inode has. A
block of zeros makes `next_entry` loop on `rec_len` 0, other bytes may make it leave
the block, end anywhere, or find entries that nobody made. The model follows none of these: a search of an inode
with such a block is not `Readable`, leads to `Lost`, and stops (`file_walked` in
a regular file, `astray` in a directory that has lost its block to a file). So nothing is
claimed of what comes after, the endless loop with the mutex included, which is `Loop` of
`Sessions`. `write_to_file` is the `write` of a shell as far as it matters here: the
file gets a block, or the blocks it has are overwritten; which bytes, and what is written at which offset,
is in `VfsFile`. `ls_from_root` is an action because its walk may go astray too.

A directory that needs a block beyond the direct ones stops the model (`outgrown`): the code
goes on, and aborts at the next listing, which `DirInode` has. `create("/")` calls `back` on an empty
vector; here the process ends with it (`no_name`). Names over 255 bytes, which fail an
assert in `add_entry_to_inode`, are left out.

The code has four defects that break the tree, and `fs.defects` remembers which
have struck: `misfreed` (an `ifree` took a block of a live inode), `moved` (`mv`
of a directory to another one, which leaves `..`), `duplicate` (`mv` onto a name
that is there), `file_as_dir` (an entry in a regular file). Until one strikes,
the directories form a tree and every call changes it as `Tree` says. Past that
point, `EachDerailHasItsCause` says what has to come first: a directory
with a block that holds no entries, and the failed asserts on "." and on the entry
to be freed, need one of the defects other than a doubled name. The other derails take no defect but one call:
`ballocs`, `outgrown`, a walk into a file that was written to, `rmdir` of what has no
father, `mv` of a dot, `create` of no name. Each of the three defects suffices for
the assert on ".": a freed block is another directory's next, `touch a/.` puts
a "." into the regular file `a` that is the new file's, and the ".." that a moved directory
keeps may lead to a removed one, whose block is another's by then.

### Shells

A session has a working directory, `pwd`, and perhaps a `cd` of which the first
half is done (`gap`). `to_abs` is the code's, with its odd case: a working
directory that became `""` is read in front of its first character. `CdCheck` and
`CdMove` are the two critical sections of `cd`; every other command is one step,
an action of `Namespace` applied to the absolute path. `real_path` is a fold over
the components that keeps, as the code does, the set of inodes it visited
(`fa`) and the names so far: a component that leads to a new inode appends its
name, one that leads to a visited inode drops the last name, one that leads nowhere
is made. `gap[s].quiet` is a history variable: nothing has changed since `exists`.
`pwd`, `help` and `cat` have no action: the first two do not reach VFS, and `cat` walks a path as `ls` does. `ls`
without a name has one of its own, for the assert it fails when the directory is `""`.

What is claimed is about a `cd` nothing disturbed, for the one that was disturbed
is known to go wrong: `real_path` makes the directory again, and its failure
leaves `""` behind, which the model has (`"not_absolute"`) and no property forbids.

### VfsFile, FileStore

Each call of `VFS` on a file is one action: `cat` and `write` of a shell are open,
(lseek,) read or write and close in one critical section, and the library's user
calls them one by one. `fs.i_block` are the direct blocks, `fs.pointers` the words
of the first pointer block as `get_inode_all_blocks` reads them, and a byte is
the inode that it was written for, which tells apart whose data is where. Blocks
hold `BLOCK_SIZE` bytes, and offsets wrap at `TwoTo32`.

`Indirect` is where the code departs from what is meant: `_start` points into the
one buffer that `ballocs` fills with a block bitmap, so that the pointer block is
written with the words of that bitmap behind (or over) the new pointer. The words
for the blocks in front of the data table are all ones, `Junk` here (`JunkWords`, 15 of
them in the program). Reading one fails the range check of the disk, freeing one the
assert of `bfree`. What stands behind them depends on which data blocks are in use, and an index past
the list is read from wherever the vector ends; the model does not follow either and
stops with `failed = "range"`, so that nothing is claimed of such a file but that it
had outgrown its direct blocks.

`FileStore` is the promise: names with sequences of bytes. `ImplementsFiles` says
that a step between two states without abort and without defect is one of it, and that
a read or a write is one of the file its descriptor was opened on: `opened`, a history
variable, has its name, and loses it when that file is removed, for good, whether or not
its inode or its name is given to a file again. The
defects are `misfreed` (an `ifree` took a block of a live file), `stale_fd` (a
descriptor of a removed file was read or written through, which reaches the file
that has the inode by then, or the blocks that the inode had) and `wrapped` (offset + count
passed 2^32). They are modelled and end the claim; they are not forbidden.

### Sessions

Each connection has a client, its handler and a channel each way. A command is its
kind, told apart by what it does to the protocol (see the head of the module); a
message is what it asks, a reply what it answers. `at` and `doing` are the handler's
place: reading its table of users, splitting, waiting for the mutex, splitting a
path inside, in the critical section, or on the way out through `~Shell`.

`strtok` is the position that the C library keeps once for all threads: whose string
it is in, and how many words are left there. `split` is three actions, `FirstWord`,
`NextWord` and the end, because another thread may call `strtok` between any two;
when it does, words of one string come out of another's split, and what follows
from the wrong words is every outcome the code can have (`"misled"`). `raced`
records that it happened.

A client sends nothing when the command, or the login made of a name and a password, has
128 characters or more, and waits all the same (`long`).

A critical section ends in `Leave`, in `Loop`, a walk that never ends (`touch a; write x a; touch a/b` is enough,
see Namespace), with the mutex, or in `Fail`, an assert of VFS, which ends the server. Which of them it is
is for `Namespace` to say; here each may happen at any time.

`Vanish` is a client killed or cut off at any moment; it comes back as a new
connection of the same identity, once its handler has ended. The server's death
(`stoi` throwing, or `Fail`) ends everything, and nothing after it is modelled.

### Mount

`Format` is the sequence of writes of `Ext2m::format`, in order, and `pc` the
position in it. The device is `BlockDev`'s promise put in two variables: `content`,
what is read back, and `stable`, what a new process would find; `Evict` makes one
block durable at any moment, `Sync` all. A crash or an abort starts the
constructor anew, on what was durable. The image it starts from is foreign: any
of a few contents of its first block bitmap, which `format` never clears, and
zeros or anything in its other blocks. Blocks that are never read back are left
out.

## Runs

| Run | Question | Bounds |
|---|---|---|
| `block_cache` | do the structures agree, is nothing lost, is it a `BlockDev`, which blocks does the cache hold, does everything become durable | 3 blocks, 2 slots, one value and zero, an `fflush` at every second write at most |
| `ext2_alloc` | who owns a block | 3 groups of one data block, 3 inodes each, 2 direct blocks |
| `dir_inode` | do blocks and listing stay exact | 5 children, names that take 12, 16 and 28 bytes, blocks with 28 bytes beside the dots, 3 direct blocks of the 12 |
| `namespace` | is it a tree, and what follows from a defect | 2 names, paths of up to 2 components with dots, 4 inodes, 2 groups of 2 data blocks, one entry per block, 2 direct blocks; up to the second defect (`AtMostOneDefect`) |
| `shells` | where does `cd` lead, and what does it change | one session with `ls`, a name, `..`, a path up and down and an absolute one; others who change the tree; the disk of `namespace`; up to the first defect (`NoDefects`) |
| `files` | do files hold what was written | 2 names, one descriptor, blocks of 2 bytes, 2 direct blocks, sizes up to 7, offsets that wrap at 16 |
| `sessions` | do requests and answers stay in step, is the mutex held, who is misled, who is answered | 2 clients, every kind that differs, one user with two lines in the table |
| `mount` | what does a mount find after crashes | 2 groups of 2 data blocks, three foreign bitmaps (empty, part, full), 2 crashes |

Why these bounds are enough to meet the interesting cases:

* Two slots for three blocks make every third access evict, clean or dirty, in and
  out of a flush.
* Three groups are the least where `ballocs` searches more than one and still
  skips one; with one data block each they fill up, and each has a last inode.
* Blocks with room for one long or two short entries make every directory
  grow to several blocks and split and merge records of all sizes.
* In `DirInode` five entries fill the three direct blocks and the one behind the pointer block.
* In `Namespace` a directory with two entries needs two blocks, and inodes and
  blocks run out and are used again. The constraints `AtMostOneDefect` and `NoDefects` look at no
  successor of a state in which a call has just returned -1, for what such a call changes, if anything,
  a shorter one changes too (a `mkdir` that fails after its first component is the `mkdir` of that component),
  and let one file be written to, with one block, when no defect has struck; after a defect other than a doubled
  name there are three live inodes at most.
* One session in `Shells` is enough, for what another can do to it between the
  halves of its `cd` is a change of the tree, which `Elsewhere` makes; two shells share
  nothing else.
* A file of `VfsFile` has up to three blocks and the one after its last, so that
  the direct blocks are left behind; two names are two files that compete for
  blocks and inodes, or one file and a removed one whose inode is used again. The
  constraint `BeforeDefects` looks at no successor of a state with a defect, and
  lets a descriptor stand at 0 to 4 or at 15, where a write wraps.
* Two clients are two threads in `strtok`, one more than is needed for a race, with
  the sync thread as a third that wants the mutex.
* With two crashes one falls into the format and one into the next, at any two
  of their writes.

The run `namespace` claims the tree until a defect strikes (`Intact`) and goes on to
the second to look for aborts. `shells` and `files` stop at the first, so the run `files` has
`AbortsHaveCauses` before one only; what the property says after wrapped writes and those of removed files is
proved (`AbortCauses`). All
but `block_cache` contain states in which the process has ended, or nobody
has anything to type, so deadlock is not an error there.

Symmetry is used for the names of `files` only, where all of them are alike and no
liveness is checked.

### Fairness

`block_cache` assumes weak fairness of `FlushStart`, `FlushItem` and
`FlushEnd`. The last two are the progress of a loop. The first says that the sync
thread (`server.cpp` 186-193) goes on calling `vfs.sync()`. `sessions` shows as much of it as is true
(`SyncGoesOn`): it does until the server dies or a walk turns for ever under the mutex. So
`DurableAgainAndAgain` holds on that condition: a server of which a handler is in such a walk
makes nothing durable any more, and answers nobody.

`sessions` assumes weak fairness of each handler's steps taken together, of `Receive` and of
`SyncEnd`: a thread that can go on does. That does not say that a critical section ends: its next
step may be `Loop`, after which the handler has none, and keeps the mutex. It assumes strong fairness of `Lock` and of
`SyncStart`: `std::mutex` does not promise that a thread that waits for it ever gets
it, so this holds on the assumption that other threads do not always overtake it;
they do network input and output between any two calls, and the sync thread
sleeps ten seconds. Nothing is assumed of users: they need not type, and may vanish
or not. Under this, `Answered` and `SyncGoesOn` hold, with the death of the server and a handler
that is `Stuck` as the ways out that they name; with a path that forgets to
unlock the mutex neither does.

`mount` assumes weak fairness of the constructor's steps, the start of a new process
after a crash included; without a bound on crashes nothing could be promised.

### Where the code does something else

Each of these runs finds a violation; the property is what a comment or an assert
of the code says.

| Run | The code |
|---|---|
| `ballocs_skips_a_group` | `ballocs` aborts the process while a group has free blocks |
| `ifree_frees_a_neighbour` | `ifree` frees the blocks of the inode before its own |
| `rmdir_after_mv` | after `mv` of a directory, `rmdir` looks for it where it was, and aborts |
| `mounted_without_root` | an image cut short by a crash or an abort in `format` is mounted without a root directory |

Also in the model, without a run of their own:

- `mkdir` returns -1 at the first component that exists, so that only a path
  whose every component is new is made (`vfs.hpp:62-64`);
- `mv` looks for the new name in the old directory: nothing moves that keeps its
  name (`vfs.hpp:361`); a directory may be moved under itself, which cuts it off
  from the root and reports success; `mv` of `/`, like `rmdir` of an empty regular
  file, fails the assert of `get_inode` (`failed = "inode_0"`), and `mv` of a path
  that ends in a dot those of `entry_block::free` (`"dot"`);
- `touch a/b` puts an entry into the regular file `a` if it is empty
  (`"file_as_dir"`), and loses itself in its bytes if it was written to (`"loop"`);
- a `cd` whose directory another session removes between its halves makes it
  again, or, with no inode left, leaves the session in `""`, where `ls` fails an
  assert (`"not_absolute"`); `real_path` pops from an empty vector on a path that
  leaves a directory and comes back (`"pop_empty"`);
- `exit` with a word after it ends the handler, which closes nothing, while its
  client waits on the open socket (`Unanswered`);
- `rm` fails on directories although the help says it deletes them.

In `Shells`: `real_path` loses a name when a path goes down again into a directory it
has visited, also where it does not pop from an empty vector; a directory that another session moves or
replaces takes the working directories of the others with it.

In `VfsFile`: a file that outgrows its direct blocks has a pointer block full of
bitmap words (`failed = "range"` or `"bfree"`), and loses the pointer block
itself, which no inode names; a write that wraps reports success and writes
nothing; a write ends by taking one block more than it needs when it ends at a block
boundary, and a read relies on it.

In `Sessions`: a command of blanks, a command or a login that is too long and `exit` with a word after it
are never answered (`Unanswered`), and the client waits for ever; an offset that is
no number ends the server; a race in `strtok` can let a wrong password pass.

## Theorems

For all values of the constants that satisfy the assumptions (`CacheAssumption`,
`LayoutAssumption`, `NameAssumption`, `InodeAssumption`, `NamespaceAssumption`,
`MountAssumption`, `FileAssumption`, each stated in the module that declares the constants;
`NamespaceAssumption` asks that the inode whose bit `format` sets is a reserved one, as it
is with the first inode 11 that `format` writes and the mount demands):

* `BlockCache_proofs`: `Spec => []TypeOK`, the agreement of the structures
  (`StructuresAgree`, `SlotsSplit`), no lost write (`NoLostWrite`), crash safety (`CrashSafe`),
  and that `BlockCache` implements `BlockDev` (`CacheImplementsDevice`). The
  inductive invariant `IInv` adds to the checked properties `DirtyNamesBlock`, for
  `_write_item_back` skips a slot that names no block: without it the step of a
  flush could not be shown to leave the slot clean. Each action has a lemma that
  says what it does to `Content`, which is the refinement mapping.
  Its last part is about `LruOrder`: `EvictsLeastRecent`. The history is the relation `later` between
  blocks, so `HoldsMostRecent` is inductive together with `IInv`. An access changes the list in
  one of three ways (a hit, a free slot, an eviction), and a lemma for each
  (`MoveToFrontOrder`, `PushOrder`, `RotateOrder`) says from which places of the old list a
  pair of the new one comes; `Victim` says that a block loses its slot only from the end of the
  list and with no slot free.
* `Ext2Alloc_proofs`: `TypeCorrect`, `MetadataSafe`, `LiveBlocksMarked`, `HeldOnce` and
  `OnlyIfreeCorrupts`. The last is the conjunction of `LiveBlocksUsed`, `NoCrossLink` and `NoDoubleHold`,
  which are inductive only together: a block just allocated is in no live inode
  because a block of a live inode is marked in use, unless misfreed. The proofs
  rest on the arithmetic of groups and offsets, as lemmas about `GroupOf` and
  `Offset`.
* `DirInode_proofs`: `TypeCorrect`, `RecordsTile`, `EntriesInOrder`, `ListingIsExact` and
  `DirInodeImplementsDirectory`. Tiling and the leading dots are needed for each
  other: `free` merges into the record before, which exists because no dot is ever
  freed. `ListingIsExact` follows the three loops of a listing, each by induction over
  a set: the walk of a block, backwards from its end, meets every entry once
  (`WalkVisits`), blocks after blocks every entry of the directory (`FlatCovers`), and
  of those the listing keeps all but the dots behind the third place (`ListingPicks`). What
  `Lists` says of the result is about any sequence of well-formed blocks; of the directory it is claimed while
  its blocks are direct ones, for with one more the code's listing does not come to its end. Tiling, dots
  and the refinement hold with that block too.
* `Namespace_proofs`: `TypeCorrect`, `DerailCauses` and `ShapeHolds`, for any disk, any
  names and any paths. `TreeShape` says what it says of a state without defects, and is not
  inductive: a call may strike a defect, and later ones run on what is left. The inductive
  invariant `Good` has two layers. `Sound` is what no defect takes away: a block of entries
  is well formed and names inodes that were made once, whoever has it by now. `Shape` holds
  until a block is freed under its owner, a directory moves or a file becomes a
  directory: blocks of live inodes are in use, each in one place (`Held`), those of directories hold entries
  and those of files bytes (`Contained`), so that a walk goes astray in a file only, and
  there is a function `up` that gives every live inode the directory that has its entry,
  the one that ".." names too (`Tree`); while no name is doubled either, names are
  distinct and every inode has a distance from the root (`Ranked`). `up` and
  the distances are in no variable, so a step has to say how they change:
  `TreeBorn`, `TreeAdd`, `TreeFree`, `TreeKill` and `TreeReparent` do, for the moment
  in which an inode is in no directory too, between the halves of a call. What the operators do to
  the rows of directories is in `AddEffect`, `FreeEffect`, `IfreeEffect`, `NewFile`, `NewDir`
  and `WalkTo`, which rest on the lemmas of `Ext2Alloc_proofs` and `DirInode_proofs`, instantiated; the
  loop of `mkdir` keeps `Making`. That all inodes are reached by paths no longer than there
  are directories (`AllLocated`) goes by induction over the distance, which the number
  of directories bounds (`RankBound`).
* `Sessions_proofs`: `TypeCorrect`, `MutexHeld` (`LockedWhileInside` is inductive with
  the types), `RequestsAnswersInStep` and `RaceAloneMisleads`. `InStep` counts what is
  underway for a client and is not inductive; `StepInv` says what lies behind the
  count, client by client: which places go with which work (`HandlerFits`), where
  the handler is when a request or a reply is in its channel (`RequestFits`,
  `ReplyFits`), and what the handler does for a client that waits (`ClientFits`).
  `RaceInv` adds the words split so far and how far `strtok` is in them, and rests on
  `StepInv` where a client may be waiting for something else. Both were checked
  by TLC on the bounds of `sessions` before they were proved. A step of one client leaves the
  others' part alone (`OthersFit`, `OthersNotMisled`), so that each action is looked
  at for its own client only.
* `Mount_proofs`: `TypeCorrect`, `MetadataStaysProtected`, `CompletedForGood` and
  `OnlyCrashHalves`, for any number of groups, any split of a group and any number of
  crashes. The steps of a format are a function of their place, so a few lemmas
  (`LayoutStep`, `ReserveStep`, `Places`, `Writes`) say which write a step can be; the
  arithmetic is that of a place within a group. The inductive invariant says what a
  format has done so far in the cache (`Done`), what its first sync put in the file
  (`Halfway`), and what a process finds that starts later (`LaidOut`, `Completed`,
  `Uncrashed`). `Halfway` has the block bitmaps of the file equal those of the cache until
  a block is allocated: without it a `ballocs` that aborts could find a free block
  after the restart, and `HalfOnlyAfterCrash` would not be inductive.
* `VfsFile_proofs`: `TypeCorrect`, `EndBlocks`, `SeparateBlocks`, `AbortCauses` and
  `Implements`, for any layout of the disk, any size of a block, any number of names
  and descriptors and any sequence of calls. The inductive invariant `FsInv` is of a state
  of the file system, and its parts need each other: `Shape` (types, the metadata marked, a pointer
  block only behind a full row of direct blocks and with one real word at most, names
  with inodes of their own), `Backed` (a file has the block its end is in, whoever wrote it and
  however), `Solid` (those blocks are blocks of the disk), `Apart` (blocks in use, each
  once) and `Pointed` (what stopped the process went through a pointer block). `Backed`
  holds with defects too, but for files with a pointer block, and that is what
  `AbortsHaveCauses` needs: after writes that wrap and writes to removed files, a file of direct blocks still never
  sends a read past its end. A write is followed in the order of the code: `Widening` says what the new
  size and the added blocks leave alone (`GrownEffect` is an induction over the calls of
  `add_block_to_inode`, on `Taking`), `WrittenEffect` what the bytes laid then are, and
  `WrittenBytes` that they make the content of the file what `FileStore` says and leave every other content
  alone, for blocks are `Apart`. `Implements` is the refinement, one lemma per call
  that changes a content or reads one (among them `ReadBytes`, `WriteBytes`). It needs `Tracked`: a
  descriptor that still counts as opened on a file has that file's inode.
* `NatFacts`: the least and greatest element of a finite set of numbers, which the
  other proofs cite for "the first such block", and induction over numbers for a set
  given as a parameter, from which `IterationExists` follows: a function that is defined by
  recursion from a first value and a step exists. It is what `GrownEffect` rests on.
  `PrefixRecursion` and `PrefixValues` say the same of the recursion over sets by which the
  community modules define `FoldLeft`, and that its value is reached step by step; it
  is what `ListingPicks` rests on.

Only model-checked:

* liveness (`DurableAgainAndAgain`, `Answered`, `SyncGoesOn`, `MountEnds`), because
  fairness and `ENABLED` are out of the prover's reach;
* `ImplementsTree` of `Namespace`, and the properties of `Shells`. The invariant that they
  need is proved; what is left is how the set of paths, which a recursion defines,
  changes with one entry. `Tree` lets a `mkdir` make two new directories at most, as many
  as the paths of the run ask for; for any `Path` it has to allow chains of any length.

## Not modelled

* `BitMap` is the set of its set bits: the byte and mask of a bit, and the loop of
  `nextBit`, are left out. They touch no bit but the one they are asked for.
* The second and third pointer block: the first one breaks at the second block it
  is given, long before it is full, so no file reaches them.
* The times, owners and permissions of inodes, the boot sector, the copies of the super
  block and the descriptor tables, which are written and never read for a decision.
* `main.cpp`, a demonstration; `config.hpp`, constants; `src/extern`, sockets, which
  are taken to deliver whole messages in order until the connection ends.
* Names of more than 255 bytes, which fail an assert.
* A crash of the machine with pages the kernel has not written.

## Plan

What would add most from here:

1. `Mount` over the real `BlockCache` instead of `BlockDev`'s promise, and `Sessions`
   over `Shells`, each as a composition; both are too large for TLC as they stand.
2. `BitMap` over bytes against the set of its bits.
3. `ImplementsTree`, from the invariant of `Namespace_proofs`: a lemma that the path of
   an inode is that of its directory and its name, then one lemma per call. After it the
   action properties of `Shells`.
