# A verification of the network file system

TLA+ models of the naming server, the storage server and the clients of this repository,
alone and composed, configurations that check them with TLC, and theorems proved with
TLAPS. Line numbers refer to the files under `src/`.

## The system

Three programs talk over one-shot TCP connections: connect, send one `Message`, receive
one `Message`, close (`utils.c`).

| Component | State it keeps | Operations |
|---|---|---|
| Naming server (`naming_server.c`) | `registered_ss[]`, `num_registered_ss`, the round-robin `current_ss_index`, `ss_list_mutex`; the trie; the cache | one thread per connection: REGISTER_SS, LIST_PATHS, CREATE_FILE, DELETE_FILE, COPY_FILE, and the lookups READ_FILE, WRITE_FILE, GET_FILE_INFO |
| Trie (`trie.c`) | for each path the server entry it is mapped to; a reader/writer lock in each node | insert, search, delete, collect |
| Path cache (`lru_cache.c`) | a recency list of at most 100 nodes with a copy of the server entry, one node pointer per bucket, one mutex | `lru_get`, `lru_put`, `lru_remove` |
| Storage server (`storage_server.c`) | its registration; two listening ports | one thread per connection: READ, WRITE, INFO for clients, CREATE, DELETE, COPY for the naming server |
| File locks and operations (`ss_file_operations.c`) | a table of reader/writer locks by path and its mutex; the files | acquire and release, `ss_create`, `ss_delete`, `ss_read`, `ss_write`, `ss_get_info` |
| Client (`client.c`) | none | one request to the naming server, and for lookups one to the storage server it names |
| Messages (`utils.c`, `common.h`) | none | `send_message`, `receive_message` |

A storage server registers its paths with the naming server. A client's CREATE, DELETE or
COPY is forwarded by the naming server to a storage server, and its own structures are
brought up to date when that server has answered; a COPY makes the source server write to
the destination server's client port. For the other operations the client is told where
the file is and goes there itself.

### What is hard about it

* **Threads of the naming server.** Mutations hold `ss_list_mutex`, lookups do not; calls
  to storage servers are made without it, between a check and the update it was for; the
  cache returns a pointer that is used after its lock is released; an array entry is
  published through the trie before registration is complete.
* **The cache's hash map.** `map[]` holds one pointer per bucket and the scan that starts
  there follows the recency list, which mixes buckets.
* **Threads of a storage server.** Locks are found or created in a shared table, released
  through another search, and held across an `fopen` that empties the file and the
  `fwrite` that fills it. Locks go by path, contents by file.
* **Walks in the trie.** A walk gives up the lock of one node before it has the next, a
  listing keeps the locks of all nodes above it, and mutations come in between.
* **Two ports, one loop.** A storage server accepts for clients and for the naming server in
  one loop that may block, and hands each socket to a new thread through a cell.
* **Failures.** Every forwarded call may be lost before or after its effect; storage
  servers die and start again, and are known before they listen; a redirected client may
  come late; `malloc`, `pthread_create` and the disk may fail; the naming server keeps
  nothing across a restart.
* **Limits.** 100 servers, 10 paths in each entry, 100 cache nodes, 10 paths in a listing.

`PROJECT.json` lists these hazards line by line, with the properties that speak of them.

### What makes each component correct

* Cache: it keeps its shape; it never reads a freed node; it finds what it holds; what it
  answers is what was last put; it is a bounded least-recently-used map. The code keeps the
  second only until a path is removed, and the next two only for paths that share their
  bucket with no other: the properties say how far each goes.
* Naming server: pointers lead to entries that are filled in and never change hands; the
  cursor stays in range; trie, lists and cache agree; a client is sent where its path is; a
  path is not taken from its server by an acknowledged creation; every request is answered,
  and a storage server that hangs does not stop the others. No lock joins the three
  structures: the properties name the events that set them apart and exclude all others.
* Trie: a map whose operations are atomic; no walk ends in a null pointer, none for ever.
* Storage server: one lock per path; a release gives back what was acquired; one writer or
  several readers; each request atomic; an acknowledged write is in the file; every
  request is answered. Each connection has one thread; neither port starves the other.
* The whole: the trie names a server for a path just when the file is there; a refused
  request has changed nothing, an acknowledged one is done.

## The modules

| Module | Models | Composition |
|---|---|---|
| `LRUList` | the operations of the cache as operators on a record | used by the next two |
| `LRUCache` | the cache as a component: any order of gets, puts and removals | EXTENDS `LRUList` |
| `BoundedLRU` | what a cache promises: a bounded map that evicts in order of last use | implemented by `LRUCache` |
| `NamingServer` | all of `handle_connection`, with trie and cache inside | EXTENDS `LRUList` |
| `NamingHistory` | the same, with a record of the events that set trie, cache and lists apart | EXTENDS `NamingServer` |
| `PathTrie` | the trie with the locks of its nodes | shows that the atomic trie of `NamingServer` may be assumed |
| `PathMap` | what the trie promises: a map with atomic operations | implemented by `PathTrie` |
| `StorageServer` | both handlers of the storage server, lock table, locks and files, a crash | |
| `FileStore` | what a storage server promises: each request atomic or refused | implemented by `StorageServer` |
| `StorageMain` | the storage server's `main`: start, ports, accept loop, threads | starts the threads of `StorageServer` |
| `NFS` | clients, naming server and storage servers together, calls between them, crashes | composes the promises of the modules above |
| `MC...` | values for the constants | one per component |
| `...Proofs` (seven), `StorageServerRefinement` | theorems | see below |

### LRUList, LRUCache, BoundedLRU

A cache record holds `list`, a sequence of node addresses from head to tail standing for
`head`, `tail`, `prev`, `next` and `count`; `path` and `info` for each address; and `map`.
`Node` is the set of addresses `malloc` may return, so a freed address may come back for
another path. `Start`, `Matches` and `Found` are the scan the three operations share;
`Evict`, `Insert`, `Refresh`, `Unmap` follow the branches of `lru_put` and `lru_remove`,
the stored successor of `lru_cache.c:155` included. Hashes are a constant function from
paths to buckets: no property depends on the polynomial, only on which paths collide.

Buckets are as many as places, since `map[]` has `LRU_CACHE_SIZE` elements and the hash is
taken modulo that number. So a cache that evicts holds, or held, more paths than there are
buckets, and some of them collide. A path is `Alone` when no other path in use has its
bucket.

Each operation holds the cache's mutex throughout and is one step of `LRUCache`. A scan
whose bucket points at a freed node reads freed memory: `Fault` records it and only a
restart follows, since the C program's behaviour is undefined from there. `latest` and
`removed` are history variables.

`IsBoundedLRU` maps the list to the sequence of (path, server) entries of `BoundedLRU`, and
`fault` to its `broken`. The promise is the one the code keeps: entries are given up in
order of last use; a path that is alone in its bucket is never missed, so it never has two
entries; one that collides may be missed, be entered again and answer after its removal;
and the cache breaks down only after a removal, at a path alone in its bucket only after a
removal of that path. `lru_dangling` shows such a breakdown, with two paths in buckets of
their own: it needs neither a collision nor an eviction.

### NamingServer

Each connection has a position (`pc`), its message (`req`), the pointers its handler holds
(`local`) and its answer (`reply`). A handler is cut where another thread can see the
difference: a trie or cache operation is one step (each is atomic for its path under its
own locks), and so is a section of `ss_list_mutex`, except that registration publishes
its paths one by one and DELETE clears the trie before the cache; these two hold the mutex
over several steps. A forwarded call is one step that takes effect when the answer
arrives; `RpcCode` is what it may bring back. The pointer `trie_search` or
`get_available_ss_for_creation` returns is an index into `registered_ss`; the pointer
`lru_get` returns is a cache node, and `UseAfterFree` is what happens when it was freed in
the meantime. READ, WRITE and INFO share a case of the switch and are the one operation
`LOOKUP`. `placed` is a history variable. `NoThread` is a connection for which
`pthread_create` failed: it stays open and nobody serves it (`naming_server.c:437`).

An exit between `accept` and a complete receive leaves nothing behind and is not a step.
Memory running out inside the trie is not modelled.

### NamingHistory

What ties trie, lists, cache and answers together is kept by no lock: a handler reads the
trie, calls a storage server, and then writes. So each of them is wrong at times, with every
request acknowledged. `NamingHistory` adds three variables that follow the steps of
`NamingServer` without changing them (`HistoryWatches` is the proof of that):

* `contested`: the paths that were placed while they were mapped already, by an overlapping
  creation or by a registration, or whose new mapping was cleared by a DELETE that had found
  another. The list of an entry may name such a path wrongly.
* `stale`: the paths that were placed over another mapping, or filled into the cache by a
  lookup that had read the trie before a DELETE. The next DELETE makes them right again,
  unless such a fill is still on its way.
* `age`: for each thread that holds a node of the cache, the number of uses of the cache
  since it got it, and `LRU_CACHE_SIZE` when its path was deleted.

The properties quantify over all threads and all states: outside these events trie, cache,
lists and answers agree. They say of the cache only what the bucket allows (`Alone`), but
`HeldNodeStays` and `RedirectWasPlaced` hold for every path and hash: the pointer of
`lru_get` is good for `LRU_CACHE_SIZE - 1` later uses of the cache, since a node falls
behind by one place with each, and no longer.

### PathTrie, PathMap

A node is the sequence of bytes that leads to it: `nodes` says which exist, `ss_info` what
each is mapped to, `readers` and `writer` who is inside its lock. A walk is four kinds of
step, as in the code: lock the node (`LockNode`), look for the child, create it when
inserting, and unlock (`Step`), read the pointer when the lock is gone (`Follow`), and at
the end of the path act under the last lock (`Store`, `Find`). The code reads
`current->children[index]` after the unlock of `trie.c:27`; `ChildIsThere` says that this
is harmless. `Visit`, `Descend` and `Ascend` are the recursion of
`_trie_collect_paths_recursive`, with `index` for its loop. Insertions and deletions hold
`ss_list_mutex`, as all callers do; searches and listings do not.

`PathMap` has one step for each operation, and for a listing a beginning and an end: its
answer is the content of the map at one moment in between, the first paths in the order
of bytes, as many as there is room for. `seen`, a history variable, collects those
contents. `Mapping` is the refinement: `ss_info` at the paths. That makes it legitimate
for `NamingServer` to take each trie operation as one step.

### StorageServer, FileStore

`file_locks` is the table: a sequence of lock nodes in the order of creation, which is the
order that matters for a search, and in each node the threads inside. A thread finds or
creates its node under `file_locks_mutex` in two or three steps, waits for the lock,
operates, searches again to release, answers. Either lock call may fail (`LockFails`). `WriteOpen` and `WriteData` are the two
halves of `ss_write`, `DeleteStat` and `DeleteUnlink` of `ss_delete`. `FileOf` says which
file a path names; two spellings of one file are two paths with one value. Contents are
model values, with `Empty` for no bytes, `Dir` for a directory, `Partial` for less than
was asked. Any open, `stat` aside, may be refused by the system. Lock implementation: the
default glibc reader/writer lock, which admits readers whenever no writer is inside.

`Crash` is the end of the process and its next start: the table is empty, nobody has a
request, and a file that was being written has what had reached the disk.

`FileStore` has one step per request. `Committed` is the mapping: a file being written
still has the content it had when the write began, which the history variable `before`
remembers.

### StorageMain

`phase` is where `main` is: registering, opening the port for the naming server, opening
the one for clients, in `select`, or at one of the ports, about to look at its bit and to
accept. Every call on the way may fail and end the program. `queue` is the system's queue
of each port, `new_sock` the memory through which a socket's number goes to the thread,
`lost` the connections for which no thread could be made (`NoThread`: the test for a
negative result of `pthread_create` never succeeds). What a thread does is two steps,
taking the number and everything else: `StorageServer` has the inside. Peers connect, send,
leave the queue and go away as they like.

### NFS

A client and the handler that serves it are one thread of control. It is cut where
something else may happen: between the look at the trie, the call to the storage server
(`create_call` to `create_done`), its answer and the update; between the redirection of a
client and its arrival; between the read and the write of a copy. Trie, cache and the
operations of a storage server are one step each, what `PathTrie`, `LRUCache` and
`StorageServer` show of them; the round-robin choice is any registered server. `cache` has
for each path the servers its entries name: an entry may be evicted, not be stored for lack
of memory, be hidden by a collision, stand beside an older one and outlive a removal. `status`
is how far a storage server has come: down, registered but not listening, up. `Crash`
breaks the connections of those who wait for it. Files survive. A WRITE which the source of
a copy has sent before it stopped is in `late`, and its receiver carries it out at any time
after (`LateWrite`).

`doubt` is a history variable with the places where trie and files may differ, each put
there by one of the cases that the comment of `Agreement` names and taken out when a
later request settles it. It makes `Agreement` say that nothing *else* sets them apart.

### Variants

Operators commented "Variant" are the code with one plausible mistake (a lock not taken, an
entry not cleared, an early exit that keeps a lock). Nothing uses them; put in the
place of the operator they vary, each makes the property it was written for fail, which
shows that the property depends on the code being as it is. `PROJECT.json` pairs them.

## Runs

`tlc -config <run>.cfg <module>`; the constants are in the `.cfg`.

| Run | Instance | Shows |
|---|---|---|
| `lru_shared` | 3 paths in 2 buckets, 2 servers, 3 addresses, size 2 | shape; reachability and freshness of the path with a bucket of its own; dangling only after removals; refinement of `BoundedLRU` |
| `lru_dangling` | 2 paths in 2 buckets, size 2 | **fails**: `lru_cache.c:155` leaves a bucket pointing at a freed node |
| `nm_lists` | 2 connections, 1 server, 2 paths, all operations but lookups, registrations of the same server again, lists of 2 | lists and trie |
| `nm_cache` | 2 connections, 2 servers that bring 2 paths each and one in common, 3 paths in 2 buckets, cache of 2; registrations, deletions, lookups | cache, trie and redirects; the pointer of `lru_get` |
| `nm_concurrent` | 2 connections, all operations, 1 path, registrations included, fairness of threads only | pointers, cursor, registrations; no request waits for another's call |
| `nm_double_create` | 2 connections | **fails**: check, call, update |
| `nm_use_after_free` | 2 connections | **fails**: pointer used after unlock |
| `trie_walks` | 3 threads, one of them reading; a path and one below it; room for one in a listing | refinement of `PathMap`, no lost child, every walk ends |
| `ss_atomic` | 2 connections, 2 files, all operations, crashes, a disk that fills | refinement of `FileStore` |
| `ss_served` | 3 connections, 1 path, reads, writes, copies and failures, crashes, calls that never return, fairness of threads | lock table and locks; readers are answered; only readers keep a writer out |
| `ss_main` | 3 peers, 2 ports with a queue of 2, 2 threads, 2 cells | one thread for each connection; the ports do not starve each other |
| `nfs_agree` | 2 servers that stop and start, 2 paths, a client that mutates and one that reads and writes | agreement of trie and files, refusals and acknowledgements |

### Deviations

The runs marked **fails** state what a comment or a document says and show that the code
does otherwise; `PROJECT.json` quotes the lines. The models contain these others as well,
and a property that excluded them would not hold:

* `LIST_PATHS` collects at most `MAX_ACCESSIBLE_PATHS` paths, the limit of one server
  (`trie.c:76`), where `instructions.md:89` promises all.
* A registration maps its paths in the trie and leaves the cache alone
  (`naming_server.c:85`): a path that is registered again by another server is answered
  from the cache with the earlier one, and stays in the list of the earlier one
  (`Placing` in `NamingHistory`).
* A lookup that read the trie before a deletion fills the cache after it
  (`naming_server.c:366` after `:257`, whose comment says "Invalidate/remove from cache"):
  the cache goes on answering for a path that is not mapped, until its next DELETE
  (`Forgetting` in `NamingHistory`).
* A DELETE clears whatever the path is mapped to when its call returns
  (`naming_server.c:256`), which may be a creation's new mapping (`Clearing`).
* Locks go by the spelling of a path (`ss_file_operations.c:36`): `a` and `./a` are one
  file with two locks, and `README.md:286-287` ("Exclusive access, blocks readers") does
  not hold for them. `SingleWriter` and `IsFileStore` are for paths that name different
  files.
* A call whose answer is lost has been carried out (`naming_server.c:179`, `:244`, `:327`).
  After a DELETE like that the path stays mapped: the next DELETE answers `FILE_NOT_FOUND`
  and a CREATE `FILE_EXISTS`, until a WRITE, which is still redirected there, makes the file
  again.
* A write that fails with `ASYNC_WRITE_FAILED` has emptied or created the file
  (`ss_file_operations.c:208`, `:217`); when it was the second half of a COPY, the path is
  not mapped.
* A client that was redirected before a deletion and writes after it makes the file again,
  on a server where no path leads to it.
* Two clients that mutate one path can leave trie and files apart with every request
  acknowledged, as in `nm_double_create`; `Agreement` is about one such client.
* A path created by a request is not on the command line of its server, and so is not
  registered by it after the naming server has lost its state.
* `pthread_create` answers a positive number when it fails; the test is for a negative one
  (`storage_server.c:379`, `:401`, `naming_server.c:437`), so the connection stays open
  with nobody to serve it and an unset thread number is detached.
* With two paths in one bucket, a node that lost its bucket (`lru_cache.c:132`) may be put
  a second time, not be found, or survive the removal of its path and answer later. Put
  `p1`, put `p3`, get `p1` is enough to lose `p1` when the two share a bucket.
* A read of a file that is being written waits; `FILE_IN_USE` is answered only when a lock
  node cannot be allocated or the call for its lock fails (`ss_file_operations.c:44`, `:64`,
  `:97`), where `README.md:322` documents it for files being written.
* `ss_write` looks at `fwrite`'s count and not at `fclose`'s result
  (`ss_file_operations.c:214-217`): a write that a full disk cut short may be answered
  `SUCCESS`.

### Bounds

Nothing counts without end: the only bounds are the sizes of the sets, and `age` stops at
`LRU_CACHE_SIZE`. A cache of two places has two buckets, as in the code; with three paths
two of them collide and the third is alone, the cache is full, evicts, reuses addresses and
has a tail different from its head. Two connections show every race of one handler with
another; three threads are needed where two readers and a writer meet (`ss_served`) and
where two mutations meet a listing (`trie_walks`). Two servers make the cursor turn and
the array fill (`MAX_SS = 2`). Listing limits of one or two paths are reached. In
`nm_concurrent` one path is enough, since handlers of different paths meet only in the
mutex, the array, the cursor and the cache's list, and what it checks does not depend on
the last.

In `nm_cache` mappings come from registrations, which overlap in one path: what a creation
does to cache and trie is what one step of a registration does. In `nm_lists` one server
that registers twice fills two entries with the same paths, so an entry's list goes wrong
as with two. Forwarded calls succeed in both (`RpcCode`), since a failed one changes nothing
in the naming server. Nodes and connections are interchangeable (SYMMETRY), which is sound
for these invariants and step properties.

In `trie_walks` a path and its prefix share every node but one, so each walk crosses each
lock of the others; `OneReader` gives one thread the searches and listings and the two
others the mutations. In `nfs_agree` `Asks` lets one client delete both paths, create the
second and copy the first to it, and the other read and write both: the reads of a mutator
would add nothing, since it waits for its own answers. The first server exports a path it
has, the second one it does not have, and each can be chosen for the second path. There is
at most one late write for each server and path. In `ss_main` two threads for three peers
run out, a queue of two fills, and two cells are reused; deadlock is not checked there, as
the program may end. Deadlock is checked in every other run.

### Fairness

Threads are scheduled by the kernel: a step that needs no lock has weak fairness. A step
that takes a mutex or a reader/writer lock has strong fairness, because the lock may be
free only from time to time while others take it; every section that holds one is finite
and made of fair steps. New connections have none, and neither have calls the naming
server forwards: they may never come back, and `WaitsOnlyForItsCall` is about what that
does to the others. Nor has the call a COPY makes from one storage server to another: it has
no timeout (`utils.c:78`), and its destination may be this server, have its file locked or
hang. `ReadersServed` and `OnlyReadersStarve` promise nothing to a request whose own call
does not return (`Calling`), and everything to the others: its thread holds no lock
meanwhile. A lock call that fails has no fairness either. glibc's default lock lets readers
pass a waiting writer, so a writer among endless readers may wait for ever:
`OnlyReadersStarve` says that nothing else keeps it, and `WalksEnd` the same of mutations of
the trie.

In `StorageMain` the main program and the threads have weak fairness. Accepting has strong
fairness: `malloc` and `accept` may fail for lack of memory or descriptors, and the loop
then starts again, but not every time for ever. Peers have none: a connection on which
nothing is sent keeps its thread.

## Proofs

`tlapm <module>.tla`. They hold for every value of the constants that satisfies the
ASSUMEs of the module they are about: sets, functions and limits of the kind the comments
say, `Null` and the special contents different from all else, a zero byte in no path.

**`LRUListProofs`** has the lemmas about the operators: what a search finds, what removing
from and adding to the list does, that each operation keeps `WellFormed` (a list of
distinct allocated nodes within the limit, and nothing stored off the list), what it
changes in `path`, `info` and `map`, and by how many places it moves a node that stays.

**`LRUCacheProofs`** (for any hash and any size)
* `TypeCorrect`: `Spec => []TypeOK`.
* `DanglingSafety`: `Spec => []DanglesOnlyAfterRemoval`. It is not inductive: when the tail
  is freed, only the bucket of its own path is cleared. The invariant adds that the node a
  bucket points at is one of that bucket's paths, unless one of them was removed.
* `Reachability`, `Freshness`: `Spec => []EveryEntryReachable` and `Spec => []HitIsFresh`. The
  invariant says of a path alone in its bucket that its node is what the bucket points at
  and holds the server put last, so the scan ends where it starts and the path is never in
  the list twice; and that a bucket that points at a node of another path, as after a
  removal, leads to no entry of its own. What other paths do to each other, by way of the
  list they all share, does not disturb it.
* `BoundedMap`: `Spec => IsBoundedLRU`. The list read from head to tail is the abstract
  sequence, so a hit that moves its node to the head is a use, an insertion into a full
  cache drops the last element and nothing else, and `lru_remove` takes out one entry of its
  path. A search that finds nothing is a miss, which is allowed only when the path collides
  or has no entry: that is `Reachability`. A fault is allowed only after a removal: that is
  `DanglingSafety`.

**`NamingServerProofs`**
* `TypeCorrect`, `PointersSafety`, `CursorSafety`: `TypeOK`, `PointersFilled` and
  `RoundRobinInRange` always hold; `EntriesAreStable`: `Spec => RegistrationStable`. For
  any number of connections, any hash, any limits, and whatever storage servers answer.
* `PointersFilled` is not inductive alone. The invariant adds what the handlers know at
  each position (`ThreadFits`: a thread between the choice of a server and its use has a
  server), that a thread inside one of the two long sections owns `ss_list_mutex`
  (`Owner`), and that the entries below `num_registered_ss` are filled and the one at it
  only during its registration (`Filled`). So a registration that gets the mutex finds its
  entry empty, which is `EntriesAreStable`, and fills it before it is published, which is
  `PointersSafety`; the cursor moves modulo a count that only grows.
* Steps that touch neither array, mutex nor trie go through one lemma (`QuietStep`); the
  cache's shape comes from `LRUListProofs`.

The theorems about `NamingHistory` hold for any number of connections, any hash and size,
and have no hypothesis (`HSpec => ...`):

* `ListsAgree`: `[]ListsMatchTrie`. A path is added to a list only when the trie has just
  been told of it, and if the entry's list had it already it is `contested`. The paths of a
  registration are listed before they are mapped (`Awaited`), those of a deletion after they
  are not (`BeingDeleted`), and one thread at a time is in either place, since it has
  `ss_list_mutex`.
* `HeldNodes`: `[]HeldNodeStays`. A node held for `age` uses of the cache is among the first
  `age + 1` places of the list (`LRUListProofs` has the lemmas): only the last place is
  evicted, and a removal of its path sets `age` to `LRU_CACHE_SIZE`.
* `CacheAgrees`: `[]CacheCoherent`. The invariant says of every node of a path alone in its
  bucket, and of every answer of the trie that a thread is about to put in the cache, that
  it is what the trie has, or that the path is `stale` or being deleted.
* `RedirectsWerePlaced`, `RedirectsAreCurrent`: `RedirectWasPlaced` and `RedirectIsCurrent`. The
  first rests on what every node, entry and thread holds having been placed; the second on
  the two theorems before.

Those of `RedirectIsCurrent` and `CacheCoherent` are as strong as the code allows: for each
exception there is a deviation above.

**`PathTrieProofs`**
* `TypeCorrect`, `NoLostChild`: `TypeOK` and `ChildIsThere` always hold; `Implements`:
  `Spec => IsPathMap`. For any number of threads, any finite set of paths, any limit.
* Nodes are never taken away, and each has all nodes above it: a child seen under a lock
  is there when the pointer is followed (`Shape`). `Walk` says where on its path each
  thread is, and that one which mutates owns `ss_list_mutex`.
* The hard part is the listing. It holds the read lock of the root from its first step to
  its last, and a mutation passes the root after it has taken `ss_list_mutex`. So at most
  one mutation, the one that was past the root already, takes effect while a listing runs.
  If the place it changes has been listed, the answer is the content before it, otherwise
  the one after it. `Watch` states this: what has been found so far is the part of the
  listing of some content in `seen` that lies before the place the listing has come to
  (`Found`, `Upto`), with `BeforeChild` giving the order of places, and with the limit:
  once full, nothing more is taken.

**`StorageServerProofs`, `StorageServerRefinement`**
* `TypeCorrect`, `OneLockPerPath`, `LocksAreTheThreads`: `TypeOK`, `OneNodePerPath` and
  `LocksMatchThreads` always hold. `Exclusion`: `Spec => []SingleWriter` if no two paths
  name one file (`OneName`), which is needed: see the deviations.
* The invariant follows a thread through the table (`Placed`): it has the mutex while it
  searches and inserts, the path it inserts is not there, and from then on it has the node
  of its path. With one node per path, the search at release finds that same node. A node
  with a writer has no readers (`WriterAlone`).
* `Implements`: `Spec => IsFileStore` under `OneName`, with crashes and a full disk. The
  invariant adds what a thread has decided and saved at each position (`Answered`). A
  request takes effect in the last step it makes on its file under its lock; until then
  `before` shows the old content, and `SingleWriter` keeps every other thread away.

**`StorageMainProofs`**
* `TypeCorrect`, `EachConnectionHasOneThread`, `WaitsForCause`: `TypeOK`, `OneThreadEach` and
  `StuckForCause` always hold, for any number of peers, threads and cells and any backlog.
* `OneThreadEach` is not inductive: that a starting thread reads the number of its own
  connection rests on the cell not being handed out again before. `Served` says so
  of every thread, started or not, and that an open connection no thread has is in `lost`;
  `QueuesHold`, that a queue holds waiting connections of its port, each once, so that a
  connection is accepted once.
* For `StuckForCause`, `StillReady` says what `select` has promised: a port it found ready has
  a waiting connection when the loop comes to it, unless one was withdrawn or `select`
  failed meanwhile (`upset`). The first accept does not empty the second port's queue.

**`NFSProofs`**
* `TypeCorrect` and `RefusalsAreClean` (`Spec => CleanRefusals`) hold for any number of
  clients, servers and paths, whatever the clients ask. `Fits` says what a handler has at
  each position, and that it has changed something only once the storage server has acted.
* `TrieAgrees` (`Spec => []Agreement`) and `AcksAreTrue` (`Spec => AckMeansDone`) have the
  hypothesis `SingleMutator`: one client creates, deletes and copies, any number read and
  write. `nm_double_create` shows what two do to each other. The invariant `Certain` adds
  what a handler knows of the files when it comes to its update (`Knows`): a created file
  is still there, a deleted one is not, or another client's write is in `doubt`.

**Only model-checked.** Liveness, which the provers here cannot do: `WaitsOnlyForItsCall`,
`ReadersServed`, `OnlyReadersStarve`, `WalksEnd` and `EveryoneAccepted`. Every other property
of a passing run is a theorem.

## Not modelled

* **A message that arrives in parts.** `receive_message` calls `recv` once for a structure
  of about 20 kB and takes whatever comes for a message (`utils.c:78`). What the handler
  then does depends on bytes it never set; no property of the answers would hold. Messages
  are whole in all modules.
* **A null pointer from `create_trie_node`** (`trie.c:25`) is followed by the next line; the
  trie's memory does not run out in these models.
* **Trie and cache locks under `ss_list_mutex`.** `WaitsOnlyForItsCall` takes a trie or cache
  operation for one step. The node locks, and their nesting inside the mutex, are in
  `PathTrie`, whose `WalksEnd` admits that a mutation waits among endless readers, with the
  mutex in its hands. The cache's lock is taken last and nothing is asked for under it.
* **What follows a read of freed memory.** `LRUCache`, `NamingServer` and `NamingHistory` stop
  there; `NFS` has no such step.
* **The pointers of the cache's list**, `prev` and `next`: a sequence stands for them.
* **In `NFS`**: a restart of the naming server (`NamingServer` and `LRUCache` have it; it
  forgets everything, files stay), a server that hangs (`NamingServer` has calls that never
  return), a full array of servers (`nm_concurrent`), and a call that breaks between two
  live machines while the server is still about to act: in `NFS` a server acts before the
  caller hears of the break, or not at all.
* **The sizes of files.** `ss_read` reads 8191 bytes (`ss_file_operations.c:198`): a longer
  file is read, and copied, only so far. Contents are model values here.
* **Torn copies.** `lru_put` copies an entry while its list of paths may be changing
  (`lru_cache.c:119`); only the address in it is used afterwards.
* **Spellings.** Two spellings of one file exclude nobody (`ss_file_operations.c:36`); no run
  has such paths.
* `client.c`'s command line, logging, the wording of listings and of file information;
  `lru_destroy`, `free_trie` and `destroy_file_locks` (called by nobody, or when nothing else
  runs); the `Makefile`; and what the documents describe and no source implements
  (replication, failure detection, recovery, asynchronous writes, streaming, timeouts).
