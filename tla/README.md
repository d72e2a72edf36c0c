# TLA+ models and proofs for Bachelor-Projects

The repository collects the course projects of one degree. Most of its text is
third-party (four copies of `three.js`, `OrbitControls.js`, the AIMA textbook
library) or generated (`l22_scanner.cpp`, `l22_parser.tab.c`). The programs with
behaviour of their own that is hard to get right are

- the three deliveries of **TecnicoFS** (`src/Operating Systems/proj1`, `proj2`,
  `proj3`), a small in-memory file system: a thread pool over a vector of
  commands, a producer and consumers over a bounded ring, and a server with
  concurrent sessions;
- the four deliveries of **Computer Graphics**, pages whose key handlers, timers
  and animation frames share flags.

They are what the modules here are about. The other projects are listed at the
end of the inventory, with the reason why they are left out.

Below, `OS/` stands for `src/Operating Systems/` and `CG/` for
`src/Computer Graphics/`.

## Inventory

### TecnicoFS 2: directory (`OS/proj2/fs.c`, `sync.c`, `sync.h`, `lib/hash.c`)

- *State*: `bstRoot[b]`, the tree of bucket `b`; `bstLock[b]`, a mutex or a
  read-write lock by a compile-time choice.
- *Operations*: `create`, `delete`, `lookup`. Each hashes the first character of
  the name, takes the lock of that bucket (exclusively to update, shared to look
  up), works on the tree, releases the lock.
- *Used by* the consumer threads of proj2 and, in a near copy, by the sessions
  of proj3.
- *Hard*: `bstRoot[i] = insert(bstRoot[i], ...)` reads the root and stores it in
  two steps; two updates, or an update and a lookup, between lock and unlock.
- *Correct when* updates exclude everything else in their bucket, an entry is
  only ever in the bucket of its name, and every call is atomic.

### TecnicoFS: binary search tree (`lib/bst.c` in all three deliveries)

- *State*: nodes with a key, an i-number and two children.
- *Operations*: `search`, `insert`, `remove_item` (with `find_min` and
  `remove_min`), `print_tree`, `free_tree`. Sequential, always called under the
  lock of the tree.
- *Hard*: removal of a node with two children, for every shape that earlier
  operations can leave; an `insert` of a key that is present.
- *Correct when* the tree represents the map of what was inserted and not
  removed, in order, and is freed node by node once.

### TecnicoFS 2: command pool (`OS/proj2/main.c`)

- *State*: the ring `inputCommands` with `prodpos` and `conspos`, the semaphores
  `loadInputCommand` (free slots) and `executeCommand` (filled slots), the
  mutexes `commandsLock`, `loadLock`, `executeLock`, the counter of i-numbers,
  and what each thread keeps on its stack between two commands.
- *Operations*: `processInput` (one producer), `applyCommands` (a pool of
  consumers), `insertCommand`, `removeCommand`, the joins of `runThreads`.
- *Interactions*: the producer and the consumers share the ring; consumers call
  the directory, after they released `commandsLock`. The end of the file is an
  `x` that each consumer passes to the next through the same ring. An error
  anywhere ends the process.
- *Hard*: the bounded ring, the hand-over of the end, i-numbers that must follow
  the file while commands run in any order, a rename that is four calls.
- *Correct when* each command is read once and in order, i-numbers follow the
  file, the final tree is the sequential one wherever commands do not race, and
  the program ends.

### TecnicoFS 1: vector of commands (`OS/proj1/main.c`, `fs.c`)

- *State*: the vector `inputCommands`, `numberCommands`, `headQueue`, one tree,
  the locks `trincoVetor` and `trincoBst`.
- *Operations*: `processInput` before any thread exists; then `applyCommands` in
  a pool; the joins.
- *Hard*: `numberCommands` is read without the lock that protects it; the way
  out when the vector is found empty.
- *Correct when* commands are taken once and in order, no update of the tree is
  lost, and the program ends.

### TecnicoFS 3: i-node table (`OS/proj3/server/lib/inodes.c`)

- *State*: `inode_table`: owner, two permissions, pointer to the content.
- *Operations*: `inode_create`, `inode_delete`, `inode_get`, `inode_set`, each
  under `inode_table_lock` from its first line to its return.
- *Hard*: a full table; a content that is freed while its pointer stays.
- *Correct when* no freed content can be reached.

### TecnicoFS 3: sessions and client API (`OS/proj3/server/main.c`, `OS/proj3/client/tecnicofs-client-api.c`)

- *State*: per client a thread, a socket, a table of open files and the locals of
  `applyCommands`; shared: the directory and the i-node table.
- *Operations*: `c` create, `l` read, `w` write, `r` rename, `o` open, `d`
  delete, `x` close; on the other side `tfsCreate` ... `tfsWrite`, each of which
  writes a request and blocks until it has read an answer.
- *Hard*: a command takes the lock of the directory or of the i-node table
  several times, and other sessions run in between: what a lookup answered is
  stale when it is used. A table full of i-nodes, on which a create leaves a node
  without an i-node, or of open files. Answers that are missing or written twice.
- *Correct when* directory and i-node table describe the same files, permissions
  are respected, open files keep their i-nodes, every request gets an answer.

### TecnicoFS 3: directory with `reName` (`OS/proj3/server/lib/fs.c`)

- *State*: as in proj2, with read-write locks.
- *Operations*: those of proj2 and `reName`, which for names in one bucket takes
  its lock, for names in two loops over two `trylock`s (83-91), then moves
  the entry (97-100) and unlocks (103-104).
- *Hard*: two locks, taken in the order of the arguments; what `trylock` answers;
  a search before any lock is held.
- *Correct when* who moves an entry holds both locks, and unlocks only what it holds.

### TecnicoFS 3: accepting and shutting down (`OS/proj3/server/main.c:351-420`)

- *State*: `i` and `m`, which count sessions, the array `worker`, the socket.
- *Operations*: `runThreads` accepts a client and makes a thread; `processCommand`
  serves it until it hangs up; `verificaC`, the handler of SIGINT, joins the
  threads, prints and frees the tree.
- *Hard*: the handler runs in any thread, also in one it joins, while `main` goes on.
- *Correct when* no session changes the tree while it is freed, and the
  server stops.

### Computer Graphics: mobile (`CG/first_delivery/projeto1_G15.js`)

- *State*: which branch turns, the one velocity they share, the arrows that are
  held, the speed `mobileD`, the wireframe of each material, the camera.
- *Operations*: two keys for each branch, the arrows, `4`, the cameras; the frame.
- *Hard*: six keys in any order; one speed that is braked along two axes.
- *Correct when* one branch turns at a time. What the mobile should do when it is let go
  nothing says.

### Computer Graphics: billiards (`CG/second_delivery/projeto2_Grupo15.js`)

- *State*: the selected cue and its ball, flags from keys to frames, which balls
  move, may be hit, fall, and the tree of the scene.
- *Operations*: the key of a cue, the arrows, space, the cameras; the frame
  (`mudaCorTaco`, `direcionaTaco`, `doInfinite`, `daTacada`); the update that each
  frame puts off by a second.
- *Hard*: keys, frames and updates come in any order; a selection is made in one
  and acted on in the next; a ball is replaced while it falls or carries a camera.
- *Correct when* the red cue is the selected one, a ball points where its cue points,
  a waiting ball stays where it is, and every ball is in the scene once.

### Computer Graphics: car (`CG/third_delivery/projeto3_G15.js`)

- *State*: material, lights, the angle of the base, the camera in use, and what
  size of the window each camera was made for.
- *Operations*: a key for each of them; the frame; `onResize`.
- *Hard*: `onResize` adapts only the camera in use and concludes from the sizes it
  recorded what is out of date.
- *Correct when* a resize leaves the picture undistorted.

### Computer Graphics: golf (`CG/fourth_delivery/projeto4_G15.js`)

- *State*: pause, a pending reset, two materials with a wireframe each, lights,
  ball, flag, the camera.
- *Operations*: keys, of which only two work during the pause; the mouse; the frame;
  `onResize`.
- *Hard*: the material not in use keeps its own wireframe; a reset is asked for in
  the pause and done by a later frame.
- *Correct when* each key changes the one thing it is for, the pause stops
  the game, a reset that was asked for is done and leaves no trace.

### Other projects

| Project | What it is | Why it is not modelled |
| --- | --- | --- |
| Architecture: asteroid game (`project_final.asm`) | interrupt handlers set flags, a main loop polls and clears them | the simulator it is written for is not in the repository: what a word stored at an odd address does (`reset_missil`) and when interrupts are taken would have to be invented |
| Algorithms: room calendar (`project.c`) | rows of events of ten rooms | sequential; `apaga_evento` leaves a hole that `tamanho_matriz` counts as if there were none, so the tables are out of order after the first removal; four of the ten commands only print their letter; nothing says what should hold |
| AI: Takuzu (`takuzu.py`) | the actions and the goal test of one search | one sequential search without state that outlives a call |
| Databases (`proj3`, `proj4`) | tables, two triggers, queries, request handlers | declarations, which the database enforces, and handlers of one statement each |
| Compilers: l22 | one pass over a tree per visitor, over the CDK library | sequential code emission; generated tables |
| Object-Oriented Programming | archives of classes | no source |
| Systems Modeling and Analysis | diagrams | not a program |

## Modules

| Module | Models | Remarks |
| --- | --- | --- |
| `AtomicDirectory` | what the directory promises: each call takes effect at one instant | abstract specification |
| `Directory` | proj2 `fs.c`, `sync.c`, `hash.c` | refines `AtomicDirectory` |
| `DirectoryProofs` | theorems on `Directory` | checked by TLAPS |
| `Bst` | `lib/bst.c` | a tree is a nested record, a recursive function of C a recursive function on trees |
| `BstProofs` | theorems on `Bst` | checked by TLAPS |
| `CommandPool` | proj2 `main.c` | contains an instance of `Directory` |
| `PoolRingProofs` | theorems on `CommandPool`: types, locks, semaphores, the calls of the directory, the ring | checked by TLAPS |
| `PoolTreeProofs` | i-numbers, renames and the final tree; extends `PoolRingProofs` | checked by TLAPS |
| `VectorPool` | proj1 `main.c`, `fs.c` | |
| `VectorProofs` | theorems on `VectorPool` | checked by TLAPS |
| `Inodes` | `inodes.c` | extended by `Server` |
| `Server` | proj3 `main.c`, the client API, the one-bucket part of `reName` | |
| `ServerProofs` | theorems on `Server` and `Inodes` | checked by TLAPS |
| `RenameLocks` | `reName` with two buckets | contains an instance of `Directory` |
| `Accept` | proj3 `runThreads`, `processCommand`, `verificaC` | |
| `AcceptProofs` | theorems on `Accept` | checked by TLAPS |
| `SceneGraph` | `add` and `remove` of `three.js` | as `Billiards` uses them; external |
| `Mobile`, `Billiards`, `Car`, `Golf` | the four pages | |
| `GolfScene` | what the golf page promises | abstract specification |
| `Pages` | the browser with one of the pages open | contains instances of the four |
| `PagesProofs` | theorems on the four pages, as parts of `Pages` | checked by TLAPS |
| `MCDirectory`, `MCCommandPool`, `MCVectorPool`, `MCServer`, `MCRenameLocks`, `MCPages` | names, command files, users, windows for TLC | |

Operators whose comment begins with "Fault:" are variants of the definition after
them with a plausible bug. Nothing uses them. Put in the place of that definition
they make one of the properties fail; they are there to show that the property
depends on that piece of code.

### From the code to the models

**Threads.** A thread is a value; a `pc` (in `Directory` it is `at`) says where it
stands. A step is what lies between two points where another thread can
run and make a difference: before and after a lock, a semaphore, an access to
shared memory that is not protected. Code that touches only the thread's own
variables is part of the step next to it.

**Locks.** A mutex is a variable with its holder. A read-write lock is two sets,
`writer` and `readers`. Both are sets so that a broken lock is a state of the
model and `WriterAlone` a statement about the code and not about the data type.
A semaphore is a number.

**Directory.** `Load` and `Store` are the two halves of
`bstRoot[i] = insert(bstRoot[i], ...)`. A tree is the map it represents; that
`insert`, `remove_item` and `search` treat it as that map is what `Bst` checks and
`BstProofs` proves.
A lookup reads its tree in one step: no update can overlap it (`WriterAlone`).

**Command pool.** A line of the command file is a record of its tokens, and the
slots of the ring hold line numbers. `sscanf` leaves variables alone for tokens
it does not find: `parsed` keeps what the previous command of the thread left
there, which matters when a slot is read that nothing new was written to. The
actions of `applyCommands` follow the source from line 138 to line 192: `commandsLock`
(138), the wait on `executeCommand` and the slot (68-73), `sscanf` (146-150), the
post of `loadInputCommand` (151), the cases. An i-number is taken in `DoCreate`
before `commandsLock` is released, as on lines 156-157. A rename is
`DoRename`, `LookupNew`, then `KeepOld` or `RemoveOld` and `CreateNew`, each a
call of `Directory` that other consumers' calls interleave with. `exit` in any
thread sets `status` to `failed`, and nothing moves any more. The command line
(file, number of threads) is the variable `args`, chosen in `Init`.

**Vector pool.** `While` is the unlocked test of `numberCommands`; `NoCommand` is
the `continue` on line 134-135, which leaves `trincoVetor` locked.

**Server.** One call of `lookup`, `create`, `delete` or of a function of
`inodes.c` is one step, by the theorem `Refinement` for the former and by their
lock for the latter. Everything between two such calls belongs to one of them.
The locals `name`, the variables that `inode_get` fills and `openFile` outlive a
command, because the code reads some of them before it sets them (`x` closes the
file whose name an earlier command left in `name`). Answers are the codes of
`tecnicofs-api-constants.h`; a command with a missing answer leaves its client
waiting.

A name has no node (`NoNode`), a node with an i-number, or a node with -1: `create`
stores what `inode_create` answers, and that is -1 on a full table (109-110). `lookup`
answers -1 with a node of -1 as it does without one, so the commands take such a name for one
without a file; `search`, which `reName` calls, finds the node. So after three creates
on a table of two, `r a c` passes the test of `applyCommands`, fails the one on line 80
of `fs.c`, takes no lock, moves nothing, and unlocks on line 107 what it does not hold.
pthreads define nothing for that: `misused` becomes true and the model stops (`Next`).
The same step is reached by a race, when the entries change after the lookups. While another
session is inside an update of the tree, the unlocked search on line 80 may answer
anything (`Disturbed`).

**Rename locks.** `trywrlock` answers 0 when it has locked, and the loop is left
when both answers are not 0. A thread that finds the condition of line 80 false goes
straight to line 97 and then unlocks what it never locked; that is undefined,
and the model stops there (`undefined`). A second `trywrlock` of a lock one holds
fails.

**Accept.** The handler may run in any thread of the process, which stands
still until it returns; `Join` does not wait for the thread it runs in, because
`pthread_join` refuses that. `accept` waits on the socket it was called with. One
SIGINT is modelled.

**Pages.** Of the four pages one is open. A browser runs one handler, frame or timer of
a page at a time and each to its end: each is one action. What a key only tells the
next frame is a flag. Coordinates, angles and speeds are kept as far as the code
reads them: the angle of a cue is a number of steps, the speed of the mobile
a multiple of a unit, the place of a ball is left out. What an update of the billiards
finds (which balls stop, are hit, lie in a hole) is any choice that the flags of
the balls allow. `FrameThrows` is a frame that reads an entry of an array that
is not there: `requestAnimationFrame` comes after it, so the page is frozen. The
tree of the scene is the function `parent`.

## Runs

| Run | Question | Size |
| --- | --- | --- |
| `DirectoryRwlock` | do the bucket locks make every call atomic, keep writers alone and entries in their buckets; is the invariant of the proofs one | 343 k states |
| `Bst` | does every tree represent its map, answer what was last stored, get freed once; does an insertion of a present key move no node | 3 k |
| `Pool` | one to three consumers on five files: order, i-numbers, renames, delivery, the final tree (with one consumer the tree of the commands one after the other), termination | 107 k |
| `PoolThreeEnd` | *violated*: nothing is executed after the end | |
| `VectorTwo` | two threads: order, i-numbers, no lost update, termination | 2 k |
| `VectorThree` | *violated*: termination | |
| `ServerOne` | one client, five requests of any kind: files and i-nodes agree, no freed content is reachable, open files exist, when `reName` unlocks what it has not locked, which requests are answered | 930 k |
| `ServerTwo` | two users, all requests but deletes: no shared or free i-node behind a file, -1 only on a full table, permissions on writes | 1.4 M |
| `CreateRace` | *violated*: a file that exists is kept | |
| `RenameLocks` | *violated*: a rename between buckets has both locks | |
| `Accept` | which sessions can outlive the joins; does SIGINT stop the server | 1 k |
| `Pages` | the properties of the four pages under any keys, frames, updates, resizes | 410 k |

### Bounds and why they are enough

- *Directory*: two threads, three names in two buckets, two i-numbers. A
  violation of exclusion needs two threads in one bucket; a misplaced entry needs
  two buckets; a lost update needs two names in one bucket. The number of calls
  is not bounded. The theorems cover every other size.
  The types are part of the invariant `IInv` that the run checks.
- *Tree*: five keys, two i-numbers. Every shape of five nodes occurs, and with it
  every case of `remove_item`, the smallest node of the right subtree being the
  child or deeper, with or without a right subtree of its own. `Trees` holds the trees no higher
  than there are keys; that no operation leaves it is part of `Represents` and proved for any
  number of keys, so it is no bound on what the code does.
- *Ring*: four slots, and files of up to seven commands, so that the ring goes round
  and is full and empty with both sides waiting. `MixedScript` with one consumer has
  every command, a rename that happens and one that does not; `RacyScript` with two has
  commands that race and one that does not; `BrokenScript` with two breaks off.
  `CreateScript` and `EmptyScript` have three consumers, for which the surplus units
  of `executeCommand` matter (see below): a consumer then reads an old command, or an
  empty slot, and the program may do a command twice, fail or hang. What is claimed for
  three is `Delivered` and `TypeOK`; the other properties are stated for at most two
  (`AtMostTwo`), and `SequentialTree` for one (`Alone`): from two on, the tree depends on
  who comes first wherever commands race, and `FinalTree` says what does not depend on it.
- *Vector*: two files, one with comments, an invalid line and one command more
  than fits, the other with a command without a name.
- *Server*: `ServerOne` has three names for two i-nodes, so that the table
  overflows; two slots, so that they overflow as well; permissions that are
  out of range for both users, for which a create writes no answer; mode 0, which no
  permission covers. Five requests (`MaxRequests`) are enough to create two files, open one,
  delete or rename, and use what is left, or to fill the table, leave a node with -1 and
  rename to it, which makes `misused` true. `ServerTwo` has two requests per client, two
  users, permissions by which others may write or read and the owner write, read or do
  nothing, and every interleaving of two commands. It has no `d`: what a delete by another session
  undoes is told below, under the violated runs.
- *Accept*: `MAX_CLIENTS` is 3, the room that `worker` has. With three sessions one is
  joined, one is the last, which `m` does not count, and one is being made.
- *RenameLocks*: two threads, two names in two buckets; one thread alone leaves the
  loop with both locks.
- *Pages*: two cues with a ball each, no step of the angle before its limit
  (`AngleLimit` 0, so both ends of the limit are met), one update on its way
  (`MaxPending`), which a key or a frame can come before; windows that lie, stand, are a
  square or have no width; one step of the base to either side (`MaxTurn`), two of the
  flag (`FullTurn`), two of the ball (`MaxDistance`). The speed of the mobile is
  counted in units of 0.05: the limit 1 is 20 (`Limit`), a push 0.2 or 0.25 forward
  or 0.05 or 0.1 backward (`Deltas`, `Kick`), and it is followed to 25 (`MaxSpeed`), beyond
  the limit in either direction by the largest push.

Bounds that the code does not have are `MaxRequests`, `MaxPending`, `MaxTurn`,
`MaxDistance` and `MaxSpeed`; the theorems about the pages hold for every value of
the last four, those about the server for every value of the first. The deadlock
check is off where a client may wait for ever because the code writes no answer or the
model stops at undefined behaviour (`ServerOne`, `ServerTwo`, `RenameLocks`) and where the run's subject is a thread that waits for ever
(`VectorThree`).

### Fairness

Weak fairness for each thread, as for any preemptive scheduler: a thread that
stays able to run does run. Nothing stronger is assumed of locks and semaphores:
pthreads do not promise that a waiting thread gets a lock that is released and
taken again, and no liveness property here needs it. `main` is
fair at its joins. In `Server` a client reads a reply that is there, but no
client has to make a request, and after `misused`, where the model stops, nothing is promised
any more. In
`Accept` the main thread, the handler and a session whose client has hung up go on; clients
come, stay and leave as they like, and `accept` need never return. In `Pages` the
browser goes on asking the golf page for frames, as `requestAnimationFrame`
has it do; nothing is assumed of keys, mouse and window.

### What the runs on the server say

- `SameFiles` is about files, the names with an i-number. A node with -1 is none, as it is none
  for `lookup`. What such nodes do is said by `OwnLock` (they are the one way in which one client
  makes `reName` unlock what it has not locked) and by `EntriesHaveInodes` (they come from a full
  table only).
- `EntriesHaveInodes` and `WriteNeedsPermission` hold up to the first unlock of a lock that is
  not held, where the model ends, and as long as nobody deletes.
- `WriteNeedsPermission` relates a write to the permissions at that time, though the code looks
  at them in the open. "Enough" is what the code takes for enough (`Allows`): for `WRITE` the
  permission `WRITE` or `RW`, for `RW` any. So who may only read can open in `RW` and
  write (198); the property does not say otherwise.
- `Answered` is about the request that lies before its session (`inbox`), and excepts the two
  that the code may leave without an answer: a create of which both permissions are out of
  range (102, no `else`) and a rename, which is not answered if the user does not own the
  file (180, no `else`).

### What the violated runs show

- `PoolThreeEnd`: a consumer that reads `x` puts one `x` (which posts
  `executeCommand`) and posts `executeCommand` once more (`OS/proj2/main.c:184`).
  With three consumers there are more units than filled slots, and a slot is read
  again: the commands read are line 1, line 2, `x`, `x`, line 2.
  `OS/proj2/main.c:123` calls the `x` the end of the commands to execute. In
  `Pool`, with one slot more, the slot is one that was never written, and
  the program ends with "Error: commands to apply".
- `VectorThree`: `continue` on `OS/proj1/main.c:134-135` without an unlock. Another
  thread at the same lock waits for ever, and so does `main` at its join.
- `CreateRace`: the lookup on line 103 and the create on line 110 are separate
  critical sections; two clients create one name, and one of the i-nodes
  is lost.
- `RenameLocks`: lines 84 and 85 of `OS/proj3/server/lib/fs.c` take the 0 of
  `trywrlock` for failure. A thread that got neither lock, or lost the second,
  leaves the loop and moves the entry. A thread alone does get both, on a detour: it
  locks the first, fails at it in the next round, locks the second, opens
  the first, locks it again, fails at both and leaves with both.

Further differences between `OS/proj3/server/main.c` and the comments of
`tecnicofs-api-constants.h` are in the model as the code has them, without a run of their own: a
rename by somebody who is not the owner is not answered (180, no `else`), nor is a create with
both permissions out of range (102, no `else`), a create on a full table answers 0 and leaves a
name without a file (109-111), `lookup`, `inode_get`,
`delete` and `inode_delete` of a delete are separate critical sections (273-292), so of two
deletes by one user's sessions the later can free an i-node that another user has been given in
between, a delete looks only at the deleting session's own open files (282), the loop of `l` looks
at the first slot only (136), closing a file that is not open answers -7 instead of -8 (318), `RW`
is granted to whoever may read or write only (198), an open without a free slot is answered twice
(212-215 and 264-267), and a create is refused only when both permissions are out of range (102,
`||`).

Of the pages, likewise without a run: a shot after the cue was given back makes the
next frame throw, and the page is frozen (`CG/second_delivery/projeto2_Grupo15.js:384`;
`Billiards!FrameThrows`, which `Pages` reaches); the width the car page records is a
height (`CG/third_delivery/projeto3_G15.js:453`), so after a resize to a square its side
view may stay distorted (the exception in `SideFits`); and a mobile that is let go need not
stop, since one axis brakes beyond 0 and the other back, and meanwhile `translateX` (380) moves it
with the speed between the two.

## Proofs

Everything here is proved for every value of the constants that the assumptions
admit, by TLAPS with the backends Z3, Zenon and LS4.

### Directory

`DirectoryProofs` proves, for every set of threads, names and i-numbers, every
number of buckets and both builds:

| Theorem | Statement |
| --- | --- |
| `Inductive` | `Spec => []IInv` |
| `TypeCorrect` | `Spec => []TypeOK` |
| `LockExclusion` | `Spec => []WriterAlone` |
| `EntriesInTheirBucket` | `Spec => []BucketPlacement` |
| `Refinement` | `Spec => Linearizable`: `Directory` implements `AtomicDirectory` |

*Assumptions*: `DirAssumption`. There is at least one bucket, i-numbers are positive
(0 stands for "no entry"), and first characters are not negative. The last one is
about the code: `hash` takes a `char`, which is signed on the usual platforms,
and a name that does not begin with an ASCII character would index outside the
arrays.

*Argument*: `WriterAlone` is not inductive: that a second writer cannot come in
depends on the lock being held by the first for as long as it is inside. `IInv`
therefore says who holds which lock in terms of where the threads stand
(`HolderOK`: the holders are exactly the threads between their lock and their
unlock, in the bucket of their name), that a lock with a writer has no other
holder and a mutex one holder (`Exclusive`), that the call of a thread
fits the place it is at (`CallOK`), and that the root a writer has read is still
the root of its bucket (`FreshRoot`). `FreshRoot` is what makes an
update atomic: nobody else stores into the bucket meanwhile, because a thread that stores
holds the lock exclusively. `BucketPlacement` is preserved because a
writer stores a tree it read from the same bucket, changed at a name of that
bucket.

*Refinement*: the abstract map takes each name from the tree of its bucket
(`Entries`). An update takes effect in `Store`, a lookup in `Search`, calls begin in
`Invoke` and return in `sync_unlock`; taking a lock and `Load` are stutters. That a
`Store` changes one entry only needs `FreshRoot`.

### Binary search tree

`BstProofs`, for any finite set of keys and any set of i-numbers:

| Theorem | Statement |
| --- | --- |
| `BstRepresents` | `Spec => []Represents` |
| `BstSearchFindsLast` | `Spec => []SearchFindsLast` |
| `BstFreedOnce` | `Spec => []FreedOnce` |
| `BstReinsertKeepsShape` | `Spec => ReinsertKeepsShape` |

*Assumptions*: `BstAssumption`. Keys are ranks in the order of `strcmp`, and there are finitely
many because a line of commands, and a name in it, has at most `MAX_INPUT_SIZE` characters.
I-numbers are natural numbers.

*Argument*: `Represents` says what `print_tree` writes, from which it does not follow where a
search or an insertion goes. The invariant `Stands` says that every node is between the keys of
its subtrees (`Ordered`) and that the entries of the tree are those of the map. Each
operation has a lemma: on an ordered tree a search finds the entry of its key (`SearchFinds`),
an insertion puts one (`InsertPuts`), `find_min` and `remove_min` part the smallest entry from
the rest (`MinTaken`), from which `Unlink` joins two subtrees without loss (`UnlinkJoins`) and a
removal takes one entry (`RemoveTakes`); what is printed is in order (`PrintInOrder`) and what
is freed is freed once (`FreeOnce`). An ordered tree is no higher than it has keys
(`OrderedHeight`), which is why `Trees` is large enough. For the last theorem: an insertion
of a key that is there leaves the order of `free_tree` alone (`InsertKeepsOrder`), and a removal
of one that is absent leaves the whole tree.

*Induction on trees.* The provers cannot instantiate an induction scheme with a predicate. The
lemmas are stated about the set of the trees that have the property instead: `TreesSets` says that
a set with `NULL` that has every tree whose subtrees it has contains all of `Trees`, and rests on
`NatSets`, that is, on a least counterexample. That the recursive functions have their defining
equations is proved in the same way (`FoldExists`, `FoldOnTrees`) and not taken for granted.

### Command pool

For any command file, any set of consumers, a ring of any size, any names and any spread of
them over any number of buckets:

| Theorem | Statement | Module | Consumers |
| --- | --- | --- | --- |
| `PoolTypes` | `Spec => []TypeOK` | `PoolRingProofs` | any |
| `PoolUsesDirectory` | `Spec => Dir!Spec`: the pool behaves towards `fs.c` as `Directory` has it | `PoolRingProofs` | any |
| `PoolDelivers` | `Spec => []Delivered` | `PoolRingProofs` | any |
| `PoolFileOrder` | `Spec => []FileOrder` | `PoolRingProofs` | one or two |
| `PoolINumbersFollowFile` | `Spec => []INumbersFollowFile` | `PoolTreeProofs` | one or two |
| `PoolRenameReach` | `Spec => []RenameReach` | `PoolTreeProofs` | one or two |
| `PoolFinalTree` | `Spec => []FinalTree` | `PoolTreeProofs` | one or two |
| `PoolSequentialTree` | `Spec => []SequentialTree` | `PoolTreeProofs` | one |
| `PoolInvariant` | `Spec => []IInv`, the invariant of all the above | `PoolTreeProofs` | |

The number of consumers is a hypothesis of the properties (`AtMostTwo`, `Alone`). It cannot be
left out: `PoolThreeEnd` shows the order lost with three, and two consumers race on a name.

*Assumptions*: `PoolAssumption` (the producer is no consumer, `parseArgs` asks for at least
one consumer, the ring has at least one slot, and a rename has a second name: `sscanf` leaves
a buffer that was never set, or one of an earlier command, when it has not) and
`PoolDirAssumption`, which is `DirAssumption`.

*Argument*, in the order of the modules:

1. Where a consumer stands says who holds `commandsLock` and which calls it can be in
   (`ConsumerInv`); the directory keeps its invariant because every request is one of its
   calls (`DirInv`). A consumer has read a command of the file (`ReadInv`) and calls `fs.c`
   with what it has read (`CallInv`). Free slots, filled slots and the units that threads carry
   are never more than the slots and one for each consumer that has ended (`UnitsInv`), which bounds the
   semaphores. The lemmas on the directory are those of `DirectoryProofs`, stated again for the
   instance `Dir`, since a theorem of an instantiated module cannot be cited. `PoolUsesDirectory`
   is what joins the two modules: the calls of the pool are calls of `Directory`, so that its
   `Refinement` makes each of them atomic here as well.
2. Until the first `x` is read the ring is a queue (`Queue`): indices and semaphores are what the
   numbers of items begun (`Begun`) and read (`Taken`) make them, corrected by the threads that
   are on their way, and each slot between the two holds its item. `Queue` alone gives
   `Delivered`. It breaks with the first `x`, whose reader posts `executeCommand` once more than
   it fills slots. With two consumers that unit comes too late to do harm: `OneEnded` follows the
   first reader through its `insertCommand`, while the other can take the slot only after it was
   written, and `AllEnded` says that then nobody is left. With a third consumer there is no such
   invariant.
3. `NumberInv` relates `nextINumber` to the creates among the commands read, with one due while
   the reader of a create holds `commandsLock`; so the number given is the rank in the file.
   `OriginInv` follows an i-number from its create through lookups, `idNumber` and the create of a
   rename, under a name the renames lead to (`Leads`, by sets closed under the renames, which
   needs no recursion). `AppliedInv` says that a create that was read is in the tree or in the
   hands of a consumer (`Busy`), for names that no two commands touch.
4. `SequenceInv`, for a consumer that is alone: when the call it is in has taken effect
   (`Outcome`), the directory is what the commands read so far leave (`After`), or, before that
   and on the way through a rename (`Midway`), what all but the last leave; and what its lookups
   answered is still true, which is what fails with a second consumer. `After` is a recursive
   function on the numbers of the commands. Its defining equation is not taken for granted but
   proved (`AfterUnfolds`): that a function with that equation exists up to any number holds
   because a least number without one would have a predecessor with one (`SomeFolds`, by `WFMin`
   of `WellFoundedInduction`).

### Vector of commands

`VectorProofs`, for any number of threads and any files (`VectorAssumption`):

| Theorem | Statement |
| --- | --- |
| `VectorTakenInOrder` | `Spec => []TakenInOrder` |
| `VectorCreatesFollowFile` | `Spec => []CreatesFollowFile` |
| `VectorFinalTree` | `Spec => []FinalTree` |

`removeCommand` tests `numberCommands` again, so the unlocked test plays no part in the first: its
invariant `VectorInv` says that what was taken and what is left make up the file, and that a
thread that has ended without an error found nothing left. The second needs the lock. `NumberInv`
says that a thread between `removeCommand` and the unlock holds `trincoVetor` (`Holds`), that the
counter has counted the creates before the command just taken (`Counted`), and that the creates
done so far have their ranks (`Numbered`). The third adds that a thread between the two halves of
an update holds `trincoBst` and has read the tree that is still there (`RootInv`), and that a
command which was taken and is in nobody's hands is in the tree (`StoredInv`), for names that one
command updates.

### Server

`ServerProofs`, for any sessions, users, names and sizes of both tables:

| Theorem | Statement | Hypothesis |
| --- | --- | --- |
| `ServerTypes` | `Spec => []TypeOK` | |
| `ServerNoDangling` | `Spec => []NoDangling` | |
| `ServerEntriesHaveInodes` | `Spec => []EntriesHaveInodes` | `"d" \notin Ops` |
| `ServerWriteNeedsPermission` | `Spec => WriteNeedsPermission` | `"d" \notin Ops` |
| `ServerSameFiles` | `Spec => []SameFiles` | `OneClient` |
| `ServerOpenFilesExist` | `Spec => []OpenFilesExist` | `OneClient` |
| `ServerOwnLock` | `Spec => []OwnLock` | `OneClient` |

`TypeOK` rests on `SessionInv`: where a session stands says which command it works on.
`NoDangling` is preserved, with the types of the table (`TableInv`), because `inode_create` resets
the pointer that `inode_delete` leaves. The next two need `FilesInv`: different names have
different i-nodes in use (`EntriesInv`), an i-node between `inode_create` and `create` is nobody
else's (`Fresh`), and an open slot has a mode that the permissions of its file allow
(`OpenGranted`). `FullInv` adds that a node with -1, in the tree or about to be stored, means a full
table, which stays full. They are proved as
long as no session deletes, which is the hypothesis, and for a reason: a delete looks its i-number
up, and may free it after another session deleted the file and the i-node was given to a new one
(273-292). With deletes a name can lead to a free i-node.

The last three are about a session that is alone (`OneClient`), with every operation, `d` included.
What it looked up stays true until it uses it, and `OneInv` says so: no two names share an i-node;
an i-node without a name is the one a command holds between `inode_create` and `create`, or
between `delete` and `inode_delete` (`Covered`); the name of a create is still free (`StillFree`);
the i-number an open or a delete has found is still that of the name, and the file of a delete is
not open (`StillFound`, by which `OpenUsed` survives `inode_delete`). For `OwnLock` it is what a
rename has looked up that stays true (`LookedUp`): its name is that of a file and its new name is
not, so that a search which finds a node under the new name has found one with -1.

### Accepting and shutting down

`AcceptProofs`, for any `MAX_CLIENTS`: `AcceptTypes` (`TypeOK`) and `AcceptLateOnly`
(`LateOnly`). The invariant `EndInv` adds how `m`, `i` and the place of `main` belong together
(`Counted`) and that every session below `j` has ended, except the one the handler runs
in (`JoinedBefore`).

### Pages

The theorems are about the specification of `Pages`: a page's own steps keep
its invariant, and those of the other pages leave its variables alone.

| Theorem | Property | Invariant |
| --- | --- | --- |
| `PagesTypes` | `TypeOK` | the types, `TableTypes`, and the invariants of the billiards below |
| `MobileBranches` | `OneBranchTurns` | itself, with the types |
| `BilliardsSelectedIsRed` | `SelectedIsRed` | `CueInv` |
| `BilliardsAimTogether` | `AimTogether` | `AimInv`: only the selected cue is not straight |
| `BilliardsWaits` | `Waits` | `FallInv`: what falls is playable, so a ball that is put back must end the fall |
| `BilliardsOneOfEachBall` | `OneOfEachBall` | `TreeInv`: the pivots of the balls hang in the scene and all others nowhere |
| `CarSideFits` | `SideFits` | `FrustumInv`: `larg` is the height the frustum was made for and `comp` its width or its height |
| `GolfKeepsScene` | `KeepsScene` | `PictureInv`: distance and velocity agree; then each action is one of `GolfScene`'s or a stutter |

*Assumptions*: `PagesAssumption`: the window has a size when the page is opened, names of
objects in the scene differ, and there is at least one step in a turn of the flag.

### Model-checked only

- Liveness: `Termination`, `Answered`, `Stops`, `ResetDone`. Fairness and `ENABLED` are beyond
  the backends.

Every other property of a passing run is stated by a theorem.

## Not modelled

- The build of proj2 without locks, which runs one consumer: its calls are the
  sequential case of `Directory`.
- The characters of names and contents, the argument `len` of the i-node functions, the
  layout of the printed tree, timing, `insertDelay`.
- Failures of `malloc`, `fopen`, `pthread_create` and `sem_init`, which end the
  program.
- Sockets: a request or a reply is one message. A client that reads the end of a
  reply together with the next one, a client that hangs up, `tfsMount` and
  `tfsUnmount` are left out.
- Names in different buckets in `Server`: they are the subject of `RenameLocks`, which
  ends where the code's behaviour is no longer defined. What the two trees are
  after line 99, when both roots point to one tree, is not followed.
- A second SIGINT, and what the fourth and fifth session write behind the array
  `worker`, which is allocated for one.
- `three.js` and `OrbitControls.js`, which are nearly all lines of JavaScript in the
  repository: a library that the pages call. A page needs of it only which
  object hangs on which (`SceneGraph`) and that its calls return. Its own behaviour
  (rendering, mathematics, loaders) is not this repository's, and the lines that
  the map names are therefore a small part of all lines.
- The geometry of the pages: meshes, coordinates, the physics of balls that touch,
  the drawing. `onResize` of the mobile page is registered nowhere.
- The projects marked so in the inventory.

## What could follow

- The distances of the billiards update, as far as it takes to say which balls can meet.

New questions about a modelled component go into its existing runs where the
instance allows it; runs stay few and large rather than many and small.
