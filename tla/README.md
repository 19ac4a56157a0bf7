# A TLA+ verification of the replicated key-value store

The repository is a key-value store in C: a multi-threaded server keeps a hash
table, the servers form a chain that replicates it, ZooKeeper tells servers and
clients who is in the chain. This directory holds TLA+ models of its parts, the
TLC configurations that check them, and theorems checked by TLAPS.

`PROJECT.json` has, for every definition, the lines of C it stands for; for every
run its properties; and the hazards the properties are aimed at.

## 1. The system

| Part | State | Operations | Hard behaviour |
|---|---|---|---|
| Readers-writer lock (`server_skeleton.c`) | `n_readers`, `n_writers`, `mutex`, `cond` | `start_read`, `end_read`, `start_write`, `end_write` | wake-ups, spurious wake-ups, starvation |
| Request handlers (`server_skeleton.c: invoke`) | the table, `stats` | PUT, DEL, GET, SIZE, GETKEYS, GETTABLE, STATS | a writer keeps the lock while the rest of the chain works; `next_server` is read before the lock |
| Hash table (`table.c`, `list.c`, `entry.c`, `block.c`) | array of sorted lists with counters | `table_put`, `table_get`, `table_remove`, `table_size`, `table_get_keys` | sortedness and counters over long sequences, failed allocations, signed characters |
| Chain member (`server_hashtable.c`) | `next_server`, `node_id`, the watch | `main`, `set_next_server`, `set_antecessor`, `child_watcher`, SIGINT | two threads that set `next_server`, joins and crashes under load |
| Connections (`server_network.c`, `client_network.c`, `message-private.c`) | descriptors, one thread for each connection | accept loop, `thread_client`, `network_receive`, `network_send`, `network_send_receive` | who closes a descriptor, and what its number means afterwards |
| Statistics (`stats.c`) | three counters under a mutex | `update_*`, read by STATS | reads without the mutex |
| Client stub (`client_stub.c`) | `rtable_t`: address and descriptor | `rtable_*` | shared by the command loop and the watcher |
| Client (`client_hashtable.c`) | `head`, `tail` | command loop, `set_head_tail`, `child_watcher` | the watcher replaces what a command uses |
| ZooKeeper (external) | children of `/chain`, one-shot watches, sessions | create, get children, get data | events are seen late, data may be gone |
| Serialization (`htmessages.pb-c.c`) | none | generated | — |

How they interact. A client sends writes to the first server of the chain and
reads to the last. A server thread takes the lock of the table, changes the table and,
still inside the lock, sends a write on through `next_server` and waits for the
answer; its successor does the same. A server that starts creates an ephemeral
sequential znode, sets a watch on `/chain`, connects to its successor, fetches the table of its
predecessor (a GETTABLE request) and only then serves requests; connections
made before that wait in the backlog of its socket. When the children of
`/chain` change, the ZooKeeper library runs `child_watcher` on a thread of its
own in every server and client.

What makes each part correct: the lock excludes and wakes; the chain is one
linearizable table; joins and crashes lose no answered write and stop nobody;
the lists behave as one map; a descriptor is used and closed by its owner only;
the client talks to the first and the last server.

A note on the sources: `table.c` names the array of lists `arrayLista`, while
`table-private.h` and `server_skeleton.c` name it `lists`; the makefile links the
data-structure part of the repository from `object/`. The modules follow `table.c`.

## 2. The modules

| Module | What it is |
|---|---|
| `RWLockSpec` | the abstract lock: readers share, a writer is alone |
| `RWLock` | the code of the lock: one action for each stretch between mutex operations |
| `Stats` | the requests of one server as they use the lock of `RWLock`, are counted in `stats.c` under the mutex of the statistics, and are reported by STATS without it |
| `StatsProofs` | theorems about `RWLock` and `Stats` |
| `TableOps` | the requests and what each does to a table |
| `KVStore` | the abstract store: one table, each request takes effect once between call and return |
| `Chain` | servers 1..N, a thread for each link, clients; the lock is that of `RWLockSpec` |
| `ChainProofs` | theorems: its invariants, and that it implements `KVStore` |
| `ChainReconfig` | the chain with joins, crashes, sessions that end, calls and forwards that fail, puts that find no memory, ZooKeeper, and the main, watcher and worker threads |
| `ReconfigProofs` | its theorems |
| `Least` | lemmas: sets of numbers have a least and a greatest element |
| `Table` | operators: the array of sorted lists and what `list.c` does to it, in the steps that others could see |
| `Server` | the worker threads of one server over that array, each handler in steps, each allocation may fail; implements `KVStore` |
| `ServerProofs` | its theorems |
| `Rpc` | what a connection promises: calls one after the other, each with its own reply or an error |
| `Framing` | lengths and messages over a byte stream, at both ends of one connection; implements `Rpc` |
| `FramingProofs` | its theorems, the refinement of `Rpc` among them |
| `Sockets` | the descriptors of one server: accept, threads, forwards, reconnection, `n_clients` |
| `SocketsProofs` | its theorems |
| `ClientView` | the client's `head` and `tail`, its watcher and its command loop |
| `ClientViewProofs` | its theorems |
| `MC...` | instances for TLC |

Layers. `RWLock` implements `RWLockSpec`; `Stats` extends `RWLock` and uses it action for action;
`Server` and `Chain` use the atomic lock. `Server` shows that under that lock the
steps of the handlers are as one, so that it implements `KVStore`; this is why `Chain` and
`ChainReconfig` may serve a request of a server in one step. `Chain` implements `KVStore` again, for
the whole chain. `Framing` implements `Rpc`, which is why messages are not cut in
`Chain` and `ChainReconfig`: a call there is answered or fails. `ChainReconfig` takes from `Chain` the shape
of a write and adds what happens when the connections change. `Sockets` and
`ClientView` look at one process each.

Definitions named `Slip...` are plausible mistakes. They are part of no
specification; each stands in for the definition it is a variant of when a
property is tried on the mistaken code.

### Correspondence with the code

`RWLock`. `pc` says where a worker is in `start_*` and `end_*`; `enter` and `exit`
wait for the mutex, `test` is the head of the `while`, `wait` is
`pthread_cond_wait`. `Leave` is the broadcast and the unlock.

`Stats`. `stage` says where a thread is once it has left the lock. `n_operations++` is a read
(`LoadOperations`) and a write (`StoreOperations`), so that a missing mutex would lose updates;
`CopyOperations` and `CopyTime` are the two assignments of the handler of STATS. A duration counts as
one, so that the two counters can be compared.

`Chain`. A thread is a client's (at the head or at the tail, by the kind of its
request) or that of the link to server j. `Write` is `start_write`,
`table_put`/`table_remove` and the send of the forward; the thread is then `forwarding` until `Reply`
of the next server. `EndWrite` releases the lock before the answer is sent.

`ChainReconfig`. Servers are numbered in the order of their znodes. A connection
`<<s, e>>` is the e-th that server s makes to a successor, and also names the thread the
successor runs for it; `<<s, 0>>` is the one to the predecessor. `main` steps through
the lines of `main()` that others can see. `SetNextServer` is
`set_next_server` as written: the comparison of addresses never finds them
equal, so a connection is always remade; a vanished znode ends the process. The table
is the sequence of puts applied, so that order and repetition show.
`ExpireRunning` is the end of the session of a server that
runs: it serves on, and its watcher, told of that change, reads nothing (`WatcherReadsNothing`). A call to ZooKeeper or to `connect` may also fail with
the session and the other end well (`Misses`); nothing is tried again, so the server may miss a change or its successor for good, and `blind` remembers
whom that has happened to.

A forward that fails leaves a closed descriptor whose number `next_server` keeps (`dropped`), and the watcher frees an rtable that a thread may be using (`closed`). A later
forward through either may fail; or go, for a freed rtable, to the connection that is there now; or, when the kernel has given the number to a client, be written to that
client: the thread is then `stuck`, in a read with no reply to come, under the write lock, until the client's connection ends or a request of a client is taken for the reply
(`Unstick`). What such a write or the close of such a number does to the client is in `Sockets`, which follows the numbers themselves.
`TablePut` may find no memory and then returns what the code
returns; `Write` forwards all the same, unless the value or the entry to forward could not be made (`Unsent`), and `Ends` is `invoke` returning -1, after
which the thread closes the connection.

`Table` and `Server`. A key is its rank in the order of `strcmp`, `CharSum` the sum of its
characters. `Passed` and `StopsAt` are the loops of `list.c`. `list_add` and `list_remove` have two
steps, between which an entry is destroyed but still named (`Freed`) or a node is linked but not counted;
GETKEYS and GETTABLE allocate by the counters, walk list by list and send by the counters again.
Whatever handler runs, it is in the lock from `Start...` to `End...`; `EntryFails` is the return of GETTABLE
that forgets `end_read`.

`Framing`. A byte knows which message it is of and where it stands in it. `Write` and `Read` are one
`write` and one `read` of `write_all` and `read_all`, which move any number of bytes.
`Frame` computes the two bytes of the length as `htons` of a `short` does, modulo `Base * Base`; a byte of a
message that is taken for one of a length may have any value. `skewed` remembers that a message was
too long or that the reply of a call was left in the stream.

`Sockets`. `file[fd]` says what a number means now. `Receive...`, `Reply`, `Leave`,
`Forward` and `ForwardEnds` close numbers where the code does, the second time too.
A client may close or die idle, with a request on its way, or waiting for an answer. A forward is answered only on the connection that it was
written to (`fwdto`): by the next server while that connection is the current one, or, when the watcher has replaced it, only if a read of it was under way, which keeps it
alive in the kernel (`Former`); otherwise the thread waits on the number until that connection fails or a client's request is taken for the answer.
A blocked read is otherwise taken to start when its bytes arrive. `pthread_create` and
`malloc` are taken to succeed.

`ClientView`. An rtable is an address with a descriptor, and `file[fd]` is the rtable whose connection a number names now. `AltCheck` and
`ConnectNode` are the two halves of each part of `set_head_tail`, executed by the main thread
at the start and by the watcher later. A command is `Call` and then `Return`, or `CallFails` and `CloseFailed`: the failing read and the `close` after it are
two steps, and the watcher may reconnect between them, so that the new connection is the one closed. A command may fail whatever state its server is in,
because a live server ends the connection when it cannot execute a request (`server_network.c:81`). The client then keeps a number that names nothing, or
another connection. `get_node_data`, `connect` and `zoo_wget_children` may fail too, and the session may end; `missed` and `blind` remember it. `cut` is
the connections that failed commands have closed.

## 3. The runs

Each `MC<run>.cfg` is one run. The passing ones are exhaustive; the longest, `ReconfigCrash`,
`Client` and `Sockets`, take two to three minutes.

| Run | Bounds | Shows |
|---|---|---|
| `Stats` | 3 threads, 4 requests | of the lock: `Exclusion`, `CountersExact`, `NoLostWakeup`, and `Implements`: the code is the atomic lock; of the statistics: `EveryOperationCounted`, `ReportCoversAnswered`, `ReportLacksOne`; of both: `EveryRequestAnswered`. Three threads are one inside and two that wait, of any kinds, or two that update and one that reports; four requests let a thread come back |
| `Chain` | 3 servers, 2 clients, 2 keys, 4 requests | `OneWriteInFlight`, `ReplicasAgree`, `AnsweredIsReplicated`; `Linearizable`: refinement of `KVStore`, where a write takes effect when the tail applies it and a read when the tail reads; `EveryCallReturns`. Three servers are a head, a middle that both receives and forwards, and a tail; with two clients every pair of requests overlaps in every way |
| `ReconfigCrash` | 4 servers, 2 puts, one fault: a crash of 1, 2 or 4, the end of the session of 2, no memory at 1 or 2 | `UpdatePropagation`, `AckedAtHead`, `AppliedOnce`, `PutsReturnUnlessCut`. The crashes are of the head, of a server with one on both sides, and of the tail. The crash of 3, the other sessions and the other servers without memory are left to the proofs of section 4, which need one fault at most for `AckedAtHead` and nothing for the other two; `PutsReturnUnlessCut` is checked for the faults listed |
| `ReconfigJoin` | 1 server and 2 that join, 1 put, one fault of any kind at any server, a failed call to ZooKeeper or `connect` among them | `UpdatePropagation`, `NextIsSuccessor`. Two that join are needed for one of them to have a successor while its `main` still starts |
| `Server` | 2 threads, 4 keys, 2 values, 2 lists, failing allocations | `ListsSorted`, `InOwnList`, `AtRest`, `CopyFits`, `LockHeldInUse`; `ImplementsStore`: every step in which no allocation fails is one of `KVStore`, whatever failed before it. Some keys share a list, and hash order is not key order |
| `Framing` | bytes of 2 values, 3 bytes in the kernel, requests of 1, 3 or 4 bytes, replies of 1, 2 or 5, 3 calls | `WholeFrames`; `ImplementsRpc`; `EveryCallReturns`. Four bytes and more do not fit the length, three do and are longer than what is in the kernel at once, so that messages and lengths are cut in every way |
| `Sockets` | 2 clients that may die at any point of a call and come back, 3 descriptors, the next server may crash and be replaced | `NoDescriptorLeak`, `ClientsCounted`, `EndedIsReleased`. Two clients are enough for one to get the number that a thread of the other closes |
| `Client` | 3 servers and 1 that joins, 2 crashes, any number of failed commands, calls that fail, the end of the session | `TailCurrent`: tail is the connection made to the last server, and names it unless a failed command has closed that very connection; `HeadCurrent`: head was made to the first server, and names that connection while no failed command has closed one. Both leave out an end whose last attempt to connect failed (`missed`) and a client that has lost the watch (`blind`). Two servers are left in any case, so that head and tail stay different, and both ends of the chain change |

Bounds. `MaxCalls` in `MCStats` and `MCChain` bounds the requests because the lock prefers
readers: an endless supply of them keeps a writer out, so the liveness
properties are about finitely many calls; the safety properties need no such bound, and
section 4 proves most of them without it. `MaxFaults` counts crashes from outside, ended sessions of running
servers, failed allocations and calls that fail with nothing wrong at the other end (`MayMiss`) together; what a second fault does is in the list of divergences below. `MaxEpoch` bounds the
connections one server makes to successors, in the guard of the one action that makes them; the values in the `.cfg`
files are not reached, so the guard never stops anybody. `MaxRequests` and `Cap` bound the calls and the bytes
in the kernel. `Rtables` in `ClientView` is the number of rtables
the changes of the chain can cause; `TypeOK` fails if there are more.

Where a property is missing from a run it is because the code does not have it there:
`AckedAtHead` fails with a join, or with two faults; `AppliedOnce` is about the servers of the first chain, because at one that joins a
forward waiting in the backlog may be applied on top of a table that has it; `NextIsSuccessor` leaves out the servers whose
`main` overwrites what the watcher has set, and those one of whose own calls failed (`server_hashtable.c:144`, `:69`, `:85`): no watch is set again, or the successor is not tried again.
`PutsReturnUnlessCut` excuses a thread that waits, under the write lock, for a reply that cannot come: one forward that fails is enough for the next one to be written to a client
(`SocketsStrayForward`). `HeadCurrent` says less of head than `TailCurrent` of tail: a failed command may close, in place of its own connection, the one that head
has got since, or leave head with a number that tail then gets (`ClientMixup`); tail is connected last and loses only what is closed after that.

`CHECK_DEADLOCK FALSE` stands where the modelled activity ends: all requests are answered or
lost, the bounded changes of the chain are used up, a thread has ended or left the lock held, or the process has
ended. `Sockets` has no such end and is checked for deadlock.

Four runs end in a violation, of one property each, and are the findings of
`PROJECT.json`, with the line of the code or its documentation that promises the property:

| Run | Property | What happens |
|---|---|---|
| `ReconfigJoinLosesPut` | `AckedEverywhere` | a put served during a join is answered and missing at the new tail |
| `ReconfigJoinDeadlock` | `EveryPutReturns` | the new server waits for a table that its predecessor cannot read while it waits for the new server |
| `SocketsStrayForward` | `ForwardsReachSuccessor` | a forward is written to a client, over a descriptor that `next_server` kept after it was closed |
| `ClientMixup` | `HeadTailCurrent` | `head` and `tail` share a descriptor from then on; puts go to the tail |

TLC shows further divergences of the same kind with the properties below as the
only `INVARIANT` (`PROPERTY` for those marked *) and these constants, the others as in
the named run; for `ChainReconfig` the sets `MayCrash`, `MayExpire`, `MayLackMemory` and `MayMiss` that are not given are
empty. They have no configuration of their own.

| Property | Run and constants | What happens |
|---|---|---|
| `AckedEverywhere` | `ReconfigCrash` with 3 servers, 1 put, `MayCrash = {2}` | `server_skeleton.c:102`: a failed forward is ignored and never repeated |
| `SameOrder` | `ReconfigCrash` with 3 servers, `MayCrash = {2}` | `server_hashtable.c:81`: forwards over the old and the new connection pass each other |
| `KeepsUnchangedSuccessor`* | `ReconfigCrash` with 3 servers, no puts, `MayCrash = {3}` | `server_hashtable.c:77`: addresses are compared without the `:`, so every change reconnects |
| `AllForwardToSuccessor` | `ReconfigJoin` with no puts | `server_hashtable.c:196`: `main` overwrites what the watcher has set with older knowledge |
| `AllForwardToSuccessor` | `ReconfigJoin` with 2 servers, no puts, `MayMiss = {1}` | `server_hashtable.c:85`: a call that fails, to `connect` here or to ZooKeeper at line 69 or 144, is not tried again |
| `OthersSurvive` | `ReconfigJoin` with no puts, `MayCrash = {2}` | `server_hashtable.c:77`: `strcmp(NULL, ...)` when a znode has gone |
| `RefusedIsNowhere` | `ReconfigCrash` with 2 servers, 1 put, `MayLackMemory = {1}` | `server_skeleton.c:102`: a put that `table_put` refused is forwarded and stored behind |
| `SettledCanForward` | `ReconfigCrash` with 2 servers, 1 put, `MayLackMemory = {2}` | `server_network.c:81`: the thread of the successor ends after one error, and `next_server` keeps the connection it has closed |
| `AckedAtHead` | `ReconfigCrash` with 3 servers, 1 put, `MaxFaults = 2`, `MayCrash = {1}`, `MayLackMemory = {2}` | the put is answered by the head, missing behind it, and the head dies |
| `AckedAtHead` | `ReconfigCrash` with 3 servers, 1 put, `MaxFaults = 2`, `MayExpire = {1}`, `MayCrash = {2}` | `zoo_helper.c:28`: a former head answers clients on its own |
| `EveryPutReturns`* | `ReconfigCrash` with 3 servers, `MayCrash = {3}` | `client_network.c:95`: a thread reads from a connection that the watcher has closed and that was reused |
| `IndexInBounds` | `Server` with keys `{1, 2}`, 3 lists, `CharSum <- Utf8Sum` | `table.c:45`: negative index for keys outside ASCII |
| `PutOkIsStored` | `Server` | `table.c:86`: the result of `list_add` is ignored |
| `EndedLeavesLock` | `Server` | `server_skeleton.c:254`: GETTABLE returns without `end_read` |
| `ReportOfOneMoment` | `Stats` | `server_skeleton.c:295`: the fields of a report are read without the mutex |
| `ReplyIsOwn` | `Framing` | `server_network.c:205` and `client_network.c:105`: after a message that is too long, or a reply without memory, what is left in the stream answers the next call |
| `OnlyOwnerCloses`* | `Sockets` | `server_network.c:92`: a descriptor is closed again after the kernel has given it away |
| `HeadTailCurrent` | `ClientMixup` with 2 servers, 1 founder, no crash, `QuietStart = FALSE` | `client_hashtable.c:131`: a starting client overwrites its newer view |
| `NoUseAfterFree` | `ClientMixup` with 2 servers, 1 founder, no crash | `client_hashtable.c:62`: the watcher frees the rtable in use |

A remark on `ClientView`: `alt_check(head, max)` and `alt_check(tail, min)` have their
nodes exchanged. It does no harm only because the comparison never succeeds;
the mistake `SlipAltCheck`, a comparison repaired alone, violates `TailCurrent`.

### Fairness

- `Stats`: weak fairness of every step of a thread that serves a request, and strong fairness
  of taking the mutex of the lock or that of the statistics, which are held for a few instructions only and which the scheduler gives
  to each waiter in the end; none on new requests and none on spurious wake-ups.
- `Chain`, `ChainReconfig`: every thread that can run runs; ZooKeeper ends the sessions
  of dead servers; none on clients that send requests, on faults or on the end of the session of a running server. In `ChainReconfig` a thread that reads
  from a connection with no reply to come (`Unstick`) has no fairness: whether it ever goes on is up to a client.
- `Framing`: both ends run, so that bytes that can be written or read are, in the end; none on calls, deaths and failed
  allocations.
- `Sockets`: every thread that can run runs; none on clients, deaths or changes of the chain. `EndedIsReleased` therefore excuses a thread that waits for the write lock, or for
  the answer to its forward, again and again for ever (`Kept`): the lock may be held for a client that never writes.
- `ClientView` and `Server` have safety properties only.

## 4. The proofs

Checked by TLAPS for every value of the constants that the assumptions allow.

`StatsProofs`, the lock (assumption: the threads are a finite set).
`IInv` adds to the checked properties who holds the mutex (`MutexHeld`: the
owner is the one thread inside a mutex section) and that a thread past the test of its loop
still passes it (`TestStillHolds`, since nobody else has the mutex). Without
the second a thread could count itself in after the condition has changed, so
`Exclusion` alone is not inductive. `LockInvariant` proves `Spec => []IInv`; `LockTypeOK`,
`LockExclusion`, `LockCountersExact` and `LockNoLostWakeup` follow; `LockImplements` maps each step
to a step or a stutter of `RWLockSpec`.

`StatsProofs`, the statistics (the same assumption). `StatsUsesLock` proves `StatsSpec => Spec` of `RWLock`: all that is proved of the lock
holds of the server with its statistics. `StatsIInv` adds to the checked properties the holder of `m_stats`
(`StatsMutexHeld`), that what the holder has read of `n_operations` is still there (`LoadIsCurrent`), and that what a
report has copied was true earlier (`ReportIsPast`). `EveryOperationCounted` counts threads, so each move of a thread between stages is a lemma
on cardinalities (`MoveInto`, `MoveOut`, `MoveAside`).

`ChainProofs` (assumptions: at least one server, clients and links are different,
`None` is no request). `IInv` joins `TypeOK`, `LockOK`, `OneWriteInFlight`, `ReplicasAgree` and
`RequestOK` (a thread that is busy has a request of its kind). `OneWriteInFlight` is
what makes `ReplicasAgree` inductive: without it a second write could reach a
server before the first. `AnsweredIsReplicated` follows from the invariant.

`ChainLinearizable` (the same, and that `None` is no answer) proves `Spec => Linearizable`. A write is made known to the
abstract store when the tail applies it, though its client's answer was computed at the head long before, so the invariant needed is
`AnswersOK`: a thread past the table has its answer, and while a write is on its way the answer made at the head
is the one the table of the tail gives. It holds at the head because nothing is in flight when the head applies a write
(`ReplicasAgree`), and stays because the tail changes only when the write arrives. `WriteImplements` shows that the
write at the tail is the abstract effect of the one client that waits (`OneClientWrites`, `SentForClient`)
and that a write elsewhere is a stutter; `QuietImplements` that the replies and the unlocking are stutters, and
`ClientImplements` that what clients and readers do is the abstract call, effect or return.

`ReconfigProofs` (assumption: `ReconfigAssumption`) proves every invariant that the runs check of `ChainReconfig`, for any number of servers, founders, puts,
faults and connections. The invariant comes in layers, each proved with those before it:

1. `TypeInv`: types, and that a busy thread has a server and a put.
2. `OrderInv`: a list of children may be old but lacks no child that matters to its server (`ListsCurrent`), so that a
   connection leads to a server with nobody of the chain between its ends (`Adjacent`), and stays so, because znodes are made in order:
   who joins is last (`InOrder`), and who leaves comes between no two.
3. `ThreadInv`: the connection a thread has read or finds in a refilled rtable is one that its own server made.
4. `PutsInv`: a put on its way to a server has been at all those of the chain before it (`InFlightHandled`), a server that does not
   serve yet has none (`EmptyUntilServing`), and `HandledInOrder`, which is `UpdatePropagation` with
   the puts that found no memory on both sides. Those have to be counted with the others, since they are
   forwarded too.
5. `WatchInv`, of the servers that are not `blind`: a server of the chain has its watch set or an event to handle, and the list its watcher holds is the right one
   when no event waits (`WatchKept`). `KnowsNext` follows the knowledge of the successor from the list to `next_server`, and is
   `NextIsSuccessor` with the servers in the middle of `main`.
6. `OnceInv`, from layers 2 to 4: a put is on its way to one server of the first chain at most (`OneFrontier`), and neither that server nor one
   behind it has it (`NewBehind`). Forwards go only towards the tail, so a put that passes a server cannot come back, whatever connections
   are mixed up; `AppliedOnce` counts what this leaves.
7. `HeadInv`, under the hypothesis `OneFaultAtMost` (nobody joins and at most one fault happens), which `MCReconfigCrash.cfg`
   satisfies: who is lost is one server (`LosesOne`), and until the fault has happened somewhere else than at the first server (`SecondIntact`), all that the first server has
   finished is in the table of the second (`SecondFollows`). A put that is stored and not forwarded for want of an entry (`Unsent`) is such a fault: the first server then stays, and has
   the put. No thread of the first server is stuck while the second is intact, since its connection has been neither closed nor dropped.
   `AckedAtHead` follows; without the hypothesis it is false, as section 3 shows.

`ServerProofs` (assumptions: at least one list, keys are numbers, a destroyed entry is no value, `None` is no request and no answer) proves
every property that the run checks of `Server`, for any number of threads, lists, keys and values. The first part is about one list: the search stops
where the key is or would be (`PassedIs`, `FoundAt`), and the two steps of `list_add` (`AddBegins`, `AddEnds`) and of
`list_remove` (`RemoveBegins`, `RemoveEnds`) keep it sorted and take it from `Whole` through `HalfAdded` or `HalfRemoved` back to `Whole`. The second
part is about the threads: `HeldByKind` says who holds the lock and why, `OthersWhole` that
only a writer in the middle of a handler has left a list half changed, `HalfKnown` in what way. A second step finds
what the first left because the lock has kept all others out. `ListsSorted`, `InOwnList`, `AtRest` and `LockHeldInUse` follow.

The third part is the arrays. `Totals` is the loop of `table_size` as a recursive function; `TotalsAre` shows that it adds up the size fields (it has
a value for `n` lists if it has one for `n - 1`: `UpTo`, from `Least`), `TotalKeys` that after `n` lists it is the number of keys in them, since no key is in
two places. `CopyInv` says that an array in the making holds just the entries of the lists it has walked and that its room is still the size of the table,
because a reader keeps every writer out (`ReaderSees`, `WriterAlone`). `TypeOK` and `CopyFits` follow.

The last part is the refinement. The table that others will see (`Seen`) is what the lists hold at rest (`SeenWhole`), and in the middle of a change
the key of the one writer has its new value already (`SeenHalf`). So a write takes effect in its first step (`PutTakesEffect`, `DelTakesEffect`) and its second
is a stutter (`WriteEnds`), for which it matters that a change of a list at one key leaves every other key alone (`OnlyAt`, `OtherKeysStay`); a read takes effect
when it answers (`ReadTakesEffect`), GETKEYS and GETTABLE when the array is complete (`ArrayIsTable`). `ReplyInv` says that a request has an answer once it has
taken effect and not before. A step in which an allocation fails is excused, but the invariants hold after it too, so that the requests that come later are served right.

`SocketsProofs` (assumption: `SocketsAssumption`) proves `TypeOK`, `NoDescriptorLeak` and `ClientsCounted` for any number of
clients and descriptors. They are inductive together with `ThreadsHaveFd`: a thread has a descriptor from `Accept` to `Leave`. A thread
that closes somebody else's descriptor, which the code can do, leaks nothing (`CloseLeaksNothing`); what would leak is a
descriptor whose number is lost, and the number is dropped only by `Leave` and `set_next_server`, which close it first. The
statistic never falls below 0 because it is the size of a set.

`FramingProofs` (assumption: `FramingAssumption`) proves `TypeOK`, `WholeFrames` and `ImplementsRpc` for any values of a byte, any room in the kernel, any lengths
of messages and any number of calls. `TypeInv` says of which messages the bytes in each buffer are. `Conversation` says more than `WholeFrames`, which is not inductive because it does not know
which message is coming: to the server comes nothing or exactly the rest of the request of the call in progress, not handled before (`ToServer`); to the client nothing or the rest of its reply
(`ToClient`), and never both (`OneSpeaks`). What is in the three buffers between two ends is one string, which a `write` or a `read` of any
number of bytes leaves as it is (`BytesStay`); that the length that is read is that of the message is `LengthOfDigits`. Each step is then a step of `Rpc` or none of its business.

`ClientViewProofs` (assumption: `ViewAssumption`). `TypeInv` proves `TypeOK` with the count of rtables: those made and those that the threads still owe
are no more than two for the start and two for each change (`Pending`, `Changes`), which is why a descriptor is always free. The others have the hypothesis `QuietStart`, without which
they are false (`client_hashtable.c:131`). `WatchInv`: the watch is set or an event waits, unless the client is `blind`, and a thread in `set_head_tail` whose watch is still set has the right list.
`PeerInv` follows that list to the servers that head and tail are connected to: while every server of `/chain` lives and the watch is set, an end that is not about to be made anew was made to the
server that is there. `TailInv` says that nothing but a failed command takes the descriptor of tail from it, because tail is connected after everything else that `set_head_tail` closes and makes; that needs
no bound on the faults. For head the same is false, so `OwnInv` has the hypothesis that no failed command has closed a connection: then each end has a
descriptor of its own, and head keeps the one it got. `TailCurrent` and `HeadCurrent` follow.

That a set of numbers has a least element, which `Min`, `Max`, the successor in a list and the lowest free descriptor need, is proved in
`Least` from the well-foundedness of the numbers.

Only model-checked: liveness (fairness and `ENABLED` are beyond the prover).

## 5. Not modelled

- Serialization (`htmessages.pb-c.c` is generated): `Framing` takes a whole message to unpack to what was packed, and anything else to nothing or something;
- SIGINT: the process is about to end, and what its threads do to freed memory until `exit` is not defined;
- the creation of `/chain` by two servers at once: one of them exits;
- a table of the predecessor that is loaded in part for want of memory; deletions under reconfiguration (puts of different values show order and loss);
- `pthread_create` that fails, after which `pthread_detach` is called on a thread that is not there;
- who frees entries and blocks, and the destroy functions of the table, which run when the process ends;
- the text of commands and of output, among it the command loop that `fgets` keeps running at the end of its input, and `strtok` in two threads;
- what becomes of a client or server that goes on with a list of children nobody has filled, beyond ending, finding no successor or finding an earlier list.

## 6. Plan

1. Done: the lock, the statistics, the chain, its reconfiguration, the worker threads over the table, framing, descriptors, the client.
2. Done: every safety property that a passing run checks is proved.
3. Left: the hazards of `PROJECT.json` that no property covers yet, each with its reason there, and the operations that the components
   of status `partly` leave out.
