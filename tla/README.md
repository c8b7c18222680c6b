# TLA+ models of the Linux system-programming exercises

The repository is a collection of small C programs, one directory per topic
(processes, threads, signals, sockets, pipes, shared memory, semaphores, message
queues, file locks, kernel modules), and one larger program, a controller for
wpa_supplicant with its event loop. Most of them are about concurrency: what
happens when two processes, threads, signal handlers or callbacks meet. That is
what the modules here model.

## 1. Inventory

Each entry says what state the component keeps, its operations, how its parts
interact, what is hard about it and what makes it correct.

### 1.1 Message-queue file server (`10-message-queues/client-server`)

A server creates a System V queue under a well-known key, receives requests and
forks a child for each; the child opens the file and sends it in messages of at
most 8192 bytes to the private queue of the client, closed by an END message. A
SIGCHLD handler reaps the children. *State:* the two kinds of queues, the
server's `req` and `errno`, the children's copies of `req` and file positions,
the client's `totBytes` and `numMsgs`. *Hard:* SIGCHLD is not queued and
interrupts `msgrcv`; the handler shares `errno` with `main()`; queues are bounded
in bytes; `fork`, `read` and processes fail. *Correct:* each client gets the whole
of its own file, in order, or a failure; no zombie is forgotten; the server ends
only when it must.

### 1.2 Other message queues (`10-message-queues/systemV-message-queues`, `10-message-queues/POSIX-message-queues/queues-property`)

One producer, two consumers that take messages by type from one queue; the first
consumer removes the queue when it is done. *Hard:* the removal races the second
consumer. The POSIX program prints the attributes of a queue.

### 1.3 Semaphores (`09-semaphore`)

`producer-consumer`: a bounded buffer of 10 counted by the semaphores `empty` and
`full` with a `mutex`, shared by a parent and a child through `mmap`.
`named-semaphore`: processes that share one named semaphore, created by the first,
with `sem_timedwait` of 10 seconds. *Hard:* the order of the three semaphores; the
race of creation; death or timeout inside the critical section.

### 1.4 Threads (`04-thread`)

`conditional-var/con_var.c` signals a condition when a counter reaches a
threshold, `main.c` polls the counter; `mutil-thread` increments a counter under a
mutex in two threads; `thread-terminate` exits, cancels and joins; `threadID`
compares identifiers. *Hard:* lost signals, a predicate that has already moved on,
reads outside the lock.

### 1.5 Event loop (`01-general-knowledge/wpa_ctrl/src/eloop.c`)

Tables of readers, writers and exceptional descriptors, a sorted list of timeouts
and a list of signal handlers; `eloop_run()` waits in `select()` and dispatches.
Handlers run inside the loop and may register and unregister anything. *Hard:*
reentrancy (the tables change under the dispatching loop), results of `select()`
that are stale once a handler changed the tables, signals that arrive between two
steps, the `SIGALRM` that ends a loop that does not end itself.

### 1.6 wpa_supplicant control interface (`wpa_ctrl.c`, `wpa.cpp`, `main.cpp`)

A client socket with a unique local name, requests with a 10 s reply timeout and
unsolicited messages in between, and a controller object that configures a
network with a sequence of requests. *Hard:* the reply of a request that timed out
answers the next one; a failed step in the middle of a sequence; two clients that
take the same local name.

### 1.7 Line editor and support code (`edit_simple.c`, `common.c`, `os_unix.c`, `wpa_debug.c`)

The command buffer, string and time helpers taken from hostap.

### 1.8 Character device (`11-kernel-module-basic`)

A kernel module that allocates a device number, class and device with a chain of
`goto` for failures, and file operations over one kernel buffer with `size` and
per-file offsets, plus `ioctl`. *Hard:* undoing exactly what succeeded; reads past
the end; several openers on one buffer.

### 1.9 Sockets (`06-socket`)

Chat over TCP and over Unix streams, datagrams over UDP and Unix sockets. *Hard:*
end of file and partial reads, a peer that leaves, a reply with no return address.

### 1.10 Pipes (`07-pipes-FIFOs`)

An unnamed pipe between parent and child, a pipe written by a signal handler, a
FIFO with a producer and a consumer. *Hard:* end of file depends on every copy of
the write end being closed.

### 1.11 Shared memory (`08-shared-memory`)

System V segment with reader and writer, file mapping, anonymous mapping across
`fork`. *Hard:* what is private and what is shared, and who has written when.

### 1.12 Files (`02-linux-file-system`)

`flock` and `fcntl` locks in two processes, asynchronous I/O finished by a signal,
open/read/write, `stat`. *Hard:* conversions of a lock, and which bytes are locked.

### 1.13 Processes and signals (`03-process`, `05-signal`)

`fork`, `wait`, `exec`, a SIGCHLD handler, a zombie on purpose; handlers for SIGINT
and a blocked signal. *Hard:* a SIGCHLD that arrives before its handler.

### 1.14 Build material (`01-general-knowledge/4-stage-compiling-C`, `make-tutorials`, `static-N-shared-lib`)

Compilation exercises; nothing to model.

## 2. Plan

The order puts first what is concurrent and has the most to go wrong.

| step | module | over | what it adds | status |
|---|---|---|---|---|
| 1 | `MQFileServer` | `FileService` (abstract) | processes, SIGCHLD, queues, deaths | done |
| 2 | `ProducerConsumer` | `BoundedBuffer` (abstract) | semaphores | done |
| 3 | `WpaCtrl` | - | a request with late replies, events, time | done |
| 4 | `Eloop` | - | callbacks, signals and timeouts in one loop | done |
| 5 | `Common`, `ByteArrays` | - | the conversions of `common.c` as operators; bits and byte order | done |
| 6 | `CtrlSocket` | - | the sockets of `wpa_ctrl.c`, their files, monitors | done |
| 7 | `WpaController` | `CtrlSocket` | sequences of requests, steps that fail | done |
| 8 | `Support` | `Common` | times, lists, the command line, dumps and messages | done |
| 9 | `Threads`, `Processes`, `Pipes`, `SharedMemory`, `Sockets`, `FileLocks`, `NamedSemaphore`, `TypedQueue`, `CharDevice` | composed in `ExercisesMC` | one module for each topic of small programs | done |
| 10 | `Exercises_proofs`, `Exchange_proofs` | `ExercisesMC` | the safety of all small programs | done |
| 11 | `WpaController_proofs` | `WpaController` | connections, monitors and networks | done |
| 12 | `MQFileServer_proofs` | `FileService` | streams, and the refinement | done |
| 13 | `Common_proofs` | `CommonMC` | encoding, names, addresses, ranges, lists and dumps, of any length; times | done |

Runs: one for each module, with its safety properties under faults and, where the
state space allows, its liveness in the same run; a second one only where a bound has to
differ; and one for each disagreement between the code and its comments that is worth
keeping. Every safety property a passing run checks is a theorem, but for `InputIsUnderstood`
(section 5). What is left is to widen the models: `eloop_destroy()` and
`eloop_wait_for_read_sock()`, and the failures section 6 names.

## 3. What is modelled

### 3.1 `MQFileServer` (client-server)

One step per system call. A process is a function of its name: `spc` is where a
server's `main()` is, `hpc` where its `grimReaper()` is (the handler runs on top of
`main()`, which waits), `cpc` where the child in a process slot is, `kpc` where a
client is. A slot is free, running or a zombie; `fork()` fails when no slot is free.
`pend` is one bit for each server, as SIGCHLD is not queued. `errno` and `saved`
are those of the server and its handler.

| code | actions |
|---|---|
| `server.c` `main()` | `ServerStart`, `ServerReceive`, `ServerReceiveError`, `ServerCheckErrno`, `ServerFork`, `ServerForkError`, `ServerRemoveQueue` |
| `grimReaper()` | `ReaperEnter`, `ReaperReap`, `ReaperDone`, `ReaperReturn` |
| `serveRequest()` | `ChildOpen`, `ChildSendFailure`, `ChildRead`, `ChildSendData`, `ChildSendEnd`, `ChildExit` |
| `client.c` | `ClientStart`, `ClientSend`, `ClientFirst`, `ClientMore`, `ClientPrint`, `ClientRemove`, `ClientExit` |
| environment | `ServerKilled`, `ChildKilled`, `ClientKilled`, and the read and fork failures of `Faults` |

Data is abstract: a message holds the name of the file and the position of its bytes
instead of the bytes, so that `StreamIntact` can tell any loss, repetition or mixture
apart. Queue identifiers are the names of their creators, which are unique, and each
server is started once. The kernel's limit counts bytes, as `msg_qbytes` does. The
step of `ReaperReturn` that makes `msgrcv` fail with EINTR in spite of SA_RESTART is
what Linux does.

`FileService` says what a client may observe: it asks, gets bytes up to the file's
size, and is told "complete", "refused" or nothing. `ImplementsService` maps
`path`, what a client has printed, and `totBytes` to it.

### 3.2 `ProducerConsumer`

The three semaphores, the position of each of the three processes, and `items`: the
code prints "creates" and "takes" where the buffer would be used, and the model counts
them. Each `sem_wait` and `sem_post` is a step, each `fork()` a step that may fail.
A child may die at any step and keeps what it holds. `BoundedBuffer` is the buffer the
semaphores are there for.

### 3.3 `WpaCtrl`

`wpa_ctrl_request()` as a machine with the places `send`, `sleep` and `wait`; `age` is
the time since `started_at`, `left` the limit of the running `select()`. The supplicant
answers the requests in its socket in order, sends events, serves other clients and may
die. Requests are numbered and replies carry the number - a ghost the protocol does not
have, and the reason a late reply can be told from the right one. `restarts`, `spent` and
`timedOut` (a `select()` has timed out) are ghosts too. Time is in whole seconds; where the code compares microseconds
both outcomes are possible.

### 3.4 `Eloop`

`at` is the place in `eloop_run()`, with `eloop_process_pending_signals()` split at each
access to a flag that a signal handler changes, since it may interrupt there; `ret` is
the place it returns to. While `serving` is not `None` a callback runs, and everything
`eloop.h` offers may be called: `RegisterSock`, `UnregisterSock`, `RegisterTimeout`,
`CancelTimeout`, `CancelTimeoutOne`, `DepleteTimeout`, `ReplenishTimeout`,
`RegisterSignal`, `Terminate`; also `Reopen` (close a descriptor and get its number
again) and `Consume` (take the event). The same calls come before and after the loop.
`HandleSignal` may happen at any step and fails a blocked `select()` with EINTR.
`Arrive` makes a socket ready; `Tick` lets a second pass anywhere but in a `select()`
that is ready to return.

The list of timeouts holds the seconds each has left, which makes the state space
finite; an overdue entry holds -1, as nothing in the code tells how much it is overdue.
`moved` (descriptors opened anew since `select()`) is a ghost of the properties. Of the
failures of memory only that of `eloop_deplete_timeout()` and `eloop_replenish_timeout()`
changes anything: the timeout is cancelled and not registered again, and the functions
return success all the same (the fault "nomem"). The others return -1 and leave the state
as it was.

### 3.5 `Common` and `ByteArrays` (common.c)

Each function is an operator that returns what the code leaves in its buffers; `Fail` is
NULL or -1. A string is the sequence of its character codes without the final zero, which
is what `At` gives beyond the end, so that a function that looks one character too far
sees what it would see in memory. The sizes of buffers are parameters wherever the code
compares with them. A loop that keeps a position in a text is an operator for one turn
(`DecodeTurn`, `UnescapeTurn`, `RangeTurn`) and a recursive function for the loop, which the
provers can reason about where they cannot about a recursive operator; `hwaddr_aton2` has a
position for each byte, and the others are folds. `qsort()` is `SortSeq`; a number of a list of
ranges is one element of its text. Failures of memory, which give NULL, are left out.
What works on bits is in `ByteArrays`, as the prover knows no bitwise operator.

`CommonMC` lets a byte array or a text grow one element at a time, so that a run sees all
of them up to a length, and states what is proved of them; `SupportMC` extends it by what is
only model-checked.

### 3.6 `Support` (common.c, os_unix.c, list.h, edit_simple.c, wpa_debug.c)

Built like `Common`, which it extends: counters, times with their carry, dates, paths with the growing buffer of `os_rel2abs_path()`,
files that are read in pieces, arguments of a command line, lists, the line editor, and what
`wpa_debug.c` prints. A list of `list.h` is a function from nodes to their two neighbours, so
that adding and deleting are the assignments they are in C, in their order. A run lets the bytes
of `data` say what is done to a list: each puts an item at one end or behind another, or takes
that one out (`ListStep`). Printing is the sequence of
what goes out; a message goes to the log, the monitor or both as its level and its kind say.
`parse_to_wifi_name()` and `check_status()` of `wpa.cpp` are here too, as they only take text
apart.

### 3.7 `CtrlSocket` and `WpaController`

`CtrlSocket` is `wpa_ctrl.c` around the request: `wpa_ctrl_open2()` makes a socket file from
the process number and a counter, takes over a file that is in the way, and removes it when
`connect()` fails; `dir` is `/tmp`, and a file outlives its socket when a process ends without
`wpa_ctrl_close()`. Process numbers are used again. A request is one step whose outcomes are
those that `WpaCtrl` has as behaviours: the next datagram that is no event, or a timeout, after
which the reply is still in the socket. A monitor is a program that uses the rest of the
library: attach, pending and recv, detach, close.

`WpaController` is `wpa.cpp` with `main.cpp`: the options in any number, scanning with its
second connection, and the requests of `config_wifi()`, each a step. Its supplicant keeps
networks, the selected one and its file, and may refuse or ignore; requests of two processes
interleave. Names and keys are model values; `before`, `asked` and `clean` are ghosts that say
what the networks should become, and when nothing stood in the way.

### 3.8 The small programs

Nine modules with the same three variables: `prog` is the program that runs, `pc` the place
of each of its processes or threads, and `s` a record of what they share and what the
properties need to remember. `ExercisesMC` composes them: `Init` chooses a program of any
module, and all actions look at `prog` first. No two programs share anything, so that one
run checks all of them as thoroughly as nine would.

| module | programs | what is in the model |
|---|---|---|
| `Threads` | con_var, polling, mutil_thread, thread_terminate | `++counter` as a load and a store, the mutex, the condition that forgets signals and wakes for nothing, threads that are joined, detached or neither |
| `Processes` | fork, zombie, wait_waitpid, safe_fork, exec, signal_BLOCKING, signal_SIGINT | pending, blocked and handled signals, a child that ends at any time, two copies of a variable |
| `Pipes` | pipe, related_pipe, named_pipe | who has which end open, end of file, SIGPIPE, the meeting of two `open()` calls of a FIFO, a read that takes several messages |
| `SharedMemory` | anonymous, posix, system_v | shared and private pages, a segment that loses its key and lives on, a line that is stored in part |
| `Sockets` | chat, unix_stream, unix_dgram, ipv4_dgram | backlog, connections that are reset, `"exit"`, files of Unix sockets that stay, datagrams that are lost |
| `FileLocks` | flock, fcntl, rw_sync | conversion of a lock in two steps, record locks by region, the signal of an asynchronous read |
| `NamedSemaphore` | named_semaphore | creation by one of many, ten seconds, kills, runs without end |
| `TypedQueue` | systemv_queue | messages by type, the removal of the queue |
| `CharDevice` | stages 01 to 05 of the kernel module | every step of loading with its failure, seen or unseen, the labels that undo, the page and the size with the offsets of the open files |

`CharDevice` counts in units of 1024 bytes, what `test_app` reads and writes at a time.

## 4. Runs

| run | instance | shows |
|---|---|---|
| `mq` | 1 server, 2 clients, 2 slots, files of 0, 2 and 5 bytes and one that cannot be opened, messages of 2 bytes, queues of 4, fair | a request is in one place at a time; a stream is one piece of the right file, and a received file is whole; zombies go; each client is answered |
| `mq_faults` | 2 servers and 2 clients, `fork()` failures and kills | no zombie is forgotten, `errno` is that of `msgrcv`, no server removes another's queue, and the whole implements `FileService` |
| `mq_read_error` | `read()` may fail | **violation**: the end message comes also after a failed read |
| `pc` | the real 10 slots, `fork()` failures and kills, fair | exclusion, slots, the bounded buffer; while both processes live both go on |
| `wpa_calls` | limits 2 and 3, 3 requests, a supplicant that answers in time, late or never, or dies, fair | a reply is that of its request until a request has timed out; a request is bounded and returns; replies are used once and in order |
| `wpa_stale` | the real limits 5 and 10 | **violation**: a late reply is taken for the next request's |
| `eloop_sockets` | 2 descriptors, readers and writers, a timeout due at once, 5 calls, fair | readers are never called for stale results; events are served |
| `eloop_time` | 2 timeouts of 0 to 2 seconds, SIGINT, a reader that stays idle, 4 calls, memory failures, fair | nothing is overslept or out of order; timeouts are served; termination and the alarm |
| `eloop_stale` | the smallest that shows it | **violation**, see section 7 |
| `common` | arrays of up to 4 of 11 bytes, texts of up to 5 of 9 characters, addresses of 2 bytes, names of up to 3 | `EncodedIsReadBack`: what is encoded is read back, in every size of buffer, and so are names, addresses and ranges; `LinksAreLists`: a list is the same from both ends; `DumpsAreWhole`: a dump has every byte, and a key none; `InputIsUnderstood`: counters, times, tokens, arguments, typed lines, paths and tables are what they stand for |
| `controller` | 2 process numbers, 2 starts of a controller or a monitor, 2 options, room for 2 networks and up to 3 at the start, 2 events, 1 late reply, kills, a supplicant that ends | an open socket is reached by its own file; a monitor receives every event once and in order; `config_wifi()` adds and selects the network it was asked for when all went well |
| `exercises` | all programs of 3.8, with two or three processes for each part, fair | what each topic promises, and that whatever waits for no user goes on |

The properties of `exercises`, one for each module:

| property | says, among others |
|---|---|
| `SharedStateIsSound` | no increment is lost; `main()` of con_var sees 0 or one more than it waits for, and so never goes on; only a thread nobody joins or detaches keeps its slot |
| `ProcessesAreKept` | a zombie stays only if it ended before the handler was there; the handler's `wait()` never blocks; a blocked ^C stays pending |
| `PipesKeepMessages` | messages come whole and in order; the child of related_pipe never sees the end; a message of the FIFO is missed or printed twice but never out of order |
| `MemoryIsKept` | private pages stay private; who attached to a segment keeps it; only a removal between `shmget()` and `shmat()` makes a process fail |
| `ConversationsAreKept` | the two sides of the chat take turns, and only a kill makes the server die; each client gets its own reply; the file of a Unix socket makes its server the last |
| `FilesAreGuarded` | a reader has the lock, writers of one region come one at a time, and rw-sync prints after the read |
| `SemaphoreAddsUp` | the unit is free, held once, or lost for good with a killed process |
| `EachMessageOnce` | a message that was accepted is queued, shown once by a consumer of its type, or destroyed with the queue |
| `DeviceIsSound` | what stays after a module is gone; no code goes away under an open file but in a failed load; who wrote last reads nothing of it |
| `ExercisesGoOn` | threads are joined, messages shown, datagrams answered, locks tried and waits ended |

**Bounds.** In `mq_*` two clients are the least for mixed streams and two slots for a
`fork()` that fails while a child is a zombie; a file of three messages needs more than
the queue holds, so that a child blocks. Two servers are needed for the key. Beyond
that the processes are symmetric and independent. `pc` is the real size. In `wpa_*`
three requests let the reply of the first arrive during the third; the limits are small
in `wpa_calls`, where only their order matters, and real in `wpa_stale`. In `eloop_sockets`
five calls are enough to register two sockets, reopen one in a callback and register it
again; in `eloop_time` four are enough for a signal, two timeouts and a change of one; `MaxOps`, `MaxArrivals` and `MaxSignals` only limit how much the environment does,
never the loop. In `common` the bytes
are one of each kind the code tells apart (zero, the end of a line, escape, both quotes, a
digit, a backslash, two letters that mean something after one, and bytes beyond ASCII); four
of them make every pair of neighbours of an escape, one name too long, and an address with
its mask. In `controller` two starts give two processes at
once or one after the other with the same number, and three networks at the start one more
than the program keeps. In `exercises` each part of a program has two processes where they
compete for something, three users of the semaphore so that two wait, four threads as the
most a process can have, two lines from each side of the chat, and two loads of the kernel
module. `ETH_ALEN` is 2 instead of 6 and `SSID_MAX_LEN` 3 instead of 32, both only counts.

**Symmetry** is used in `mq_faults` and in `controller` (the process numbers), which check
no liveness.

**Deadlock.** Where `CHECK_DEADLOCK` is off the program really stops or waits: a server
for its next request, a client with no server for an answer, a program after its last
request, the event loop when nothing is registered, an array or text at its longest. `pc` checks for deadlock.

**Fairness.** Every program that can take a step takes one in the end: weak fairness of
each process (`MQFileServer`, `ProducerConsumer`), of the request, the supplicant and
time (`WpaCtrl`), of the loop including the return of callbacks, time and the alarm
(`Eloop`). In the small programs processes, threads and the kernel go on, each module saying
which actions that are; a user never has to type, start or kill anything, so that what waits
for one may wait for ever. No fault, signal, event or call of the application is fair. Semaphores and
queues are not assumed to be fair to those who wait; nothing relies on strong fairness.
The bounds on events and interruptions are part of what makes `CallReturns` true: each
event starts `select()` anew, so that an endless stream of them would keep the caller
waiting, which is what wpa_ctrl.h says.

## 5. Proofs

All theorems hold for every value of the constants that satisfies the module's `ASSUME`.

`MQFileServer_proofs`: `TypeCorrect` is inductive with `RequestsKnown`, that a request is
only used where one has been received. The handler's properties are not inductive.
`ServerInv` adds `Ownership`: the only identifier a server ever has is that of its own
queue, a handler runs only in a server that is alive, and so is the parent of every child
that has one. From it follow `NoZombieForgotten`, `HandlerKeepsErrno`,
`QueueIsOwnersAlone` and the action property `ServerSurvivesChildren`.

`StreamInv` is about the clients. `StreamIntact` itself says nothing of requests that nobody
has begun to answer, or of how far a child and its client are, and a step can break it from a
state that no execution reaches. So each place that can hold a request is named: a fresh
request (in the server's queue or in a server that is about to fork) belongs to a client that
waits with an empty queue (`RequestsFresh`); no two places hold one of the same client
(`OneHolder`); a child has read as much as its client has received plus what is in the queue
(`ChildrenInStep`); the i-th waiting response is the one that follows (`ResponsesExpected`),
and a client has counted what it received (`Counted`). `Reached(c, k)`, the bytes that k
messages carry, ties all of them together. `RequestInOnePlace` follows, and, as long as
`read()` does not fail, `StreamsStayIntact` and `ServiceImplemented`: every step of the program
is a step of `FileService` or leaves what a client observes. The hypothesis is needed, as the
run `mq_read_error` shows: after a failed `read()` the client is told that the file is complete.

`ProducerConsumer_proofs`: `Accounts` relates `full` and `items` (what is filled but not
posted, or taken but not counted) and the mutex to the processes that hold it;
with `SlotsAddUp` it is inductive. Exclusion, the closeness of the figure and the
refinement of `BoundedBuffer` follow.

`WpaCtrl_proofs`: `Clock` bounds `spent` by `age` while sending and by the used part of
each `select()` after it; `CallIsBounded` is its corollary. `InOrder` says that the
numbers in the two sockets and of the last reply increase in the direction of travel;
taking one out and putting it in the other keep that, which gives `EachReplyOnce` for any
number of late replies. `Current` says that as long as no `select()` has timed out no
request but the current one is unanswered: what is in the two sockets bears its number, and
between requests both are empty of requests and replies; `RepliesMatch` follows.

`Eloop_proofs`: `Places` says where callbacks can run, which gives `NeverBlocksLate`.
`Alarms` adds the one step in which the alarm is already off and `pending_terminate` still
set. `Results` is the invariant behind `ReadersAreFresh`: as long as the results of
`select()` will still be used for readers, either the table is marked as changed, or all
descriptors in them are registered and none has been reopened, because reopening needs
unregistering and that marks the table. `Times` is behind `NeverOversleeps` and
`EarliestIsFirst`: the list is in the order of its times (`Ordered`), and while `select()`
sleeps no entry has less left than it. That every call of the application keeps the list in
order rests on what is left of a list when entries are taken out: `NthIsPlace` (there is a
k-th place for every k up to their number) and `NthGrows`. The first needs an induction, which
is made with the least element of a set of places (`Least`), from the library's theorem that
strict inclusion of finite sets is well-founded.

`Exercises_proofs` and `Exchange_proofs` prove the nine safety properties of the run
`exercises` for all programs of 3.8. A program stays what it is and only its own module moves it (`OwnInit`,
`OwnSteps`), so that each module has one invariant of its own; `Exchange_proofs`, which extends
the first, has the modules in which processes hand each other data. The invariants say, for

- threads: who counts has the mutex, and what it has in its register is the counter;
- processes: only safe_fork handles SIGCHLD, which is pending there only with a zombie;
- locks: a lock is had only between its two calls, and who is about to write has its bytes;
- the queue with types: who shows nothing, or finds its queue gone, learned it from a consumer
  that has removed it;
- the named semaphore: its value, the processes between their wait and their post, and what was
  lost with a killed process exclude one another, for any users and any number of runs;
- the device: what is loaded, left behind and open adds up over all loads;
- pipes: what is written follows on what is read and shown, and a number is shown again only once;
- memory: a segment without its key has lost it to a reader at its end;
- sockets: where a client of the chat and the server stand says what is unread, and whose turn it is.

They assume what `ExercisesAssumption` says: bounds that are not 0, processes with one part
each and no name that is also a text, and finitely many writers of a segment.

`WpaController_proofs`: `ConnInv` says that a socket bears the number of its process and a
count that its process has reached, that no two files lead to the same socket, that each open
socket is reached by its own file, and that what a monitor has seen and not yet read are the
events since it was attached. That a file taken over belongs to a process that has ended is
what makes it inductive: the counter of a living process is beyond all its sockets. A request
has a first datagram that is no event, again by `Least`. `ConnectionsStay` follows. `NetInv`
says what the networks are at each request of `config_wifi()` as long as all went well
(`Configured`): as before, with a blank one, without the first, saved, numbered anew, named,
with a key, selected; and that other processes are either unaffected or no longer "clean".
`NetworkIsTheOneAsked` follows. It needs that a file with as many networks as there are is that
of all of them (`KeptAll`).

`Common_proofs` has no invariant to strengthen: what it needs of the state is that `data` is
bytes (`Typed`), of any length; the rest are lemmas about the operators. Two things stand between
them and the provers. The library's induction takes a predicate, which they cannot be given; so
`Induct` is induction over a *set* of numbers, from the least element of a set (`LeastOf`), and
each lemma names the set of those it holds for. And a recursive function is for them any value
its equation has, if it has one at all; so `Iterate` shows that there is one, and the loop of
`printf_decode()` or `utf8_unescape()` is compared with a function that says where its i-th turn
stands. From these come the place of each element's text behind the texts before it
(`JoinedPlace`), that a decoder which begins a turn at the place of an escape ends it at the next
one, and so that

- printed text is read back as a prefix of the data, and as all of it when it had room; it holds
  no line break, whatever the data; hexadecimal text likewise, and strings of the configuration;
- escaped text is written as a whole or not at all, and read back, with its apostrophes or without;
- a name is read from hexadecimal text or from between quotes, whatever follows it, and refused
  when it is too long or empty;
- an address with its mask is read back from its text; `hwaddr_aton2()` reads every text that
  the strict readers accept, with colons or without, as they do (`FormatsRead`); and a list of
  frequency ranges is read as the ranges that were written;
- a list of any length, after any sequence of insertions and deletions, is in memory what it
  should be (`Items`: the item at each place has its neighbours as `next` and `prev`), so that
  both directions visit the same items;
- a dump has every byte once and in order, on lines of any length (`DumpedLines`), each column as
  wide as the next, and none of a key unless keys are to be shown;
- two times of any size are subtracted and compared right, whatever the limit (`TimesAlwaysAddUp`).

`TypeOK` of `MQFileServer` and of `ProducerConsumer`, `LoopEndsOnlyByFork` and the closeness
of the figure that the parent prints (`FigureIsClose`) are proved and in no run.

**Only model-checked.** All liveness properties: fairness and `ENABLED` are out of the
prover's reach. `InputIsUnderstood`, whose parts go through operators the provers have no
facts about or cannot be given: the bitwise ones of `ByteArrays`, `SortSeq`, and the folds and
recursive operators over tokens, words and typed lines. Of its times, the ones that
`TimesAlwaysAddUp` is about are proved; the calendar is not. Where a filtered sequence mattered
to a theorem (`Eloop`, `WpaController`, `CtrlSocket`) the models name its elements by their
places, as `SelectSeq` is opaque to the prover; only `UnregisterSock` still uses it, whose order
no theorem is about.

## 6. What is not modelled

- `client-server`: a failure of `sigaction`, `atexit` or of the client's own `msgget`,
  a wrong command line, queue permissions.
- `wpa_ctrl.c`: a path that is too long; the UDP, named pipe and Android variants, which are
  not compiled.
- `wpa.cpp`, `main.cpp`: the fixed buffers for commands and replies, which all commands and
  replies of the model fit into; what is printed.
- `eloop.c`: `eloop_destroy()`, `eloop_wait_for_read_sock()`, failures of `select()` other
  than EINTR, memory failures outside the timeouts, a clock that is set; the `poll`, `epoll`
  and `kqueue` variants, which are not compiled. A socket is not registered twice for
  one kind of event.
- `common.c`, `common.h`: the NTP timestamp, byte order of 64 bits, copying and clearing of
  memory, failures of memory, the Windows variants. `os_unix.c`, `wpa_debug.c`: wrappers of one
  call, `sleep`, daemons, log files and system log, the tracing variants (`WPA_TRACE`,
  `CONFIG_DEBUG_FILE` and others), which are not compiled.
- `eloop_destroy()` only frees, and warns of what is left.
- In the small programs: failures of calls whose only effect is that the process ends with a
  message, but for the ones named above; messages longer than a buffer, and reads that stop in
  the middle of one; what is printed beside the data; permissions.
- Programs without behaviour of their own: `arg-env`, `threadID`, `00-init_exit`, the queue
  properties, `open-rw` and `file-infor`, which are straight sequences of calls, and
  `systemD-shared-memory/writter.c`, whose object nobody reads; 1.14.
- The headers no compiled file uses (`ieee802_11_defs.h`, `radiotap.h`, `state_machine.h`,
  `wpabuf.h`).

## 7. Where the code and its comments differ

| run | what the run shows |
|---|---|
| `mq_read_error` | After a failed `read()` the server sends the message that means "File data complete" (server.c:59, 121-127). |
| `wpa_stale` | A reply that comes after its request was given up is returned as the reply to the next (wpa_ctrl.c:558). |
| `eloop_stale` | When a reader's callback reopens a descriptor, the writers are still dispatched with the old results (eloop.c:1219); the code guards against that only for signals and timeouts. |

Seen while modelling, and not run as a finding of their own:

- `wpa_ctrl.c`: a request waits 10 seconds for its reply (530), where wpa_ctrl.h:389 says two.
- `eloop.c`: a SIGHUP between the last look at the flags and `select()` is only served at the
  next event (1177). A timeout that is moved is lost when memory runs out, and success is
  returned (904, 936). A SIGINT just before `select()` gets an idle loop killed two seconds
  later with the message that it was busy (1088). When a signal's callback unregisters the last
  socket, `select()` is called with nothing to wait for (1096).
- `wpa.cpp`: scanning forgets the first connection (193), and no connection is ever closed, so
  that the socket files stay. After an opening that failed the next request goes through a null
  pointer. `config_wifi()` goes on after failed requests, and sets the network
  `NETWORK_ID_MAX` where the supplicant's numbers have gaps. `parse_to_wifi_name()` leaves out
  the last network of a scan (68). A key from the standard input is always refused, as the size
  given to `fgets()` is that of a pointer. `check_status()` takes a name that begins with the
  one asked for.
- `con_var.c`: the thread counts while `<=` the threshold and `main()` waits for `==`, so that
  it never goes on (22, 58).
- `named-semaphore/main.c`: `sem_unlink()` is given the address of a pointer (81); the
  semaphore stays, and one that was lost with a killed process stays lost.
- `related_pipe/main.c`: the comment says the reader will see the end of the pipe (68); the
  reader keeps the write end it was born with, and does not.
- `hello.c` of the kernel module: the exit asks to release three device numbers where one was
  allocated (185), which releases none; a failed `kmalloc()` leaves the cdev behind (163-174).
- `fcntl/process_B.c`: it writes one byte more than it has locked.
