# Verification of Bank-full-stack-AI

TLA+ models of this repository's programs, model-checked with TLC and, for the concurrent
parts at its core, proved with TLAPS for every value of the constants.

Paths are relative to `src/`. `tlc -config X.cfg M` runs a configuration, `tlapm M.tla` checks
a proof module.

## 1. The system and its components

The repository holds a banking service (Node.js, PostgreSQL), a C++ concurrency framework,
and the libraries, programs and exercises of a systems programming course in C and C++.

| Component | State it keeps | Operations | Interacts with |
|---|---|---|---|
| Bank API: transfers (`projects/secure-banking-api`, `transaction.service.js`, repositories, `db.js`) | tables `users`, `transactions`; a pool of connections | `transferMoney` | PostgreSQL row locks, the pool, Socket.IO events |
| Bank API: accounts (`auth.service.js`, `auth.controller.js`, `auth.middleware.js`) | an account's password, code and `is_verified`; tokens in clients' hands | `registerUser`, `verifyOTP`, `login` | the same database and pool, e-mail |
| Bank API: server (`server.js`, `dashboard.service.js`) | sockets in rooms, the listening server | `getUserDashboard`, join and leave, SIGTERM, restart | transfers that commit meanwhile |
| Framework: `WaitableQueue` | container, mutex, condition | `Push`, `Pop`, timed `Pop` | every thread of the pool and the logger |
| Framework: `ThreadPool` | status, thread count, priority queue, workers | `Add`, `Run`, `Pause`, `SetNumOfThread`, `Stop`, destructor | `WaitableQueue`, its workers |
| Framework: `Scheduler`, `AsyncInjection` | top task, priority queue, POSIX timer | `Add`, timer callback | callback threads, injections that add themselves |
| Framework: `Dispatcher`, `Callback` | two sets of pointers, one on each side | subscribe, unsubscribe, notify, both destructors | observers that do all of it from within a notification |
| Framework: `Reactor` | handlers, a running flag | `Add`, `Remove`, `Stop`, `Run` | handlers that change the handlers |
| Framework: `DirMonitor`, `DLLLoader` | a stop flag, an inotify queue, a table of open libraries | the thread's loop, three notifications, destructor | `Dispatcher`, the kernel, `dlopen`'s counts |
| Framework: `Handleton`, `Logger` | an instance, a queue, a file | `GetInstance`, `Log`, clean-up at exit | `WaitableQueue`, threads that log through exit |
| `utils`: watchdog | counters and flags in two processes, two named semaphores | start, handshake, heartbeat, revive, stop | signals; each other |
| `network`: pong server | descriptors, per-thread slots | UDP, one TCP connection, a thread per connection, select | clients that come, ping and leave |
| `system_programming/producers_consumers.c` | six shared buffers with mutexes, semaphores, a condition | six exercises | pthreads |
| `ds/ping.c`, `terminal_*`, `signal_ping_pong.c`, `ipc_ping.c`, `ipc_pong.c` | signal masks, two semaphores, a pipe, a message queue | turns of two processes | the kernel |
| `ds`: allocators `vsa.c`, `fsa.c` | headers and links inside the caller's pool | init, alloc, free, measure | the caller's memory |
| `ds`: `dhcp.c` on `trie.c` | a trie of leased addresses, a count | alloc, free, count | malloc |
| `ds`: `avl.c`, `bst.c`, `hash_table.c`, `singly_linked_list.c`, `queue.c`, `d_link_list.c`, `sorted_list.c`, `vector.c`, `circular_buffer.c` | trees, chains, arrays with indexes | insert, remove, find, splice, merge, iterate; write, read | malloc, each other |
| `ds`: `heap.c`, `pqueue.c`, `scheduler.c` | an array in heap order, a queue of timed tasks | push, pop, remove; run, stop | each other, the clock |
| `ds`: sorts, `calculator.c`, `knight_tour.c`, `bit_array.c`, recursions, `stack.c` | data, two stacks, a recursion | functions | - |
| `ds`, `system_programming`: sorts and sums by threads | slices of an array or a range | start, work, join | pthreads |
| `c/files/logger.c`; bits, conversions, Josephus, memory by words | a text file and its temporary copy | command chain; functions | the file system |
| `cpp`: `rcstring.cpp`, `SharedPointer` | a value with a count of its owners | copy, assign, write, destroy | each other's objects |

### What is hard in it

* **Awaits in a request.** Each `await` lets other requests run. The funds check uses a balance
  read without a lock; opposite transfers deadlock in the database; a connection may break
  before, during or after COMMIT; the process may be killed; two registrations of an address
  pass the same uniqueness check; a dashboard reads two snapshots.
* **Notifications outside the lock.** `Push` notifies after it has unlocked; a timed `Pop`
  may be notified and reach its deadline at once.
* **Code called back in a loop.** Observers and handlers change the very sets the loop is
  over, and end the objects it is in.
* **Control through the data queue.** The pool pauses, shrinks and stops its workers with
  special tasks in its own priority queue; the logger stops its thread with a message.
* **Timer expiries against calls.** An expiry starts a thread that locks later; `Add` reads
  the clock before it locks and queues after it unlocks.
* **Ends.** A destructor that joins a thread asleep, a server that waits for its last socket,
  a singleton deleted at exit while threads still use it.
* **Processes that die.** The watchdog and its client, a logger killed within a prepend,
  clients that leave a server that is reading from them.
* **Hand-made synchronisation.** Spins, semaphores that count apart from what they guard, a
  chain of posts, a broadcast by versions, turns by signals.
* **Representations that the next call trusts.** Allocators that keep their books in the
  memory they hand out, a trie with cached flags, a tree with stored heights, a table that
  moves what it finds, lists that copy data between nodes, indexes that grow for ever.

What makes each component correct: a transfer is indivisible and reported truthfully; an
account is its owner's; a dashboard adds up; no wakeup is lost; the pool loses no thread and
no task and obeys Pause and Stop; the scheduler runs what was added once; observers and
handlers called are those registered; who is asked to stop stops; each message reaches whom
it is for; only a dead process is revived; an allocator hands out each byte once; a structure
keeps what was put in; an algorithm returns what it is named for. PROJECT.json lists the
hazards line by line.

## 2. Modules

| Module | Models |
|---|---|
| `AtomicTransfer` | what a transfer service promises: one indivisible, recorded change of two balances |
| `TransferService` | `transferMoney`, repositories, pool, row locks of PostgreSQL; implements `AtomicTransfer` |
| `AuthService` | `registerUser`, `verifyOTP`, `login` on `TransferService`'s pool |
| `BankServer` | all of it behind `server.js`: dashboards, sockets, SIGTERM, restarts |
| `WaitableQueue`, `Dispatcher`, `Reactor`, `DirMonitor`, `Logger` | the framework's classes of those names (and `DLLLoader`, `Handleton`) |
| `Framework` | composes these five, one per behaviour |
| `ThreadPool`, `Scheduler` | `thread_pool.cpp`; `scheduler.cpp` with `async_inject.cpp` |
| `SharedList`, `SharedRing` | EX1 to EX3; EX4 and EX5 of `producers_consumers.c` |
| `BoundedQueue` | what a synchronised queue promises; EX5 implements it |
| `ProducersConsumers` | EX6; `main`, which runs the exercises |
| `Watchdog`, `PongServer`, `PingPongPairs` | `WD*.c`; `server_pong.c` with `client_ping.c`; the ping pong pairs |
| `Programs` | composes these programs, one per behaviour, with the fairness of their scheduling |
| `Allocators`, `Trees`, `HashTable`, `LinkedLists`, `Heap` | `vsa.c`, `fsa.c`; `avl.c`, `bst.c`; `hash_table.c`; `singly_linked_list.c`, `queue.c`, `d_link_list.c`, `sorted_list.c`; `vector.c`, `heap.c`, `pqueue.c`, `scheduler.c` |
| `AddressPool`, `DHCP` | what a DHCP service promises; `dhcp.c` on `trie.c`, which implements it |
| `ByteQueue`, `CircularBuffer` | what a circular buffer promises; `circular_buffer.c`, which implements it |
| `Sorting`, `Calculator`, `Exercises` | the algorithms, against reference definitions; in `Sorting` also the sorts and sums by threads, in `Exercises` the knight's tour |
| `FileLogger`, `RefCounts` | `c/files/logger.c`; `rcstring.cpp` and `SharedPointer` |
| `Libraries` | composes these libraries, one per behaviour |
| `MCTransferService`, `MCBankServer`, `MCThreadPool` | constants of their runs |
| `TransferServiceProofs`, `BankProofs`, `FrameworkProofs`, `ThreadPoolProofs`, `SchedulerProofs`, `ProducersConsumersProofs`, `ProgramsProofs`, `LibrariesProofs` | the theorems |

An operator with a suffix (`Debit_FromRead`, `Stored_OneChunk`) next to a definition is the
same code with a plausible bug. No specification uses it; PROJECT.json names it as a mutant,
and with it in place the property named there fails.

`Framework`, `Programs` and `Libraries` compose parts that share no state: a behaviour chooses
one and the others stand still. Where the code of one part uses another (the logger its
queue, the task scheduler its heap, the server its handlers) the user's module has an object
of its own. Parts that do share state are composed by their state: `BankServer` extends
`AuthService` and `TransferService` and all requests go to one pool and one database.

### How the models correspond to the code

**TransferService.** One action per awaited statement: `Connect`, `Begin`, `FindSender`,
`FindReceiver`, `Debit`, `Credit`, `FetchReceiver`, `InsertRow`, `Finish` (COMMIT, the event
and the reply), `Rollback`. `pc[r]` is the await the request is at. PostgreSQL is modelled
with it, at READ COMMITTED, as far as the code relies on it: a committed version of each row,
one uncommitted version owned by the transaction that holds its lock, an UPDATE that waits
and then works on the newest version, a CHECK that aborts, a deadlock detector.
`LoseConnection` may strike at any await, also between the server's COMMIT and its answer;
`Crash` ends the process. The same e-mail twice, unknown e-mails and too small balances take
the code's error paths.

**AuthService** has one action per await of the three calls, the unique constraint of the
insert, an e-mail that may fail after the account exists, and queries refused by an exhausted
pool. A password and a mailed code are the call that made them, so that a property can say
whose they are. **BankServer** adds the two reads of a dashboard, rooms, SIGTERM, which waits
for sockets and requests, and a restart: memory is gone, tables and clients' tokens are not.

**WaitableQueue.** A stretch under `m_mtx` is a step; the notification after `Push` is a step
of its own. Which sleeper it wakes, spurious wakeups and deadlines are nondeterministic.
**Dispatcher** and **Reactor** keep a stack of the loops under way, each with the copy it goes
over; between two of its calls the handlers do whatever the interfaces allow, nested loops
included. A callback has one pointer and any dispatcher may take it: one that is subscribed to
a second dispatcher, or while a dying one has yet to tell it, is noted in `strays`; a call of a
dead callback or dispatcher is undefined. **DirMonitor** runs its thread against a directory
that changes; the destructor's flag is read in the loop's condition only. **Logger** follows
`Handleton`'s double check, the store of the pointer (`MakeInstance`), which other threads read
without the lock, the registration with `atexit` after it (`RegisterCleanUp`), the thread and
the function that runs at exit; a pointer used after the deletion is undefined. Past what is
undefined neither model says anything.

**ThreadPool.** Each iteration of the loops in `Pause`, `SetNumOfThread` and `Stop` is a step,
because each `Add` locks on its own. `queue` holds the user's tasks and counts the mocks and
apples; a pop takes one of the greatest priority. The owner follows the class's contract:
one owner at a time, sizes of at least one, `Stop` as its last call before the destructor.

**Scheduler.** `CallAdd` reads the clock, `AddFirst`, `AddEarlier`, `AddLater` are the branches
under the lock, `PushLater` is the push after it. `Expire` starts a callback thread,
`OnTimerEnd` is its stretch under the lock. An injection adds itself again when executed.

**Exercises.** A step is a stretch under a mutex or one semaphore operation. The shared
structure of an exercise is local to its function and `main` joins all threads before the
next: `Init` starts at any of the six, which loses no behaviour of a single exercise.

**Watchdog.** Each side has a scheduler of its own, whose rounds (a ping and a check, in either
order) may begin at any time: one side may be any number of rounds behind the other, and a task
that is late may leave its scheduler in a sleep that only a signal ends (`oversleeps`). A kill
from outside may come at any time; a revived process starts from its handshake, with the
semaphores as its predecessor left them; the one it replaces is ended if it lives. Three
histories let the properties tell what is due to whom: the rounds that a side has begun since
it last was signalled, by how many one is ahead while they keep pace, and whether a living one
fell two rounds behind. **PongServer** keeps
each connection's two ends and what is under way in each direction, descriptors as the lowest
free numbers, and the fixed array of slots for threads. **PingPongPairs** has a step per
system call, signal masks, pending signals, and what a child inherits.

**Libraries.** *Allocators*: headers by address in words, links by byte; a chunk in use holds
the user's data where its link was; a turn of `VSAAlloc`'s and `DeFreg`'s loops is a step.
*DHCP*: nodes by path, and addresses as their bits, ordered by the first that differs; a
refused `calloc` leaves the nodes made so far; the flags from a leaf up to the root are written
at once. `AddressPool` says what `dhcp.h` promises and names the two places where the service
departs from it: the addresses taken from the start (`Taken`: the last but one instead of the
second) and a free lowest address that a search passes over (`PassedOver`). *Trees*: AVL trees
as nested nodes with the heights the code stored, BST nodes by address, because iterators are
nodes, with the iterator that a call returns and the assertion of a debug build in `GetPrev`.
*LinkedLists*: nodes by address with dummies, two lists of a kind on one heap; ranges to splice
may be empty, after which the two lists are tied together and the behaviour stops. *Heap*: one
array, pushed, popped and sifted as the code does it; a removal may match nothing. In the task
scheduler, whose match is called with its arguments swapped, a removal may match any task.
*CircularBuffer*: indexes modulo `SIZE_MODULUS`, which stands for 2^64, and any capacity; where
the real capacity does not divide the range, a write that wraps the index moves it out of its
place in the array, and the history `cbuffAstray` says so until the buffer is empty. *Sorting*:
a thread that cannot be created is noticed by `DictSort` only. *Calculator*: a text is made up
as it is read, token by token; doubles are fractions; the stacks have the room for the text's
length that the code gives them. The knight's tour: frames of the recursion on a smaller board.
*RefCounts*: both classes, with the count beside the value.

## 3. Runs

| Run | Bounds | Distinct states | Shows |
|---|---|---|---|
| `transfer_safety` | 3 requests, 2 accounts and a stranger, amounts 1 and 2, pool of 2, 1 fault; requests symmetric | 682 523 | the ledger explains the balances; connections, replies, events agree with it; `AtomicTransfer` is implemented |
| `transfer_thrown` | 1 request, 1 fault | violation | a transfer that threw may be committed |
| `bank` | 7 mixes of up to 4 of 2 transfers, 4 calls, a dashboard and SIGTERM, 1 fault, a pool of two connections | 79 429 | accounts are their owners', dashboards add up, everything is answered, SIGTERM ends the process |
| `framework` | 3 threads and 4 pushes; 2 dispatchers, 2 callbacks, loops nested twice; 2 handles, 3 handlers, runs nested twice; 2 files, 3 changes; 2 threads, 4 logs | 303 987 | no lost wakeup; both sides of subscriptions agree but for callbacks that strayed; handlers called are current; libraries open; the log complete; destructors return |
| `pool` | 2 tasks, 3 threads, sizes 1 and 2, 3 calls before Stop | 136 168 | threads are counted, Pause and Stop keep their word, tasks are served, joins return |
| `pool_late_add` | 3 tasks, 4 threads | violation | a task accepted during Stop is never executed |
| `scheduler` | 3 tasks, one injection, delays 0 to 2, clock to 3 | 137 103 | nothing lost or doubled; the top task is timed and executed |
| `scheduler_assert` | the same | violation | a callback may find no task and abort |
| `scheduler_stranded` | the same | violation | a task may stay in the queue with no timer |
| `programs` | 3 messages, 2 producers, 3 consumers, 2 slots; 2 kills, 3 missed heartbeats, independent schedulers that oversleep; 2 clients, 2 pings, 2 threads; 3 turns | 259 944 | messages are consumed once, buffers respected, only the dead and the silent revived, no client holds up the server, turns are taken, EX5 is a queue, nothing is stuck |
| `libraries` | 16 words, 4 chunks, 8 addresses, 8 data in an AVL tree and 5 in a BST, 2 buckets, a capacity of 2 bytes whose 3 places do not divide the 8 indexes, 4 to 6 list nodes, arrays to 5 with negatives, texts to 7 tokens with stacks of half their room, 1 thread that cannot be created, board 3 by 4, words of 8 bits | 412 205 | every sequence of legal calls keeps each structure sound; every input of the algorithms is answered right |
| `heap_order` | as `libraries` | violation | the heap's first element is not the next |

**Why the bounds are enough.** Three requests on two accounts give every overlap of two
transfers in the same or opposite directions plus one that waits for a connection. Balances of 2
and 1 with amounts 1 and 2 let a debit be refused by the check in the code, and by the CHECK
when another transfer came between. One fault reaches every await. In `bank` the mixes are what
two or three routes can do to one another: two transfers, which deadlock when they are opposite
and between them fill the pool of two connections, alone and under a dashboard or a registration
that then finds none; a transfer with a dashboard and a registration; two registrations of one
address with its verification and login; SIGTERM among them. Three threads give a sleeper, a
notifier and one that slips in between. Loops nested twice let what is inside one disturb the
one around it. Sizes 1 and 2 with three calls grow, shrink, pause and resume the pool, a resize
during a pause included. In the exercises three consumers make the shares of three messages
uneven and the chain of EX4 longer than one link; two slots wrap the rings. Two kills take the
watcher and the watched, or the one revived. Two clients are one that misbehaves and one that
suffers. Sixteen words hold several blocks of different sizes and their merges; 8 data make
every rotation and the removals that rotate; removals that rotate on two levels need 12 and are
beyond the run. A buffer of 3 places and 8 indexes meets every phase of a wrap that moves an
index; seven tokens make a text that overflows either stack. Five elements make a heap of three
levels. Words of 8 bits and of 4 bytes have a first, middle and last part.

**Fairness.** Statements of requests are weakly fair: PostgreSQL answers, resolves deadlocks,
and the event loop resumes what has settled; nobody has to send a request. A thread inside a
call of the queue, a worker, an owner's call once begun, the monitor's thread (its `poll`
returns after two seconds), the logger's thread and `exit` are weakly fair. The clock ticks,
expiries and callback threads run. Processes and threads of the programs are scheduled, one weak
fairness each, the two sides of the watchdog on their own: that a side's rounds go on says
nothing of how many the other begins meanwhile. Also in the exercises no thread needs to win a
mutex or semaphore that others keep taking, because the others' messages run out. Calls,
spurious wakeups, faults, kills, users' lines and lost datagrams are never fair.

**Deadlock** is checked in the runs of the transfers and the pool. Elsewhere waiting for ever
is legal: threads that wait for a push, a scheduler with no tasks, a server with no clients,
a structure whose addresses are used up, a program that has ended.

## 4. What is proved

For every value of the constants that satisfies the named assumptions of the modules:

* `TransferServiceProofs`: `Invariance` (the inductive invariant), `TypeCorrect`,
  `ConnectionsClean`, `RepliesTruthful`, `PushesTruthful`, `FetchedExact`, `LedgerIsTheAccount`
  and `Atomicity`: `Spec => AtomicTransfer!AtomicSpec`, for any number of requests, accounts,
  amounts, faults.
* `BankProofs`: of the whole server, `BankSpec`, with accounts, dashboards, sockets, SIGTERM and
  restarts: `ServerInvariance`, `ServerAtomicity` and `ServerPromises` (what the transfers
  promise alone they promise here), `AccountsStay`, `SendersVerified`, `DashboardsExplained`.
* `FrameworkProofs`: `WakeupsAreKept`, for any finite set of threads; `SubscriptionsAlwaysAgree`,
  for any dispatchers and callbacks, subscribed to as many as they like, and loops nested to any
  depth; and, of `FrameworkSpec`,
  `HandlersAlwaysCurrent`, for any finite set of handles and runs nested to any depth,
  `HandlesStayOpen`, for any files, and `LogStaysComplete`, for any number of threads and
  messages.
* `ThreadPoolProofs`: `Invariance`, `TypeCorrect`, `Counted`, `OwesNothing`, `PauseHolds`.
* `SchedulerProofs`: `Invariance`, `AddsAreKept`, `TopIsTimed`.
* `ProducersConsumersProofs`: of the six exercises, for any numbers of messages, producers,
  consumers and slots: `ExercisesInvariance`, `ExercisesPromises` (`MessagesAreConsumed` and
  `BuffersAreRespected`) and `RingIsAQueue`: EX5 implements `BoundedQueue`.
* `ProgramsProofs`: of `ProgramsSpec`, which the run checks: `ProgramsInvariance`,
  `PlayersTakeTurns` for any number of rounds, `ServerIsReady` for any finite set of clients,
  any pings and slots, `RevivalsAreDue` for any number of kills and
  whatever the two schedulers do, and with them `MessagesArrive`,
  `RingsAreRespected` and `ProgramsRingIsAQueue`.
* `LibrariesProofs`: `LoggedLinesSurvive`, for any number of lines; `SharingStaysUnseen`, for any
  finite set of objects; `BufferIsAByteQueue`: the circular buffer implements `ByteQueue`, for any
  positive capacity and range of an index, divisible or not; `AllocatorsStaySound`, for any pools,
  requests and chunk sizes;
  `ServiceIsAPool`: the DHCP service implements `AddressPool`, for any number of bits;
  `KeysStaySingle` and `OthersAreKept` of the hash table, for any keys and buckets.

The assumptions (`AmountsAssumption`, `PriorityAssumption`, `ThreadsAssumption`,
`CountsAssumption` and so on) say what the constants are: amounts are positive, sizes at least
one, a value for "none" is not one of the things it stands for, sets of threads and clients are
finite. `HeartbeatsAssumption` says more: the watchdog allows at least three missed heartbeats,
which is its number in `WD_lib.c`: with two, sides that keep pace would be replaced.
`CbuffAssumption` says that the capacity of a circular buffer is positive and that there is an
array of one byte more. `ObjectsAssumption`
says the objects are finitely many, `VSAAssumption` and `FSAAssumption` that a pool has room for
a block and sizes are positive, `HostBitsAssumption` that there are at least two host bits,
`HashTableAssumption` that keys are numbers and there is a bucket. TLC evaluates the assumptions
in each run.

The argument is the same in each: an invariant (`IndInv`, `LedgerInv`, `AuthInv`,
`DashboardInv`, `DispIndInv`, `ReactorInv`, `LoaderInv`, `LoggerInv`, `Ex2Inv` to `Ex6Inv`,
`PairsInv`, `PongInv`, `WatchdogInv`) that holds initially and is kept by each action (one lemma
or step per action), from which the properties follow. A composition keeps the conjunction of
its parts' invariants, because a step of one part leaves the others' variables alone
(`ProgramsAreApart`).

* *Transfers.* The properties alone are not inductive: that a commit moves exactly the amount
  depends on what the transaction did before. `IndInv` says what a request's place in the
  code implies: after the debit it owns the sender's row with the balance less the amount,
  after the credit both rows, and rows are owned by open transactions only. As a row's
  committed version cannot change while another owns it, the newest version the UPDATE worked
  on is still the committed one at COMMIT, which makes the step an `AtomicTransfer`.
* *Ledger.* What the ledger says of an account is a sum over a finite set of rows. A row that a
  commit adds is of a request that had none, so the sum changes by its amount, which is what
  the same step does to the balance; no other step touches either.
* *Server.* Each step of `BankServer` is a step of the transfers, or leaves their state alone but
  for the count of faults; `IndInv` is kept by all of them. For the accounts, where a call
  stands in its handler determines what the row of its address holds, and a row, once
  inserted, keeps the password of the call that made it; tokens are of verified accounts and
  never taken back, and every sender in the ledger had one. A dashboard's first read
  is a balance the ledger explained then, and rows are only ever added.
* *Queue.* The count of elements is bounded by threads awake and notifications under way
  while anyone sleeps; each step that uses up one takes an element or hands it on.
* *Dispatcher.* In a state between calls the two sides mirror each other, except for a
  dispatcher in its destructor's loop, whose callbacks not yet told may point to nothing
  that lives, and except for callbacks that strayed. The invariant needs no account of those: what
  is done to one callback does not touch the pointer or the place of another. The loop on top
  of the stack is the only one that may be told next.
* *Reactor.* What is left of the innermost run's batch was not retired when the listener was
  last asked, while the reactor runs; the runs around it are each in a handler, and after
  Stop a run returns to a handler, never to its batch.
* *Loader.* A library the table says is open is counted as open by dlopen.
* *Logger.* One thread at a time makes and registers the logger, under the mutex; while one
  registers, the logger is not `atexit`'s yet, and an exit that ends then is the one exception.
  The file followed by the queue is what was accepted until the destructor queues its stop
  message, which then comes right after the last of it; where that was read the file is
  complete.
* *Pool.* Stop's promise needs to know where each task is, how many apples are in the queue
  while owed tasks are, and that `m_numThreadOn` counts the threads no apple waits for;
  Pause's needs mocks and apples to cover the workers that passed the gate.
* *Scheduler.* A task is in one place; what was added is what was executed and that place.
* *Exercises.* A semaphore's value and the threads between its wait and its post add up to what
  the list or ring holds (`SemaphoreCounts3`, `EmptyCounts4`, `FullCounts4`, `Ring5`), which
  keeps the threads that passed it within the buffer. Each message a producer claimed is with
  it, in the buffer, with a consumer or consumed; the stop values of EX3 are behind all
  messages; the chain of posts of EX4 begins with the last message. In EX6 a consumer
  is at most one version behind the producer, whose posts still to come are the consumers that
  have not seen the last one. The steps of EX5 that pass the message on are those of a queue.
* *Turns.* Of the semaphores one is up, or the one whose turn it is holds it; of the two signals
  one is pending or is being answered; the words said differ by at most one.
* *Pong server.* The set `select` watches names only open descriptors, each connection has its
  own, and a client has one ping under way, so that one that returns leaves nothing unread: the
  server reads where there is something to read or the other end is gone. A new connection
  finds a free descriptor, because there are more of them than clients.
* *Watchdog.* What a side has counted, with the ping it is about to count, is at most the rounds
  it has begun unheard, and one: so a count above the threshold is that many rounds of silence
  (`HeardFits`). While both have kept pace a count is at most the side's lead, one, one more and
  a ping that the other still owes (`BeatsFit`); that is three, so that a revival, at more than
  three, finds the other dead, or living but two rounds behind. With a threshold of two TLC
  finds one replaced that kept pace. That no ping ends a process needs to know, for each place
  of a side, where the other may be and which posts are left (`SideFits`); this holds while
  nobody was killed in a handshake (`early`), as the property says.

* *Logger of files.* Between two steps of a prepend the lines are in the log, in the copy or in what
  a stream has not flushed, and the step says in which (`NothingLost`); the one moment when a kill
  loses them is the one the property excepts.
* *Counts.* The count beside a value is the number of objects that have it (`CountsAreHolders`), and
  there are more cells for values than objects; so the last to let go frees the value, no object
  has one that was freed, and one that is written while others share it gets a cell of its own.
* *Circular buffer.* The difference of the indexes is at most the capacity, also when the write
  index has wrapped and the read index has not. Where the real capacity divides the range of an
  index, an index that wraps keeps its place, and a copy in two chunks is the bytes from one
  place on. Where it does not, the read index is not above the write index unless the buffer
  went astray, since only a wrap of the write index, which sets it, brings that about; and a
  buffer that is empty has its two indexes in one place again.
* *Allocators.* The headers tile the pool at every turn of a loop, and a merge of two free
  neighbours leaves a tiling; each used block is one caller's and holds what was asked for.
  The free chunks are a chain: an order of the chunks nobody holds in which each holds
  the link to the next. As the chain ends, the walk that counts it returns.
* *DHCP.* A node's flag says that every leaf below it is taken (`TrieOK`): by induction on the
  bits left, which the proof does with the lowest bit at which a claim fails, since the prover has no
  induction. The last turn on the way up at which the right child is free is the first bit at which
  the lowest free address above differs, and from there the way down by flags finds it. That the
  address taken as the server's is the last but one of the order is a lemma of its own.
* *Hash table.* Without memory a search takes what it found out of the list and puts it nowhere, so
  the first node that an insertion overwrites is of another key; the list has no key twice even so.

A step of `Libraries` is a step of the one structure the behaviour chose, so these theorems are of
the structures' own specifications (`FileLoggerSpec`, `RefCountsSpec`, `CbuffSpec`,
`AllocatorsSpec`, `DHCPSpec`, `HashTableSpec`).

Not proved, and left to TLC:

* liveness, because the prover has no ENABLED;
* `AlgorithmsAreRight`, and `StructuresAreSound` and `ContentsFollowCalls` for the trees, the
  lists, the heap, the vector and the task scheduler that is built on the heap: these are recursive
  definitions, or say what a recursion computes, which is out of the prover's reach, and the
  modules that hold them (`Trees`, `LinkedLists`, `Heap`, `Sorting`, `Calculator`, `Exercises`)
  with them; so is `Libraries`, which composes them;
* of the hash table, that its count is the number of its keys (`HTCountsKeys`), a fold.

Every other safety property, action property and refinement that a passing run checks is stated by
one of these theorems.

## 5. Findings

Found as violations:

1. `transfer_thrown`: the catch block of `transferMoney` promises to revert all changes; when
   the connection breaks after COMMIT was executed, the request fails and the transfer stands.
2. `pool_late_add`: `Stop` is to finish all queued tasks; one added between its apples and
   the change of status stays behind the apples.
3. `scheduler_assert`: the assertion that a callback finds a task fails when `Add` re-arms the
   timer for a time already past while an expiry is under way.
4. `scheduler_stranded`: `Add` pushes after it has unlocked; a callback in between disarms the
   timer and the task is never executed.
5. `heap_order`: `HeapifyUp` moves a new element up one level only, so that the priority queue
   hands out an element that is not next.

Stated by a property of a passing run, which says exactly where the code keeps what it promises
and what it does where it does not (the quotes are in PROJECT.json):

* `framework`: a callback subscribed to a second dispatcher, or from within `~Dispatcher`, is
  left in a set that it will not unsubscribe from (`SubscriptionsAgree`); an exit between the
  store of the logger and its `atexit` loses messages (`LogIsComplete`).
* `programs`: the watchdog replaces a living process that is late (`OnlyTheSilentAreRevived`); a
  late task sleeps for a negative time, and then nobody is revived or stopped; a process killed
  in a handshake leaves a post behind (`ProgramsReturn`).
* `libraries`: the DHCP service takes the last but one address in place of the second, and
  refuses a request while the lowest is free (`DHCPImplementsPool`); an empty splice ties two
  lists (`SplicesMoveTheRange`); the task scheduler's removal compares the wrong members
  (`TasksAreCleanedOnce`); a heap's removal that matches nothing takes out the first and returns
  the last (`HeapKeepsElements`); `BSTInsert` returns a null iterator, and `BSTGetPrev` asserts
  too much (`BSTReturnsIterators`, `BSTWalksInOrder`); the calculator's stacks overflow in texts
  with signs and a sign before a bracket is a subtraction (`CalculatorEvaluates`); the knight's
  last square is not written (`KnightTourIsATour`); threads that cannot be created go unnoticed
  (`SlicesAddUp`).

Seen while modelling, and not stated by a property:

* `system_programming/src/producers_consumers.c:100`: EX1's consumer gives the slot back before
  it reads the message.
* `ds/src/vsa.c:194`: `VSAAlloc` never returns when the first free block is too small for the
  request; `vsa.h` promises NULL (`VSAAllocLoops`).
* `ds/src/d_link_list.c:235`: a failed push to the front of a list that is not empty is reported
  as a success; `HashTableFind` then loses the element.
* `ds/src/hash_table.c:114`: removal of a key that is not there removes the bucket's dummy tail.
* `ds/src/sorted_list.c`: `SortedLMerge` does not end when both lists have an equal element.
* `ds/src/avl.c:560`: `MultiRemove` walks by pointers that its own removals free or move.
* `ds/src/circular_buffer.c:180`: an index that wraps at 2^64 leaves its place unless the real
  capacity divides 2^64; no document speaks of it (`cbuffAstray`).
* `c/files/logger.c:142`: a prepend killed after the truncation has lost the log
  (`LogSurvives` shows that this is the only window).
* `network/src/server_pong.c:338`: the result of `recv` is an index before it is checked.
* `projects/secure-banking-api/src/controllers/auth.controller.js:23` says the code was sent to
  the phone; `auth.service.js:39` e-mails it.

## 6. What is not modelled

* **Bank**: validation of request bodies, unknown routes, the health check, expiry of tokens,
  Swagger and the client pages: no state.
* **Framework**: the destruction of a Scheduler (it deletes the timer without waiting for
  callback threads) and of a ThreadPool's members before its workers end, a pool of no
  threads, `Singleton`'s destruction, `Factory` (a map).
* **Watchdog, servers, programs**: failing system calls, most of which end the program with a
  message; the named pipe that never ends and the shared memory pair, which has no turns.
* **ds**: `MultiRemove` and the removal of an absent key, which use freed nodes and after which
  anything may happen; printers; numbers near `SIZE_MAX`.
* **Processes and tools**: `pid.c`, `simple_shell.c`, the semaphore's command line, the ext2
  reader: what they do is the kernel's or another program's.
* **Language exercises** in C and C++ (`intro.cpp`, `cpp2c.cpp` and their like): each prints what
  the language does or computes one expression; nothing is kept, shared or ordered.
* **Generated files** (`CMakeCCompilerId.c` and the like): not the program's.
