# Verification of mini_ms

mini_ms is a small student-lookup application made of three services
(frontend, id-service, attend-service). It runs over plain TCP, or over
*DPUmesh*, a simulated DPU service mesh on shared memory: worker processes put
descriptors into shared queues, a *DPA daemon* copies buffers between pools, and
a *sidecar daemon* routes the descriptors and bridges outside clients to the
mesh.

This directory holds TLA+ modules for both data paths, the TLC configurations
that check them and proofs checked by TLAPS. `PROJECT.json` maps every
definition to the source lines it models.

    tlc -workers 2 -config MCRing.cfg MCDescriptorRing     # a run
    tlapm DescriptorRingProofs.tla                          # a proof

## 1. Inventory

| Component | Code | State | Operations | Modelled by |
|---|---|---|---|---|
| Descriptor ring | `dr_*` in `common/dpumesh.c`, `DescriptorRing` in `dpumesh/common.py` | head, tail, count, cells, lock file | put, get | `DescriptorRing`, `BoundedFifo` |
| Buffer pool | `bp_*` in `common/dpumesh.c`, `BufferPool` in `dpumesh/common.py` | bitmap, slots, lock file; in Python the position of the mmap object | alloc, write, read, free | `BufferPool` |
| DPUmesh library | `common/dpumesh.c` | request counter, table of response pipes, table of inbound metadata, notify pipe | poller thread, `dpumesh_read`, `dpumesh_read_response`, `dpumesh_write`; init and destroy | `HostLib`; init in `Startup` |
| Event handlers | `common/dpumesh_handler.c` | one connection object per request and per upstream call | `on_request`, `dpumesh_conn_respond`, `dpumesh_conn_upstream`, `on_upstream_response_cb` | `HostLib` |
| Services | `frontend`, `id_service`, `attend_service` (`main_dpumesh.c`) | the frontend's per-request context | request and upstream handlers | `Services` |
| DPA daemon | `dpumesh/dpa_daemon.py` | locals of two threads, the known pods | transmit thread, receive thread, pod scan, clean-up at start | `DpaDaemon`; scan and clean-up in `Startup` |
| Sidecar daemon | `dpumesh/dpu_daemon.py` | round-robin index, bridge events and responses | routing thread, a bridge thread per client | `Sidecar`; the conversion of headers in `Wire` |
| Pod registry and ids | both | registry file, id counter | register, look up | `Startup` |
| TCP handler, TCP services | `common/tcp_handler.c`, `*/main.c` | connections | accept, read, upstream, write, free | `TcpServices` |
| HTTP parser, JSON helpers | `common/http_parse.c`, `common/json_util.c` | none | pure functions | `TextFormats`, used by `Wire` |
| Deployment, load generators | `k8s/`, `deploy_*.sh`, `test_client*.py` | none | | not modelled: no state of the system |

### How the parts interact

A client's request enters through a bridge thread of the sidecar, which selects
a frontend worker, puts header and body into one slot of the DPU body pool and
queues a descriptor for the DPA daemon. The DPA daemon copies the slot to the
receive pool of the frontend ("case 2", ingress) and puts the descriptor in the
worker's receive queue. The worker's poller thread reads that queue and passes
the descriptor to the main thread through the notify pipe. The main thread's
handler calls the id service: it makes a pipe for the answer, writes a header
and a body slot of its transmit pools and queues a descriptor. The DPA daemon
copies the header to the DPU; the sidecar reads it, selects a worker and sends
the descriptor back to the DPA daemon, which copies body and header to the
receive pools of that worker ("case 3", local). The answer travels the same
way; the frontend's poller finds the pipe of the call by request id and writes
the descriptor to it. The same happens with the attend service. The last answer
goes to the sidecar, which wakes the bridge thread of the client.

Before all that a worker takes an id from the counter file, adds itself to the
registry file, creates the pools of its service and, last, its queues; the
daemons find it in the registry.

All of this shares memory: four pools per service, two used pools of the DPU,
two queues per worker and two for the sidecar. Each put, get, alloc and free
takes an advisory lock on a side file.

In TCP mode each service is one libevent loop. A client's connection, the
frontend's connection to a service and that service's end of it each have a
`conn_t`; the connection of a call points to that of the client it is made for,
and to the context of the request. The handlers and the text formats are those
of the mesh.

### What is hard here

* Two processes in the middle of put, get, alloc or free on the same memory; a
  process killed there (`DescriptorRing`, `BufferPool`).
* Threads of one Python daemon sharing one mmap position (`BufferPool`).
* A buffer changes hands six or more times for one call; each hand-over has an
  error path that must free it exactly once, and several of them put a
  descriptor back and try again (`DpaDaemon`, `HostLib`, `Sidecar`).
* Tables indexed modulo a fixed size, whose entries are overwritten without
  looking (`HostLib`).
* Timeouts of the bridge racing a late response (`Sidecar`).
* Everyone waiting for everyone else's buffers (`Mesh`, liveness).
* Start and restart: ids, registry, bitmaps and queues are set up while others
  use them, by processes that are killed at any point (`Startup`).
* Callbacks of one connection that find the connection, the call or the
  context of another one gone or changed; reads and writes that split anywhere
  (`TcpServices`).
* Text that passes through several parsers and formatters which do not agree on
  every character (`Wire`).

The full list, at its source lines and with the properties that cover each
entry, is `hazards` in `PROJECT.json`.

### What makes each part correct

* Ring: one bounded FIFO queue for all its users; every call returns.
* Pool: a slot belongs to one holder at a time; a reader finds what the holder
  wrote.
* Mesh: no buffer is freed twice or used after it was freed; none is leaked as
  long as there is room; a client gets the answer to its own question; a call
  gets its own response; queues do not overflow before the buffers run out;
  every client is answered.
* TCP: no connection is used after it was freed; a request that has been read is
  being worked on until it is answered; contexts are neither shared nor lost;
  a client receives one whole answer, its own.
* Start: ids are unique; the registry leads to every running worker; starting a
  worker takes nothing from the others.
* Text: a message is complete exactly when its last byte has come; the service
  is asked what the client asked; the client is told what the file holds.

## 2. Modules

| Module | Lines of code it stands for | Contents |
|---|---|---|
| `BoundedFifo` | what a ring promises | a bounded sequence; put and get are atomic |
| `DescriptorRing` | `dr_init`, `dr_put`, `dr_get`; `DescriptorRing.put/get` | lock, read of the header words, copy, store of the index, store of the count, unlock, each a step; kill inside a call |
| `BufferPool` | `bp_alloc`, `bp_free`, `bp_read`, `bp_write`; the methods of `BufferPool` | seek and access as separate steps; hand-over of slots; kill inside a call |
| `Shm` | layout and descriptor in `dpumesh.h`, `common.py` | pools, queues, descriptors, headers and bodies by field |
| `Services` | handlers in `*/main_dpumesh.c` | functions from request to "respond" or "call upstream" |
| `HostLib` | `dpumesh.c`, `dpumesh_handler.c` | poller thread and main thread of each worker |
| `DpaDaemon` | `dpa_daemon.py` | the two polling threads |
| `Sidecar` | `dpu_daemon.py` | routing thread, bridge threads |
| `Mesh` | | composition, fairness and the properties of the whole path |
| `Lookup` | what the three services promise a client | one answer per client: the right one or a failure. `Mesh` and `TcpServices` both implement it |
| `TcpServices` | `tcp_handler.c`, handlers in `*/main.c` | one step per callback; clients that leave or send too much; calls that fail |
| `Startup` | `dpumesh_init`, `pod_registry_register`, `bp_init`, `dr_init`; `DMAManager.run`, `_scan_pods`, `PodRegistry` | counter, registry, bitmaps and queues file by file; kill and replacement of workers |
| `TextFormats` | `http_parse.c`, `json_util.c`, the header functions of `dpumesh.c` and `common.py` | parsers and formatters as functions on sequences of tokens |
| `Wire` | handlers and conversions between client and id service | one lookup as text on both data paths, read in pieces |
| `MCDescriptorRing`, `MCBufferPool`, `MCMesh`, `MCTcp`, `MCStartup`, `MCWire` | | instances for TLC |
| `DescriptorRingProofs`, `BufferPoolProofs`, `StartupProofs` | | theorems about `DescriptorRing`, `BufferPool`, `Startup` |
| `MeshOwners`, `MeshProofs`, `MeshMessages`, `MeshCalls` | | theorems about `Mesh`: who owns a buffer; that the invariant is inductive; headers with their bodies, and the bridge's requests; the calls between workers, that nothing leaks, and that clients get their own answers |
| `TcpProofs` | | theorems about `TcpServices`: for all clients; for clients that wait |

A definition introduced as "Mutant of X" is X with a plausible mistake in it.
No specification uses it; put in the place of X it makes the property named in
`PROJECT.json` fail, which shows that the property depends on that code.

### Abstraction in `Mesh`

`Mesh` stands on the two lower modules. A queue is the sequence that
`DescriptorRing` is proved to implement. A pool is a map from slots to contents
or `Free`: allocating a slot and writing it is one step, because nobody knows
the slot before its descriptor is queued. `BufferPool` says when that is
right: for threads that have a position of their own. The C workers do; the
threads of the Python daemons do not (finding 2). So the `Mesh` results hold
for the code with finding 2 repaired, and say nothing about corruption by it.

Every allocation, free, put, get, pipe write and table access by another
thread is a step of its own. Local computation between two of them is joined to
the next one. Names, ids and JSON text are replaced by the field values that
some code reads; the string a client asks about is the client itself.

Idealisations, each at its definition:

* In `DescriptorRing` a process is not killed between the stores of the index
  and of the count. A kill there leaves a torn header, and the code has
  nothing to repair it; it is listed as a hazard without a property.
* In `Mesh` the workers are registered from the start and never stop, and every
  registered worker has its queues; `Startup` is about how they come to be.
* `pipe()`, `calloc` and opening a lock file succeed.
* A bridge client sends one complete request and stays connected.

### Abstraction in the other modules

`TcpServices` counts bytes in pieces. A request is complete when its last piece
has come, which is what `HandledWhole` and `FramingExact` of `Wire` show of the
parser. A close with unread bytes, after which TCP may discard data on its
way, is treated as an orderly one.

`Startup` has one pool for the four of a service and one queue for the two of a
worker: the code creates them in a row, pools first, and the daemons open none
before the last queue exists. A message is the slot it occupies. A file that is
rewritten is empty from `fopen` to `fclose` (`OpenCounter`, `OpenRegistry`), and
who is killed in between leaves it so: an empty counter reads as 0, and to an
empty registry the next worker adds an entry without the opening brace. The
auxiliary variable `torn` remembers that this has happened to a file.

`TextFormats` works on tokens: a token is a character some parser looks at, or
a word that is only compared as a whole. Numbers are unary. `JsonGetStr` and
`Case2Header` cut to their buffers (`QueryCap`, `HeaderCap` and so on), and a value
that is not there is the one an earlier request has left in the static buffer
(`before`). HTTP header lines and JSON members that no reader uses are left out,
except for the headers of a bridge client: they stand before query and id, and push
them out of the buffer when they are long. `Content-Length` lines in `Wire`
have a value: after an empty one `atol` reads on into the next line, where
other digits may stand. `kv_store_load` is modelled by what it keeps of a
well-formed file.

## 3. Runs

Bounds are the `CONSTANTS` of the cfgs. In the code a pool has 64
slots, a queue 512 cells and a table 256 entries; one or two of each make
"full" and "wrapped" happen within a few steps.

| Run | States | Instance | Shows |
|---|---|---|---|
| `ring` | 294,144 | 2 processes, 2 descriptors, 3 cells | `TypeOK`; `ImplementsFifo`: the ring refines `BoundedFifo`, kills included; `CallsReturn`. Three cells let the indices wrap with the ring neither full nor empty. |
| `pool` | 940,585 | 2 threads, own positions, 2 slots, 2 data | `TypeOK`, `ExclusiveSlots`, `ReadsBack` |
| `pool_shared` | violated | 2 threads on one position | `ReadsBack` fails: finding 2 |
| `mesh_small` | 400,087 | 3 clients, 1 frontend, id, 1 slot, queues of 2 | `ExclusiveBuffers`, `NoLeak`, `ResponseToCaller`, `HeaderRoomAfterBody`, `QueuesNeverFull` with every pool at its limit; no attend worker, so that the sidecar's clean-up runs |
| `mesh_tight` | 204,084 | 2 clients, 2 slots, queues, tables and pipe of 1, timeouts | `TypeOK`, `ExclusiveBuffers` on the paths for full queues (these do leak, so `NoLeak` is not asked), and `Answered` by the timeout |
| `mesh_live` | 65,701 | 2 clients, 2 frontends, id, 2 slots | `ImplementsLookup`, and `Answered` without the timeout |
| `mesh_refused` | 25,120 | 3 clients: unknown service, message too long, a lookup through all services; 1 slot, timeouts | `NoLeak`, `BridgeEntries`, `ImplementsLookup` on the bridge's refusals, whose clients keep their entries in both tables, and with late responses |
| `mesh_one_frontend` | violated | 2 clients, 1 frontend | `OwnAnswer` fails: finding 1 |
| `tcp` | 89,240 | 2 lookups and a request too long for `rbuf`; requests and responses of 2 pieces, a window of 1; calls may fail | `TypeOK`, `NoUseAfterFree`, `WaitingHasCall`, `WholeAnswer`, `ImplementsLookup`, `Served` |
| `tcp_leave` | 214,108 | a lookup and a request without a name, from clients that leave at any moment or send a piece too many | `CtxOwned` |
| `startup` | 290,526 | 3 workers, one in the place of another, kills at any point, 1 message | `TypeOK`; `UniqueIds`, `FirstPoolKept`, `QueueKept` as long as nobody has been killed while the counter was empty; `Reachable`, `Discovered` as long as nobody has while the registry was |
| `wire` | 174,237 | all raw requests of up to 6 tokens, and up to 9 that begin with a `Content-Length` line; lookups over TCP and mesh with names of up to 3 tokens, one more than the buffer holds; clients of the bridge with a header of every length up to one too long, after different requests of others | `FramingExact`, `HandledWhole`; `SameQuestion` for what fits into the buffers; `RightValue` over TCP |

The deadlock check is off where the system may stop. In `mesh_small` a response
that found no buffer is dropped (`dpumesh_conn_respond` ignores the result of
`dpumesh_write`), and that instance cannot time out. `startup` and `wire` end
when everything has started or has been killed, and when the lookup is over.
`mesh_live`, `mesh_tight` and `tcp` state what a deadlock would violate as
`Answered` and `Served`.

`QueuesNeverFull` is checked with two cells per slot, less than the code's eight:
a worker's queue carries descriptors with a body in one pool of its service,
the sidecar's receive queue those with a header or a body in two pools of the
DPU. Three clients are enough to fill such a queue. `mesh_tight` goes below two
cells on purpose.

`mesh_one_frontend` uses pools of two slots. `mesh_live` has two frontends, and
`mesh_refused` one lookup, so that finding 1 does not arise.

`NoUseAfterFree` is asked where clients wait for their answers, `CtxOwned`
where calls do not fail, `Reachable` and `UniqueIds` where the daemon is started
first and the registry is large enough, `SameQuestion` over the mesh for names
without quotation marks and closing braces and for headers that fit.
`ResponseToCaller` is asked where the table of pipes does not wrap
(`MaxPending` is 6): no run covers the reuse of an entry but the last lines of
the sizes below. `RightValue` ends where the mesh's reply begins, which
`Wire` does not have. Outside of that they fail: see the
further configurations under findings.

### Fairness

* `ring`: weak fairness of each process inside a call. Strong fairness of
  taking the lock: the kernel wakes the waiters of a `flock` in order, so
  nobody is overtaken for ever.
* `mesh_live`: weak fairness of each thread, all of which loop for ever. Strong
  fairness of the transmit thread for each worker's queue: its loop goes
  through all of them in turn (`_poll_host_tx_sqs`). No fairness on the timeout.
* `mesh_tight`: the same, and the 30 seconds of `event.wait` pass (`TimedSpec`).
* `tcp`: weak fairness of every callback: libevent dispatches each event that
  is ready. Clients connect, send and read; services fail or go on.
* `startup`: the deployment starts every worker and the daemon, and each that is
  not killed goes on; strong fairness because their steps wait for a `flock`,
  as in `ring`.

In `mesh_live` every service that is asked has a worker and the pools have
room. Where they do not, clients do wait for the timeout: a request for a
service without workers is dropped without an answer.

## 4. Proofs

All theorems hold for every number of processes, clients, workers, slots, cells,
table entries and pieces. Each is proved from an inductive invariant which TLC
checked on small instances (sizes below). Besides the assumptions on the constants
(`ShmAssumption`, `DataAssumption`, `StartupAssumption`, `DistinctAssumption` and
so on: sets are finite, numbers are numbers, and values of different sorts are
different), a theorem names as hypotheses what the code does not guarantee;
the configurations in section 5 show what happens without them.

| Theorem | Says | Hypotheses |
|---|---|---|
| `TypeCorrect`, `Refinement` | the ring is typed and implements `BoundedFifo` | |
| `PoolTypeCorrect`, `PoolExclusive`, `PoolReadsBack` | `TypeOK`, `ExclusiveSlots`, `ReadsBack` | `PrivateCursors` |
| `StartupTypes`, `IdsAreUnique`, `WorkersAreReachable`, `FirstPoolIsKept`, `QueuesAreKept` | `TypeOK`, `UniqueIds`, `Reachable`, `FirstPoolKept`, `QueueKept` | the daemon starts first; room in the registry for all workers. The last four state of themselves that no worker has been killed while the counter (`Reachable`: the registry) was empty |
| `MeshTypes`, `BuffersAreExclusive`, `HeaderFindsRoom`, `EntriesArePopped` | `TypeOK`, `ExclusiveBuffers`, `HeaderRoomAfterBody`, `BridgeEntries` | |
| `QueuesAreLargeEnough` | `QueuesNeverFull` | two cells per slot, one entry of the notify pipe per slot |
| `ResponsesToCallers` | `ResponseToCaller` | `EntriesFree`: no entry of `response_pipe_fds` is overwritten whose call has a message under way |
| `NothingLeaks` | `NoLeak` | `EntriesFree`; two cells and one entry of the notify pipe per slot |
| `MeshKeepsPromise`, `MeshOwnAnswers` | `ImplementsLookup`, `OwnAnswer` | `EntriesFree`; `InboundKept`: no entry of the inbound table is overwritten while the frontend waits with a call for its request |
| `TcpTypes` | `TypeOK` | |
| `ContextsAreOwned` | `CtxOwned` | calls do not fail |
| `RequestsAreWorkedOn`, `AnswersAreWhole`, `TcpKeepsPromise` | `WaitingHasCall`, `WholeAnswer`, `ImplementsLookup` | clients send one request and wait |

### `DescriptorRingProofs`

From `RingAssumption` (the capacity is positive, `Nil` is none of the others).

* `TypeCorrect`: `Spec => []TypeOK`.
* `Refinement`: `Spec => ImplementsFifo`.

`TypeOK` does not show that a cell being filled is not a live one, so the
invariant `IInv` adds

* `Exclusion`: who is between lock and unlock holds the lock;
* `Arguments`: a put inside a call has a descriptor;
* `Admitted`: whoever got past the check saw a ring that was not full (put) or
  not empty (get);
* `Snapshot`: the holder's local copies of the header words are the words, save
  for the one it has just stored;
* `Spacing`: the tail is `count` cells after the queue's head, modulo the
  capacity;
* `Copied`: after the copy, the cell and the local descriptor agree.

The queue is the live cells from the queue's head. The one delicate point of
the refinement is a get between its two stores: the head has moved and the
count has not, and the cell still belongs to the queue (`QueueHead`). Every
step is then a stutter, except the store of the count, which is the put or get
of `BoundedFifo`, at one instant. A few lemmas about `%` carry the arithmetic.

### `BufferPoolProofs`

From `PoolAssumption`, and from `PrivateCursors` (different threads have
different positions), which the theorems name as a hypothesis because it is
false of the Python daemons.

* `PoolTypeCorrect`: `Spec => []TypeOK`.
* `PoolExclusive`: `Spec => []ExclusiveSlots`.
* `PoolReadsBack`: `Spec => []ReadsBack`.

The invariant has `Positions` (after a seek, the position of a thread is where
it sought), `Chosen` (the slot picked by the scan is free until it is marked,
and only the lock holder picks), `Owned` (claims, and slots that are being
written, are marked and disjoint), `Reading` and `Stored` (a claimed slot holds
what its claim says). `ExclusiveSlots` speaks of claims only; it is not
inductive without the marked bitmap byte, the lock and the position.

### `StartupProofs`

`DaemonsFirst` and `Cardinality(Worker) <= RegistryCap` are the two orders of
events the code relies on: without the first `UniqueIds` and `Reachable` fail
(`MCStartupRace.cfg`, `MCStartupAgain.cfg`), without the second `Reachable`
(`MCStartupFull.cfg`). `Worker` includes those that replace others, and any
number of them may be killed, anywhere. A kill while a file is empty cannot be
excluded by a hypothesis about the system; the properties end there, each with
the file it depends on: a torn registry does not cost `UniqueIds`,
a torn counter not `Reachable`.

None of the properties is inductive. `IInv` says of the two locks who is between
lock and unlock, and that the files are open in those between `fopen` and `fclose`
(`Locks`), and that what was read there is still so when the file is emptied, and
the file still empty when it is written (`Copies`). While a file is empty, what
counts is what its writer has read (`LastId`, `LastText`). The last id does not
exceed the number of ids handed out, hence never that of the workers (`Counted`),
and each id was handed out once, to killed workers too, unless the counter is torn
(`Ids`); that names of living workers differ (`Names`), and a worker's entry is
the last one of its name (`Registered`): the look-up keeps the last. There are no
more entries than workers that have written one (`Written`), which is why the text
is never cut. `Queues` says which queues exist, and `Entries` that entries name
workers that do. `Pools` is for a service whose first worker is its only one: its
slots are shared out between its bitmap, its queue, the daemon's message and the
slot it holds. `Quiet` covers the time before the daemon has cleaned up.

### `MeshOwners` and `MeshProofs`

`ExclusiveBuffers` speaks of all pairs of references in fifteen kinds of
places, most of which a step does not touch. The invariant therefore says that
there is a map `own` from buffers to owners (a queue, a pipe, a thread's receive
side, and so on) that agrees with what each of them refers to (`Agrees`), and that
what has an owner is allocated (`Memory`). A step moves a descriptor's
buffers from one owner to another (`Moves`), allocates one or frees one; the
frame lemmas (`Frame`, `Join`) do the rest, and each action is proved once, for
the two or three owners it touches. `own` also knows what a buffer is used for:
header, body, or both in one slot for requests of the bridge, where one buffer
carries both.

The other part, `Shapes`, is what each thread's locals are at each point of its
program and which descriptors each queue may hold. Ownership needs it: that
a descriptor for a worker never has a DPU buffer in it is why it may free both.
`MeshProofs` shows that every step keeps `Shapes`, that `Shapes` and ownership
hold initially, and derives the theorems. `MeshTypes` follows
from `Shapes`. `Ranks` is the lemma behind `WorkerSelector.select`: among
finitely many workers with different numbers exactly one has rank `k`.

`QueuesAreLargeEnough` follows from ownership by counting: every entry of a queue
owns a slot in a given pool, or one in either of two given pools, and a thread
about to put another one owns one more (`Crowd`). Its hypotheses are `MaxDescriptors >=
2 * NumSlots` and `PipeCap >= NumSlots`; the code has 512 cells and 64 slots, and
a pipe takes 64 KiB. With less, `mesh_tight` has full queues.

### `MeshMessages`

`HeaderFindsRoom`. `_dma_case3` frees the source body and only then asks for a
header slot. That this cannot fail is not a fact about who owns what: a header and
its body may both have been lost (the notify pipe was full, or nobody waited for
the response any more), and then nobody owns them and they stay allocated. The
invariant is that there is a map `mate` which gives each allocated receive header
an allocated body of the same service, a different one for each, and which agrees
with the descriptors and locals that name both (`Mates`). The exception is the
header whose body `RxDrop` has just freed (`Orphans`). A body that waits for its
header is nobody's mate, so the service has fewer headers than bodies, and a slot
is free.

`EntriesArePopped`. The routing thread, which stores a response in
`_bridge_responses` and sets the client's event, knows of the client only the id
in a header; the bridge thread pops both entries when it has been woken or has
waited long enough. That nothing stays depends on a fact about all of memory: no
thread can come to read a header with the id of a client whose request has not
been sent. `Requested` says so of every buffer (`Stored`; the exception is the
request that a bridge thread has written and not yet put in a queue,
`OwnRequest`), of the messages that workers are writing and the routing tables
they write them from (`InWorker`), and of the response that the sidecar is
delivering (`InArm`). The same places hold only the status codes of the services,
`Codes`: the 413 and 503 of the bridge's refusals, whose clients keep their
entries in both tables, never come out of a message. `Entry` then ties the two
tables to the place of each bridge thread. `Requested` is inductive together with
the invariant of `MeshProofs`: that a worker or daemon does not read the bridge's
own buffer is ownership.

### `MeshCalls`

`ResponsesToCallers`. A frontend numbers its calls, keeps the pipe of a call at
the number modulo `DPUMESH_MAX_PENDING`, and finds it there when a response with
that number comes in. That the response is the one to this call is a fact about
messages in eight places and in two buffers each, so the invariant speaks of
letters: a descriptor that is queued or that a thread still has to pass on, with
the buffers that count at this point (`Letters`), and what is in them (`Mails`).
There is a map `at` that says for each call where its one message is (`Place`):
with a main thread that writes it, in the buffer of a header, or nowhere any more.
A letter with the number of a call has to be where `at` says, hence no call has
two messages, and a request cannot arrive after its response. `GoodMail` says what
a letter then means: a request asks what the context of the call asks, a response
says what the service says to it. `GoodMain` says the same of what main threads
are writing or have read, and `GoodTables` ties pipes and contexts to the calls.
Most of a step's proof is that it moves letters without changing what they say: no
step writes to a slot in use (`Stable`), and the sidecar and the DPA daemon copy
whole messages.

`EntriesFree` is the hypothesis that the code does not establish: `dpumesh_write`
overwrites an entry without looking. It says of a step that it puts no call in the
entry of an earlier call that has a message under way (`UnderWay`), or whose entry
the poller is about to clear. Other entries may be overwritten, and are: a call
that could not be sent (`dpumesh.c:832`, `836`, `864`), or whose message has been
dropped, never gives its entry back. The proof counts such a call as over
(`ForgetCall`) when its entry goes. So the hypothesis fails only when a call
starts while the one 256 before it is still being served; how many calls were lost
in between does not matter. `MCMeshWrap.cfg` shows `ResponseToCaller` fail without
it.

`NothingLeaks`. `NoLeak` is nearly inductive (`LeakInv` adds that the transmit
thread drops nothing), but for four branches of the code that do forget
buffers, which must be shown never to be taken: a response whose call has no
entry (`PollerDrop`; excluded by `at`, since the message of the call still exists),
a full queue or notify pipe (by `QueuesNeverFull`), a header that finds no room
after its body (by `HeaderRoomAfterBody`). So this theorem needs
all of the invariants above. `Named` has one predicate for each place that refers to
buffers; a step is proved for the one or two places it touches.

`MeshKeepsPromise` is the refinement of `Lookup`: only a step of a client's own
bridge thread tells it something (`BridgeTells`), all other steps are stutters.
The invariant `TrueInv` follows one client through the mesh by the id of its bridge
request, which its request carries (`OwnQuestion`), the frontend keeps in the
inbound table, and the response carries back. It says that a letter from the bridge asks
what its client asks, that a letter to the bridge says what may be said to the client it
names (`Told`: the expected answer, or 502), and that a context belongs to the
client whose id is at the context's entry of the inbound table (`TrueContext`), wherever
the context is: with the main thread (`TrueMain`) or waiting for a response
(`TrueWaiting`). What the handlers compute is in `QuestionHandled` and `AnswerHandled`;
that the response a frontend reads is the one to the context it reads it with is
`ResponsesToCallers`. `TrueInv` is inductive together with `CallInv`.

`InboundKept` is the second hypothesis that the code does not establish. Since the
bridge numbers all its requests 0, it comes down to one request at a time for each
frontend, and finding 1 is what happens without it; a frontend one of whose calls
was lost waits for ever, and the theorem says nothing of requests it gets later.
Apart from these two hypotheses nothing leads to another client's answer: neither
dropped messages, refused puts, failed writes, timeouts and late responses nor
several frontends with a request each. `MeshOwnAnswers` states the same of
`OwnAnswer`, the property that the run `mesh_one_frontend` refutes.

### `TcpProofs`

`Core` holds of all clients, those included that leave or send too much, and of
all failures of calls. Calls are numbered in the order they were made; the
second call of a request (attend) has taken over the context of the first (id),
which is closed, and no other call has it (`Calls`, `Contexts`). What is on its
way on a call is the answer to that call (`Answers`). The handler runs once for
a request and once more for a piece too many (`Counts`), hence a client makes
at most four calls and `MaxCalls` is no restriction (`FirstCallLeft`,
`SecondCallLeft`). `Branch` lists the steps with one disjunct for each way
through a callback; lemma `Branches` shows that these are all.

`ContextsAreOwned` adds `Flow` and `NoLeaks`. When calls do not fail, each call's
request and response pass whole, which `Passing` says of its two streams and two
ends: so no call is closed before its response has come, the only way of
losing a context. When they do fail contexts leak (`MCTcpLeak.cfg`), so the
hypothesis cannot be dropped. As in the run, `CtxOwned` asks nothing more once a
freed connection has been used or the process was ended by `SIGPIPE` (`over`).

The rest of the module is about clients that send one request and wait (with
others a freed connection is used, `MCTcpFreed.cfg`), whichever way calls fail.
`Working`: a client whose request has been read has an open call until it is being
answered, and none after that. `Answering`: what it has received and what is on
its way are pieces of one response, as many as have been written. Each client has
one call at a time (`OneCallEach`, from `Counts`), which is why closing one and
answering is safe. `TcpKeepsPromise` is the refinement of `Lookup`: only
`WriteOut` on a client's connection can tell it something, the last piece of the
expected answer or of a 502, and all other steps are stutters (`GivenChanges`).

### Sizes of the instances

TLC checked the inductive invariants on these instances:

| Invariant | Instance | States |
|---|---|---|
| `IInv` of the ring and of the pool | `ring`, `pool` | 294,144 and 940,585 |
| `IInv` of `StartupProofs` | `startup` with two messages | 670,036 |
| `Shapes`, `OwnInv` (for the map that names the holder in `Held`), `MateInv` | `mesh_small`, `mesh_tight`, `mesh_refused` | 400,087, 204,084 and 25,120 |
| `Requested` | `mesh_small`, `mesh_tight`, `mesh_refused` | 400,087, 204,084 and 25,120 |
| `CallInv` | `mesh_small`, `mesh_tight`, `mesh_refused`, `mesh_live` | 400,087, 204,084, 25,120 and 65,701 |
| `CallInv`, and `NoLeak` with it | `mesh_one_frontend`; `MCMeshWrap.cfg` with `Next /\ EntriesFree` | 643,944; 264,192 |
| `TrueInv` | `mesh_live`, `mesh_refused`; `mesh_one_frontend` with `Next /\ EntriesFree /\ InboundKept` | 65,701 and 25,120; 44,455 |
| `Core` | `tcp_leave` with calls that fail | 2.86 million |
| `FlowInv` | `tcp_leave` | 214,108 |
| `WaitInv` | `tcp` | 89,240 |

### Only model-checked

* Liveness (`CallsReturn`, `Answered`, `Served`, `Discovered`): outside what this
  prover handles.
* `FramingExact`, `HandledWhole`, `SameQuestion` and `RightValue`: what `TextFormats`
  computes is checked on all short inputs of `wire`; for every input it would
  take induction over sequences.

## 5. Findings

1. **Answer to the wrong client** (`dpu_daemon.py:338`, run
   `mesh_one_frontend`). Every descriptor of the bridge carries `req_id = 0`,
   and a worker keeps the routing metadata of a request at `req_id % 256`. Two
   bridge requests in progress at one frontend share an entry; the first answer
   goes to the client of the second request.
2. **Shared position** (`common.py:279`, run `pool_shared`). Threads of a
   daemon seek and access one mmap object without a lock between them, so that
   a read or write can go to a slot, or to the bitmap, that another thread
   sought.

### Further configurations

These show where a property of a run stops to hold; TLC ends each with a
counterexample.

| Configuration | Property | What happens |
|---|---|---|
| `MCMeshWrap.cfg` | `ResponseToCaller` | The pipe of a call is kept at `req_id % 256` and overwritten without looking (`dpumesh.c:479`, `802`). In the code it takes a call and the 256th after it while the first is under way, whatever has become of those between; here a table of one entry and two calls. |
| `MCTcpFreed.cfg` | `NoUseAfterFree` | The client closes while a call is made for it: its read event is still armed, `on_client_read_cb` frees the `conn_t` (`tcp_handler.c:106`), and the answer to the call is written into it. |
| `MCTcpLeak.cfg` | `CtxOwned` | A call fails: the client is told 502, and nobody frees the context (`tcp_handler.c:206`). |
| `MCStartupRace.cfg` | `UniqueIds` | Workers start while the DPA daemon removes the counter and its lock (`dpa_daemon.py:60`): two get one id. The repository's `README.md:149` calls it unique. |
| `MCStartupTorn.cfg` | `PodIdUnique` | A worker is killed after `fopen` has emptied the counter and before the number is written (`dpumesh.c:280`): the next id is 1 again, that of a running worker, whose queues `dr_init` then clears. The repository's `README.md:149` calls it unique. |
| `MCStartupTornRegistry.cfg` | `LeadsToAll` | A worker is killed after `fopen` has emptied the registry (`dpumesh.c:320`): the next one adds its entry to an empty text, which is no JSON then or later, and the daemons find nobody. |
| `MCStartupFull.cfg` | `Reachable` | A registration appends also when the name is there, and cuts the text at 8192 bytes (`dpumesh.c:316`): the file is no JSON from then on. |
| `MCStartupPool.cfg` | `PoolExclusive` | A worker that replaces another clears the bitmap of the pools of its service while the daemon holds a slot (`dpumesh.c:67`). |
| `MCStartupAgain.cfg` | `Reachable` | The DPA daemon is started again under running workers: registry and queues are removed, and workers never register again. |
| `MCWireBrace.cfg` | `SameQuestion` | `parse_case2_body` counts braces inside strings (`dpumesh.c:400`): one in a query ends the header and the request id is lost. |
| `MCWireQuote.cfg` | `SameQuestion` | `serialize_header` does not escape (`dpumesh.c:339`): with a quotation mark in a name the sidecar cannot read the header and drops the request. |
| `MCWireLong.cfg` | `SameQuestionLong` | `parse_case2_body` cuts the header to 4095 bytes (`dpumesh.c:405`). With long headers of the client's own, query and request id behind them are lost, and the worker goes on with the query in its static buffer (`dpumesh.c:649`), that of an earlier request. |
| `MCWireBody.cfg` | `SameQuestion` | Of the escapes of `json.dumps` only the one for quotation marks is undone (`dpumesh.c:419`): backslashes and line ends arrive as two characters. |

Seen on the way and not checked: error bodies are passed with a length one
too small (`{"error":"not found"}` has 21 characters, 20 are given);
`http_format_response` returns the length `snprintf` would have needed, also
when it had to cut; `http_parse_request` never fails, so its 400 branch is
dead; `SIGPIPE` is not ignored; calls over TCP have no timeout.

## 6. Plan

`Mesh` with workers that leave: responses to workers that are no longer in
the registry; bridge clients that disconnect.

### Not modelled

The step registry and legacy helpers of `common.py`, and
`PodRegistry.register` and `cleanup`, which nothing calls; `dpumesh_destroy`, which
runs when the event loop ends, and nothing ends it; the packing of descriptors
into bytes; the scan of `kv_store_load`; deployment files and load generators;
failures of `pipe()`, `calloc` and opening a lock file; `memory_free_issue`, a
design note.
