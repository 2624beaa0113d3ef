# Verification of rgpu

rgpu runs a CUDA program on one machine against a GPU in another. A shim in the
application's process stands in for the driver, the runtime and the maths
libraries and sends their calls over one TCP connection; a server beside the
GPU makes the calls. A separate path does the same for PyTorch operations.

This directory holds TLA+ models of the parts with logic of their own, the TLC
configurations that check them, and theorems checked by TLAPS.
`PROJECT.json` maps every definition to the lines it models.

    tlc -workers 2 -config CallStreamOrder.cfg MCCallStream.tla
    tlapm CallStreamProofs.tla

## Inventory

| part | source | state it keeps | its operations | what makes it correct |
|---|---|---|---|---|
| request ids | `client/rpc.cpp` 473-489, `common/wire.h` 26-64 | the counter `g_next_req` | mint an id; compare two | order of ids is order of issue across the wrap |
| call stream, client | `client/rpc.cpp` | connection, send queue, replay buffer, last reply, "had a session", "session gone" | `call`, `call_async`, connect, reconnect, replay, give up | each call returns once with a true answer; nothing acknowledged to the application is lost while it can be replayed |
| call stream, server | `server/main.cpp` 455-1241 | table of sessions; per session: last completed request, its kept reply, the connection waiting, finished | handshake, hand-over, serve, expire | at most once, in order, in one session; no connection handed to nobody |
| client thread slots | `server/main.cpp` 272-450 | live and retired slots, held failures | find or make a slot, retire, trim, notice of exited threads | a thread never loses its context or its held failure while it still calls |
| client threads | `server/client_threads.cpp` | each client thread's context stack and capture mode; what the serving thread really has | show a thread, read back, destroy, sweep | a request never runs in another thread's context; a destroyed context is never made current, its address reused or not |
| inventory | `server/inventory.cpp` | what a session owns, stamped with context, device and generation; retains | note, forget, retain, release, reset, release at expiry | expiry frees what the session owns, once, and nothing another session was given since |
| pending work | `client/pending.cpp` | which streams may have work outstanding | work on a stream, settle, ask | a wait is skipped only when nothing is outstanding |
| driver shim | `client/shim.cpp` | primary contexts, allocations, layouts it has seen | caching queries, synchronizing | a cached answer is what the server would say |
| runtime API | `client/cudart_impl.cpp` | context belief per thread, generations, modules, launch stack, last error | runtime calls on driver calls | the belief is never wrong when used; an error is returned once |
| maths libraries | `client/cu{blas,blaslt,dnn}_impl.cpp`, `server/cu{...}_server.cpp` | handles and their streams, minted descriptors | forwarding | a handle is used with the stream it was given |
| op path, client | `python/rgpu/session.py` | batch, unacknowledged batches, frees waiting, last acknowledged | post, request, flush, reconnect | operations run once and in order, a lost session is reported |
| op path, server | `python/rgpu/server/` | tensors, poison, first error, last sequence number; registry of sessions | execute, attach, detach, reap | after a failure nothing that depends on it runs; the first error is the one told |
| generated stubs | `codegen/emit.py`, `client/generated/`, `server/generated/` | none | write a request, read the answer; read the request, call the driver, write the answer | the driver is called with what was passed, and the application's memory is left as its own driver would leave it |
| framing | `common/wire.h`, `common/net.h`, `python/rgpu/wire.py` | none | fields without tags, in order | both ends read what the other wrote |

How they meet: application threads take one lock (`g_mu`) for the whole of a
call, so the client side of the call stream is sequential and its calls are
interleaved with nothing but the network. The server has one accept thread per
connection and one serving thread per session; they share the session under its
mutex and the table under another. The serving thread runs every client
thread's requests, so it switches contexts between them (client threads), and
all sessions share one driver (inventory). On the client the caches are shared
by application threads *outside* `g_mu`.

What is hard: a connection breaks between any two steps; a handshake overlaps
the old connection still being served; the grace period ends during a
hand-over; the server restarts; a reply is lost after its call ran; ids wrap;
the replay buffer overflows; failures of calls without a reply surface later
and elsewhere; caches read before a call are used after it. The list, with
lines and the properties that watch each, is `hazards` in `PROJECT.json`.

## Plan

Done, in the order of what rests on what: `ReqIds` and `CallStream`;
`ThreadContexts` and `ContextStacks`; `Inventory`; `OpStream`, and over it
`OpTensors`; `PendingWork`; and the client's library, from `DriverShim` through
`RuntimeApi`, `KernelRegistry`, `MathsHandles` and `CudnnBackend`, with
`GeneratedStubs` beside them, composed in `ClientRuntime`.

Left to model:

1. `SessionTable`: several clients against the cap (`max_sessions`,
   `server/main.cpp` 1112), finished sessions still in the table, the limits
   before the handshake. Property: the cap holds, and never refuses a client
   that is coming back. That hazard is listed without a property; so is the one
   the code does not avoid, the frees that are dropped ("Read on the way").
2. `ThreadSlots`: the failures held in the slots across retirement, with the
   client's notices of exited threads (`client/rpc.cpp` 141-197, 497-543).
3. In `Inventory`: mapped address ranges, captures of the default streams,
   several devices.
4. `RemoteCalls`, the abstract call stream - each call happens at most once
   between its start and its return, in order - implemented by `CallStream`
   through a refinement mapping.

Left to prove, beyond what is proved below: the tensors of the operation path.

## What is modelled

### ReqIds

Ids are words of `2 * Half` values (the code's `Half` is 2^31); 0 is "no
request" and is skipped. `ReqAtOrBefore` is `req_at_or_before`; `MintedId` and
`CounterAfter` are `mint_req_id_locked`. `IdFrom(first, n)` is the closed form
of the n-th id, which lets `CallStream` name requests by position and put
`IdOf` of it on the wire. The comparison is the order of issue for requests up
to `Window = Half - 2` apart: one less than `common/wire.h` 35-38 says, because
the skipped 0 makes two ids one further apart than their requests.

### CallStream

One client process and its server. Each request is its position in the order
issued; every comparison on either side is made on wire ids, so the wrap is in
the model.

Client (`client/rpc.cpp`): the thread that holds `g_mu` is `op`, with a step
for each wait on the network.

| action | code |
|---|---|
| `StartConnecting` | `ensure_connected_locked` by a call that finds no connection |
| `QueueFrame` | `queue_frame_locked`, `queue_one_locked`, with the replay buffer's limit; a `call_async` returns at once or, its queue grown, flushes |
| `Dial`, `Refused`, `HelloUnanswered`, `HelloBusy`, `HelloGone`, `HelloStarted`, `HelloResumed` | `ensure_connected_locked`: one per outcome, the replay of the buffer included |
| `GiveUp` | the deadline of `reconnect_locked`, then `abandon_call_locked` |
| `Flush`, `FlushFails` | `flush_locked`, in `call` and `call_async` |
| `RecvReply`, `RecvFails` | the rest of `call`: the reply, a reply for another id, a broken connection |

A call that fails fast (session gone, connection failed before) changes
nothing and is not an action. `RGPU_BATCH=0` is every call of kind `"call"`.

Network: `live[c]`, `up[c]`, `down[c]`. `Break(c)` cuts both directions to
arbitrary prefixes; a failing write gets any prefix through; a write on a
connection that is gone may seem to succeed, and then nothing of it arrives.
Messages on one connection are neither reordered nor duplicated: it is TCP.
`RGPU_DROP_AFTER` and the timeouts of a dead peer are such breaks.

Server (`server/main.cpp`): `acc[c]` is the accept thread of connection c, one
action per hold of a lock or write (`FindSession`, `StartSession`,
`RefuseSession`, `TellGone`, `Snapshot`, `WriteHello`, `WriteHelloFails` with
`forget_unserved`, `ResendKept`, `HandOver`, `StartServing`). `sess[s]` is a
session and its serving thread: `TakeUp`, `Expire`, `Leave` are
`serve_session`; `AnswerCopy`, `SkipCopy`, `TakeRequest`, `Run`, `RecordAsync`,
`RecordCall`, `SendReply`, `EndConnection` are `serve`. Running a request and
recording it are two steps, because a handshake can look in between. `held` is
the failure held for each client thread. `Restart` is the server process dying
at any point. A refusal for the cap may happen to any new session
(`RefuseSession`): the other clients that fill the table are not in this
module.

`ran`, `failed` and `told` are history: nothing reads them but the properties
and, for `issued`, what a frame carries.

Left out: the wording of logs, statistics, the flush at exit, notices of exited
threads, a version mismatch, malformed frames, frames without a thread or with
id 0, the pre-handshake limits.

### ThreadContexts and ContextStacks

`ThreadContexts` is what the application is promised: each of its threads has a
context stack and a capture mode of its own, as it has when the driver is in
its own process. A context is a number, in the order of creation; a handle is
an address, used again once its context is destroyed. Nothing serves and
nothing switches.

`ContextStacks` is the code: one serving thread, with one driver stack, shows
the thread of each request before it runs (`server/client_threads.cpp`, the
slots and `serve` in `server/main.cpp`, the context wrappers of
`server/inventory.cpp`).

| state | code |
|---|---|
| `slot[t]` | `ClientThread`: `stack`, `stack_ctxs`, `capture_mode` |
| `live`, `retired` | which ids have a slot in `ClientThreads::live` and `::retired` |
| `serving` | the driver's stack and mode on the serving thread, and `applied`, `applied_mode` |
| `req` | the request in hand: shown, called, (destroyed,) read back |
| `at`, `created`, `ours` | the driver: which context lives at which address |

| action | code |
|---|---|
| `Begin` | `serve` up to the dispatch: `thread_slot`, `admit_thread`, `client_thread_shown`, `client_thread_show` |
| `SetCurrent`, `SetNone`, `Push`, `Pop`, `GetCurrent` | the four wrappers |
| `Create` | `w_cuCtxCreate_v2`, `client_threads_created` |
| `Destroy`, `Destroyed` | `w_cuCtxDestroy_v2` and `w_cuCtxDetach`: the driver's call, then `client_threads_destroyed`; another session may take the address in between |
| `ExchangeMode` | `client_threads_exchange_capture_mode` |
| `Use`, `Library` | any other call, and one that makes a context current unseen |
| `After` | `client_thread_after` |
| `Notice` | `handle_thread_gone` with one id; one with several is several |
| `OthersCreate`, `OthersDestroy` | the other sessions of the server |

`Own` is the refinement mapping: a thread's own stack is its saved stack, with
the destroy under way already counted for the caller, and with what the driver
has made current already adopted; the answer is the one `client_thread_after`
will leave. Entries carry, as history, which context lived at their address
when they were saved (`of`); the code has only the address.

Assumed of the application: it passes handles of living contexts of its own
(anything else is undefined in CUDA too), and sessions do not destroy each
other's contexts (`server/client_threads.h` 46-48 documents that limit).
Assumed of the driver: `cuCtxSetCurrent` takes a destroyed handle, as
`server/client_threads.h` 43-45 says. A maths library makes the primary context
current when there is none. The driver's stack is at most two deep, so the loop
of `clear` never reaches `kMaxDepth`.

`client_threads.h` 41-43 says an entry is marked gone before its address can be
reused. Another session can create between the destroy and the sweep; nothing
is shown in between, so it is harmless, and `NothingStale` says so by excepting
that one step.

### Inventory

What the sessions of one server have taken from the driver they share, and what
each gives back when it expires (`server/inventory.cpp`). A session is its
serving thread. What it makes is of one of three kinds: `bound` to a context
(memory, modules, streams, events, library handles), `graph`, and `free` of any
context (loaded libraries, memory handles).

| state | code |
|---|---|
| `obj`, `capturing`, `ctx_owner`, `refs` | the driver: what lives at each handle, the streams in capture, the created contexts, the references to the primary context |
| `gen` | `g_primary_gen` of the one device |
| `primary_mu`, `live_mu` | who holds `g_primary_mu`, `g_live_mu` across a driver call |
| `inv[s]` | `Inventory`: `items` is the seven maps, `by_ctx` the reverse index, `captures`, `contexts`, `retains` |
| `op[s]` | where the thread is inside a call: between its stamp and the driver's call, between the end of a generation and its record, between the look at an item and its free |

| action | code |
|---|---|
| `BeginMake`, `Make`, `MakeFails` | a wrapper that makes something: its stamp; the driver's call and the note |
| `Free`, `BeginCapture`, `EndCapture` | the wrappers of those calls, with `forget` and `forget_capture` |
| `CreateContext`, `DestroyContext` | `w_cuCtxCreate_v2`; `w_cuCtxDestroy_v2` and `w_cuCtxDetach`, with `forget_context` |
| `Retain`, `Release`, `Reset`, `Record` | the primary-context wrappers; a `Release` is made whether the session holds a retain or not, and its count stops at 0 (`OneLess`, `note_primary_retain`); `Record` is `bump_generation` and `forget_primary`, still under the lock |
| `Expire`, `Take`, `Skip`, `EndTaken`, `FreeTaken`, `ReleaseContext`, `ReleaseRetain`, `RetainsRefused` | `release_inventory`, item by item: `unless_destroyed` looks at the generation and frees under the lock; the releases owed, or, the driver refusing, the rest given up |
| `Bind`, `Unbind` | `inventory_bind`, which counts live sessions |

Between the steps of one session the others act: they end the generation a
stamp names, begin another, and are given addresses that were the first one's.
Generations start at 1 here and `NoDev` is 0; an unknown generation
(`kEndedGeneration`) is `EndedGen`.

`untracked` is history. It marks what the code gives up on by design: what was
made as its generation ended (`server/inventory.cpp` 102-131 chooses to leak
rather than to free what may be another's), what was made from something that
is not on record, and graphs whose record goes with a context they outlive.
`LeavesNothing` excepts these and nothing else. `overdrawn` is history too: the
releases that were made by sessions without a retain, each of which took a
reference that another session counts, less those the other gave up in vain.

Assumed of the application: it frees and selects living things of its own. It
may release more retains than it made. Assumed of the driver, at worst: a thread with an open capture of its
own may not free, although expiry asks for the relaxed mode. The order among
the items of one session is any order, except where the code fixes it: captures
first, created contexts and retains last.

### OpStream

The message stream of the PyTorch path: `Connection` of `rgpu/session.py` with
its one lock, `serve_connection` and `Registry` of `rgpu/server/__main__.py`,
and what `Session.execute` does with sequence numbers, replies and the first
error. A message is its sequence number; its kind says whether it is waited
for, fails on the server, or is over the replay limit by itself. Sizes are
counted in ordinary messages.

| state | code |
|---|---|
| `cl` | `Connection`: `seq`, `pending`, `unacked`, `replay_possible`, `last_acked`, `had_session`, `sock`, and whether `_recovery_deadline` is set |
| `op` | where the call is that holds the lock; `then` is the message whose `_append` asked for an acknowledgement first |
| `link`, `up`, `down` | the connections: batches one way, replies the other |
| `th[c]` | `serve_connection` of connection c: not yet attached, attached, serving a batch |
| `reg` | the `Registry` entry: session, generation, whether detached |
| `sess` | `Session`: `last_seq`, `last_reply`, `first_error`, `generation` |

| action | code |
|---|---|
| `Call`, `FlushCall` | `post` and `request` through `_queue` and `_append`; `flush` |
| `FlushDials`, `FlushRefused`, `HelloFails`, `HelloLost`, `HelloFlush`, `FlushWrites`, `FlushFails` | `_flush`, which connects by itself when there is no socket |
| `Redial`, `RedialRefused`, `RehelloFails`, `ResumeMissing`, `Resume`, `GivesUp` | `_reconnect`; the deadline is "at any time after the first attempt" |
| `OldReply`, `Receive`, `ReceiveFails` | `_await` and `_ack` |
| `Attach`, `NoHello`, `Snapshot`, `TakeBatch`, `Execute`, `Leave` | `serve_connection`; `Leave` is any of its ends, `RGPU_DROP_AFTER` included |
| `Reap`, `Restart` | `Registry.reap`; the server process dies |

A connection the client has closed may still deliver what was sent on it, its
hello included, after a newer one has been served: TCP orders nothing between
connections. `Cut` is a lost connection and also a `recv` that times out.

Left out: frees (they are ordinary messages here), the advice about graphs,
versions, and a fork, which begins a new `Connection`.

### OpTensors

The tensors that `OpStream`'s messages are about. On the client a tensor is an
id (`rgpu/tensor.py`, `dispatch.py`, `compile.py`, `session.py`); on the server
the id names a tensor, or a poison left by the operation that failed to make it
(`server/session.py`). Messages are applied in order and once, which is what
`OpStream` establishes, until the session is lost.

| state | code |
|---|---|
| `id`, `held`, `pending_frees`, `shipped` | the client: `_rgpu_id`; the tensors the application holds; the ids to free; the compiled graph the server was given |
| `call` | the call that holds the connection's lock: its message, the frees it took |
| `unacked`, `issued` | `Connection.unacked` against `REPLAY_ACK_AT` |
| `stream`, `sess`, `data` | what is queued; `Session`: tensors, graph, `first_error`, `next_server_id`; the storages, which views share |
| `truth` | history: the same operations run in order with nothing remote |

| action | code |
|---|---|
| `Handle` | an operation of the application: `dispatch.py`'s ops, views, in-place writes, uploads, compiled graphs and their calls, sizes, downloads, synchronizes |
| `TakeFrees`, `QueueFrees` | `_take_frees` and the `FREE` put ahead of the message |
| `Ask`, `Acked` | `_append` asking for an acknowledgement at the limit, and its answer |
| `Queue`, `Told`, `Raises` | the message queued; the answer of one that is waited for |
| `Drop` | the application lets go of a tensor |
| `Execute` | `Session.execute`: poison in, poison out; the first error kept for the next wait |
| `Lose`, `QueueNotices`, `Notice` | the session is lost, and when the client learns it |

A program names the operations it makes and may let any of them fail, or the
session be lost. `truth.marred` marks what an in-place write that failed leaves
as it was; `truth.old` the tensors of a lost session; `truth.leaked` ids whose
frees were dropped with a request for an acknowledgement that raised. The properties except exactly these, and "Read on the way" below says what the
documents make of them.

### PendingWork

The record by which `cuStreamSynchronize` is queued rather than waited for
(`client/pending.cpp`), and the calls that keep it. Each operation on the record
is atomic under its mutex; the calls around them are not, and threads interleave
between a call's answer and the settling of what it waited for.

| state | code |
|---|---|
| `busy`, `unplaced` | `g_busy`, `g_unplaced` |
| `mode` | `sync_mode`: `RGPU_LAZY_SYNC` |
| `call[t]` | the call a thread is in: sent, answered, about to settle |
| `work`, `issued`, `gone` | the GPU: what it has not finished, and the streams destroyed |

| action | code |
|---|---|
| `MarkLaunch` then `Issue` | `cuLaunchKernel` and its like: marked before they are sent |
| `MarkSomewhere` then `Issue` | calls whose work is on a stream the client does not know |
| `Streamless` | `cuMemsetD8_v2` and other stubs that name no stream and mark none |
| `Upload` | copies to the device, whose bytes are taken when they are issued |
| `SynchronizeQueued`, `BeginSynchronize`, `SendSynchronize`, `AfterSynchronize` | `cuStreamSynchronize` of `client/shim.cpp` |
| `SendDownload`, `SendDestroy`, `AfterStub` | the stubs that settle a stream when they return |
| `SendCtxSynchronize`, `AfterCtxSynchronize` | `cuCtxSynchronize`, which settles everything |
| `Answer`, `Finish` | the server answers what it has waited for; the GPU finishes something |

A mark is lost before its work is finished in four ways, which `lapse` names:
`raced` (settled by a call sent before the work), `elsewhere` (by one that
waited in another context), `gone` (its stream destroyed) and `failed` (settled
by a call that failed). `MarksCover` says there is no fifth.

### DriverShim, RuntimeApi, KernelRegistry

What the client remembers so as not to ask. The pattern is one: a call is made
and answered under the lock of the call stream and recorded afterwards under the
record's own lock, and between the two the other threads make and record theirs.
Every call may fail in three ways (`Outcomes`): it ran and its answer is a
failure held from an earlier call; it did not run; or it succeeds.

| state | code |
|---|---|
| `primary`, `allocs` | `g_primary`, `g_allocs` of `client/shim.cpp` |
| `call[t]` | the thread is between the answer and the record |
| `device`, `selected`, `gen`, `retained`, `ctx_mu` | `t_device`, `t_ctx_gen`, `g_ctx_gen`, `g_primary`, `g_ctx_mu` of `client/cudart_impl.cpp` |
| `rt[t]` | where the thread is in a runtime call |
| `dev_allocs` | `g_device_allocs` |
| `reg`, `reg_mu`, `layouts` | `g_modules` and `g_kernels`, `g_reg_mu`; `g_layouts` of the shim |
| `driver`, `others`, `mem`, `current`, `fns` | the server: primary contexts, whether another session lives, memory, current contexts, functions |

| actions | code |
|---|---|
| `AskRetain`/`RecordRetain`, `AskRelease`/..., `AskReset`/..., `AskSetFlags`/..., `AskState`/... | the primary-context calls of `client/shim.cpp` |
| `AskAlloc`/`RecordAlloc`, `FreesFirst`, `RecordFree`/`AskFree` | `cuMemAlloc_v2`, `cuMemAllocManaged`, `cuMemFree_v2`, which forgets before it frees |
| `EnsureFast`, `EnsureFinds`, `EnsureRetains`, `EnsureRetained`, `EnsureSelects` | `ensure_context`, with what is read before the lock and used after it |
| `SetDevice`, `BeginDeviceReset`, `ResetReleases`, `ResetRecords`, `EndDeviceReset` | `cudaSetDevice`, `cudaDeviceReset` |
| `Malloc`, `RunMalloc`, `ShimNotes`, `NoteAlloc`; `Free`, `ShimForgets`, `FreeAsync`, `RunFree`, `ForgetAlloc` | `cudaMalloc` and `cudaFree` in their kinds |
| `Register`, `Unregister`, `Launch`, `Resolve...`, `GetFunction` | the fat binary calls, `resolve_kernel` under `g_reg_mu` |
| `PackKnown`, `PackAsks`, `RecordLayout`, `AskOfFunction`, `RunLaunch` | the layout of the arguments, and the launch |
| `AppRetain`, ... | an application that uses the driver's interface beside the runtime's |

Addresses, functions' handles and contexts' handles are given out again.

### MathsHandles, CudnnBackend

cuBLAS, cuBLASLt and cuDNN run on the server, and the client keeps of each
handle and descriptor what it needs to send a call: its stream, whether its
scalars are values or device pointers, and their width. `noted` is what the
client has on record, `lib` what the library has, `mine` and `descs` what the
application holds. The three libraries record at different moments, and each is
modelled at its own: cuBLAS after the answer (`BlasSet`, `BlasNote`, `Erase`),
cuDNN's streams and cuBLASLt's attributes before the call (`DnnSetStream`,
`LtSet`), cuDNN's tensor descriptors after a call nobody answers, under handles
the client mints (`MintDescriptor`, `SetTensor`, `Remember`). `Gemm`,
`DnnExecute`, `LtMatmul`, `BatchNorm` are the calls that read the record.

`CudnnBackend` has the backend descriptors: created and given attributes, other
descriptors among them, by calls that are not answered (`BackendCreate`,
`BackendSet`), whose failures the server holds for their thread (`held`), then
finalized by one that is (`BackendFinalize`). `AskVersion` is a call that is
answered but has no status to return, and takes the held failure with it.

Assumed of the application: a handle is used by one thread at a time, as the
libraries require. A value that is given out again is another handle, and may be
in use while the thread that destroyed the earlier one has its record still to
erase (`Erasing`): `cublasDestroy_v2` erases after the answer. The handle that
loses its record by that, or begins with the earlier one's (`StaleRecord`), is
put into `unsure` and the properties except it, as they do one a failed call
left different on the two sides.

### StubParams, ClientStubs, ServerStubs, GeneratedStubs

Both halves of the 252 generated calls of the driver. `StubParams` has the modes
a parameter has on the wire (scalar, string, code, struct, buffer whose length
another parameter gives, and their outputs) and the reader of `common/wire.h`:
fields without tags, so that a reader that expects something else takes what is
there. `ClientStubs` has, function by function, the fields the stub in
`client/generated/client_stubs.cpp` writes and reads and whether it waits;
`ServerStubs` what the case in `server/generated/dispatch.cpp` reads and writes,
and whether it waits for the GPU before it answers. The two tables are read off
the two files separately: what relates them is the code that reads what the
other wrote (`put_request` and `get_request`, `put_response` and
`get_response`), and `AsIfLocal` says the result is that of a local driver.

One thread calls; calls that do not wait return and their requests stay on the
way, up to `MaxFrames`; `Dispatch` takes them in order and refuses what cannot
be read or whose sizes do not agree. A unit stands for a field of fixed size or
an element of a buffer; the widths of scalars are not modelled. A function in
neither table is a refusal (`Unimplemented`). Which stubs mark streams is in
`PendingWork`.

### ClientRuntime

The library the application is linked with: all of the above over one driver.
An application is a *program*, the set of calls its threads make; the run takes
each of twelve programs through all its interleavings.

## The runs

| run | question | states (about) |
|---|---|---|
| `call_stream_order` | 1 thread, 4 requests, 3 connections, 2 sessions, server restart, buffer of 3 frames, ids wrap after the second request | 1.7 M |
| `call_stream_errors` | 2 threads, 3 requests that may fail, 2 connections | 2.0 M |
| `call_stream_live` | liveness: 2 requests, 3 connections, restart, buffer of 2 | 0.1 M |
| `call_stream_overflow` | violation: a buffer of 1 frame | - |
| `context_stacks` | 2 threads, 3 contexts over time at 2 addresses, stacks of 2, 2 capture modes, 1 retired slot; with 2 live slots and a driver that does as it is asked, and with 1 live slot and one that may refuse every switch | 0.57 M |
| `inventory` | 2 sessions that may release what they did not retain, 2 handles, one retain each; 3 generations of the primary context, or 2 and a created context | 0.90 M |
| `op_stream` | 3 messages, 3 connections, 2 sessions, a server restart, a replay limit of 3 | 2.5 M |
| `op_stream_gap` | violation: 3 messages, a recovery that was given up | - |
| `op_tensors` | 6 applications of 3 to 6 operations on 2 to 4 tensors, any of which may fail, and a session that may be lost; an acknowledgement at 2 | 3.1 M |
| `pending` | 2 threads, a stream and the default one in 2 contexts, 2 pieces of work | 4.4 M |
| `client_runtime` | 12 programs of 2 threads on 2 devices, 1 address, 2 kernels, 2 functions' handles, 2 libraries' handles, lives and retains of 2; the generated stubs with buffers of 0, 1 and 2 units and 2 requests on the way | 1.1 M |
| `client_runtime_gap` | violation: 2 threads that allocate and free, nothing fails | - |

Why the bounds are enough to be interesting: three connections let a late
hand-over of the first meet the third; four requests let two asynchronous ones
sit ahead of a call and one follow it; two sessions let an empty second one be
made for a client that is coming back (the property is that it is not); the
first id is chosen so that the ids wrap and skip 0 within the run. Two
addresses for three contexts make an address be used again, by this session or
another; two threads with stacks of two let one destroy what the other has on
top or underneath; one retired slot with one or two live ones lets a thread be
retired, trimmed, and call again. With the refusing driver the stacks promise
less, since a refused switch may mark a living context gone (`show_context`):
`ThreadsOfTheirOwn` speaks of the obedient one only. Three generations let a session's stamp
name one that ended two ago, by a reset or a last release; two handles let the
address of what went with a generation be given to the other session while the
first still lists it, and let a capture's graph live beside its stream. With
both a created context and three generations the inventory has 6.1 M states and
the same properties hold; the two bounds of its run keep it short.
For the operation path, three connections let two of them overtake each other
and a third recover, and an oversized message beside small ones passes the
limit and asks for an acknowledgement within three messages. For its tensors,
three operations of any kind meet in pairs; the longer programs are of the few
that need more to meet: a failure and what depends on it, a lost session and
the ids made again after it, a lost tensor and what is written from it, a graph
compiled and called, views of one storage that is written and uploaded to. For the pending work, two pieces let one be
settled for the other, and two contexts let a synchronize wait in the wrong one.
The run is of the default mode: with `RGPU_LAZY_SYNC=0` every synchronize is
awaited, and with 1 it promises nothing (`client/shim.cpp` 570).
For the client's library, one address, two handles and two lives make every
handle come back while a thread is still between a call and its record; two
threads are enough for that, since a record is raced by one other at a time.
Lengths of 0, 1 and 2 tell an absent buffer from an empty one, and one element
from more.
Deadlock is not checked: an application that makes no more calls leaves the system at rest,
and the bounds do too.

The properties:

- `RunsInOrder`, `OneSession`, `NothingSkippedWhileReplayable` say together
  that what the server runs is what the application asked for: in order, at
  most once, in one session, without a gap, except a call the application was
  told failed.
- `RepliesMatch`: the client never reads a reply that is not for the waiting
  call. The kept reply is resent by the handshake, and the answer to a copy is
  resent by the serving loop; both, or one for a call given up, would desync
  the stream.
- `GivenUpIsNotSentAgain`: a call the application was told failed does not run
  later behind its back.
- `AnswersAreTrue`, `ReportedOnce`, `NoFailureForgotten`: failures of calls
  without a reply reach their own thread, once, and are not lost, whatever is
  resent.
- `GoneIsFinal`: once told the session is gone, nothing of it runs and no
  connection is opened.
- `CallsReturn`: every call returns.
- `ThreadsOfTheirOwn`: to the application's threads, the one serving thread is
  as many threads as there are of them: what a call runs in, what it is
  answered and what it leaves are those of `ThreadContexts`.
- `OwnContextOrNone`, `NothingStale`: no request runs under another thread's
  context or mode, or under whatever was given the address of a destroyed
  context, however the driver refuses.
- `BelievesTheDriver`: what the switching takes the driver to have is what it
  has.
- `FreesItsOwn`: at expiry the driver is handed only what the session made and
  what still lives, though after a teardown freed it the other session may have
  been given the same address.
- `LeavesNothing`: an expired session leaves nothing but what is given up by
  design.
- `RetainsAreCounted`: the driver's references are the retains the sessions
  count, short by exactly those that clients released without having them. The
  server itself, through resets, last releases and expiries, loses none and
  gives none back twice.
- `IndexIsExact`: the reverse index, by which contexts are swept, names exactly
  what is listed.
- `OthersTakeNothing`: a session loses what it made to another session only
  with a primary context it does not retain - or by the last release, once some
  client has released a retain it did not have. The second case is the code's:
  see "Read on the way".
- `NothingSkipped` of `OpStream`: until the client raises, what any session
  applied is everything from the first message on. The same words as for the
  call stream; here a session made anew, whose first hello was lost, has to be
  noticed by its sequence number alone.
- `AnswersAreTrue` of `OpStream`: a wait is told the first failure since the
  last wait, whatever was resent or replayed.
- `NeverWaitsInVain`: no wait rests on the 300 s timeout while its connection is
  served: the kept reply, the replay and the check of generations fit together.
- `ServedIsAttached`, `LostIsTrue`: a session in use is not left to the reaper
  by a connection that ends, and "session lost" is raised only when it is.
- `AnswersAreTrue` of `OpTensors`: a read returns what the operations would give
  if nothing were remote, or raises the operation that failed first, rather
  than one that failed for want of a tensor.
- `HoldsWhatIsHeld`: with nothing under way the server holds exactly the tensors
  the application holds, through frees queued ahead of messages, failures and a
  lost session; but for the ids in `truth.leaked` ("Read on the way").
- `MarksCover`, `SynchronizeWaits`: a synchronize that is queued had nothing to
  wait for, but for the lapses named above.
- `AnswersAsTheDriver`: while the shim's record counts a retain the process holds
  one, and the flags it answers with are the driver's.
- `RunsOnItsDevice`: a runtime call runs in the living primary context of its
  thread's device, though most calls do not select it, unless a
  `cudaDeviceReset` of another thread overlaps it, or the application resets
  primary contexts through the driver's interface, of which the runtime is not
  told.
- `HandedOutIsKnown`, `OursIsLive`: the two records of device memory - one
  erased after the free, one before - know all the application holds (unless it
  was robbed, the finding below), and only what lives. Neither is told of
  memory that ends with its context, nor the shim of what `cudaFreeAsync`
  frees: the properties speak of applications that end no context, and the
  second of ones that make no such call.
- `ShippedOnce`, `LaunchesItsKernel`: a module's image crosses the network once,
  and a launch names its own kernel, packed by its own layout.
- `MarksItsStream`, `ScalarsAsRead`: the client's view of a library's handle is
  the library's, whenever a call is sent by it.
- `FinalizedAsMeant`: a backend descriptor that finalizes with success is the one
  the application built, though nothing that built it was answered.
- `AsIfLocal`: for each generated stub and every combination of null pointers and
  lengths, the driver sees what was passed and the application gets what the
  driver wrote.

Fairness (`FairSpec`, used by `call_stream_live` only): a client inside a call
goes on and gives up when its time is over, accept threads and the serving
thread run. These are threads the operating system schedules. Connections are
not promised to work, sessions are not promised to expire, no call is promised
to be made. Dialling is bounded (`MaxConns`); past the bound only giving up is
left, as it is when the time runs out.

### Findings

1. *The replay buffer's limit* (`call_stream_overflow`). `client/rpc.cpp`
   210-212 declares a session past the limit unrecoverable. Only
   `reconnect_locked` looks at `g_replay_possible`: the call whose connection
   breaks fails, and the next one connects, is resumed and goes on without the
   frames that were lost, whose `call_async` had returned success. In TLC's
   trace a later call runs though an earlier one never did.
2. *A recovery that was given up* (`op_stream_gap`). `rgpu/session.py` 3-5 says
   an op sent without waiting runs after everything before it. `_reconnect`
   checks that nothing is missing and replays; when it gives up, the next
   `_flush` connects by itself (292-294), looks at neither, and writes only what
   is pending. An operation whose `post` had returned is never applied, later
   ones are, and the next request succeeds.

3. *A free that forgets another's memory* (`client_runtime_gap`).
   `client/cudart_impl.cpp` 936 says the record of what was handed out is
   authoritative. `cudaFree` erases after the call (697, and 923 for
   `cudaFreeAsync`): another thread's `cudaMalloc` may have been given the
   address and noted it by then. Its memory is from then on a host pointer to
   `cudaMemcpyDefault`. The driver shim erases before the call and has no such
   gap.

Read on the way, not counted as findings.

In the call stream: the log "Should not happen" at `server/main.cpp` 657 does
happen when a handshake of an older connection is handed over late, and is
harmless; `common/wire.h` 35-38 is one off across the skipped 0 (above);
`client/rpc.cpp` 247-249 says that what stays in the replay buffer was told
success, but a `call_async` whose flush fails returns `CUDA_ERROR_UNKNOWN`
(632-633) and its frame stays and is sent again; a failure held for a thread is
taken along by its next answered call even if that has no status to return it
in (`cudnnGetVersion`, `cudnnGetLastErrorString`), though `server/main.cpp`
801-807 says it is not lost.

In the inventory: `server/inventory.cpp` 502-504 says that one client must not be
able to throw another tenant's memory away, and a reset is refused for that
reason; a release is not. The wrapper (487-498) makes it whatever the session's
own count, and the clamp (297-300) only sees to it that nothing is owed for it.
A session that releases more often than it retained drops references that other
sessions hold, and the last one destroys the context and what they made in it,
while their own records still count a retain. The comment at 297-299 knows of
it, so it is not counted as a finding; `RetainsAreCounted` and
`OthersTakeNothing` name the case.

In the pending work: memsets and copies that name no stream are not marked,
though `client/pending.h` 9-10 says a synchronize after a memset still waits
(`SynchronizeWaits` excepts them by name); a call that failed still settles
(against `client/shim.cpp` 586-588); `cuCtxSynchronize`, and a synchronize of
the default stream, settle the work of another context.

In the runtime: a cached function survives `cudaDeviceReset` and a second device
(`k.fn`); a cached occupancy outlives `cudaFuncSetAttribute`
(`client/cudart_impl.cpp` 1128-1161); a cuBLASLt pointer mode other than `HOST`
is taken for device pointers; a descriptor finalized by another thread than
built it is not told of the failures held for the builder.

In the generated stubs: `codegen/emit.py` 59-65 refuses arrays it cannot count,
but takes six functions' arrays for one element (`TakenForOne`:
`cuGraphGetEdges`, `cuDeviceGetPCIBusId`, `cuGraphicsMapResources` and
`...UnmapResources`, `cuTexRefGetBorderColor` and `...SetBorderColor`), which
`AsIfLocal` excepts by name; an output buffer of no bytes is refused; the
options of `cuLibraryLoadData` are ignored; `cuModuleLoad` and
`cuGraphDebugDotPrint` name files of the server's machine.

In the operation path: `Registry` (29-34) says a stale
connection cannot mark a session detached while a newer one is using it, but
generations follow the order of attaching, so an older connection whose hello
arrives late supersedes the newer one, and its end starts the grace period of a
client that idles; a wait that raised is not taken out of the queue
(`rgpu/session.py` 287-304), so the failure its late reply carries is dropped
with it (326); after `SessionLost` the connection goes on in the session its
own failed attempt made, whose minted ids start again and may be ids of tensors
the client still holds; ids to free are lost when the acknowledgement asked for
on their way raises the failure of an earlier operation (`rgpu/session.py`
141-150: the `except` there is for `EncodeError` alone, which 145-149 say has no
known trigger), and their tensors stay on the server for the rest of the
session; and an in-place write that failed leaves its tensor unpoisoned, so that a later read returns the old value
after the one exception.

## What is proved

With TLAPS, for every value of the constants that satisfies the named
assumptions of the modules (`HalfAssumption`, `FirstReqAssumption`,
`CallStreamAssumption`, `PendingWorkAssumption`, `ContextStacksAssumption`,
`InventoryAssumption`, `OpStreamAssumption`, `DriverShimAssumption`,
`RuntimeAssumption`, `KernelRegistryAssumption`, `MathsAssumption`). No assumption says how many threads, streams, contexts,
addresses, sessions or handles there are, but that a process has finitely many
threads (the retains under way are counted); the numbers that bound a module are
any natural numbers. The others say that the sets of names do not contain the
name for "none", that a program's threads begin on devices there are, and that a
program calls one of the maths libraries: the client's and the server's tables
of each are its own, and the model keeps them in the same variables.

| theorem | module | says |
|---|---|---|
| `MintFollowsIdFrom` | `CallStreamProofs` | the counter hands out `IdFrom` |
| `OrderOfIds` | `CallStreamProofs` | the comparison is the order of issue within `Window` |
| `TypeCorrect` | `CallStreamProofs` | `Spec => []TypeOK` |
| `OrderInvariant`, `OrderIsKept` | `CallStreamProofs` | `[]OrderInv`, and so `[]RunsInOrder` |
| `SessionsHold`, `AlwaysOneSession` | `CallStreamProofs` | `[]SessionsInv`, and so `[]OneSession` |
| `GoneHolds`, `GoneStaysGone` | `CallStreamProofs` | `[]GoneInv`, and so `GoneIsFinal` |
| `FramesHold`, `GivenUpStaysGivenUp` | `CallStreamProofs` | `[]FramesInv`, and so `[]GivenUpIsNotSentAgain` |
| `RepliesHold`, `RepliesAlwaysMatch` | `CallStreamProofs` | `[]RepliesInv`, and so `[]RepliesMatch` |
| `SkipsHold`, `NeverSkips` | `CallStreamHistoryProofs` | `[]SkipsInv`, and so `[]NothingSkippedWhileReplayable` |
| `TruthHolds`, `AlwaysAnswersAreTrue`, `AlwaysReportedOnce`, `NeverForgetsAFailure` | `CallStreamHistoryProofs` | `[]TruthInv`, and so `[]AnswersAreTrue`, `[]ReportedOnce`, `[]NoFailureForgotten` |
| `StacksHold`, `AlwaysBelievesTheDriver`, `NeverStale`, `AlwaysOwnContext` | `ContextStacksProofs` | `[]StacksInv`, and so `[]BelievesTheDriver`, `[]NothingStale`, `[]OwnContextOrNone` |
| `HistoryHolds`, `AlwaysThreadsOfTheirOwn` | `ContextStacksProofs` | `[]HistoryInv`, and so `ThreadsOfTheirOwn`: `ContextStacks` implements `ThreadContexts` |
| `ListsHold`, `InventoryTyped`, `RetainsAlwaysCounted`, `IndexAlwaysExact` | `InventoryProofs` | `[]ListsInv`, and so `[]TypeOK`, `[]RetainsAreCounted`, `[]IndexIsExact` |
| `TruthHolds`, `AlwaysFreesItsOwn`, `AlwaysLeavesNothing`, `OthersNeverTake` | `InventoryProofs` | `[]TruthInv`, and so `[]FreesItsOwn`, `[]LeavesNothing`, `OthersTakeNothing` |
| `OpStreamTyped` | `OpStreamProofs` | `[]TypeInv`, and so `[]TypeOK` |
| `AppliedInOrder` | `OpStreamProofs` | `[]RanInv`, and so `[]RunsInOrder` |
| `NotLeftToTheReaper` | `OpStreamProofs` | `[]AttachedInv`, and so `[]ServedIsAttached` |
| `LostOnlyWhenItIs` | `OpStreamProofs` | `[]LostInv`, and so `[]LostIsTrue` |
| `ToldTheTruth` | `OpStreamProofs` | `[]TruthInv`, and so `[]AnswersAreTrue` |
| `AppliedWithoutGap` | `OpStreamProofs` | `[]SkipInv`, and so `[]NothingSkipped` |
| `AnsweredOrComing` | `OpStreamProofs` | `[]WaitInv`, and so `[]NeverWaitsInVain` |
| `RuntimeHolds`, `AlwaysShippedOnce`, `AlwaysLaunchesItsKernel` | `ClientRuntimeProofs` | `[]RuntimeInv`, and so `[]ShippedOnce`, `[]LaunchesItsKernel` |
| `AlwaysAnswersAsTheDriver` | `ClientRuntimeProofs` | `[]ContextInv`, and so `[]AnswersAsTheDriver` |
| `AlwaysRunsOnItsDevice` | `ClientRuntimeProofs` | `[]DeviceInv`, and so `[]RunsOnItsDevice` |
| `AlwaysHandedOutIsKnown`, `AlwaysOursIsLive` | `ClientRuntimeProofs` | `[]MemoryInv`, and so `[]HandedOutIsKnown`, `[]OursIsLive` |
| `AlwaysMarksItsStream`, `AlwaysScalarsAsRead`, `AlwaysFinalizedAsMeant` | `MathsProofs` | `[]MathsInv`, and so `[]MarksItsStream`, `[]ScalarsAsRead`, `[]FinalizedAsMeant` |
| `MarksHold`, `MarksAlwaysCover`, `SynchronizeAlwaysWaits` | `PendingWorkProofs` | `[]MarksInv`, and so `[]MarksCover`, `[]SynchronizeWaits` |

### The call stream

`CallStreamAssumption` bounds the requests by `Window`; the code has no such
bound, but the two ids it ever compares are those of one batch and the request
before it, which are not 2^31 apart.

`TypeOK` is inductive as stated: besides types it says that every frame anywhere
names a request already made, that a client waiting on a connection has one, and
that a serving thread has a connection and, between reading and recording, a
request in hand.

*Order.* `RunsInOrder` is not inductive: a serving thread appends the request in
its hands to `ran`, so that request has to be past everything the session ran.
`OrderInv` adds this - while a request is in hand, `last_req < cur` and all that
ran is at or before `last_req` - and what makes it true at the start: a session
that is not yet served has run nothing, and it gets one serving thread, because
a session being founded is `"starting"` and belongs to one accept thread.
`last_req < cur` comes from `AlreadyRan`, on wire ids, through `OrderOfIds`. The
proof does not use the client at all: order and at-most-once are the server's
doing, whatever a client sends.

*One session.* `OneSession` is the client's doing. The server founds a session
for any handshake that does not ask to resume, however many there were; but the
client sends such a handshake once. Without a session a failed first attempt is
final (`connect_failed`), so no second connection is opened; with one, every
later handshake says that it resumes. `SessionsInv` says that, and that a
session in the making belongs to the first connection.

*Gone.* That nothing runs after the client was told so needs what the answer
means: a handshake that resumes is answered "fresh" only if the session had
finished or left the table, and both come after its serving thread ended.
`GoneInv` carries this from the server's state, along the answer on its
connection, to the client's `session_gone`.

*Given up.* `FramesInv`: the replay buffer and the queue are in the order of
issue, and hold no call but the one under way, which is the last request made;
so taking that one out when it is given up (`WithoutCall`) leaves none.

*Replies.* `RepliesMatch` is the deepest. The reply to the call under way may
still come from five places: the queue it waits in, the connection it was
written to, the serving thread that has read it, the accept thread that is to
resend a kept reply, and the way back. `OnlineInv` says that on the connection
in use it comes from one of them at most, that what is on its way back is that
reply, and that no other call is in any of them. `AheadInv` says that any other
call was answered or given up before, and `last_reply` is past it; the handshake
carries it (`HelloInv`), so that a kept reply is resent only for the call under
way and only when the client, which is told how far the server got, drops that
call from its replay (`KeptInv`: the kept reply is for a call at or before
`last_req`). A server step does one of four things to a connection - `Quiet`,
`Takes`, `Answers`, `Sends` - and the proof goes by those. The comparisons are
on wire ids, through `OrderOfIds`.

*Nothing skipped.* `NothingSkippedWhileReplayable` speaks of the moment a request
runs; `SkipsInv` follows the requests that have not run. `GotTo(s)` is how far a
session got, with what it has in its hands. Up to there it has run everything but
calls that are `Lost`, that is, given up, and it tells no client that it got
further (`DoneInv`). Past there the replay buffer has everything (`KeepsRest`), so
a replay that starts from what the handshake said leaves nothing out; on a
connection that works it is all queued or on its way (`SentRest`); and no
connection, working or broken, carries a request without those before it
(`GapFree`), since a write that fails, a break and a closed connection cut the end
off and a reading thread takes the head. So the next request a thread takes past
its at-most-once check has nothing before it that is not done. Copies on old
connections are harmless by the same argument. The invariant holds only while
`replay_possible`: one dropped buffer breaks `KeepsRest`, and the next reconnect
`SentRest` - which is the run `call_stream_overflow`.

*Answers.* The server computes a reply from what it holds for the calling thread
(`pending_async`), and the reply may then be kept, resent, replayed past or lost.
`TruthInv` says what every reply must be without regard to when it was made:
`AnswerTo(n)` is a function of what ran, what was made and what failed. It is the
call's own failure, or for a call that may carry one the first of `HeldFor`: the
earlier failures without a reply of the same thread which no call has told since
(`Tells`). The invariant has two parts. A session that serves holds for each
thread the `First` of what was not told up to `last_req` (`Recorded`); recording a
request moves that on by one (`HeldAfterAsync`, `HeldAfterCall`). And every reply -
in a session's hands, kept, on a connection, or read by the caller - is the answer
to its call (`Truthful`, `Answered`). An answer once given stays the answer because
the history only grows at its end (`AnswerSame`): the session runs nothing at or
before what it recorded, and there is one session that runs anything. Those two
are `OrderInv` and `SessionsInv`; with `FramesInv`, `GoneInv` and `RepliesInv`, which say
that the reply read is the one to the call that waits, this invariant stands on the
earlier ones and says nothing of ids itself. The three properties follow from
`AnswerTo` alone: what is told is a failure that was held; two calls cannot both be
told it, since the first of them `Tells`; and with success nothing was held, so a
call in between told what was, or was given up while it would have.

### Context stacks

`StacksInv` ties three views of a context together: an entry of a stack names
the context it was made of, which lives, or is marked gone, so that an address
given again is told from the old context; what the serving thread believes to
be current is what the driver has there; and a call is made only when the
stack of its own thread is shown. The last two hold but for two named moments,
between the driver's destroying a context and the sweep of the stacks, and
between a call that selects a context by itself and the look that follows it;
`StacksInv` says what holds in each. It needs no assumption on the driver:
`BelievesTheDriver`, `NothingStale` and `OwnContextOrNone` hold for one that may
refuse every switch.

*Refinement.* With a driver that refuses no switch, every step of
`ContextStacks` is a step of `ThreadContexts` or a stutter
(`StepImplemented`). The abstract call is one step with its answer, and takes
place where the handler ends; what the session does before (the switch, the
look at the stack) is a stutter, and the reply is the abstract `Return`. A
destroy is the abstract one at the moment the driver destroys; the sweep of the
stacks that follows is a stutter, since the abstract stacks name contexts and
not addresses. A create with a full stack is the abstract refusal, and to
forget a retired slot is part of `Announced`. `HistoryInv` says why the mapping
holds: no context lives at two addresses and each is made later than all before
it (`NoTwoHomes`, `Dated`); an entry is of a context of the session that is
found at the entry's address and not marked, or that does not live
(`SlotsTruthful`); while a destroy is under way its address is given to others
only (`Going`); a handled request has an answer (`Answered`); only announced
threads' slots are retired (`RetiredAreGone`). `SlotsTruthful` is the one part
that asks for the obedient driver, as `ThreadsOfTheirOwn` does: the threads of
`ThreadContexts` have no switch that could be refused.

### Inventory

`ListsInv` is what the locks protect: who is inside `primary_mu` and `live_mu`,
and what no other session can then be at; that a session's lists are empty
before it is live and after they were swept; one entry to a handle; the index
and the count of retains. Retains are counted as a set of pairs, so that one
more or less is one element more or less. A release takes a reference and either
an element of that set or, the session having none, one more `overdrawn`
(`CountOverdraws`); retains given up when the driver refuses were all overdrawn,
since `refs` is 0 (`CountGivenUp`). That another session's release cannot be the
last while this one holds a retain (`LastReference`) follows by counting, and
only while nothing is overdrawn: that is the case `OthersTakeNothing` names.

`FreesItsOwn` and `LeavesNothing` are not inductive: they speak of the moment an
object is freed, and of the end. `TruthInv` says of every moment before that what
is on the lists is true (`EntriesTrue`: if an entry is current - not of the
primary context, or stamped with the generation that lives - its object lives,
is the session's, and is in the context the entry names), and that all that is
true is on the lists (`NothingForgotten`), except what is in the hands of the
release. That needs whose contexts are whose (`ContextsOwned`) and which stamps
occur (`Stamped`): the entry of an object that went with a generation is kept,
but no later generation bears its stamp, and so the handle is freed neither for
it nor for the session that was given it again.

### The operation path

All six invariants the run `op_stream` checks are proved, besides the types. They
stand on what each step does to one connection (`NetInv`): connections are dialed
one after another, only the one in use is not closed and has answers that
anybody reads, the answer to its hello comes first, and nothing is sent before
that is read.

*Order.* `RanInv`: what a session applied rises, and ends with what the session
counts as applied. Nothing about the client is used.

*The reaper.* `ServedIsAttached` is about two threads of one session.
`GenInv` says that they never have the same generation, and that none is newer
than the registry's; `AttachInv` that while the registry counts the session as
detached, the newest of them is over. So one that ends may detach only if it is
the newest, and the others no longer may serve.

*Session lost.* To raise that, the client must have been answered that there is
no such session, or miss messages. `LostInv` follows both: while no session was
removed, a client that had a session is answered that it has; and, the replay
limit not passed, all that is gone from the replay buffer (`Gone`) was applied,
since it is only dropped for what an answer attested.

*Answers.* `TruthInv` says what is kept of failures in terms of the history: the
session's `err` is the first failure nobody was told, its kept reply is true and
is of the last message waited for, and so is every reply on its way and every
one that was told. It does not change when a reply is resent or read twice.

*Nothing skipped.* As in the call stream, with three parts that are this path's
own: the connection's batch is part of what is on its way (`Coming`), since the
server takes several messages at a time; what is pending is past all that was
sent, so that no message is sent twice on one connection (`PendingInv`,
`OrderInv`); and a client that never was answered a hello has everything pending
(`Holding`), so that a session made by a hello that was lost starts from the
first message. That the answer to a hello is still true when it is read needs
`HelloInv`, since older connections may go on applying in between.

*No wait in vain.* `AwaitInv`: while the client awaits a reply on a connection
that is served, either the reply is on it, or the message is and the session has
not come to it. The hard case is a reconnect. The thread writes the answer to
the hello and resends the kept reply in one step (`GreetInv`), so a session that
has come as far as the client brings its reply along, and one that has not is
sent the message again; and no older connection may serve in between
(`MayServe`), or it would have answered on its own socket.

### Pending work

`MarksInv`: work whose mark was not lost is on the record, also while the call
that launched it is still to be sent; a waiting call that was answered has
nothing left ahead of it; and what a synchronize is owed is ahead of it. It holds
in every mode, for the synchronizes that wait in that mode.

### The client's library

The theorems are of `ClientRuntime`'s specification: the threads take every step
of every module it composes. The maths libraries and the stubs leave alone what
the first four invariants speak of, and the others what the last one does.

*Kernels.* `RuntimeInv` adds to the types what a launch has in its hands. While
a thread resolves a kernel it holds `reg_mu`, and an image that was sent is
marked tried first, so it is sent once (`ShipInv`). `FnInv` says that a handle
the registry keeps for a kernel is the driver's handle of that kernel; that a
layout is of the function whose handle it is kept by, unless the handle was
given out again since (`renamed`); and that the launch in a thread's hands is by
the handle its kernel resolved to.

*Contexts.* `AnswersAsTheDriver` compares two counts between which every thread
may have a call under way. `PlaceInv` says where a thread can be: which call of
the shim belongs to which step of the runtime, who holds `ctx_mu`, and who is
about to retain what is not retained yet. `DevInv` then counts, around the
retains the process knows of (`Held`, the application's and the runtime's): the
driver has no fewer than those and the ones answered and not yet recorded, and
the record no more than those and the releases not yet taken off it; so once no
call is under way, the record counts no more than the process holds. The flags
on record are the driver's, or a call that will correct them is under way, or
two overlapped (`doubted`); a call that believes itself alone overlaps none.

*The device a call runs on.* `GenInv` relates three things a thread read at
different times: the generation it selected in, the context the server has
current for it, and the life of that context. While no thread is in a
`cudaDeviceReset`, who selected in the present generation has current the living
context of its device, and the runtime holds the retain that keeps it so; and a
call no reset overlaps still has the present generation when it runs, though it
compared them some steps before.

*Memory.* Both records are about an address that several threads may be busy
with, one freeing it, one being given it. `MemInv` gives every address at most
one claimer - the thread that frees it until the driver has, or the thread that
was given it until it is noted and handed out - and says that what is claimed or
handed out lives, that what is handed out is known unless robbed, and that the
shim has forgotten what is about to be freed. A thread that only has its forget
left (`Freers`) is not a claimer: that is the robbery, and exactly that is
excepted.

*The maths libraries.* The properties speak of the moment a call is sent, and
the record was made by calls long before. `HandlesInv` says, value by value,
that the record of a handle the application holds is the library's attribute,
or that the call under way on it, of which there is one, is about to make it so
- after the answer or before the call, as the library does it; and that a value
nobody holds has a record only while a thread is about to erase it. So a handle
under a value given out again starts with none, or is in `unsure`. Minted
descriptors need no such care, since the number is not minted again (`MintsInv`:
what is not minted yet resolves to nothing and has no record), but two of them
must never name one object; `WidthsInv` then says what is remembered is the
width of the object the handle resolves to. `BuiltInv` follows a failure nobody
was answered: a descriptor has the part it was given, or the thread that gave it
is held a failure for it (`unsaid`), and a finalize that answers with success is
of a thread that was held none. The calls of one library leave alone what is
said of another (`HandlesElse`, `MintsElse`).

### What is only model-checked

- `OpTensors`, whose operations depend on one another through views, graphs and
  ids, and `GeneratedStubs`, whose property is of 252 rows of a table: its
  requests are written and read by recursion over a row.
- `CallsReturn`: liveness is out of the prover's reach.

## Not modelled

`PROJECT.json` lists every component with its status. What is left out of the
modelled ones, and why:

- several clients against the cap of sessions, the limits before the handshake,
  the failures held in retired thread slots: planned (above).
- virtual-memory ranges and their mappings, captures of the default streams,
  several devices in one inventory: planned.
- the marshalling of the runtime's and the maths libraries' own messages, the
  widths of scalars in any message, training batch normalisation and algorithm
  queries: no state of their own. For the driver's generated calls the
  marshalling is modelled.
- host memory, launches of graphs, symbol lookup, the last error and the
  launch-configuration stack of the runtime, which are each one thread's own.
- after a loss, batches the lost session had already applied may be replayed
  into the new one; `OpTensors` loses them with it.
- ids let go while an acknowledgement is asked for, which its own `_queue` would
  take along: `OpTensors` sends them with the next message.
- a graph whose message asks for an acknowledgement while its frees do; refused
  operations; tracing, autocasting and the choice of operations, which are
  torch's semantics.
- frames as bytes, statistics, logs; the parsing of headers in `codegen/`, whose
  outcome is modelled; tests and fakes; the experiment under `jax/`, packaging
  and demos.
