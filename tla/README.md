# A verification project for MediaProcessor

MediaProcessor is a media server written from scratch: a web page uploads an image or a sound with a
pipeline of effects, and the server answers with the processed file. This directory models the
server in TLA+, checks the models with TLC on small instances and proves the properties that matter
most with TLAPS. Line numbers below are those of the repository's files.

## 1. The system

### Components

| component | state | operations | interacts with |
|---|---|---|---|
| Event loop, `main.cpp` | `clientMap`, `result_queue`, the batch of epoll events, the epoll interest of every socket | wait, accept, take results, read and parse, write, drop | all below; the kernel |
| `TCPServer`, `TCPConnection` | the listening socket, `next_conn_id_`; a descriptor, an identifier, a parser, a response | `accept_conn`; the destructor closes the socket | event loop |
| `HttpRequest` | `buffer_`, `state_`, `headers_`, offsets, the parsed fields | `feed`, `reset`, `take_file_bytes` | event loop |
| `HttpResponse` | `headers_`, `file_bytes_`, `bytes_sent_` | `load`, `write_some`, `reset` | event loop, the socket |
| `ThreadPool` | worker threads, a `SafeQueue` of tasks | `submit`, the worker loop, the joining destructor | event loop, tasks |
| `SafeQueue` | a queue, a mutex, a condition variable, `shutdown_flag_` | `push`, `pop`, `try_pop`, `shutdown` | event loop, workers |
| Shutdown | `running`, the signal handlers, the order of destruction at the end of `main` | SIGINT/SIGTERM, leaving the loop | everything |
| `Pipeline` | the list of effects, two buffers | parse the pipeline string, `process`, `encode_image` | compute tasks, effects |
| Image and audio effects | none | `apply(src, dst)` | `Pipeline` |
| `AudioIO` | an in-memory file and its position | libsndfile's callbacks: seek, read, write, tell | `Pipeline`, libsndfile |
| `frontend.html` | the page | a preflight and a POST at a time, waits for the response | the server, by HTTP |

A request travels like this. The event loop's thread accepts a connection, reads it until `EAGAIN`
and feeds its parser. A complete POST becomes a task: a lambda that captures the descriptor *and*
the connection's identifier, handed to the pool through its queue. A worker runs the pipeline, pushes
the result with both numbers onto `result_queue`, and writes to an eventfd. The eventfd wakes the
event loop, which drains it, pops all the results, loads each into the connection it belongs to (if
that connection is still there), and arms `EPOLLOUT`. Writing goes on whenever the socket has room.

### What is hard here

* **Edge-triggered epoll** (`EPOLLET` everywhere): an event tells of a change. Whoever leaves a loop
  before `EAGAIN`, or forgets to re-arm, strands data for ever, and tests rarely have the timing.
* **Descriptors are reused**: a job outlives its connection, and its descriptor may belong to someone
  else when the result comes.
* **Two threads and a doorbell**: results are pushed and then signalled by workers, drained and then
  popped by the event loop.
* **Batches**: a batch of events is handled after it was returned; what it says may be stale, since
  the eventfd's handler may close a connection that has an event further on.
* **Failure paths**: `epoll_ctl` refusals, resets, half-closes, exceptions from a task, from
  `write_some`, from `accept_conn`.
* **Byte streams**: requests come in pieces, or several at once; responses leave in pieces.
* **Shutdown**: a flag tested before a wait without timeout; objects destroyed in an order that
  matters to threads still running.
* **Numeric edges** in the effects and in the in-memory audio file.

PROJECT.json lists these hazards at their lines with the properties that would catch them, and says of
the others, those that the code is exposed to and no text promises anything of included, why none does.

### What makes each component correct

* Event loop: a result reaches its asker or nobody; no descriptor leaks or is shared; no edge is
  lost; every request of a client that stays is answered; no client's departure ends the server.
* Parser and response: a request's outcome depends on its bytes and not on how they are cut; what a
  client receives is whole responses, in the order of its requests.
* Queue and pool: every task submitted runs once; no wake-up is lost; shutdown ends.
* Pipeline and effects: an effect writes every sample of its destination, reads inside its source,
  and computes its definition; the in-memory file behaves as a file.

## 2. The modules

Three groups, that meet where one uses another by an abstraction:

* **The server**: `EventLoop` EXTENDS `Network` EXTENDS `HttpResponse` EXTENDS `HttpRequest`.
* **The threads**: `Shutdown` EXTENDS `ThreadPool` EXTENDS `SafeQueue`, which INSTANCEs
  `ClosableQueue`. `EventLoop` has the two queues as atomic sequences, which `SafeQueue!Implements`
  justifies, and its compute tasks as one step that yields a result or throws.
* **The tasks**: `Pipeline` EXTENDS `ImageEffects`, `AudioEffects` and `AudioIO`, and INSTANCEs
  `Transform`; `Dithering` EXTENDS `ImageEffects`. This is what a worker does before `PushResult`
  or `TaskThrows` of `EventLoop`.

| module | models | kind |
|---|---|---|
| `HttpRequest` | `server/http_request.cpp` | operators: the parser as a record, `Feed(parser, tokens)` the set of parsers `feed` may leave |
| `HttpResponse` | `server/http_response.cpp` | operators on the response record |
| `Network` | kernel and clients, as `main.cpp` uses them (external) | state machine of the surroundings |
| `EventLoop` | `main.cpp`, `server/tcp_*.cpp`, `concurrency/thread_pool.cpp`, queues as atomic FIFOs | the server while it runs, `Spec` and `FairSpec` |
| `ClosableQueue` | what a queue promises: an atomic FIFO that can be closed | abstract specification |
| `SafeQueue` | `concurrency/safe_queue.hpp` at the level of its mutex and condition variable | state machine; implements `ClosableQueue` |
| `ThreadPool` | `concurrency/thread_pool.cpp` on a `SafeQueue` | workers, owner, destructor |
| `Shutdown` | `main.cpp`: signals, the loop's test and `epoll_wait`, the end of `main` | `main()` as the owner of a `ThreadPool` |
| `Transform` | what the server promises whoever uploads a file | abstract specification |
| `ImageEffects`, `AudioEffects` | `transform/effects/*.cpp` by the indices they read and write | operators on buffers |
| `AudioIO` | `transform/audio_io.cpp`: the in-memory files | operators on a context |
| `Pipeline` | `transform/pipeline.cpp` and the encoder's loop | a task from its text to its answer; implements `Transform` |
| `Dithering` | the integer arithmetic of `ordered_dithering.cpp` and `floyd_steinberg.cpp` | one pixel a step |
| `MCEventLoop`, `MCSafeQueue`, `MCThreadPool`, `MCShutdown`, `MCPipeline`, `MCDithering` | | instances for TLC |
| `EventLoopProofs`, `RoutingProofs` | | the second EXTENDS the first: types and the doorbell; descriptors, identifiers and results |
| `EdgeProofs`, `ReplyProofs` | | each EXTENDS `RoutingProofs`: epoll's edges; whole responses in the order of the requests |
| `PoolProofs`, `ShutdownProofs` | | the second EXTENDS the first: the queue, its refinement and the pool; the end of `main` |
| `TransformProofs`, `DitheringProofs` | | the text of a pipeline, every step of a task, effect by effect, the encoder's loop and its file, the refinement of `Transform` and the reach of every effect; the shades, the light and the buffer of the error diffusion; the tones of the ordered dithering |

### Abstractions

* **Bytes** are tokens on the way in (a request is a `head` and, unless it is a preflight, a `body`)
  and units on the way out (a response is a unit of headers and, unless it is a 204, one of body). A
  token or a unit carries the request it is of, which the code's bytes do implicitly. Cutting within a
  head or a body is not distinguished: `feed` does nothing then but append and search again.
* **Requests** have a kind, the outcomes the code tells apart: `post`, `throws` (accepted by the
  parser, its task throws), `options`, `put` (complete, and `main` serves no such method),
  `badhead`, `badbody`. A token that stands where the parser does not expect it is parsed as the code
  would: leftover body bytes are looked through for the blank line that ends headers, and a request
  line behind leftovers is not seen as one (`ReadLeftovers`, `ReadHead` with `i > 1`).
* **Time** between actions: one action is one turn of a loop of `main()`, namely `epoll_wait`, one
  `accept_conn`, the drain of the eventfd, one `try_pop` with what follows, one `recv` with the feed
  and all that `main` does with it, one `send`. Workers and clients step in between. `pc` says where
  the loop stands. The order of the events in a batch is any order.
* **epoll**: `ready` is the ready list; an arrival, a full send buffer that gets room, a departure and
  a write to the eventfd put the source on it if its interest asks for the event; `epoll_ctl` ADD and
  MOD look at the source at once (`Rearm`), which the code relies on at lines 104, 131 and 194;
  `epoll_wait` takes up to `MaxEvents` sources off the list and reports what holds then (`Revents`).
* **Leaving**: `"fin"` (closed: the server reads 0; what it still sends is answered by a reset, after
  which `send` raises SIGPIPE) or `"rst"` (reset: data already received can be read, then an error).
* **Descriptors** are a finite set, reused at once when closed; identifiers are never reused.
* **Undone**: spdlog, the HTTP text, the pipeline's parameters; `read`/`write` errors of the eventfd
  other than `EAGAIN`; errors of `setNonBlocking`; failures before the loop starts.

* **The queue's steps** (`SafeQueue`): a thread calls an operation, takes the mutex, does its critical
  section and releases the mutex, notifies; others step in between any two. `cv_.wait` releases the
  mutex as it starts waiting; a thread that is notified, or wakes for no reason, must take the mutex and
  test again. `queue_` holds numbers, the n-th value pushed being n: what the values are is of no matter
  to the queue, and equal values would hide a duplicate. In `ThreadPool` a task is such a number, and
  running it an instant; that it may throw makes no difference to the pool.
* **The end** (`Shutdown`): a signal is handled in the main thread. The logger is a point of `main()` at
  which its mutex is held. A batch of events is one point too, at which tasks may be submitted; what the
  events are is in `EventLoop`. A push into the destroyed `result_queue` is undefined: it does nothing
  worse than be noted in `late`, or ends the process (`"dead"`).
* **Samples** (`Pipeline`, `Transform`) stand for what they were computed from, the set of the uploaded
  samples, and `{}` for a constant: a sample from the wrong place, a stale one and one left out differ,
  weights and thresholds do not show. Pictures have three or four channels.
* **Texts and files**: a pipeline's text is a sequence of words and separators; a sound's file is a
  sequence of units, of its header or one sample each. What libsndfile does between the callbacks is
  external: it writes a header, some frames of each chunk (perhaps fewer than asked), and the header
  again.
* **Shades** (`Dithering`) are integers with the code's integer divisions (of numbers that are never
  negative, so that C++'s truncation and TLA+'s `\div` agree); one channel, since the three are treated
  alike and apart.

### State and code

`clientMap`, `nextConnId`, `jobs` (the pool's queue), `results` (`result_queue`) are the program's own;
`cur`, `curOut` and `batch` are the loop variables `events[i]`, `events[i].events & EPOLLOUT` and the
rest of `events`; `stage[w]` and `task[w]` are a worker's program counter and its task. The comment on
each action names what it stands for, PROJECT.json maps each definition to its lines. The branch at
`main.cpp:166-174` (a client with data and not in `clientMap`) has no action: `FdsOwned`, checked and
proved, is the reason it cannot be taken. `SendAbsent`, its sibling at 270-279, can.

In `SafeQueue`, `queue_`, `mtx_` and `shutdown_flag_` are the members of the class, `at[t]` is where
thread t stands (the set of threads at `"waiting"` is what `cv_` holds) and `item[t]` what its last
`pop` or `try_pop` gave it. `ThreadPool` adds `worker[w]`, where a worker stands in its loop, and
`owner`, where the thread that owns the pool stands in its life. In `EventLoop` the two queues are
sequences: `Implements` says why that is enough, and `result_queue` is never shut down.

`Shutdown` keeps `running`, and `point`, where `main()` stands between the loop's test (`main.cpp:84`)
and its end; `owner` and the calls are those of `ThreadPool`, since `main()` is the pool's owner
(`MainOwnsPool` is the theorem that says so). `missed`, `batches`, `idleAtEnd` and `late` only record
what happened, for the properties.

In `Pipeline`, `A` and `B` are `bufferA` and `bufferB` (swapped by an `Apply`), `ctx` is the
`WriteContext`, `framesLeft` and `current` are `frames_left` and `current_ptr`, `pc` is where the task
stands. The operators have the code's names; `Kernels` are the three tables of
`floyd_steinberg.cpp`. In `Dithering`, `pixel` is where the two loops stand.

## 3. What is checked

| run | instance | expects | shows |
|---|---|---|---|
| `routing` | 2 clients, 2 descriptors, 2 workers, one request each (post, throws, options), closing or reset at any time, 1 refused `epoll_ctl` | pass | `FdsOwned`, `RepliesReachAsker`, `ResultsDelivered`, `NoLostResult`, `NoStrandedInput`, `NoStrandedOutput` |
| `pipelining` | 2 clients that send 2 requests without waiting, 1 descriptor, 1 worker, 1 refused `epoll_ctl` | pass | `TypeOK`, `RepliesReachAsker`, `NoLostResult`, `NoStrandedInput`, `NoStrandedOutput`, where requests run into one another in a `recv`, are rejected, unserved or overtaken |
| `sequential` | 2 clients, 2 requests each, waiting, reset at any time | pass | `WholeResponses`, `RepliesInOrder` |
| `liveness` | a client that sends a preflight and a POST beside one with a single request, good or rejected, each of which may be reset at any time; a send buffer that fills | pass | `EveryRequestAnswered` under `Fairness` (`FairSpecOfPair` fixes whose script is whose) |
| `safe_queue` | 3 threads that push (3 values), pop, poll and shut down at will, spurious wake-ups | pass | `QueueTypeOK`, `NoLostWakeup`, `ShutdownReachesAll`, and `Implements`: `SafeQueue` implements `ClosableQueue` |
| `thread_pool` | 3 workers, up to 3 tasks, destruction at any time | pass | `TypeOK`, `EachTaskOnce`, `JoinedMeansDone`; `EveryTaskRuns` and `PoolStops` under `FairSpec` |
| `shutdown` | 2 workers, up to 2 tasks, 2 signals at any moment | pass | `AllTypeOK`, `WaitsOnlyIfMissed`, `OneMoreBatch`, `IdleEndIsClean`; `StopsUnlessMissed` under `FairSpecAll` |
| `pipeline` | every list of one or two effects on pictures up to 3 by 3 and sounds up to 5 frames, short writes and failures, odd requests | pass | `TypeOK`, `EncodedInOrder`, `OnlyForAReason`, `MeansOverPixels`, `GetsToEnd`, and `Implements`: `Pipeline` implements `Transform` |
| `dithering` | every 3 by 2 picture of three shades, flat and two-shade pictures up to 8 by 8, two matrices, three kernels, four numbers of levels | pass | `TypeOK`, `NoLightCreated`, `ShadesAsAsked`, `ToneKept` |
| `throws` | 1 client, a preflight and a POST whose task throws | violation | finding 1 |
| `write_error` | 1 client that may close | violation | finding 2 |
| `keep_alive` | 1 client, a request rejected at its headers, then a good one | violation | finding 3 |

**Bounds.** Two clients are what reuse of a descriptor, confusion of two connections and a mixed batch
need, and one descriptor for two clients is what reuse with certainty, and `accept` without a free
descriptor, need. `MaxEvents` 2 makes batches that leave something on the ready list (sources are up to
four) in the safety runs. `SndBuf` 1 makes every response of two units meet a full buffer. `MaxFaults` 1
takes every failure path of `epoll_ctl`, one at a time. Scripts are short because requests of a
connection interact only with their neighbours: `reset` leaves nothing behind a response but what the
next request finds. Every action fires in some passing run. In the queue, three threads are two that
wait and one that pushes or shuts down, with which a notification can go to the one or the other, come
late, or find nobody; three values are one more than the threads that can wait for them. Two signals are
one more than changes anything, and put the second wherever the first has taken `main()`. Pictures of 3
by 3 with blocks of 2 and 3 have blocks that are whole, partial to the right, below and in the corner,
and kernels and blurs that meet every edge; two effects are what makes a buffer stale, and sounds of
four and five frames with `CHUNK_SIZE` 2 are encoded in several chunks, the last of them whole or not.
Steps of 2, 3, 12 and 16 levels reach 255, 254, 253 and 255. `MaxNumber` bounds the parameters a text
can hold. Symmetry is used in safety runs only.

**Deadlock** is checked for `pipeline` and `dithering`, where only the end is the end. For the others
it is not: a server without clients waits in `epoll_wait` for ever, and a model in which every script
is sent has nothing left to do; a process killed by SIGPIPE or by an exception that leaves `main`
(`pc = "dead"`) stops; threads may all wait on a queue to which nobody pushes, and a destroyed pool
does nothing more. That it does not stop *early* is what `NoLostResult`, `NoStrandedInput`,
`NoStrandedOutput`, `EveryRequestAnswered`, `PoolStops` and `StopsUnlessMissed` say.

**Fairness** (`FairSpec` of `EventLoop`): weak fairness of the event loop's thread and of every worker
(the operating system schedules runnable threads; none of them holds a lock here), and of each client
that stays: it sends what it means to send and receives what has come. None is assumed for connecting,
leaving, or a refused `epoll_ctl`. In the liveness runs `MaxEvents` is at least the number of sources:
the kernel's ready list is a FIFO, so that a source on it is reported after finitely many waits; the
model takes any subset, which for a smaller `MaxEvents` would let it pass over one source for ever.
`FairSpec` of `ThreadPool`: weak fairness of every worker and of what its owner has begun, and only
finitely many spurious wake-ups. No fairness of the mutex is assumed: the calls are finitely many, so
that only a thread which woke for no reason again and again could keep the mutex from the others. A task
comes to its end: `Pipeline!GetsToEnd`, checked and proved, says that each of its steps is one towards it, and the effects
are loops over a finite image or sound. `FairSpecAll` of `Shutdown` is the same for the pool under
`main()`; no fairness of signals and of clients, so that a server is seen to end without a client doing
anything more.

Each property has a mutant: a definition of the model changed as a slip in the code would (the
identifier not compared, `if` for `while` around `try_pop`, one `accept` per event, `EPOLLOUT`
forgotten, the socket closed and the entry kept, `bytes_sent_` not reset, ...), under which TLC finds
the property violated. The slips stand in the modules, each before the definition it would replace
and marked *A slip*.

### Findings

1. **A task that throws leaves its client waiting for ever** (`throws`). `thread_pool.cpp:12-18` logs
   the exception; nothing is pushed and the eventfd is not rung. The page offers a "Volume" effect
   (`frontend.html:247`) that `make_audio_effect` does not know (`pipeline.cpp:50-53`), so that this
   happens to a user of the page, to whom `README.md:4` promises "press apply and voila!".
2. **A failed write can end the process** (`write_error`). `main.cpp:284-291` means to drop one
   connection, but `send` is called without `MSG_NOSIGNAL` and SIGPIPE is not ignored.
3. **A 400 that keeps the connection alive desynchronises it** (`keep_alive`). `main.cpp:187` says
   keep-alive and `main.cpp:201` resets the parser, with the rejected request's body still to come:
   it is parsed as a request, and the next response the client receives answers nothing it sent.

`Shutdown` shows three ways in which a signal does not end the server as intended, which no text of the
repository rules out and which are therefore in the properties' exceptions and no findings: a signal
between the loop's test and `epoll_wait(-1)` is noticed only with the next event (`missed`,
`main.cpp:85`); one that arrives while `main()` is in the logger makes the handler wait for `main()`'s own
mutex (`stuck`, `main.cpp:35`); and tasks that end after the loop was left push into the destroyed
`result_queue`, since `thread_pool`, declared before it, is destroyed and joined after it (`late`,
`main.cpp:73`).

`Reverse` does not reverse a mono sound with an odd number of frames: `reverse.cpp:18` computes the
middle's index as `(frames*channels)/2-1`, which is right for two and three channels only. The theorem
`OddMonoNotReversed` proves it for every such sound of three frames or more, `SoundsReversed` that every
sound with an even number of frames, or with two or three channels, is reversed. Of a mono sound of one
frame that index is below 0, and the write at `reverse.cpp:20` is out of bounds.

For an image whose format is neither jpg nor png, `encode_image` writes nothing and then tests a `res` that
was never set (`pipeline.cpp:137-145`): the client gets an empty 200 or, if the task throws, no answer at
all. The page's file input takes any image (`frontend.html:166`), and `stb` decodes formats, gif and bmp
among them, that are not written. `EncodeOtherImage` takes either outcome, and `OnlyForAReason` and
`Implements` except these formats: of an undefined read there is nothing to promise.

Two limits are modelled and are no findings, since nothing in the repository promises otherwise: with
*pipelined* requests the code loses bytes (`reset` clears the buffer), answers out of order and may
load a response over one half sent, which is why `WholeResponses` and `RepliesInOrder` are stated of
clients that wait, as the page does; and a request with another method than OPTIONS and POST wedges
its connection (`main.cpp:204-267`).

## 4. What is proved

For any sets of clients, descriptors and workers, any scripts, with or without pipelining, any ways of
leaving and any number of refused `epoll_ctl` calls; any threads, tasks and signals; any pictures and
sounds. The assumptions are the named ones on constants, and TLC evaluates them in every run:
`DescriptorsDistinct`, `SndBufPositive`, `ScriptsAreKinds`, `PipeliningIsBoolean`, `LeavingIsKnown`,
`MaxFaultsIsNat`, `MaxEventsPositive` for the server; `FreeIsNoThread`, `NothingIsNoItem`,
`MaxPushesIsNat`, `ThreadsAreFinite`, `PoolThreads`, `PoolHasWorkers`, `MaxSignalsIsNat` for the
threads; `HeaderSizePositive`, `ChunkPositive`, `NumbersAreWords` (of the words of a text), `UploadsTyped` (a
file is a picture of three or four channels or a sound; the effects are the page's, `PageEffects`, with
numbers in the ranges of its sliders, `PageNumbers`, and its three kernels; `Reverse` is not asked of a
sound of one sample, where the code writes out of bounds), `PicturesAreGray`,
`SizesArePowers` (the page's range, powers of two up to 64) and `LevelsHaveStep` for the tasks.

| theorem | statement |
|---|---|
| `EventLoopProofs!TypeCorrect` | `Spec => []TypeOK` |
| `EventLoopProofs!ResultsAreNoticed` | `Spec => []NoLostResult` |
| `EventLoopProofs!FeedOver` | the parser holds only tokens it was fed |
| `RoutingProofs!DescriptorsOwned` | `Spec => []FdsOwned` |
| `RoutingProofs!ResultsReachAsker` | `Spec => []RepliesReachAsker` |
| `RoutingProofs!ResultsAreDelivered` | `Spec => ResultsDelivered` |
| `EdgeProofs!InputIsNoticed` | `Spec => []NoStrandedInput` |
| `EdgeProofs!OutputIsNoticed` | `Spec => []NoStrandedOutput` |
| `ReplyProofs!ResponsesAreWhole` | `WellFramed` implies `Spec => []WholeResponses` |
| `ReplyProofs!ResponsesAreInOrder` | `WellFramed` implies `Spec => []RepliesInOrder` |
| `PoolProofs!QueueTypeCorrect` | `QueueSpec => []QueueTypeOK` |
| `PoolProofs!NoWakeupIsLost` | `QueueSpec => []NoLostWakeup` |
| `PoolProofs!ShutdownReaches` | `QueueSpec => []ShutdownReachesAll` |
| `PoolProofs!QueueImplements` | `QueueSpec => Implements`, that is `ClosableQueue`'s `Spec` |
| `PoolProofs!PoolUsesQueue` | `Spec => QueueSpec`, `Spec` being `ThreadPool`'s |
| `PoolProofs!PoolTypeCorrect` | `Spec => []TypeOK`, likewise |
| `PoolProofs!TasksRunOnce` | `Spec => []EachTaskOnce` |
| `PoolProofs!JoinedAllDone` | `Spec => []JoinedMeansDone` |
| `ShutdownProofs!MainOwnsPool` | `SpecAll => Spec`, from `Shutdown` to `ThreadPool` |
| `ShutdownProofs!AllTypeCorrect` | `SpecAll => []AllTypeOK` |
| `ShutdownProofs!WaitsNoMore` | `SpecAll => []WaitsOnlyIfMissed` |
| `ShutdownProofs!AtMostOneBatch` | `SpecAll => []OneMoreBatch` |
| `ShutdownProofs!IdleEndClean` | `SpecAll => []IdleEndIsClean` |
| `TransformProofs!SoundsReversed` | what `Reverse` leaves at every frame of the sounds it reverses |
| `TransformProofs!OddMonoNotReversed` | what it leaves in the middle of the others |
| `TransformProofs!PixelsInBlocks` | `MeansOverPixels`, of a picture and blocks of any size |
| `TransformProofs!FramesInOrder` | `SoundMade(F, C, S) /\ [][Next]_vars => []EncodedInOrder` |
| `TransformProofs!AnswerIsWhole` | likewise, of the answer made without a failure |
| `TransformProofs!PageIsUnderstood` | `TextsUnderstood`, of every request |
| `TransformProofs!TaskTypes` | `Spec => []TypeOK`, `Spec` being `Pipeline`'s |
| `TransformProofs!AlwaysInOrder` | likewise `Spec => []EncodedInOrder` |
| `TransformProofs!ThrownForAReason` | likewise `Spec => []OnlyForAReason` |
| `TransformProofs!AlwaysMeans` | likewise `Spec => []MeansOverPixels` |
| `TransformProofs!TasksEnd` | likewise `Spec => GetsToEnd` |
| `TransformProofs!PipelineImplements` | likewise `Spec /\ AllSuited(upload) => Implements`, that is `Transform`'s `Spec` |
| `DitheringProofs!ShadesWritten` | `Spec => []ShadesAsAsked` |
| `DitheringProofs!OnlyLighter` | `Spec => []NoneDarkened` |
| `DitheringProofs!LightNeverCreated` | `Spec => []NoLightCreated` |
| `DitheringProofs!BufferHasRoom` | `Spec => []TypeOK`, `Spec` being `Dithering`'s |
| `DitheringProofs!TonesAreKept` | `Spec => []ToneKept` |

**Types.** `TypeOK` is inductive as it stands. It holds the two facts of control the type of a step
depends on: a client event being handled has a descriptor, a worker that is not idle has a job.

**The doorbell.** `NoLostResult` is not inductive: `epoll_wait` fills the batch anew, and a ring that
an earlier batch still held would be lost. `Doorbell` adds `Handled`: the loop waits only when it has
handled the eventfd's event. The proof then goes through the two halves of the handshake: a worker
that has pushed is in stage `signal` until it has rung, only the event loop can silence the ring
(closing a client's descriptor does not, `DropKeepsEfd`), and it passes from `drain` to `pop` and
leaves `pop` only when the queue is empty.

**Routing.** `RepliesReachAsker` needs four invariants, each inductive given those before it:
`OwnInv` (descriptor, map entry and registration go together, an open descriptor's connection is
accepted, no two descriptors share one); `IdInv` (identifiers in the map are distinct and below
`nextConnId`); `HeldInv` (what is in a connection's socket, parser and response comes from its
client; for the parser this is `FeedOver`); `JobInv` (a job, a running task or a result whose
identifier is in the map names that entry's descriptor and client). The step from one state's map to
the next is captured once (`Evolves`: an entry stays, goes, or is new under the next identifier), and
`FaithfulKept` shows that no such step makes an old job name a new connection. With `JobInv` the
comparison at `main.cpp:123` decides exactly whether the asker is there, which gives both that
nobody else receives its result and (`ResultsAreDelivered`) that it is not thrown away.

**Edges.** `EdgeInv` says of every descriptor, at every moment at which the server is alive: what is
readable (or writable, with a response pending) is on the ready list, or in the batch, or the handler
that runs is about it and before its `EAGAIN` or its `epoll_ctl`. `AllHandled` adds that the loop waits
only with an empty batch, as `Handled` does for the eventfd. The proof has a lemma for what each event
may do to a descriptor that is not its own (`QuietKept`), for closing one (`ClosedNoticed`,
`DropNoticed`), and for `epoll_ctl`, which looks at the source as it is called (`RearmNotices`): the
code's re-arming at lines 104, 131 and 194 is where the invariant would fail without it. Clients only
add to the ready list (`ClientNoticed`).

**Replies.** `ReplyInv` follows the last request of a client that is still there. It is in one
of six stages: all answered (`Resting`); in the socket or the parser (`Arriving`), in whatever pieces
`recv` returns it; complete, of a method that is not served (`Unserved`); with the pool as a job, a
running task or a result, and only one of them (`Computing`), which is also where it stays when its task
throws; its response loaded (`Loaded`); or sent but for the body (`Halfway`). Each stage fixes the
parser, the response, what is in the pool under the connection's identifier, and how many first and last
units were put on the wire; and the wire so far, received or not, is `Proper`. A step of `main()` that
is about another connection changes none of that (`Apart`), which for results needs `IdInv`; its own
steps move it from stage to stage (`RequestFed`, `ReadOwn`, `ResultStage`, `SendUnitOwn`). What is
loaded is only ever loaded over a reset response, because a client with an unanswered request sends no
other: its answers are among the last units on the wire, and `HeadStage` counts them. That is the
hypothesis `WellFramed`: clients wait (`Pipelining = FALSE`, as the page does), and no request is
rejected at its headers, not even the last one, since its body then gets a response of its own
(finding 3). A connection that was reset or closed is not followed further: what its client has
received stays proper, and nothing more comes.

**The queue.** Its three invariants are inductive with `QueueTypeOK`, which holds what mutual exclusion
comes to here: only a thread that stands inside an operation holds the mutex, so that no notification
moves the holder. `NoLostWakeup` counts: a push adds a value and a notification, a take removes a value
and a thread awake, a notification makes a waiting thread an awake one, and whoever starts to wait has
seen the queue empty, under the mutex. `QueueImplements` maps a thread awake or waiting in `pop` to
`asking` and goes through the actions: a critical section is the step of the abstract queue, the rest
are stutters.

**The pool.** `EachTaskOnce` says with a count that no task is in two places; `TaskInv` says the same
by what is where: the queue holds consecutive numbers up to the last one pushed, a worker's task is
below them and nobody else's, and the numbers add up. `JoinedMeansDone` needs `StopInv`: a worker that
has left its loop has seen `shutdown_flag_` up and the queue empty, and neither changes any more.

**The end.** `MainOwnsPool` makes every invariant of the pool one of `Shutdown`. `MainInv` ties `point`
to the call the main thread is in (outside of any, unless a batch submits or the destructor runs);
`IdleInv` says that when the loop was left with every task done, they are all still done, so that by
`TaskInv` no worker has one to push late.

**Sounds.** Sample c of frame f is at `f*C+c` and nowhere else (`PlaceOf`, `PlaceIn`); the rest of
`SoundsReversed` is `SwappedAt` and the index of the middle. For the encoder, `EncoderInv` adds to
`EncodedInOrder` where the position and `current` stand: the write of a chunk is then one at the
end of the file (`Appended`), and rewriting the header one inside it that changes nothing and puts the
position back (`HeaderRewritten`). `FramesInOrder` and `AnswerIsWhole` start where the effects are
applied (`SoundMade`), from whatever buffers; `AlwaysInOrder` starts at `Init`.

**A task.** `TaskInv` follows a task from its text to its end: both buffers have the dimensions of the
upload and differ from the decoded file in their samples only (`Fits`), whatever effects wrote into them
and however often they were swapped; the effects to come are known ones with the parameters they need
(`EffectsMade`); the encoder is in `EncoderInv`; what is thrown has its reason. The step of the
constructor needs that it makes, from each request's text, the effects that were chosen, or throws where
there are none or an unknown one (`TextsUnderstood`, which TLC evaluates over all requests of the instance
as the assumption `TextsAreUnderstood` of `MCPipeline`).

**The text.** `PageIsUnderstood` proves that of every request. The page's `join()` and the constructor's
loops over `find()` are recursions over data, taken by the least counterexample (below): `JoinedIs` and
`PiecesIs` unfold them, `FindIs` says what `find` returns (the first place, or that there is none), and
`JoinSplit` that a text joined from pieces that are not empty and do not hold the separator, with one more
separator behind it or without, is taken apart into these pieces. It is used twice, for the effects between
";" (`TextRead`) and for an effect's parameters between "," (`EffectRead`), and `EffectMade` then makes the
effect from its name and its parameters. What it takes of the words is that a number's is no separator and
that two numbers have two (`NumbersAreWords`).

**The refinement.** `MediumOf` reads a buffer by places. `DecodedMedium` says that what the decoders
leave is the uploaded file, `EffectMakes` that an effect makes of any buffers that fit what `Transform`
says of it, whatever its destination held, and `FirstFramesIn` that the file of an encoder is the
sound's first frames. `EffectMakes` goes effect by effect: a pixel's samples have indices of their own
(`SampleIndex`); `PointEffects` are per-pixel loops; a pixel's block in `Pixelate` is the only one it is
in (`OnlyBlock`); the two passes of `GaussianBlur` with clamped indices reach the whole square, as far as
it is in the picture, and no more (`Clamped`, `ClampReaches`). `PipelineImplements` then has one step of
`Transform` or a stutter for each action. It is stated of the requests in `AllSuited`, all but two
kinds, which do not implement `Transform`: `Pixelate` on a picture with an alpha channel (below) and
`Reverse` on a sound whose middle frame the code looks for elsewhere (`OddMonoNotReversed`).

**The error diffusion.** `Transform` says where a pixel's value may come from by a recursion over the
pixels before it (`Reaching`), the code by a recursion over the states of its buffer (`Diffused`). Their
agreement, too, is an induction over data, done without the library's induction theorems: a set of numbers that
has a counterexample has a least one (`LeastOf`, from the well-foundedness of `<` on the naturals, with
the predicate given as a set), so that a set closed under successors has them all (`UpTo`). `Holds` says
what the buffer is after n pixels: each place holds the file's samples, of its own colour, at the pixels
that reach it through one of the first n (`Sent`). `HoldsNext` takes one pixel's step; it needs that the
kernels only look ahead (`KernelsForward`), so that a pixel's value is final when its turn comes.
`DiffusionEffect` reads off the last buffer.

**Pictures.** `PixelsInBlocks` comes down to intervals: a column is in the block whose number is its
quotient by the size, which is the number of a block (`InOneSpan`), and a block has `size` columns or
what is left at the edge (`SpanSize`). It is a theorem about any buffer, and no induction over steps.
In `DitheringProofs`, `GrayInv` says that the buffer is never below the picture, since what is left of
a sample when its shade is taken off is not negative (`ShadeBelow`), nor is any share of it
(`KernelsPositive`, `ShareNat`); `ShadeOfLevel` is the arithmetic of `255/(levels-1)`, exact up to 16 levels.
`LightInv` says that what has been written and what the buffer still holds are together no more than the
light of the picture. A step takes the pixel from one sum and puts its shade into the other, and what it
passes on is at most the error: different weights go to different pixels (`SumInjected`), the weights of a
kernel add up to no more than its denominator (`KernelTotal`: 16 of 16, 6 of 8, 48 of 48), and each share is
rounded down (`PassedBelow`). `RoomInv` bounds each sample by what it has heard: the denominator times its
growth is at most a step less one, the greatest error there is, times the weights of the pixels handled that
reach it; all of them together give the bound of `TypeOK`, which keeps the code's `int` from overflowing.
Sums over sets are the folds of the community modules, taken by their definition (`SumsExist`, `SumWith`)
through the least counterexample again.

**Tones.** The matrix of the ordered dithering holds every number below its size squared in one place
(`Numbered`): so does the one of two by two, and doubling keeps it, since a place of the larger matrix is
known by its place in the smaller one and its quadrant, as its number is by its quotient and remainder by 4
(`NumbersDoubled`). `MatrixNumbers` follows the doublings from 2 to 64. A place lets a pixel of shade v be
white when 255 times its number is less than v times the size squared (`Exceeded`): those are the first
numbers, each in one place of the tile (`InTile`, `Quotient`), so that the tile has as many white pixels
(`NumberedSet`, `TileTone`). `ToneInv` says that each pixel handled was compared with its place's number.

The invariants that the theorems state were checked with TLC on the runs' instances before they
were proved.

**Only model-checked**: `EveryRequestAnswered`, `EveryTaskRuns`, `PoolStops` and `StopsUnlessMissed`, which
are liveness under fairness and out of TLAPS's reach. Every invariant of the passing runs is also a theorem.

## 5. Not modelled

* **Floating point**: the weights of `sepia.cpp` and `gaussian_blur.cpp`, the gain of `normalize.cpp`.
  Which samples they read and write is modelled.
* **Undefined accesses**: pictures with one or two channels (`grayscale.cpp:17` and its like use samples
  beside the pixel or beyond the end) and effects whose parameter is missing (`pipeline.cpp:25`); the
  page sends the parameter. A mono sound of one frame (`reverse.cpp:18`), which `UploadsTyped` leaves out.
* **Parameters that the page does not send**: a blur of radius 0, matrices whose size is no power of two, 257
  levels or more divide by zero, do not end or leave cells unset. `PageNumbers` leaves them out.
* **`validateDimensions`** (`effect.cpp:11`), whose exception nothing can raise: both buffers always have
  the dimensions of the upload (`Pipeline!TypeOK`, proved).
* **`Pixelate` with an alpha channel**: `pixelate.cpp:33-42` leaves alpha as the other buffer had it.
  The operator says so; the instance leaves out the combination, in which `Transform` would not be
  implemented.
* **Mono sounds with an odd number of frames** in the run `pipeline`, for the same reason: see
  `OddMonoNotReversed`.
* **Bytes of a request**: cuts within a head or a body, the digits of `Content-Length`, the text of
  multipart fields. `feed` does nothing at such a cut but append and search again.
* **`CopyBuffer`** (`copy_image.cpp`), which nothing constructs; `HttpResponse::has_pending_data`, which
  nothing calls.
* **Third-party code** (`stb`, libsndfile, spdlog), the page's user interface, and the build.
