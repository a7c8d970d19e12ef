# qoe-mos in TLA+

A specification, model-checked with TLC and proved in part with TLAPS, of the
real-time QoE measurement server in this repository: a WebSocket server that a
video player reports its segments and stalls to, and that evaluates a sliding
window of them with the ITU-T P.1203 evaluator.

## 1. The system

### Components, state, operations

| Component | State | Operations | Correct when |
|---|---|---|---|
| Sliding buffer, `buffer.c` | `data[K]`, `write_idx`, `counter` | `add_element`, `slice_buffer` | the array is a queue cut at the front; nothing is left where nothing was added |
| Message handler, `onmessage` in `main.c` | `is_stalling`, `stall_counter`, `eval_data->nf`, `->started` | one message: a stall, or a segment to store and add (in one-step mode: to score and add) | only stored segments reach the window |
| Evaluation, `eval_task` in `main.c` with `evaluation.c` | `tft`, `tfm`, and the scan's locals | scan, evaluator, send, slide; in one-step mode mean, send, slide | the window is read whole, stalls are runs of stall elements, the slide follows the answer, windows overlap by N - p |
| Timers, `timer.c` | a semaphore each | a signalling thread posts once per period while its condition holds; an executing thread runs the task once per post | no period is forgotten, none piles up, and stall elements measure the stall |
| Command and evaluator, `evaluation.c`, `evaluate.py` | two char arrays; the arguments | window to command line, arguments to a JSON line | the arrays suffice; what was asked is what is evaluated |
| Segment store, mean, `utils.c` | files `segments/segment-n.ts` | `store_segment`, `float_array_mean` | |
| WebSocket library, `lib/ws` | client slots, connection ids, connection states, frames in progress | accept, handshake, frames, sends, pings, close with timeout | messages whole and in order, callbacks in pairs, sockets closed once, every close ends |
| JSON library, `lib/json` | a heap of items in lists; a buffer | parse; create, add, detach, insert, replace, delete, duplicate, refer; print | items are trees; JSON and only JSON is parsed; no node is lost; a text is its item's |
| Configuration, `main` | N, p, d, port, modes | read once, from the arguments or a file | each value is the one given |

### How they interact

`main` starts two timers, hence four threads, and then the WebSocket library,
which gives the (single) client a thread of its own. These share `eval_buffer`,
`eval_data` and `is_stalling` without a lock; the buffer's mutex is commented
out (`buffer.c:31`, `:39`, `:68`).

    client thread  --onmessage-->  add_element, is_stalling, nf, started, files
    stall timer    --is_stalling, each d seconds-->    stalling_task: add_element
    eval timer     --started, each p*d seconds-->      eval_task: scan, popen, send, slice_buffer
    eval_task      --ws_sendframe_txt(1, ...)-->       connection 1

### What is hard

- eval_task takes seconds (popen) between reading the window and sliding it, and
  the other threads add elements all the while.
- Every failure on the way (popen, JSON, send) returns early, without a slide.
- The buffer's index is checked at neither end: a slide may cut more than there
  is, and a server whose evaluations fail only ever adds.
- Periods pile up in the semaphores while a task runs.
- Threads of the WebSocket library hold the address of a slot that may belong to
  the next connection by the time they use it.
- A message is read in fragments with pings between them, and may break off anywhere.
- The first node of a JSON list points back to the last; every call has to keep that.
- Texts are put into arrays of fixed size without a check, or printed piece by
  piece after counting the bytes each will take.
- Totals and flags outlive windows, stalls and connections.

`PROJECT.json` lists these hazards one by one, at their lines.

## 2. Modules

| Module | Models |
|---|---|
| `SlidingWindow` | what the buffer promises: a queue, with a debt where a slide cut more than there was and a hole where an element found the array full |
| `SlidingBuffer` | `buffer.c`: the array, its unchecked index, `AddElement`, `SliceBuffer`; the refinement mapping to `SlidingWindow` |
| `BufferRace` | the same two operations load by load and store by store, in the three threads that run them without the lock; `SlidingWindow` goes along for comparison |
| `QoEServer` | `main.c` with what it runs of `evaluation.c`, `timer.c`, `utils.c`: five threads over `SlidingBuffer` (extended, so that every step of the server on the buffer is an operation of it) |
| `Timers` | `timer.c` and the two timers of `main.c` in discrete time |
| `EvaluatorCommand` | configuration, the command lines of both modes with their lengths, the shell's words, `evaluate.py` |
| `WsConnection` | `ws.c`: slots, client, timeout and accepting threads, pings, closes, callbacks |
| `WsFrames` | `ws.c`, `handshake.c`: the frames one client thread reads and answers, and the memory of the message |
| `JsonTree` | what cJSON promises: ordered trees of items |
| `CJson` | `cJSON.c`: the nodes and every call that links, copies or frees them |
| `CJsonParser` | the parser of `cJSON.c`, with the calls of `CJson` on what it returns; the refinement mapping to `JsonTree` |
| `CJsonPrinter` | the printing of `cJSON.c`, into a buffer that grows or is the caller's |
| `JsonText` | JSON itself: the texts of its grammar and their trees, the layout of an item; what parser and printer are held against |
| `MCQoEServer`, `MCJson`, `MCEvaluatorCommand` | instances for TLC |
| `QoEServer_proofs`, `BufferRace_proofs`, `Timers_proofs`, `EvaluatorCommand_proofs`, `WsConnection_proofs`, `WsFrames_proofs`, `CJson_proofs`, `CJsonPrinter_proofs` | theorems and their proofs |

`WsFrames` is what happens between two steps `Read...` of `WsConnection`, and
`WsConnection` is what happens to the socket of `WsFrames` meanwhile (there only
`NothingMore`, `ServerSendsClose`, `ServerMarksClosing`, `ServerShuts`). `QoEServer` takes both
libraries for what `main.c` sees of them: callbacks and sends that may fail.
`Timers` adds time to the timers of `QoEServer`, and `EvaluatorCommand` explains
the constant `Answers` there. `BufferRace` tells what it costs that `QoEServer`
is granted atomic operations on the buffer.

### How QoEServer corresponds to the code

Variables have the names of the code where it has them. `cpc` and `pc` are the
positions of the client thread in `onmessage` and of the evaluation timer's
executing thread in `eval_task`. The code between two positions is one step:

| Step | Code |
|---|---|
| `Accept`, `AcceptPanics`, `Disconnect` | one connection at a time (`MAX_CLIENTS` is 1), numbered by `get_next_cid`; a failed handshake uses up a number; `accept` failing ends the process |
| `OnStall` | `onmessage` on "-1", whole |
| `OnSegment`; `StoreSegment` or `StoreFails`; `AddSegment`, or `ScoreSegment`/`ScoreCrashes` | `onmessage` on a segment, cut at the store and, after `started` is set, before the addition or the evaluator; the number goes through a float (`AsFloat`) |
| `OnUndecodable` | `onmessage` on what `base64_decode` refuses: `memcpy` from NULL, `main.c:275` |
| `SignalStall`, `StallingTask` | the stall timer's two threads |
| `SignalEval`, `EvalBegin` | the evaluation timer's two threads up to `eval_task` |
| `ScanEmpty`, `ScanStall`, `ScanSegment`, `ScanDone` | the loop of `generate_evaluation_command`, one slot a step, as long as the other threads go on |
| `MeanAdd`, `MeanDone` | the loop of `float_array_mean` on the window, one slot a step |
| `Verdict` | the window without a segment: the lowest score if the player is stalling at this moment |
| `Evaluate`, `EvaluateFails` | popen of the evaluator, reading, parsing |
| `Send`, `SendFails`, `SendCrashes` | `ws_sendframe_txt(1, ...)`, and the early return; JSON without the member `O46` is sent and then read through NULL |
| `Slice` | `slice_buffer`, if started, and the return |

`had` is a history variable (write_idx when an evaluation began) that no action
reads; `seen` is the loop index of the scan together with what the loop has
read. An evaluator run answers with a score, with JSON that holds none (`NoScore`), with
something that is not JSON, or with nothing; in the last case the uninitialized array
it is read into holds either the previous answer or no JSON, and the model takes
either. A message shorter than the four bytes of its number is decoded all the same:
the number is then whatever is behind it on the heap, and so some member of `SegNums`. A stream that
`popen` returned is never closed, so `pipes` only grows, up to the number of
descriptors left (`MaxPipes`), after which `popen` fails and `accept` may.

A store outside the array is a step that changes no slot. This is what it does
near the array, with the heap that the server's allocations leave; the room on
both sides is stated, and checked against the bounds, in `MCQoEServer`
(`HeapAssumption`). The theorems, which have no such bounds, are about the server with
stores outside the array lost.

One thing must be known to read the two-step results. The command line that
`generate_evaluation_command` writes has no blank between the list of stalls and
`-m` (`evaluation.c:136-144`: `... -s '[[2, 4], ]'-m 1`); the shell joins the
two, `ast.literal_eval` rejects the word, and `evaluate.py` prints "Invalid
stalls format". At this commit a two-step evaluation with segments in it
therefore never yields a score, and the window slides only when it holds no
segment. What the evaluator prints is the constant `Answers` in the model. The
run `window_evaluated` shows this on `EvaluatorCommand`, word by word. The run
`two_step` includes scores, and so covers the server with that blank in
place as well as without; the three runs that exhibit disagreements use
`MCRejected`, the evaluator of this commit.

### How the other modules correspond

*BufferRace.* Each statement of `add_element` and `slice_buffer` becomes its loads
and stores: `data[write_idx] = x` is `LoadIndex`, `StoreElement`; `write_idx++` is
`LoadToAdvance`, `Advance`. The Makefile compiles without optimization, so a load
or store happens where the source names it. Elements are numbered, so that one
that appears twice shows; `overlaps`, `overAdds` and `overSlices` are history.

*Timers.* `Signal` is one turn of the signalling thread (condition, `sem_post`,
`sleep`), `Take` and `Done` the executing thread around its task. Time passes in
`Tick`, which waits for no one longer than the constants allow: `Jitter` for a
sleep, `Latency` for a thread that has work, `EvalTime` for an evaluation.
`stalled` and `timed` are history.

*EvaluatorCommand.* `ReadConfig`, `Crash` (the NULL pointer that the guards of p
and d follow, `main.c:410-424`) and `ReadArguments` are the two branches of `main`;
`ScanBegins` to `ScanEnds` is `generate_evaluation_command` with
`stalls_to_string`, `EvaluateSegment` is `evaluate_segment`, and from `ParseStalls`
on it is `evaluate.py`. A member that is `true` has the `valueint` 1 in cJSON
(`cJSON.c:1362`), any other that is no number 0, and the guards of p and d let both through. A text is known by its length, a word by the pieces it is
made of. `ByHand` stands for people who follow the usage message.

*WsConnection.* The client thread of a socket (`ws_establishconnection`) is cut
where it looks at shared state: at each read, before and after `mtx_state`, at
`onclose`, at `close_thrd`, and within `close_client` between the socket and the
slot. `SendCall` ... `PingFrees` is one thread of the application. `opened`,
`ended`, `heard`, `sent`, `asked` and `overlap` are history.

| Code | Steps |
|---|---|
| `ws_accept` | `Accept`, `Refuse` |
| `ws_establishconnection` | `Handshake...`, `Read...`, `CloseAnswered` ... `CheckState` |
| `close_client` | `ClientCloses`/`ClientFrees`, the same of the timeout thread, `PingCloses`/`PingFrees` |
| `close_timeout`, `start_close_timeout` | `Timeout...`; `StartTimeout`, `MarkTimeout` |
| `ws_sendframe`, `..._bcast`, `ws_close_client`, `ws_ping` | `SendFrame`, `Broadcast`, `CloseFrame` ..., `PingSkips` ... |

*WsFrames.* `HeadAccepted`, `Body` and the step that follows are one turn of the
loop in `next_complete_frame`; the steps that fail go where the code goes:
`Abort` (frees the message) or `EndsBetween` (does not). A byte is a pair of frame
and place, so that a message shows what it was made of. Lengths are added modulo
`Width`, as `ws.c:1453` adds them modulo 2^64: a length that wraps passes the limit, the
block shrinks, and the first byte read is written behind it (`Overrun`); from there
the read ends, or the damage shows (`Crash`). When the server's timeout or a ping
has shut the socket (`ServerShuts`, state CLOSED), the thread goes on with what was
buffered until nothing more can be read (`NothingMore`). What it sends then is left
possible, although the socket mostly refuses it; who has the slot by then is `WsConnection`'s
affair.

*CJson, CJsonParser, CJsonPrinter.* A node has the fields of `struct cJSON` except its value.
Lists are followed link by link, never assumed to be lists. Calls under way in
the parser are its `stack`; the text comes character by character as the parser
looks ahead, so that all texts are covered without being enumerated. While an item
is printed, each `ensure` with what is then written and advanced over is one step,
`update_offset` another; `frames` are the arrays and objects that `print_value` is
in. A step that finds no room, or no memory, goes to `PrintFails` as the code's
returns do. The buffer holds what was written to it: `ensure` may keep all of it
(realloc) or what `memcpy` takes along, so that a terminator left behind would show.

## 3. What is checked

### Runs

| Run | Instance | Shows |
|---|---|---|
| `two_step` | `MCTwoStep.cfg`, 238 thousand states | ten properties, below |
| `one_step` | `MCOneStep.cfg`, 104 thousand states | the two that concern one-step mode, `WindowIsRead` and `Served` |
| `buffer_race` | `MCBufferRace.cfg`, 5.2 million states | what the missing lock can cost, and what it cannot |
| `timers` | `MCTimers.cfg`, 13 thousand states | backlogs and measured stalls |
| `evaluator_command` | `MCEvaluatorCommand.cfg`, 306 thousand states | arrays suffice, values are not mixed up |
| `ws_connection` | `MCWsConnection.cfg`, 242 thousand states | slots, sockets, callbacks |
| `ws_frames` | `MCWsFrames.cfg`, 643 thousand states | messages, answers, memory |
| `json` | `MCJson.cfg`, 336 thousand states (up to renaming nodes) | parser, items, printer |
| `TftIsTotal`, `NoSegmentSkipped`, `LowestMeansFullOfStalls` | the two-step instance with `MCRejected` | violated, see Findings |
| `window_evaluated` | `WindowEvaluated.cfg` | violated, see Findings |

### Properties

Of the server (`QoEServer`, `SlidingBuffer`):

- `TypeOK`: types; also that the semaphores stay natural numbers, that the list
  of stalls holds stalls no longer than the window, and that descriptors and
  connection numbers stay in their bounds.
- `BufferIsWindow`: the array implements `SlidingWindow`, in the server as a whole.
- `EmptyBeyondWriteIdx`: no slot at or beyond `write_idx` holds anything, also
  while the index is negative. The scan relies on it: it walks all N slots, not
  just the filled ones.
- `WindowIsRead`: an evaluation reads every element that was in the window when
  it began, in its place, and these stay in their slots until it ends, however
  many elements arrive meanwhile. In one-step mode the mean may stop early, but
  only at an empty slot, which an overflow leaves among the filled ones.
- `StallsAreRuns`: the incremental list of stalls against its definition.
- `StallTotalsBounded`: `tfm <= tft`, and no stall of N or more is accounted for
  (the stall that fills the window never is: no segment ends it).
- `EvaluatesOnlyStored`: what is in the buffer or was read by the scan is the
  number, rounded to a float, of a segment on disk, and evaluations only begin once
  segment N is.
- `AnsweredBeforeSliding`: an evaluation that found segments comes to its slide
  only through a send to connection 1 of a score.
- `WindowsOverlap`: after a slide the window begins with what the evaluation had
  read, less the first P elements.
- `Served`: handlers and evaluations end, periods are not forgotten.

Of the threads and the time below it:

- `DriftBounded` (`BufferRace`): when nobody is in an operation, `write_idx` has
  lost at most the additions, and gained at most P for each move, that overlapped
  another operation; `counter` likewise. So the damage of the missing lock is a
  drift that stays, and how large it can get.
- `OncePerElement`: whatever the interleaving, no element is in two slots between
  two moves (an evaluation never sees a segment or stall doubled).
- `AloneIsWindow`: operations that did not overlap leave exactly the window.
- `AtMostOneBehind` (`Timers`): when a segment ends a stall, at most one stall
  element can still land behind it.
- `NoDivergence`: evaluations shorter than their period never pile up, with
  jitter on the sleep and latency on the wake-up counted.
- `StallMeasured`: the elements the timer adds measure the stall, two periods over
  at most, a late one under; also across a disconnection, which `onclose` ignores.
- `WithinArrays`, `AsConfigured` (`EvaluatorCommand`): arrays of the given sizes
  hold the command and the list of every window of N slots, for N small enough:
  `41 + 33 N < 1024` and `4 + 14 ((N + 1) \div 2) < 256` give N up to 29 with
  segment numbers of ten digits, while `main` takes any N up to 255. A file that
  gives N, p and d as numbers gets these; no value is taken for another. A p or d that
  was not given as a number is the 1 of `true`, or 0.

Of the WebSocket library:

- `OneClose` (`WsConnection`): as long as the server closes no connection by itself (and
  `main.c` never does), every accepted socket is closed exactly once and no slot
  is given on while a thread is at work on it.
- `CallbacksPaired`: `onopen` and `onclose` once each, in that order, by the
  connection's own thread, none left out; `onmessage` names the connection the
  message came from.
- `SlotComesFree`: a socket whose peer has left, or that the server has begun to
  close, is closed in the end and its slot free, also if the peer never answers.
- `WholeMessages` (`WsFrames`): what `onmessage` is given is what the frames carry,
  against a definition that cuts the data frames behind each final one.
- `AnswersInOrder`: each ping is answered once, in its turn and with its bytes,
  also between fragments; a close frame is the last thing sent.
- `TerminatorFits`: a delivered message has room for the NUL that `onmessage`
  relies on, also if its last fragment is empty; and what has been read of a message
  lies within its block, unless the sum of its lengths has wrapped.
- `BlocksFreed`: no block of a message is leaked but in one case: the peer leaves, or
  the server's own timeout or ping shuts the socket, between two fragments
  (`ws.c:1185`, `:1584`).
- `AtMostOneLate`: after the server began to close, one more message at most, until
  its timeout (or a ping) shuts the socket.
- `Ends`: a thread whose peer left, or whose socket was shut, ends (or has brought the
  process down).

Of the JSON library:

- `ListsLinked` (`CJson`): heads point to the last node, nodes to the one before; lists
  end and share no node.
- `MemoryOwned` (`CJsonParser`): nodes and strings in use are those reachable from the caller's
  items and from the lists under way, on every way out of the parser.
- `ParsesJson` (`JsonText`): what is accepted is JSON by its grammar and yields the tree of its
  text; what is refused is not, or is too deep, or memory ran out.
- `ItemsAreTrees`: parser and calls implement `JsonTree`.
- `PrintsItem` (`JsonText`): a printed text is the layout of its item, whatever had to be
  allocated on the way; printing fails for want of memory only, or in
  a buffer of the caller's with no byte to spare behind the terminator (`cJSON.h`
  asks for five: one is enough).
- `InBuffer` (`CJsonPrinter`): no piece is written past the buffer, and no terminator is
  searched for that was not written.
- `OnlyTextLeft`: however printing ends, only the text stays allocated.

Each module has one type invariant, `TypeOK` (in `EvaluatorCommand` and `Timers` it is
proved only; no run lists it).

Every property has a mutant in the modules (an operator next to the one it would
replace, marked "a mutant") that a plausible slip would produce and under which
TLC finds the property violated.

### Bounds

*QoEServer.* K = 4, N = 3, P = 2. The array is larger than the window and smaller than
messages and periods together, so that it overflows (`write_idx` up to 6) when
evaluations fail, and a slide of 2 meets windows with fewer elements, so that
the index also goes negative. N = 3 has room for a stall between segments and
for two stalls around one; P = 2 of N = 3 makes windows overlap by one. Segments
are numbered N = 3 (the one that starts evaluations) and 2^24 + 1 (the first that a float
does not hold: it is evaluated as 2^24); 1 and 3 in one-step mode, where the buffer
has scores. Three
messages and three periods (of both timers together) give stall-segment-stall
patterns, two evaluations with additions between and within them, and a backlog
in a semaphore. Two connections give one reconnection, after which results go
nowhere. Two popen streams (three in one-step mode) give runs that work, fail,
and find the descriptors used up. The server never stops by itself but the
bounded environment does, hence `CHECK_DEADLOCK FALSE`.

*BufferRace.* K = 4, P = 2, four additions, two moves: a move of two shifted and two
cleared slots meets additions of both other threads below, in and above the part
it is at, and the second move meets the damage of the first.

*Timers.* D = 3, P = 2: an evaluation of at most 4 of its 6 units, latency and jitter of 1;
a stall of up to 12 units is two evaluation periods and four of its own. Nothing
else is bounded.

*EvaluatorCommand.* Three numbers, -1000000000 (the longest text), 4 and 258 (2 in 8
bits). N is then 0, 2 or 4; segment numbers have 1 or 10 digits. Arrays of 174 and 33
are to N = 4 what 1024 and 256 are to N = 29: the largest window that fits, with
every length on the way.

*WsConnection.* One slot (`MAX_CLIENTS` is 1 as the Makefile builds it for this server:
`ws.h`), which two connections take in turn, two calls of the application, a ping
threshold of 1. A thread of the first connection that is late thus meets the
second in its slot. Frames are whole here.

*WsFrames.* Three frames of up to two bytes, messages of up to three: a message of one, two
or three fragments, with up to two control frames between, at, below and above
the limit. Lengths are below 6 (for 2^64), so that sums wrap within a message of
three bytes.

*CJson, CJsonParser.* Four nodes, two of them at most containers, one key, texts of
up to five characters, two levels: empty and full lists, first, middle, last and
only elements, a list within a list, `[n,n]`, `{q:n}`, `[[n]]` and all that is
almost these. An item is printed when it is the only one (`Alone`), formatted and
not, its strings those of `Texts`: empty, or of a quote and a control character (which
take two and six bytes), into a buffer of 12 (for 256), 16 or no bytes, so that buffers run
full at every kind of piece and twice in a row. A reference takes the room of two nodes (`HasRoom`), items that hold
leaves of another kind than `Leaves` are only deleted. Nodes are alike (`Alike`).

### Fairness

Weak fairness of the client thread within a message, of the stall timer's
executing thread, and of the evaluation timer's executing thread: these are
threads of one process that wait for nothing but a semaphore that has been
posted, a file, or a child process. A child is assumed to end (the evaluator has
no loop that waits), and a send is assumed to return (the library sets a send
timeout, `main.c:492`). There is no fairness for the environment: no client need
come, send, or leave, and no period need pass. `Served` accordingly promises
only what follows once something was asked for, or that the process has ended.

In `WsConnection`, weak fairness of what a client thread does of its own accord, of a
timeout thread (`TIMEOUT_MS` pass), and of a call the application has begun. Not
of peers: none need send, answer or leave; and not of `Accept` or new calls.
In `WsFrames`, weak fairness of the thread while it does not wait for its peer, and
once nothing more can come, for then every read returns; and of `NothingMore` itself
once the socket is shut, for what was buffered of it is finite.

### Findings

- `TftIsTotal`. `evaluation.h:33` calls `tft` "the total duration of stalls". A
  stall is added to it in every window that shows the stall with a segment
  behind it, and again when the same window is scanned after a failed evaluation.
- `NoSegmentSkipped`. A segment that arrives between the scan of its slot and the
  slide is cut off unread. The shortest case is the first window: `started` is
  set before the segment is added (`main.c:313-339`), an evaluation finds an empty window,
  the segment is added, the window slides. The README's "segment-level granularity" and
  `tests/window_test.py`, which evaluates every segment, say otherwise.
- `LowestMeansFullOfStalls`. "The window is full of stalls" (`main.c:59`) is
  logged, and the lowest score sent, for any window without a segment if the
  player happens to be stalling when the scan is over.
- `window_evaluated`. `evaluate.py:11` describes its arguments as
  `[-s [[start, duration], ...]] [-m mode]`; the command of two-step mode joins the
  list and `-m` (`evaluation.c:136-144`), and no window is ever scored.

Met on the way and without a run, as no document says otherwise:

- `evaluation.c:45-66`: the mode is appended to the one-step command after the
  process was started, so it has no effect.
- `main.c:385-389`: the configuration is read into an array that is not
  terminated. `main.c:410-424`: the guards of p and d look at each other, and at
  NULL if only one of the two members is there (`Crash`); so a p or d that is no number
  counts as 0, or as 1 if it is `true`; a file that does not open
  is read through NULL (`NoFile`).
- `main.c:272-283`: a message that is not base64 is copied from NULL; one of less than
  four bytes has a number and a length read from behind it, and the length
  is `outlen - 4` of a `size_t`.
- `main.c:170-178`: an answer without `O46` is sent, and then the server reads through NULL.
- `main.c:180-181`: of the tree of each answer only the first node is freed.
- A p or d of 0 gives a timer without a period; `TimersAssumption` excludes it.
- `timer.h:21` redefines `NULL` without its closing parenthesis; `store_segment`
  has no return value on success.
- `ws.c`: a client thread and a timeout thread, or a ping, may close the same slot
  twice (`overlap` in `WsConnection`), and a socket of the next connection with it.
  This needs `ws_close_client` or `ws_ping`, which `main.c` never calls;
  `OneClose` is what holds without them.
- `ws.c:1453`: the lengths of the fragments of a message are added in 64 bits. A sum that
  wraps passes the limit, which by the comment below it holds "for continuation frames"
  too, and the block is shrunk to less than the message already has (`Overrun`).
- `ws.c:1632` compares the state with CLOSING alone. Once the timeout after a close
  has run, the state is CLOSED, and all messages still buffered are delivered, where
  `ws.c:938-940` says that the server closes the connection. This too takes
  `ws_close_client` or `ws_ping`; `AtMostOneLate` is what holds until then.
- `ws_close_client` on a connection that is still in its handshake returns success
  and closes nothing. Both sides may send a close frame at once, so that two go out
  (the comment at `ws.c:1765` has it).
- A frame to a connection that has left goes to whoever has its slot now, if the
  slot was taken between the lookup and the send.
- `handshake.c`: the encoded key is lost if there is no memory for the answer.
  `cJSON.c:2098`: a reference is lost if there is none for its key (`lost` in both
  modules).

## 4. What is proved

*QoEServer and SlidingBuffer.* For every K, P, N (with P, N <= K), set of segment numbers, evaluator, mode and
bound, that is from `BufferAssumption` and `ServerAssumption` alone:

| Theorem | States |
|---|---|
| `BufferRefinesWindow` | `BufSpec => BufferIsWindow` |
| `EmptyBeyondInvariant` | `BufSpec => []EmptyBeyondWriteIdx` |
| `TypeCorrect` | `Spec => []TypeOK` |
| `ServerBufferIsWindow` | `Spec => BufferIsWindow` |
| `ServerEmptyBeyond` | `Spec => []EmptyBeyondWriteIdx` |
| `TotalsBounded` | `Spec => []StallTotalsBounded` |
| `EvaluationReadsWindow` | `Spec => []WindowIsRead` |
| `WindowsDoOverlap` | `Spec => WindowsOverlap` |
| `OnlyStoredEvaluated` | `Spec => []EvaluatesOnlyStored` |
| `OnDiskEvaluated` | `Spec => []SmallOnlyStored` |
| `SlideWaitsForAnswer` | `Spec => AnsweredBeforeSliding` |
| `StallsListed` | `Spec => []StallsAreRuns` |

The argument goes in layers.

1. *Buffer.* `AddElement` and `SliceBuffer` each map to the abstract operation:
   `BarAdd` splits on the sign of the index, `BarSlice` on whether P elements
   are there.
2. *Types.* `TypeOK` is not inductive: that prolonging the last stall leaves a
   stall needs that the last stall exists and is no longer than what was read.
   `TypeInv` adds this (`ScanInv`). `BufferStep` shows that every step of the
   server is a step of the buffer or leaves it alone, so that layer 1 carries over.
3. *Windows.* `WindowIsRead` is not inductive either: that the elements read stay in place
   needs that they lie below `write_idx`, where no other thread writes
   (`had <= write_idx`), and that the mean stopped early needs that a one-step
   window holds no negative element. `WindowInv` says so; `WindowsOverlap`
   follows from it and the definition of the slide.
4. *Storage.* `StoreInv` adds to `EvaluatesOnlyStored` that the number `onmessage`
   is about to add is stored and that `started` implies segment N. What is evaluated is
   the float of a stored number, which above 2^24 may be the number of no segment;
   `OnDiskEvaluated` says that below 2^24 the float is the number (`SmallIsExact`), and the
   segment itself is on disk.
5. *Answers.* `AnswerInv`: a verdict has seen no segment; a result about to be
   sent is one.
6. *Stalls.* `StallsAreRuns` is silent about the flag `stall_occurred`, which decides
   whether a stall element prolongs the last entry or opens one. `StallsInv`: the
   flag is set exactly while the last run is not over, and that run is the last
   entry of the list; and nothing below -1 is in the buffer, so that what is
   neither empty nor a stall is a segment and ends the run. `StartsStep` and
   `RunStep` say what a further slot adds to the set of runs and to each run.

*Timers.* For all intervals, delays and lengths, from `TimersAssumption` (tasks
shorter than their periods, latency included):

| Theorem | States |
|---|---|
| `TypeCorrect` | `Spec => []TypeOK` |
| `EvaluationsKeepUp` | `Spec => []NoDivergence` |
| `OneElementBehind` | `Spec => []AtMostOneBehind` |
| `StallsAreMeasured` | `Spec => []StallMeasured` |

A post is outstanding only as long as the executing thread may take: the
invariant bounds `due` by what is left of the signalling thread's sleep, so that
the post before is taken when the next one comes. For `StallMeasured` it keeps, for
the current stall, `timed * D` and the sleep under way between the limits that
`stalled` sets.

*EvaluatorCommand.* For every set of numbers and digits and all array sizes, from
`CommandAssumption`:

| Theorem | States |
|---|---|
| `TypeCorrect` | `Spec => []TypeOK` |
| `ArraysSuffice` | `Spec => []WithinArrays` |
| `Configured` | `Spec => []AsConfigured` |

`WithinArrays` says nothing of the middle of a scan, so the invariant counts: the
slots read so far hold the segments, the finished stalls and the one under way
(`Counts`), a finished stall has a segment of its own, and the texts are bounded by
these (`Texts`). At the end of the window `33 * files + 14 * stalls <= 33 * N`.

*BufferRace.* For every size of the buffer and of the step and any number of
operations, from `RaceAssumption`:

| Theorem | States |
|---|---|
| `TypeCorrect` | `Spec => []TypeOK` |
| `DriftIsBounded` | `Spec => []DriftBounded` |
| `NeverTwice` | `Spec => []OncePerElement` |
| `AloneAsWindow` | `Spec => []AloneIsWindow` |

`DriftBounded` speaks of moments at rest. In between, `DriftInv` keeps the index,
*and each copy of it that a thread has loaded and not yet written back*, between
the operations that have stored the index minus the overlapped additions and plus
P for each overlapped move: a copy that is out of date belongs to an operation that
overlaps the one it will undo (`OverlapInv`). `CountInv` is the same for the
counter. For `OncePerElement`, `OnceInv` says where an element may stand twice
while a move has come to slot i: in a slot s below i and in s + P, which the move
has yet to overwrite; and `FreshInv` that an element about to be stored stands
nowhere. `AloneIsWindow` compares the array with the abstract window only at rest;
`AloneInv` follows the array through an operation that meets no other: `Ahead` is an
addition that has stored its element and not yet moved the index, `Between` a move
at slot i, with the slots below i already those of the moved window and the others
still those of the old one.

*WsFrames.* For all limits on frames and messages, from `FramesAssumption`:

| Theorem | States |
|---|---|
| `TypeCorrect` | `Spec => []TypeOK` |
| `TerminatorsFit` | `Spec => []TerminatorFits` |
| `OneLateMessage` | `Spec => []AtMostOneLate` |
| `MessagesWhole` | `Spec => []WholeMessages` |
| `PingsAnswered` | `Spec => []AnswersInOrder` |
| `MemoryFreed` | `Spec => []BlocksFreed` |

Between the frames of a message as many bytes are allocated as it has, and the one
for the terminator comes with the last frame (`RoomInv`). While the connection is CLOSING,
the frame being read may be a data frame only if its head came before; after that
message only a close frame is accepted (`LateInv`), which holds until the socket is shut. Where
a sum has wrapped (`overrun`) nothing is claimed of the block but its size, and no
message is delivered from there. The three others speak of whole
sequences of frames. They are stated by positions in what was read (the n-th message
ends with the n-th final data frame, the n-th answer belongs to the n-th ping), and
the proofs count: a further frame adds one to a number of positions or leaves it, and
the older ones keep their numbers (`NumbersKept`). `MessageInv` adds the
message under way, of which the buffer holds the bytes read so far; `AnswerInv` the
ping just read and not yet answered; `FreedInv` which block is allocated at which
place of the thread.

*WsConnection.* For any number of slots, connections and calls, where the run has
one slot, from `ConnectionAssumption`:

| Theorem | States |
|---|---|
| `ClosedOnce` | `Spec => []OneClose` |
| `TypeCorrect` | `Spec => []TypeOK` |
| `CallbacksInPairs` | `Spec => []CallbacksPaired` |

The invariant `Owned` holds as long as `asked` is empty. It says that slot and
thread belong to each other: the slot of a thread that has not ended holds its
socket, and each slot that is taken has such a thread (`Paired`); nobody but the
client threads closes (`NobodyElse`); and the sockets closed are those whose
threads have come past their close (`Closings`). That the slot given to a
connection is free rests on the well-foundedness of the numbers (`FirstOf`).

`TypeOK` needs that a ping's number stays below the number of calls and that a taken
slot has a connection number (`TypeInv`). For `CallbacksPaired`, `CbInv` says what
has been called back by the place a thread is at, and that, until a slot is given on
while in use (`overlap`), live threads have different slots, each slot its thread's
connection number, and no two slots the same.

*CJson, CJsonParser, CJsonPrinter.* For a heap of any size, any keys and kinds of leaves,
texts of any length, any nesting limit, strings and buffers, from `ItemsAssumption`,
`ParserAssumption` and `PrinterAssumption`:

| Theorem | States |
|---|---|
| `ListsStayLinked` | `ItemsSpec => []ListsLinked` |
| `ListsLinkedAsParsed` | `Spec => []ListsLinked` |
| `MemoryStaysOwned` | `Spec => []MemoryOwned` |
| `TypeCorrect` | `Spec => []TypeOK` |
| `ItemsStayTrees` | `Spec => ItemsAreTrees` |
| `PrinterKeepsItems` | `PrinterSpec => [](TypeOK /\ ListsLinked /\ MemoryOwned)` |
| `PrinterKeepsTrees` | `PrinterSpec => ItemsAreTrees` |
| `PrintedInBuffer` | `PrinterSpec => []InBuffer` |
| `TextAloneLeft` | `PrinterSpec => []OnlyTextLeft` |

`ItemsSpec` has all the calls of `CJson`, in any order a caller who keeps to the
contract may make them; `Spec` is `CJsonParser`'s, which parses as well, and
`PrinterSpec`, the specification that the run checks, prints too.

*The links.* `ListsLinked` is stated by walking lists
(`List`, `Reach`), and no walk can be followed through a step that changes links in its
middle. The invariant `Inv` therefore walks nowhere. It says that there is a
function from nodes to parents that the links agree with, node by node
(`Linkage`): the neighbours of a node have its parent and point back to it, the first
node of a list is its parent's child and points back to a node without a next one, a
parent without a child has no members, and no nodes of a list stand in a circle beside
it (`NoCycle`: a set of nodes that has, with each, the one before it, has the first).
What the caller holds, or has lost, has no parent, and no node is above itself (`Held`).

1. *Walks*: that `List` and `Reach`, being recursive
   functions, have values (`WalkExists`), and that in a heap with a `Linkage` they
   find just the nodes with that parent, each once and in order (`ChainFrom`, `ListOf`), and
   the least set closed under links (`ReachClosed`, `ReachLeast`). `NoCycle` gives that
   walks end.
2. *Steps*: each operation on links leads from one `Linkage` to another
   (`AddedLinks`, `InsertedLinks`, `DetachedLinks`, `ReplacedLinks`, as a removal and an
   addition at its place, `FreedLinks`, `CopiedLinks`). That a deletion leaves no link to
   what was freed needs the caller's contract (`NoReferenceLeft`), and that copies are
   lists needs that what is copied is a tree, each node with one pointer to it
   (`TreeOwners`).
3. *Calls*: each keeps `Inv` (`CallsKeep`), and `Inv` implies `ListsLinked` (`SoundLists`).

*The strings* are counted node by node (`Tally`): each step changes the worth of the
nodes it touches by as much as the counter.

*The parser.* While it runs, the heap is not sound: the list under way hangs on no item, its
first node does not know the last one, and the items above are of no kind yet. `PInv`
describes the heap by another one, what it will be once the lists under way are hung
up: that one is sound, with the document as the only item without a parent
(`Built`), and differs from the heap in these links only (`Resembles`). Linking a
node is then an addition at the end of a list of the other heap, closing a bracket makes
the two agree about one list more, and each label `fail` deletes what hangs below
one frame. `TInv` adds the places in the text: that the parser is within it rests on what
was read last, since the model's text grows as the parser looks ahead.

*The printer.* `BInv`: what is in the buffer is within it, a terminator is behind the
offset where `update_offset` will look for one, and `depth` is the number of arrays and
objects under way, so that the tabs written are those counted. `print_string_ptr`
counts the bytes in one loop and writes them in another; that they agree for
every string is `QuotedLength`, by induction along the string. `BlockInv` counts
the buffers: one while printing, and afterwards one if there is a text.

*The refinement.* `JsonTree` knows sequences only. Each heap-level lemma above therefore
also states what becomes of all lists taken as sequences (`ForestOf`): an
addition appends to one, a detachment removes a place of one, a deletion empties those of
the nodes it frees, copies have lists of fresh nodes only, and everything else, such as setting
a key, changes none. What `cJSON_Delete` walks, following `child` and `next`, is what is
below the item in these sequences (`BelowForest`): for the item was taken out
first and nothing follows it. Then each call is one step of `JsonTree`, or none
(`CallStep`), and the parser shows its document in one step, when it returns it, and
nothing before (`ReturnsStep`, `Meanwhile`); after a failure nothing is left to be seen
(`NothingHeld`).

### Only model-checked

- `ParsesJson` and `PrintsItem`: they compare with a grammar, trees and layouts that are
  defined by RECURSIVE operators (`JsonText`), which the prover does not admit; what
  recursive definitions compute for all inputs would need an induction that the installed
  provers cannot instantiate.
- `Served`, `SlotComesFree` and `Ends`: liveness is out of the prover's reach.

## 5. Not modelled, and the plan

Not modelled:

- In `QoEServer`, periods carry no time, operations of the buffer are atomic, and
  libraries are what `main.c` sees of them; the modules above fill in each.
- Arrival and departure times (logged only) and dead code (`evaluation_task`,
  `is_still_stalling`, `cancel_timer`, `check_file_mode`, ...).
- Segment numbers that are no positive `int` of a float: negative ones read as stalls or
  less, the last 64 below 2^31 convert back to no `int` (`ServerAssumption` excludes both), and
  0 reads as an empty slot (no run has it).
- `WsFrames`: the NUL behind a control frame of 125 bytes (`ws.c:1548`, `msg_ctrl[125]`);
  `TerminatorFits` speaks of data messages. What an overrun overwrites.
- `lib/ws`: binding the socket, addresses, per-connection contexts, the file input
  of the fuzzing build, SHA-1 and base64 (pure functions of bytes), UTF-8
  validation (not compiled: `VALIDATE_UTF8` is not defined).
- `lib/json`: comparison, minification, number arrays, values and the digits of
  numbers (of `null`, `true` and `false` only `null` is printed); `cJSON_Utils.c` is not built by the Makefile.
- Logging, and the offline scripts and tests (used as statements of what the
  server should compute).

Left of the plan:

1. cJSON's comparison and minification, against the trees of `JsonTree`.
2. A composition of `QoEServer` with `WsConnection`, for what becomes of results after
   a reconnection; no document says what should.
