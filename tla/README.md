# A TLA+ development for mygo

mygo is a small language with a runtime for distributed programs: an event
loop with tasks on top of libuv, a TCP server and client, and a lexer, a parser,
a compiler and a byte-code machine. This directory holds TLA+ models of those
parts, the TLC configurations that check them on small instances, and TLAPS
proofs of the results that matter most. Paths below are relative to `src/`, the
repository.

The build is a Debug build (`CMakeLists.txt` sets `CMAKE_BUILD_TYPE Debug`), so
a failing `assert` ends the process; the models treat it so.

## 1. Inventory

| component | state | operations | interacts with |
|---|---|---|---|
| Channel (`src/channel.h`) | a mutex and a `std::queue` | `Size`, `Pop`, `Push`, each under the mutex | Loop, posting threads |
| Loop (`src/loop/loop.*`) | the channel, `uv_loop_`, the local vector `not_finished` | `PostTask`, `PostTimerTask`, `run` | tasks, libuv; any thread may post |
| RunOnce, TimerTask (`src/loop/task.h`, `loop.cpp`) | `state_`, `timeout_`, the `uv_timer_t` | `run(loop)`; the libuv callback sets `timeout_` | Loop, libuv timers |
| TcpServerTask (`src/loop/task.*`) | `state_`, the one-place slots `new_connect_` and `new_data_`, two maps between connection ids and handles | `run`, `SendData`, `on_new_connection`, `on_read` | Loop, libuv streams, peers |
| TcpClientTask (`src/loop/task.*`) | `state_` S0..S4, the member `client`, `response_` | `run`, `on_connect`, `on_read`, `on_close` | Loop, libuv streams, a remote end |
| Server (`src/server.*`) | one Loop (`MAX_THREAD` is 1), the global `count` | `Run`: posts a RunOnce that posts a timer, a TcpServerTask, and from the first tick a TcpClientTask | all of the above |
| ByteCodeVM (`src/vm.*`) | `pc_`, `stack_top_`, `stack_bottom_`, `call_stack_`, the bytes of `stack_` | `Run`: one case for each instruction | programs from the compiler or written by hand (`test/test_bytevm.cpp`) |
| Compiler (`src/compiler.*`) | the type table, for the current function `cur_stack_top` and `var_address_map`, the instructions | `compile_*`, `link` | syntax trees, ByteCodeVM |
| Lexer (`src/token.*`, `src/token_stream.*`) | the bytes, `state_` (position, line and column, last token), a cache of one token keyed by the position, the states that guards hold | `Value::FromChars`; `Peek`, `Next`; `StateGuard` with `finish` and a destructor that takes the stream back | parser |
| Parser (`src/ast.*`) | none of its own: results, errors and fatal errors | one `parse` function for each kind of node, recursive, with backtracking | lexer, compiler |
| Value, common, command line | - | - | see `PROJECT.json` |
| libuv (`third_party/libuv-1.51.0`) | timer heap, handles, write queues | `uv_run(UV_RUN_ONCE)`, timers, TCP streams | tasks' callbacks |

What is hard in this code, and so what the properties are about:

- *Interleavings*: posts from other threads against the loop's separate `Size`,
  `Pop` and `Push`; posts made by a task that is being run.
- *Callbacks that leave notes*: libuv's callbacks write into flags and
  one-place slots (`timeout_`, `new_connect_`, `new_data_`) that `run()` reads
  one pass later. Something may happen twice before it is read once.
- *Lifetimes*: handles that live inside tasks, connections whose addresses are
  reused, write buffers that are locals.
- *Sleep*: nothing but libuv events ends `uv_run`, a post does not.
- *Backtracking*: every parse function may fail half way and be followed by
  another one from the same place, through a cache that is not told.
- *Frames*: the machine's frames are plain numbers that instructions move; the
  compiler keeps temporaries and variables in one frame.

`PROJECT.json` lists every hazard at its line with the properties that cover it.

## 2. Modules

| module | models | uses |
|---|---|---|
| `FifoDispatch` | the promise of `PostTask`: tasks are begun at most once, in the order of the posts | |
| `EventLoop` | Channel, Loop, RunOnce, TimerTask, libuv's timers | `FifoDispatch` by refinement |
| `EventLoopProofs` | theorems about `EventLoop` | |
| `TcpServerTask` | the server task, its connections, sockets and peers | |
| `TcpServerTaskProofs` | theorems about `TcpServerTask` | |
| `TcpClientTask` | the client task against any remote end | |
| `TcpClientTaskProofs` | theorems about `TcpClientTask` | |
| `MygoServer` | the program of `Server::Run` | `TcpServerTask`, `TcpClientTask` by `INSTANCE` |
| `MygoServerProofs` | theorems about `MygoServer` | |
| `ByteVM` | the machine, one step for each instruction | |
| `ByteVMProofs` | theorems about the frames and the memory of `ByteVM` | |
| `TestPrograms` | a loop and a recursion for the machine, and their results | `ByteVM` |
| `TestProgramsProofs` | that these results are right | `ByteVMProofs` |
| `Token` | the lexer, as functions on characters | |
| `TokenCursor` | the promise of `TokenStream`: a cursor in a sequence of tokens, with marks | |
| `TokenStream` | the stream, its cache and its guards | `TokenCursor` by refinement |
| `TokenStreamProofs` | theorems about `TokenStream` | |
| `LexedStream` | the stream over the tokens the lexer reads, with a reference for places and numbers | `Token`, `TokenStream` |
| `LexerProofs` | theorems about `Token` and `LexedStream` | `TokenStreamProofs` |
| `Parser` | the parser, as functions on token sequences | |
| `Compiler` | the compiler, as functions on syntax trees | `Parser` |
| `CompiledProgram` | parser, compiler and machine together, with a reference meaning of sources | `ByteVM`, `Compiler` |
| `MC*` | instances for TLC | |

Operators named `Mut...` are variants of the operator below them with a
plausible mistake in it. No specification uses them; `PROJECT.json` says which
property notices which one.

### EventLoop

`pc` is the place of the loop's thread in `Loop::run`. `CheckSize` and `Pop` are
the two critical sections of the inner `while`; `RunOnce`, `StartTimer`,
`TimerIdle`, `TimerRepeat` and `TimerOnce` are the branches of the two `run()`
methods, each with what `Loop::run` does with the state it returns (`Keep` or
`Destroy`); `Requeue` is one `Push` of the second loop; `UvRun(S)` is
`uv_run(UV_RUN_ONCE)` in which the timers `S` fire. A `func_` may post one task
(`CallBack`). `Post` is any other thread, at any moment. `(int)duration_ /
MiliSec` is `Millis`, with the widths of `int` and `uint64_t` as parameters.
`Lifetime` is a horizon: a timer that would come due after it never fires in a
behaviour. When libuv follows a pointer into a destroyed task the result is
undefined: nothing happens (`UvRun`, `StartTimer`) or the process ends
(`UseAfterFree`). `posts`, `ticket` and `calls` are history variables.

### TcpServerTask

The loop alternates between one `run()` and one `uv_run`; other tasks only
matter in so far as a ticking timer ends the sleep (`Ticking`). A poll reports
all ready descriptors; `AcceptConnection`, `AcceptFails` and `OnRead` dispatch
them in any order; `EndUvRun` runs the close callbacks, which free the handles.
`mem`, `owner` and `queued` describe the heap address of a connection: who owns
its descriptor and how many writes libuv keeps for it. `SendData` on a freed
address is refused by libuv (the descriptor is -1) or ends the process. Peers
connect, send, read and leave at any moment; those in `Patient` wait for their
answer before they send more or leave. The bytes are abstract: a message is
known by its sender. `got` is a history variable: whose answers `SendData` has
written, or queued, for a peer.

`RoutedHome` exempts a patient peer that was itself given somebody else's answer.
This is not caution but what the code does. A peer that does not wait may leave
its data in `new_data_` and hang up; its address goes to a new, patient peer,
which then gets the answer to the data of the first. It cannot know better, hangs
up satisfied while its own request is still on the way, and its address goes to
yet another peer. The chain needs more peers than the run `server` has; the
attempt to prove the property without the exemption failed on it, and TLC then
showed it with five peers. `EachItsOwn` says what remains without exemptions: when
all peers wait, everyone gets its own answers only.

### TcpClientTask

One action for each branch of `run()`, `on_connect` and `on_read`. The remote
end sends up to `MaxPieces` pieces and closes or resets. A failing `assert` is
the stage "aborted". `on_close` frees the address of a member of the task: glibc
ends the process, or the heap is damaged and it goes on (`EndUvRun`).

### MygoServer

One thread, one pass: server, timer, client, then `uv_run`. What the client does
to the connection is an action of `TcpServerTask`'s peer, what the server does
to it is an action of `TcpClientTask`'s remote end; `DispatchClient` and
`ServerTurn` join them. The order of the tasks in a pass is the one `EventLoop`
proves.

### ByteVM

The stack is an array of bytes; `Load`, `Store`, `Signed` and `Immediate` are
the casts of `vm.cpp`, for a parameter `ByteRange` of values for each byte and
`Width[ty]` bytes for each type; `Modulus(n)` is the number of values of n bytes. An address is its type byte and its offset.
`Fault` is a failed `assert`, a trapping division or an access outside of
`stack_`. `MaxDepth` bounds `call_stack_`: a `Call` beyond it is not taken.

`TestPrograms` holds two whole programs, laid out for any width of the types:
`Loop` follows the layout of `gen_cal_pi_codes` and of the main part of its test
(`test/test_bytevm.cpp`), with a sum of integers in place of the floats, and
`Recursion` is `acc` of `example/acc.mgo`. `main` calls the function twice and
asks for its results at two places of its own frame.

### Token and TokenStream

`Token` keeps the names of `token.cpp`; a source is a sequence of characters and
`FromChars(src, p)` is the token at a position. `TokenStream` sees a source by
what `FromChars` makes of each position, under the assumption that tokens lie
within the source and that only the end and what cannot be read have no length
(`Readable`). The `places` of a source are where its tokens begin, one behind the
other (`Placed`); no action uses them, they are what `TokenCursor` counts.
`LexedStream` puts `Token` in for `FromChars`: TLC evaluates both assumptions on
the texts of `MCTokenStream`, and the theorem `EveryTextIsASource` says that they
hold of every text.

The actions are the calls the parser can make: `Peek`, `Next`, a new guard
(`Guard`), and the two ways a guard goes, `Finish` and `Reload`. Guards are
local variables, so the innermost goes first. `Next` where there is no token
reads an empty `std::optional`; nothing is said of what follows
(`NextUndefined`). `Peek` returns its local token when it misses, with the
default `start` and `end`, and the cached one when it hits; nothing but `Next`,
which always hits, looks at them, so a returned token has neither in the model.

### Parser

A parse function takes the tokens and a place, and returns a node with the place
behind it, or an error. Since every function holds a `StateGuard`, a caller that
goes on after an error goes on from its own place: this is what `IsCursor` shows
of the stream. `Then` and `Try` are the two ways of the code to deal with a
result: hand an error on, or go on without. `Deref` marks the eight places
where `Peek()->type()` is called unasked. `parse_with_plus` and
`parse_with_star` are the same code on two levels (`Operators`). `Bound` holds
the bounds of the loops, which asserts enforce, except that of the parameters,
whose loop just ends. Errors keep no texts and no places. A node's `span` is the
pair of places that `finish` writes into `start` and `end`.

### Compiler and CompiledProgram

`compile_expr` and the others keep their names, work on the nodes of `Parser`,
and take and return the state of the compiling function. `CompiledProgram` starts
from the tokens of a source, parses and compiles it in the initial state and runs
the result. `Eval` and `LastAssigned` are the reference: what the source means,
independently of syntax trees, frames and instructions. Of a division the
reference only says whether it traps, in the compiler's order of the operands
(`Computed`): the operands are swapped, so `0 / 5` traps and `5 / 0` does not.

## 3. Runs

| run | module / cfg | shows | bounds, and why they are enough |
|---|---|---|---|
| `eventloop` | `MCEventLoop.cfg` | `TypeOK`, `Ownership`, `PopSafe`, `ExactlyOnce`, `NoTickLost`, `HandlesOwned`, `FifoOrder`, `EveryTaskStarts`, `KeepsTicking` | one RunOnce task and three timers (an exact, a sub-millisecond and a one-shot one): every kind of task overtakes every other one; the theorems cover all other sizes |
| `eventloop_oneshot` | `MCEventLoop_oneshot.cfg` | `AllHandlesOwned` is violated | one one-shot timer |
| `server` | `MCTcpServerTask.cfg` | `TypeOK`, `NoConnectLost`, `IdsFollowConnections`, `AtMostOneAnswer`, `RoutedHome`, `DataServed` | two peers, two addresses, two requests each, a socket with room for one response: two connections in one poll, data with a connection, address reuse behind a stale id, data overwritten in its slot, full sockets. One peer is patient, the other is not |
| `server_buffers` | `MCTcpServerTask_buffers.cfg` | `BuffersOutliveWrites` is violated | one peer that does not read |
| `client_safety` | `MCTcpClientTask_safety.cfg` | `TypeOK`, `CallBackOnce`, `ClosedBeforeDestroyed` | three pieces: one before, one in and one after the state that expects it |
| `client_assert` | `MCTcpClientTask_assert.cfg` | `ReadAssertHolds` is violated | two pieces |
| `mygo_server` | `MCMygoServer.cfg` | `AnswerIsOwn`, `ProcessSurvives`, `ClientAnswered` | the program has exactly one client and one request; `count` stops at 2, as only 1 matters |
| `bytevm` | `MCByteVM.cfg` | `TypeOK`, `FrameChain`, `ReturnSites`, `ResultsRight`, `CallersKept`, `RunReturns` | all programs of four out of seventeen instructions, and a loop and a recursion that main calls twice, with arguments 1 and 3; bytes of four values, 32 bytes of stack, depth three: frames of size zero and at the end of the stack, overflow, jumps into the middle of functions. The theorems cover all programs and sizes |
| `tokenstream` | `MCTokenStream.cfg` | `TypeOK`, `CacheCoherent`, `LocRight`, `TokensRead`, `NextAdvances`, `IsCursor` | all texts of up to three out of ten characters (a keyword and its letters, a digit, a dot, a quote, blanks, both ends of line, an unreadable one), every keyword, some longer texts, one with two strings on two lines and one that spans lines; two guards, which is enough for one inside the other; ints of 9 bits, which the literal 1234 overflows. The theorems cover all texts and depths |
| `parser` | `MCParser.cfg` | `NothingLost`, `GrammarAccepted`, `LinesIndependent`, `PrecedenceRight` | all sequences of up to three of 22 words, all of up to five of the words of expressions, and three programs that have every kind of node with any one word left out, put in or replaced, so that each error path is met at each place; every prefix of them before an unreadable character; the sentences of a grammar: every kind of statement of the repository's tests, optional parts there or missing, blocks with none to two lines, nested once, alone or with another statement on the next line. The bounds of the loops are three (eight for blocks), so that they are reached |
| `compiled` | `MCCompiledProgram.cfg` | `VariablesRight`, `AssignedKept`, `RunsToEnd` | token sequences, with the bounds of the real parser; expressions nested two deep and chains of three operands over two literals, in a function with variables of two sizes, an undeclared one and prints; one source of two functions with a struct, an alias, an unknown type and a double declaration; quotients and chains with division, of zero and by zero; bytes of four values, so that sums leave one byte |
| `compiled_sub` | `MCCompiledProgram_sub.cfg` | `VariablesRight` is violated | the same with subtraction |

What four of them say, and where they stop:

- `DataServed`: once connections stop coming (`<>[](backlog = <<>>)`), data that a
  peer has in `new_data_` is handed to `OnData`, unless data of another peer
  overwrites it first. Both conditions are what the code does: `new_data_` has
  room for one message, and `run()` serves a connection before data and then
  returns (`task.cpp:109`), so a connection in every poll starves it. Nothing in
  the repository promises otherwise.
- `ProcessSurvives`: without a failure of listening, connecting or accepting
  nothing ends the process. After one, two things may: `on_close` frees a member
  of the client (`task.cpp:124`), and the timer is linked behind the handle of
  the destroyed server task (`TimerTurn`). The asserts of both callbacks, and the
  buffers of writes, are right even then.
- `RunsToEnd`: a program without an `if` comes to its end if it divides by zero
  nowhere, and only then.
- `GrammarAccepted`: the sentences of the grammar are accepted, as the kinds of
  statements they were put together from. `NothingLost` says that accepted
  sources are kept; this one says that enough is accepted, although the kinds are
  tried in a fixed order and the first that fits wins.

`CHECK_DEADLOCK FALSE` stands where the modelled process may end or come to
rest: a crash, a fault, a program that has returned, peers that have all left,
a client that waits for ever, or a one-shot timer that brings the loop down.

### Disagreements the runs show

1. `eventloop_oneshot`: a `TimerTask` with `repeat_ = false` is destroyed while
   armed (`loop.cpp:34`). libuv: "This MUST be called on each handle before
   memory is released." `Server::Run` only posts a repeating one.
2. `server_buffers`: `SendData` gives libuv a pointer into a string that dies on
   return (`task.cpp:74`). libuv: "The memory pointed to by the buffers must
   remain valid until the callback gets called."
3. `client_assert`: `assert(task->state_.isS2())` (`task.cpp:129`) fails when a
   response comes in pieces or the remote end closes after it. The server of
   this program does neither (`ProcessSurvives` of `mygo_server`).
4. `compiled_sub`: subtraction and division are compiled with swapped operands
   (`compiler.cpp:379`, `395`), against `test/test_expr.cpp:27`.

Met on the way, without a run: `common.h:23` says "duration in us" of a type
whose unit is `NanoSec`; a failed bind or listen destroys the server task with
an unclosed handle (`task.cpp:92`); a compiled `if` cannot run
(`compiler.cpp:440`, unfinished). In the parser: `func 1() {}` is accepted,
because the error made at `ast.cpp:423` is not returned; `ast.cpp:450` says "allow
max 99 return", but the assert two lines below already fails for the 99th; `For`
takes a fatal error of its declaration for a missing one (`ast.cpp:543`), where
`ast.h:86` says "parsing is over", and rejects the source a token later;
`test/test_ast.cpp:39` expects a source with an unclosed parameter list to be
accepted, and the parser rejects it; parentheses are not supported
(`ast.h:126`), so `example/test.mgo` is rejected. In the lexer: `false` is
spelled `flase` in `token.h`; a character that begins no token, or a name that
ends with the file, is an empty optional that `Peek` and `Next` write through; a
string that spans lines counts as one line.

## 4. Fairness

- `EventLoop!Fairness`: weak fairness of `LoopStep` says that the loop's thread
  is scheduled and that `uv_run` wakes when a timer is due. Strong fairness of
  "a `uv_run` in which `t` fires", for each timer, says that the clock moves on:
  while other timers end one `uv_run` after the other, a timer that stays armed
  comes due in one of them. libuv fires every timer whose time has come, so it
  cannot be passed over. Posts are not fair.
- `TcpServerTask!FairSpec`: weak fairness of the loop's thread only. Peers owe
  nothing. In `Poll` a ticking timer ends the sleep, as it does in `Server::Run`.
- `MygoServer!FairSpec`: weak fairness of the single thread.
- `ByteVM`, `CompiledProgram`: `Run` is called with `UINT64_MAX` ticks and does
  not stop in the middle.

## 5. Proofs

`EventLoopProofs` proves, for every set of tasks, all durations and widths
(assumptions `TasksAssumption`: the kinds of tasks are disjoint, and
`WidthAssumption`: the numbers are naturals, `int` is no wider than `uint64_t`):

| theorem | states |
|---|---|
| `TypeCorrect` | `Spec => []TypeOK` |
| `OwnershipHolds` | `Spec => []Ownership` |
| `PopIsSafe` | `Spec => []PopSafe` |
| `NoTickIsLost` | `Spec => []NoTickLost` |
| `RunsExactlyOnce` | `Spec => []ExactlyOnce` |
| `RepeatingHandlesOwned` | `Spec => []HandlesOwned`: one-shot timers are exempt |
| `LoopIsFifo` | `Spec => FifoOrder`: `EventLoop` implements `FifoDispatch` |

None of these is inductive by itself. *Ownership* needs to know where tasks may
be at each `pc` (`Placed`: `cur` holds a task exactly between `Pop` and the end
of `run()`, and `not_finished` is empty in `uv_run`) and what a task's state says
of its past (`Started`: unposted tasks and only they have no ticket, everything
in `not_finished` has been started). *NoTickLost* needs `Served`: a set
`timeout_` belongs to a started timer that is not in `not_finished`, so the
current pass still has it before it; when the pass is over no flag is set. This
is where it matters that `Loop::run` drains the channel before every `uv_run`.
*LoopIsFifo* needs `Tickets` (posts are numbered injectively) and `InOrder`: the
tasks of the channel that were never run are in the order of their tickets,
behind `cur` if that one was never run. Pushing an unfinished task back does not
disturb it, because such a task is no longer in S0; a new post has the highest
ticket. The refinement maps `begun` to the posted tasks that have left S0; every
step of the loop is a `Begin`, a `BeginPosting`, a `Post` or a stutter.

`ByteVMProofs` proves, for every set of programs, stack size and byte width
(`VMAssumption`):

| theorem | states |
|---|---|
| `FramesNested` | `Spec => []FrameChain` |
| `ReturnsBehindCalls` | `Spec => []ReturnSites` |
| `CallersAreKept` | `Spec => CallersKept` |

The invariant is `FrameTypeOK` with `FrameChain` and `ReturnSites`. `Call` starts
the new frame at the caller's `stack_bottom_`, `SetStackBottom` is relative to
`stack_top_`, and `Return` restores exactly what the last `Call` saved, so each
frame ends where the next begins. `CallersAreKept` then follows because every
store goes to `stack_top` or above it, and the store of `Return` to the caller's
`stack_top` or above it.

The second half of `ByteVMProofs` is about what the machine's bytes mean, for
every byte and word size:

| theorem | states |
|---|---|
| `TypeCorrect` | `Spec => []TypeOK` |
| `ValuesAreStored` | `Spec => ValuesStored`: what an instruction computes is what is read at its first operand afterwards, modulo the size of its type and exactly if it fits; numbers elsewhere do not change; `Return` hands the callee's number to the caller |

`Modulus` and `Load` are recursive functions, so this takes induction over the
number of bytes. The induction theorems of the library are of no use here (they
take the predicate as a parameter), but the existence of minimal elements in a
well-founded relation (`WFMin`) has a set for a parameter: `LeastNumber` says
that a set of naturals that is not empty has a least element, and each induction
looks at the least counterexample. `RecursionExists` shows that the recursions
have solutions at all, without which `CHOOSE` would say nothing. `LoadOfStore`
is the representation of a number to the base `ByteRange`; its step is
`ModStep`, one more digit. `LoadElsewhere` and `ReturnCopies` follow from
`SumsAgree`: equal bytes are equal numbers.

`TestProgramsProofs` proves the results of the two programs, for every byte and
word size, every stack, and all inputs whose sum an `int` holds
(`InputsAssumption`, which also says that the places the programs jump to fit into
their type):

| theorem | states |
|---|---|
| `ResultsAreRight` | `TestSpec => []ResultsRight` |

The invariant `Progress` says for each place of a program what memory holds
there. In the loop it is the usual one: the sum is that of the numbers counted so
far, and the saved pc is the head of the loop (`LoopAt`). In the recursion
(`RecursionAt`) it speaks of all frames at once: the i-th one waits behind its
`Call`, still holds its own argument, which is one less than its caller's, and
asks for the result behind its saved place (`Suspended`). That nothing happens to
a waiting frame follows from `FramesOrdered` (from `FrameChain`, for any two
frames) and from what each instruction writes (`DoesSet`, `DoesAdd`,
`DoesReturn`..., from `ValuesAreStored`'s lemmas). The depth is any that
`MaxDepth` and the stack allow; with too little stack the program faults before
it has results, so that the theorem is one of partial correctness and
`RunReturns` stays with TLC.

`TokenStreamProofs` proves, for every set of sources and every depth of guards
(`SourcesAssumption`: tokens lie within the source, only `Enf` and what cannot be
read have no length, a `Space` takes all blanks; `MaxGuardsAssumption`):

| theorem | states |
|---|---|
| `TypeCorrect` | `Spec => []TypeOK` |
| `CacheIsCoherent` | `Spec => []CacheCoherent` |
| `SpansAreForward` | `Spec => SpanForward` |
| `NextIsProgress` | `Spec => NextAdvances` |

The cache is keyed by the position alone, so its coherence rests on the position
determining the loc, among all states that the stream is in or may be taken back
to. That is not inductive by itself. `IInv` adds `Ordered`: guards lie behind the
stream and one behind the other, in position and in loc, and equal positions have
equal locs. `Next` goes beyond all of them, or stays at the end where a token has
no length, and then loc stays too; `Reload` goes to the last of them. The cache is
filled at the place the stream is left in (`MoveKeeps`), and whichever guard has
that position has that loc. `SpanForward` is the order of loc.

`StreamIsCursor` states `Spec => IsCursor`: `TokenStream` implements `TokenCursor`.
The cursor's index of a position is the number of the place with that position.
The proof adds `AtPlaces` to `IInv`: the stream and every guard are at places.
`Next` with its loop over blanks goes to `Behind`, which is the next place
(`BehindIsNext`); at the last place both stay. `Finish` and `Reload` are
the cursor's `Leave`, which stays or goes back to the last mark.

`LexerProofs` is about the lexer on every text, character by character, with ints
of any size (`IntRangeAssumption`; `LexedAssumption`: the sources of the stream are
what the lexer reads in texts):

| theorem | states |
|---|---|
| `EveryTextIsASource` | for every text there are places with which it is `Readable` and `Placed`: the assumptions of `TokenStreamProofs` hold of whatever the lexer makes |
| `LocIsRight` | `Spec => []LocRight` |
| `TokensAreRead` | `Spec => []TokensRead` |

`ReadsRight` collects what the lexer finds at a position, from one lemma for each
kind of token (`IntKind`, `FloatKind`, `StrKind`, `SymbolKind`, `SimpleTokens`,
`EndlKind`); `PathExists` then builds the places backwards from the end, because
every token is longer than nothing. `LocIsRight` is that adding up is counting: a
token without an end of line stays on its line (`SameLine`), and one with it is one
end of line, `\r\n` included, and begins the next (`NewLine`). A string that spans
lines is the exception (`MultiLine`), and only for what comes behind it
(`MultiLineBefore`): the invariant is that the stream and its guards are at
places (`AtPlaces`, from `TokenStreamProofs`) and that each loc is right as long
as no place before it holds such a string; a step goes from one place to the next
(`StepIsCursor`), and the string that would make its loc wrong then lies before
it. `TokensAreRead` needs that
wrapping after each digit is wrapping once at the end (`WrapStep`,
`AccumulatedRight`, an induction over the digits through the least
counterexample), and that no entry of the list of simple tokens begins a later
one (`NoneBefore`): six pairs share their first character (`HeadsApart`), and
of those the earlier entry is the longer one or differs in the second.

`TcpClientTaskProofs` proves, against every remote end and any number of pieces
(`ClientAssumption`):

| theorem | states |
|---|---|
| `TypeCorrect` | `Spec => []TypeOK` |
| `CallsBackOnce` | `Spec => []CallBackOnce` |
| `IsClosedBeforeDestroyed` | `Spec => []ClosedBeforeDestroyed` |
| `ConnectIsExpected` | `Spec => []ConnectAssertHolds`: unlike that of `on_read`, the assert of `on_connect` never fails |

The invariant adds `Progress`, what each state says of the handle, the
connection and the past, and `Closing`: a handle that is being closed is closed
before `uv_run` returns, so `run()`, which is where an `Error` destroys the
task, never sees it half closed.

`TcpServerTaskProofs` proves, for every finite set of peers and at least as many
addresses, any number of requests, any room in the sockets, with and without a
ticking timer (`ServerAssumption`; that the listener is no connection's address
is there because its handle is a member of the task):

| theorem | states |
|---|---|
| `TypeCorrect` | `Spec => []TypeOK` |
| `NoConnectIsLost` | `Spec => []NoConnectLost` |
| `IdsAreCurrent` | `Spec => []IdsFollowConnections` |
| `AnsweredOnce` | `Spec => []AtMostOneAnswer` |
| `RoutesHome` | `Spec => []RoutedHome` |
| `PatientPeersGetTheirOwn` | `Spec => []EachItsOwn` |

One invariant carries all of them. *TypeOK* itself is not inductive: an
`AcceptConnection` takes a new id, and that there is one left is a counting
argument. `Counted` says that the ids given do not outnumber the peers that have
left the backlog, so with somebody still in the backlog they are fewer than the
peers (`IdLeft`). `Slot` is why no connection is lost: `new_connect_` is full
only in `run()` or in the dispatch that filled it, with the listener already
served. `Owners` (one peer, one handle, as long as it does not hang up) and
`Handles` (exactly the ids up to `cur_id` lead somewhere) carry the maps through
the reuse of addresses. *RoutedHome* rests on `Patience`: a patient peer that has
only its own answers has no more of them than it was served, so while its data
waits in `new_data_` it still waits too, has not hung up, and its handle is live;
`IdsFollowConnections` then says that the id in `new_data_` leads to it. The lemma
`Footprints` collects which variables each action leaves alone; most of the
proof is one step for each action on top of it.

`MygoServerProofs` proves of the program of `Server::Run`, for any set of
addresses, time of the accept, failure of the network and length of the run
(`MygoAssumption`):

| theorem | states |
|---|---|
| `CallBackGetsItsAnswer` | `Spec => []AnswerIsOwn` |
| `OnlyFailuresEndTheProcess` | `Spec => []ProcessSurvives` |

The theorems about the parts do not give these: the client alone can be made to
fail its assert. The invariant follows the one connection through both ends:
nothing of it is on the server before it is accepted (`NotYet`, `Pending`,
`Reported`); then it is the only live handle and has id 0 (`Accepted`); the
request is sent, read, served and answered once (`Conversation`); and the
client's state tells how far the answer has come (`Ends`). So the server sends
one piece and never closes, which is all that the assert of `on_read` needs. When
accepting fails the connection is cut instead, without a piece, and the client
closes. It comes to `on_close` only this way or when connecting failed, and a
failed listen is the only way to a timer behind a destroyed handle (`Killed`):
the process can end only when something failed.

Only model-checked:

- all liveness properties: fairness and `ENABLED` are beyond the prover;
- what the parser and the compiler compute (`VariablesRight`, `AssignedKept`, all
  of the run `parser`): they are recursive operators on syntax trees, which the
  prover cannot take apart.

## 6. Not modelled

- The texts and places of the parser's errors; what the parser does after it has
  read the type of a token that is not there.
- Float instructions and literals, `SC_PRINT_STR`: TLC has no floats; control
  flow is the same as that of the integer types.
- The content of network messages, and reads beyond a buffer without a
  terminating zero (`task.cpp:29`, `131`). `on_close` frees the address of a
  member (`task.cpp:124`), after which `TcpClientTask` allows any outcome.
- `compile_global`: fills a table that no generated code uses.
- `Value` (used by nothing), debug output, the command line, `Server::Stop`: no effect on the
  modelled state.
- More than one Loop: `MAX_THREAD` is 1. Two loops would share one
  `uv_default_loop()` (`loop.h:16`).
- A poll with 1024 ready descriptors or more: libuv then polls again within the
  same `uv_run` (`linux.c:1593`), the listener can be dispatched twice, and
  `new_connect_` be overwritten. `TcpServerTask!Poll` polls once.
- Requests that TCP splits: a `Send` is what one read delivers. A request in two
  pieces is two `Send`s of a peer that does not wait in between, and each piece
  is answered; the peers of `Patient` are assumed to have their requests
  delivered whole, and `AtMostOneAnswer` counts reads.
- Other programs that connect to 127.0.0.1:8888: the only peer of the server in
  `MygoServer` is the program's own client. `TcpServerTask` has any number.
- Expressions that name variables: `compile_expr` emits code for `Int` literals
  only, so a variable as an operand compiles to nothing, and `Eval` is about
  literals.
- Running out of memory: `malloc` succeeds in all models.

## 7. Plan

Done: the event loop with its abstract specification, the server and client
tasks, their composition, the machine, the lexer with its abstract
specification, the parser, the compiler, and the path from tokens to values;
proofs of all safety properties of the concurrent parts, of the lexer with its
stream, and of the machine, from its single steps to the results of whole
programs.

Left: the parser and the compiler as relations instead of recursive operators,
which would bring `NothingLost` and `VariablesRight` within the prover's reach.
