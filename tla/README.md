# A verification model of SAPF

SAPF is an interpreter for a postfix, stack-based, mostly functional language
for sound.  These modules model the parts of it that are concurrent, lazy or
stateful enough to go wrong in ways a unit test hardly reaches, check them with
TLC and prove the most important facts with TLAPS.  Source paths are relative
to the repository root, which `PROJECT.json` calls `src/`.

1. [The system](#1-the-system) - the inventory of its parts
2. [The modules](#2-the-modules) - which module models which code, and how
3. [What is checked](#3-what-is-checked) - the runs, their bounds, fairness
4. [What is proved](#4-what-is-proved) - theorems and their arguments
5. [What the code does not guarantee](#5-what-the-code-does-not-guarantee)
6. [What is not modelled](#6-what-is-not-modelled)
7. [The plan](#7-the-plan)

To run it: `tlc -config MCLazyList.cfg MCLazyList` checks a configuration,
`tlapm LazyListProofs.tla` a module of proofs.

## 1. The system

A program is text.  The parser (`Parser.cpp`) compiles each statement to
opcodes with the help of `CompileScope` (`VM.cpp`); the virtual machine
(`Opcode.cpp`) runs them on a `Thread` that has a value stack and local
variables.  Values are reference counted objects (`RCObj.cpp`): numbers,
strings, symbols, functions, forms, references and lists.  Lists are lazy:
a generator fills them when they are forced, and every stream primitive and
unit generator is such a generator.  `play` hands a list to an audio backend,
whose own thread pulls it, so that the interpreter and the audio threads share
lists, forms, references and symbols.  `ARCHITECTURE.md:396-406` states the
threading contract, `README.md:14` the promise behind it: "the language can run
multiple threads without deadlock or corruption".

### Core data shared by threads

| part | state | operations | talks to | hard, and what makes it correct |
|---|---|---|---|---|
| **Lazy lists and generators** (`Object.cpp`, `Object.hpp`, `List.hpp`, `PlatformLock.hpp`) | per cell `mGen`, `mNext`, `mArray`, `mSpinLock`; per generator `mOut`, `mDone`, its input cursors | `List::force`, `Gen::pull`, `fulfill`, `link`, `end`, `produce`, `In::advance`, `VIn`, `ZIn` | every primitive, the backends | A generator has no lock: only the spinlock of the cell being forced keeps two threads out of one pull. Readers use arrays unlocked. Items may throw in the middle of a pull. Correct: one pull at a time, published blocks never change, readers see the whole list in order, an exception frees every lock. |
| **Symbol table** (`symbol.cpp`, `RCObj.cpp`, `rc_ptr.hpp`) | bins of a hash table, each a lock-free list; reference counts | `getsym`, `retain`, `release` | parser, primitives, forms | Insertion by compare-and-swap against lookups and counting. Correct: one symbol per name, counts exact, no symbol deleted while held, or ever. |
| **Workspace** (`GTable`, `GForm` in `Object.cpp`, `opBindWorkspaceVar`, `opPushWorkspaceVar` in `Opcode.cpp`, `pushWorkspace`, `popWorkspace` in `CoreOps.cpp`) | a binary tree on hashes per form, forms chained by `mNextForm`, the form each function captured | `get`, `putImpure`, `putPure`, bind, push, pop | compiled functions, all threads copied from one | In-place growth at leaves, lock-free reads, subtrees shared by forms. Correct: what was read stays true, a name keeps its value in a form, a binding is visible to its binder, the order of the trees survives sharing. |
| **Ref and ZRef** (`Object.cpp`, `Object.hpp`) | an object or a number, a spinlock, a change count | `set`, `deref`, `chase` | programs, unit generators | Read and computed without the lock and written back; counts. Correct: counts add up whatever the interleaving, nothing is used after it is deleted. |
| **Plug and ZPlug** (`Object.cpp`, `CoreOps.cpp`) | an input cursor, its change count | `setPlug`, `plug`, pull | programs, generators | A pull races with a change of the input. Correct: an old cursor never overwrites a new input; the stream has every input from its start, with no gap. |
| **Reference counts** (`RCObj.cpp`, `VM.hpp`, `rc_ptr.hpp`) | `refcount` of every object | `retain`, `release`, `norefs` | everything | Correct: zero exactly when nobody refers to the object. |

### Audio and MIDI

| part | state | operations | talks to | hard, and what makes it correct |
|---|---|---|---|---|
| **ALSA backend** (`backends/AlsaAudioBackend.cpp`) | `players_`, `pcm_`, `running_`, `mutex_`, `cv_` | `play`, `record`, `stop`, `stopDone`, `audioThreadLoop`, destructor | lists, `libsndfile`, the device | One audio thread that sleeps, opens, mixes under the mutex, writes without it. Correct: no wake-up lost, device given back when idle, recordings closed, destructor returns. |
| **RtAudio backend** (`backends/RtAudioBackend.cpp`, `thirdparty/rtaudio/RtAudio.cpp`) | `players_`, `streamOpen_`, `mutex_`; the library's stream | `play`, `record`, `stop`, `stopDone`, `render` | lists, the library's callback thread | The stream is opened by `play` and closed by `render` or `stop`. Correct: what plays has a running stream, nobody waits in a circle, no freed stream is used. |
| **CoreAudio backend** (`CoreAudioBackend.cpp`) | `gAllPlayers`, audio units, a watchdog | the same, `createGraph`, `recordWithAudioUnit` | lists, macOS | A watchdog deletes players whose callback has set `done`. |
| **Null, Max backends, selection** (`NullAudioBackend.cpp`, `MaxAudioBackend.cpp`, `AudioBackend.cpp`) | `players_` | `play`, `stop`, host block | a host application | As RtAudio without a stream. |
| **MIDI router** (`MidiRouter.cpp`, `Midi.cpp`) | keys, controllers, bend per channel; running status, sysex state | packet handler, resets, `ZIn` control generators | MIDI callbacks, unit generators | A byte protocol whose state is shared by all ports. Correct: a message on one port does not change what another port's bytes mean. |
| **RtMidi, CoreMIDI backends** | ports | start, connect, stop | system libraries | A callback that runs while its port is closed. Correct: a running input finds its callback data; closing and restarting return. |

### The language

| part | state | operations | hard, and what makes it correct |
|---|---|---|---|
| **Virtual machine** (`Opcode.cpp`, `VM.cpp`, `VM.hpp`) | value stack, locals, their bases | opcodes, `SaveStack`, `ParenStack`, `PushFunContext`, `try` | Nested scopes move bases; an exception anywhere must leave them where they were. |
| **Compiler and scopes** (`Parser.cpp`, `VM.cpp`) | scopes with locals, captures, workspace names | `bindVar`, `directLookup`, `indirectLookup` | A name is resolved to local, captured or global, through any nesting. |
| **Forms, tables, inheritance** (`Object.cpp`, `Form.hpp`) | `TableMap`, parents | look-up, linearisation | The order of parents is consistent with each parent's own. |
| **Lists and streams as algorithms** (`StreamOps.cpp`, `SetOps.cpp`, `MultichannelExpansion.cpp`, `Object.cpp`) | cursors | take, drop, merge, flatten, chop, ... | Block boundaries must not show: the result equals that on flat sequences. |
| **Unit generators** (`UGen.cpp`, `OscilUGens.cpp`, `FilterUGens.cpp`, `DelayUGens.cpp`, `dsp.cpp`, `MathOps.cpp`), **random** (`RandomOps.cpp`) | filter states, phases | pull | Numerics; concurrency is that of lazy lists. |
| **Primes, hash, types** | tables | pure functions | Names whose hashes collide. |
| **Sound files, spectrograms, images** | files | read, write | Input and output. |
| **Event loop** (`platform/`) | a flag | `runEventLoop`, `stopEventLoop` | A stop that comes before the run. |
| **Engine, command line, REPL** (`SapfEngine.cpp`, `cli/`) | the engine | start, evaluate | The loop goes on after a failed statement: data half changed by an exception is used again. |
| **Vendored code** (`thirdparty/`, `libmanta/`) | | | Not the project's own, but for what the RtAudio backend relies on. |

The list of hazards, each at its line, is in `PROJECT.json`; those without a
property carry a note that says why.

## 2. The modules

| module | models | as |
|---|---|---|
| `LazyList` | `List`, `Gen`, `VIn`/`ZIn` | clients, cells, generators |
| `Stream`, `LazyListRefinement` | what a pipeline of lists promises: how much of each list is computed, and the items each reader has | an abstract specification, and the mapping to it |
| `SymbolTable` | `getsym` and symbol counts | threads on one bin |
| `Workspace` | `GTable`, `GForm`, bind, push, pop, look-up | threads on a heap of nodes and forms |
| `AudioPlayers` | players, their lists and recordings, the mixing of a block | what the two audio backends have in common |
| `AlsaBackend` | `AlsaAudioBackend` | interpreter threads, an audio thread, a device |
| `RtAudioBackend` | `RtAudioBackend` and RtAudio's ALSA streams | interpreter threads, callback threads |
| `Registers` | `Ref` and `Plug` | interpreter threads, the audio thread, objects with counts |
| `MidiRouter` | the packet handler and the channel state | a thread per input, byte by byte |
| `RtMidiBackend` | `RtMidiBackend` on top of the router | the router, the ports' threads, an interpreter |
| `Machine` | value stack, locals, frames, exceptions | one thread and its frames |
| `Closures` | compile scopes, closures, name look-up | the parser, then the code it made |
| `ListReader`, `StreamOps` | input cursors, twenty-one stream words | one generator over lists of arrays |
| `StreamPromises` | what these words promise | functions on flat sequences |
| `MC*` | | the instances TLC checks |
| `*Proofs` | | theorems about the module they extend, those of the three backends in `BackendsProofs` |

`AlsaBackend` and `RtAudioBackend` extend `AudioPlayers`: what they share is
there once, and a name that means something else in each carries the prefix
`Alsa` or `Rt`.
`RtMidiBackend` extends `MidiRouter`, `StreamOps` extends `ListReader`, and
`StreamPromises` extends `StreamOps` with the properties that compare it with
the flat definitions.  Every module has a `TypeOK` that gives the types of its
variables.  It is a theorem where there are proofs; the configurations spend
their runs on other properties.

Definitions marked `(* mutant *)` are not used by any specification: each is
the form a definition beside it would have after a plausible slip (a dropped
guard, a missing reset, a lost wake-up), and is there to show that the property
named for it in `PROJECT.json` notices.

**LazyList.**  List `l` is the chain of cells 0, 1, 2, ...; a variable per
field of the code (`thunk` for `mGen`, `next`, `array`, `lock`, `out`, `done`)
and, per client, `at`/`off` for its cursor.  A client is a reader or a
generator; a generator acts only while some client is inside its pull, as a
nested call would, so one thread of the program is a stack of clients.  The
actions follow the code: `Call`, `Skip`, `Take` are `VIn::operator()` and
`In::advance`; `Acquire`, `ForceFilled`, `ForceEnd`, `ForcePull`, `AbortForce`
the ways through `List::force`; `Copy`, `Throw`, `FinishBlock`, `FinishStream`
the loop of a pull and `produce`; `Unwind` the destructor of `SpinLocker`.
Item `k` of a list is the number `k`, a fresh array's default value is 0; the
generators copy their input, which is what matters about them here.  The
assertions are active in the release build too: `CMakeLists.txt:44` sets
`CMAKE_CXX_FLAGS_RELEASE` to `-O3` with no `-DNDEBUG`, so `AbortForce` ends
the process.

**SymbolTable.**  Bins do not interact, so one is enough.  A symbol is the
number of its insertion, which makes the list's links arithmetic.  `Load`,
`Compare`, `CasSucceeds`, `CasFails` and `RetainForTable` are the steps of
`getsym` that other threads can come between; `Return` and `Release` are the
life of the `P<String>` that its callers keep.

**Workspace.**  Nodes and forms are numbered in the order of their creation,
0 is null; a slot is the address of an atomic pointer.  `Bind` begins
`opBindWorkspaceVar`, which puts twice, into the function's form and into the
thread's; `Probe`, `CasSucceeds` and `CasFails` are the loop of `putImpure`,
`CopyLeft`, `CopyRight` and `Build` the recursive copying of `putPure`, whose
reads of shared nodes are separate steps because others extend them meanwhile;
`Get` and `GetStep` walk tree and scopes as `GForm::get` does.  Values of
different bindings differ.  `seen.before` is what a read had to find when it
began; it is a history variable.

**AlsaBackend.**  What is done under `mutex_` in one go is one action.  The
audio thread's writing, which is done without it, is split at every access to
`pcm_`.  The condition variable is a flag: a notification reaches the thread
only if it waits.

**RtAudioBackend.**  The library is modelled from its source as far as the
backend calls it: `openStream`/`startStream`, `stopStream`, `closeStream` with
its signal and its join, and the thread that calls `render`.  Closing a stream
has three steps, for `stop` as for `render`: the stream is stopped, the threads
are told to leave (`isRunning`, and one sleeping thread is woken), the stream's
own thread is joined and the stream freed.  After that no stream is open:
`callbackEvent` skips its blocks and the thread leaves, unless a new stream is
opened first, whose `isRunning` it then finds true; it serves that stream beside
the stream's own thread, or uses what it still holds of the old one (`freed`).
`mutex` is a variable only where it is held over several steps; `stream_.mutex`
is held by a thread that is in `write`.  The test of `isRunning` and the
reading of the handle and of the state are one step, and a `startStream` that
fails counts as a stream that was never opened.

**Registers.**  What is done under the spinlock of a `Ref` or a `Plug` is one
action; the retain before it, the release after it and the work between two
holds are actions of their own.  `SetRef`, `GetRef`, `Chase*` are `Ref::set`,
`deref` and `chase`; `SetPlug` is `setInput`; `GetPlug`, `Fill*` and `WriteBack`
are the three parts of a plug's pull.  Objects are counted; `surplus` is a history
variable that counts what `deref` retains beyond what it returns, `heard` the
frames the stream has given out, each with the number of the `set` it is from.

**MidiRouter, RtMidiBackend.**  A packet is a sequence of bytes.  The handler
is one action per turn of its loop, so that the handlers of two inputs come
between each other's reads and writes of the running status and the system
exclusive flag.  `told` is a history variable: the state the channels of a port
should have by what was sent to it alone; `spoilt` the ports whose system
exclusive message was overlapped.  The backend has an action for each step of
`start`, `connect`, `disconnect`, `stop` and `cleanup` that a callback can come
between: registering the callback data, opening, failing to open, telling the
thread to stop, joining it, freeing the data.

**Machine.**  A frame is a C++ stack frame that restores something: the context
of a function (`PushFunContext`), `ParenStack` or `SaveStack`, the handler of
`try` or `protect`, a `load`.  What compiled code does is chosen freely (any
opcode or call, with any function), so the model has every program at once; an
exception unwinds frame by frame; `try` and `protect` both throw it again when
their handlers have returned.  `threw` is a history variable: for which `load`,
or the prompt, something has been thrown; it leaves out what a `try` is on the
way of, since the help of `try` and its code disagree on that.  The depth of the
stack is unsigned, as in the code: where it would wrap, the next access is
undefined (`mode`).  `below` and `callers` are history variables, what the stack
and the locals held when the frame was made.

**Closures.**  A text is chosen token by token, a word, a binding, the start or
the end of a function; each token does to the scopes what `parseWord`,
`parseLambda`, `bindVar` and the two look-ups do, and appends the opcodes they
emit.  The text's code is then run: `PushFun` builds the closure from what
`PushFunVars` pushed, functions run on the form they captured, binding at the
top level puts twice.  `env` is what the words should denote, computed from the
nesting of the text alone and not from slots.

**ListReader, StreamOps, StreamPromises.**  A reader is a cursor over a list
that is divided into arrays (`nodes`), some of them empty; `AtItems`, `Advance`
are `operator()` and `advance` of `VIn`/`ZIn`.  One step forces one node: it
runs the whole pull of the word's generator, piece by piece as the code does,
and appends an array to `out`.  Blocks of one item are those of streams, larger
ones those of signals.  A function that a generator applies may throw at every
call, and may leave no result on the stack, which throws where its result is
popped.  `threw` tells what this does to the pull: `produced`, it is caught,
what has been written is produced and the list ends (`cat`, `stutter`, `spread`
while they apply it); `again`, the next pull applies it again (`append`);
`escaped`, nobody catches it (`keepWhile`, `scan1`, `merge`, and `cat`,
`stutter`, `spread` when the result is missing), and whoever forces the next
node is `aborted` by `assert(mGen)`.  What `hang` and `longas` hold before they
have read an item is 0 in streams and any number in signals, where it is not
initialised (`HeldFirst`); what `change` holds is `Sentinel`.  `Promised` says
for each word what the flat sequence of items should be, without arrays or
blocks.

In the two audio backends a step after undefined behaviour (a write to a closed
handle or a freed stream), in the symbol table a step after a deleted symbol
was touched, and in `LazyList` a step after an abort do not exist: nothing is
said of what follows.

## 3. What is checked

| run | question | instance |
|---|---|---|
| `lazy_list` | Do three threads read the whole of lists they force together, one pull at a time, over blocks that do not change, and do cells and locks implement `Stream`? | pipeline root, g1 (blocks of 2), g2 (blocks of 1); two readers of g2, one of g1; 3 items; every reader may start twice |
| `lazy_list_faults` | Does an exception in a pull free all locks and reach every reader? | the same with 4 items, the fourth throws |
| `symbol_table` | Is a name interned once, are counts exact, is a symbol deleted only before its maker has retained it? | 3 threads, 2 names, 2 calls each |
| `workspace` | Do trees stay ordered, bindings visible, and do puts end, while two threads bind and rebind; does a reader that walks tree and scopes find what was bound? | 2 threads, 3 names, a table of two names; 3 more operations in all, of them at most one a read and one a push |
| `alsa` | Wake-ups, idle device, recordings, shutdown; who can take the device away from a write? | 2 interpreter threads, 3 players (one recorded, one that throws), lists of 2 blocks, 3 opens, 1 failure, 2 stops |
| `rtaudio` | Does what plays have a stream, are recordings closed, do players finish and does stop return on every stream that is opened, also beside threads that earlier streams have left? | 2 interpreter threads, 3 players, lists of 3 blocks, 3 streams, 1 failure, 3 stops |
| `registers` | Do counts add up, does a new input survive the pull of the old one, is the stream of a plug its inputs, in order and whole? | 2 interpreter threads and the audio thread; 3 lists of 3, 2 and 3 values, blocks of 2; 2 gets, 2 sets, 3 pulls |
| `midi` | Is a port heard as it was sent to while another shares the parser's state; do callbacks find their data; does every operation return? | 2 inputs, 1 source, 1 channel, 5 messages (note on and off, system exclusive, song position, program), 3 sent, 4 operations |
| `machine` | Are callers' values and locals kept, through exceptions; does only `load` swallow one that no `try` is on the way of? | functions of 0 arguments with a local and of 2, primitives of 1 and 2 arguments; stack of 3, 4 frames |
| `machine_try` | (violated) Is an exception over when the handler of `try` has come to its end, as its help says? | the same |
| `closures` | Does every word denote the nearest binding around it in the text, and a top level word what its form binds? | all texts of 6 tokens in all (a function counts as two) in up to two compilations; 2 names, one built in; functions of 0 or 1 argument, nested twice |
| `streams` | Do twenty-one words give what the items alone determine, all of it, and read no more than they write, and what becomes of a list when a function throws? | lists of up to 3 arrays of 0 to 2 items, divided in every way; blocks of 1 and of 3; every call of a function may throw |

**The liveness and "who" properties.**  Where the code leaves a gap, the
property says exactly how wide it is, so that a second cause would be noticed:
`DeletedOnlyUnretained`, `OnlyStopPullsDevice`, `OutlivedThroughRender`,
`StopReturns`, `CallbackDataLive`, `CountsExact` (with `surplus`),
`CallersValuesKept` (with `overdrawn`), `GlobalsMean` (with `late`) and
`AllIsProduced` (but for `take`).  Section 5 lists the gaps.

**Why the bounds are enough.**  Three readers make contention for one cell
between two while a third is a cell ahead in the list below; blocks of 2 and 1
over 3 and 4 items give full, partial and empty last blocks and cursors in the
middle of a cell; `MaxCell` exceeds what the pulls can need: a pull it stopped
would make `ReadersFinish` and `ReadersReturn` fail.  In the symbol table two
threads are enough to insert the same name twice and to come between the swap
and the retain; the third adds contention for the head and a holder more than
the counts of the other two; two calls allow a symbol to be taken again after
it was released.  `workspace` starts with a table of two nodes (`Start`, what
one thread has bound before it is copied): the first of three bindings can
rebind the root and share the subtree below it, the second grow the shared
subtree from either form, the third do so at the same time or copy it again.
A read has two bindings beside it, or one in a scope that was pushed; the
theorem of `GetsConsistent` has any number, and tables that are empty at the
start.  `StartAssumption`, that `Start` is a table as `putImpure` builds one, is
evaluated.  For the audio backends lists of two or three blocks are enough for a
player that goes on while another ends; the device can be opened, closed and
opened again twice.  In `rtaudio` the thread of a stream that has ended by
itself can be gone, on its way out, or back in its loop when the second and the
third stream are opened, and a thread woken by the end of the second may not
have run before the third.

In `registers` a list of 3 ends inside a block of 2 and one of 2 at its end; a
second set can come before, during and after the pull that uses the first, and
three pulls reach the end of the stream.  In `midi` two packets overlap while
the third is next on one of the inputs; four operations are a start, a
connection that fails, one that succeeds and a stop, or a restart between them.
The two data bytes serve as key, velocity and program; the messages have one of
each shape the handler tells apart: two data bytes, one, system exclusive,
system common.  In `machine` four frames nest a call in a message in a
handler in a line; a stack of 3 holds an argument of each caller and one more.
In `closures` six tokens are enough for `f` in a function in a function, for a
name that is bound between two uses, and for a text that binds a name twice and
then uses it in a function; a second compilation finds what the first has
bound.  In `streams` three arrays of at most two items put an empty array at
the start, in the middle and at the end; a block of 3 ends inside, at and past
every array.  `longas` and `hang` begin with 0 or with another number, `change`
with one (`Sentinel`) that is not in its list; `append` is also given something
that is not a list.

Every bound (`MaxCell`, `MaxReads`, `MaxGets`, `MaxBinds`, `MaxPushes`,
`MaxOps`, `MaxOpens`, `MaxFailures`, `MaxStops`, `MaxStreams`, `MaxSets`,
`MaxPulls`, `MaxMessages`, `MaxCalls`, `MaxStack`, `MaxFrames`, `MaxTexts`,
`MaxTokens`, `MaxNested`, `MaxNodes`) is a constant and a guard of one action
(`MaxOps` of three).  The systems may really stop (a program that asks for
nothing more), so deadlock is not checked; what must not stop is stated as
liveness.  No symmetry is used: most runs check liveness, and in the others
values differ by the place they are bound at.

**Fairness.**  Threads are scheduled by the operating system, so a thread that
is inside an operation takes its next step eventually: weak fairness of the
steps of each thread (in `RtMidiBackend` of the interpreter's `Operation` and
of each input thread, in `StreamOps` of the reader that goes on forcing).
Beginning an operation (a read, a bind, `play`, a message that arrives) is never
fair.  Strong fairness is assumed for two things only: a weak
compare-and-swap, which the C++ standard lets fail without reason, does not do
so forever when it could succeed again and again; and the device, to which a
block is written in parts, takes the last part some time.  The spinlock of a
list is not fair, and weak fairness is all that is assumed of it: the readers
of a finite list stop contending.  `SymbolTable`, `Registers`, `Machine` and
`Closures` state safety only and assume no fairness.

**After an exception** the frames of the unfinished block that were not
written have the array's default value: a second reader that was waiting for
the cell is handed those zeros with no error, so what readers have got is not
compared in `lazy_list_faults`.  `ARCHITECTURE.md` promises nothing else about
lists whose items throw; what is checked is that locks are released and that
every reader comes back.  That what was published before is unchanged is
proved for every fault.

## 4. What is proved

All theorems hold for every value of the constants that satisfies the
module's named assumption (`ListAssumption` etc.).  These are the types of the
constants, that readers and generators are different things, and `None` is none
of them.  Five say more: `RegistersAssumption` that there are finitely many
interpreter threads (their pointers are counted), `RouterAssumption` that a
packet is one complete and well formed message, which is what RtMidi and
CoreMIDI deliver and the loop of `handleIncomingMessage` relies on,
`StartAssumption` that the table the threads start with is a search tree,
`StreamOpsAssumption` that a generator is given each input at its beginning, and
`PromisesAssumption` what the words check before they make one (`ncyc_`,
`StreamOps.cpp:3287`, something to repeat and a positive count; `cat_`, `:3763`,
a first list), that what is cut, joined or aligned is a list, that `stutter`
and `spread` are given counts, that no count is negative, and that `Sentinel` is
not among the items of `change`.  Lists that are read by the stream words do
not throw: what an exception does to a list that is read is the subject of
`LazyList`.

| theorem | says |
|---|---|
| `LazyListProofs` `TypeCorrect`, `OnePullAtATime`, `NoLockIsOrphaned`, `BlocksAreStable` | `TypeOK`, `PullExclusive`, `NoOrphanLock`, `PublishedStable`, for any wiring of generators, block sizes, readers and faults |
| `AssertHoldsWithoutExceptions` | `NoAbort` if nothing throws |
| `ListsAreStreams` | `ImplementsStream` if nothing throws: every step of the cells, locks and cursors is a step of `Stream` or a stutter |
| `SymbolTableProofs` `TypeCorrect`, `NamesAreInternedOnce`, `EqualNamesEqualSymbols`, `CountsAreExact`, `HeldSymbolsLive` | `TypeOK`, `Interned`, `Agreement`, `RefcountExact`, `HeldAlive`, for any number of threads, names, calls |
| `RetainedSymbolsStay` | `DeletedOnlyUnretained`: once its maker has retained it a symbol is there for good |
| `WorkspaceProofs` `TypesAreCorrect`, `TablesGrowAtLeaves`, `TreesStayOrdered`, `GetsStayConsistent` | `TypeOK`, `GrowsAtLeaves`, `Ordered`, `GetsConsistent`, for any number of threads, names and bindings, also when hashes collide |
| `BoundIsVisible` | `BindVisible` if no two names share a hash |
| `BackendsProofs` `AlsaTypeCorrect`, `DeviceGivenBack`, `AlsaRecordingsAreClosed` | `AlsaTypeOK`, `IdleDeviceClosed`, `AlsaRecordingsClosed` |
| `DevicePulledByStopOnly` | `OnlyStopPullsDevice`: a device closed under a write was closed by a thread that stops or destroys |
| `RtTypeCorrect`, `PlayersAreServed`, `RtRecordingsAreClosed` | `RtTypeOK`, `PlayersHaveStream`, `RtRecordingsClosed` |
| `OnlyRenderLeavesThreads` | `OutlivedThroughRender`: only a callback that closed its own stream outlives it |
| `TypeCorrect`, `ChannelsAsSent`, `RunningInputsHaveData` | `TypeOK` of `RtMidiBackend`, `AsSent`, `CallbackDataLive`, for any ports, channels and well formed messages |
| `RegistersProofs` `TypeCorrect`, `ReferencesCounted`, `PlugKept`, `StreamInOrder` | `TypeOK`, `CountsExact`, `PlugHasLastInput`, `InputsInOrder`, for any number of threads, lists and block sizes |
| `MachineProofs` `TypeCorrect`, `CallersKeep`, `LocalsReturn`, `ExceptionsArrive` | `TypeOK`, `CallersValuesKept`, `LocalsKept`, `NothingSwallowed`, for any functions and any depth of nesting |
| `ClosuresProofs` `TypesAreCorrect`, `WordsMeanTheNearest` | `TypeOK`, `WordsMean`, for any names, argument lists and texts, and functions nested to any depth |
| `GlobalsMeanTheText` | `GlobalsMean`, also whatever subtrees the forms share |
| `StreamOpsProofs` `NoReadingAhead` | `ReadsWhatItWrites`, for inputs divided into arrays in any way and blocks of any size |
| `WrittenAsPromised`, `WrittenToTheEnd` | `ProducedIsPromised`, `AllIsProduced` of twelve words (`Exact`): `keep`, `take`, `ncyc`, `append`, `add`, `cat`, `keepWhile`, `stutter`, `spread`, `shortas`, `longas`, `longas0` |

**LazyList.**  None of the properties is inductive.  `PullExclusive` needs that
the client inside the pull holds the lock of the cell `mOut` of that generator,
which in turn needs that the only thunks of a list are `mOut` and, during a
pull or after an exception, the cell behind it.  `IInv` says this per client
(`ClientInv`: where the cursor is and which lock is held at each label) and per
generator (`GenInv`: thunk, successor and array of every cell before, at and
behind `mOut`).  There is one lemma per action; `ProduceInv` serves both ways
in which a pull ends.  `BlocksAreStable` follows from the same invariant, step
by step.  `AssertHoldsWithoutExceptions` adds `Whole`: no client is unwinding,
and an idle generator's thunk is `mOut`, which is exactly what an exception
breaks.

**The refinement of Stream.**  An item of a list is computed when its block has
been produced, so the number of items computed is the number of places (cell and
index) in published cells (`Places`, `Computed`).  It is a cardinality and no sum
over the chain, so that nothing is recursive and what a step does to it is a fact
about finite sets.  `StreamInv` numbers the places: the item at a place is its
rank, the number of places up to it (`ItemsInv`); a cursor has as many places
behind it as its client has used items (`CursorInv`); the frames a pull has
written are the items that follow those its list has (`OutputInv`); a reader's
k-th item is k (`ReaderInv`).  Only `produce` adds places, behind all others,
which keeps every rank and every cursor (`PlacesStep`, `ProduceStream`); what
is added came through the generator's own cursor, so there is never more of it
than of its input.  Each action has its lemma; `Take` is `Read`, `Reread` is
`Restart`, the end of a pull with frames is `Compute`, everything else stutters.
That nothing throws (`Faulty = {}`) is needed: a block that an exception left
holds default values, and a reader that comes again is shown them.
`StreamInv` was checked by TLC on the constants of `lazy_list` before it was
proved.

**SymbolTable.**  `Interned` needs a fact about each thread that is going to
insert: no symbol between the head it loaded and the end has its name, so
that a successful swap, which shows that the head did not move, keeps names
apart.  `CountsAreExact` counts holders, a finite set that changes by one
thread at a time.

**Workspace.**  `GrowsAtLeaves` is a property of single steps, but that a swap
replaces null only, and that a slot and a copied path refer to nodes that
exist, takes an invariant over the heap and over what each thread holds
(`Shape`: `HeapOK`, `HoldingsOK`, `ControlOK`).

The order of a tree is stated with recursive functions, of which nothing can be
proved by following them.  What the invariant says instead is local: there is a
set of names for each node, its zone, those whose search passes it; a root's is
all names, and a child's is what its node's key leaves for that side (`Zoned`).
A node that is shared by two forms has one zone in both, because `putPure`
copies a path without changing its keys.  A thread's part (`ThreadZoned`) is
that the name it puts is in the zone of its slot, and in those along the path
it copies.  Zones shrink from a node to its children, so trees have no cycle,
and that is the induction (`Descent`: of finitely many sets some have no other
inside them).  From it follows that `Tree` and `Find` satisfy their equations (a
recursive function is a `CHOOSE`, so that there is one has to be shown), and from
these `Ordered`.

For what a search finds, `Leads(k, r, n)` says that the search for `k` at `r`
comes to `n`: `n` is in every set that has `r` and is closed under the search's
steps.  That is kept when a null pointer is set (`LeadsGrows`), and needs no
recursion either.  `VisOK`: a thread that has put the name in its
function's form, while it puts it in its own, still finds it there.  It needs
that hashes differ, since a put goes on below a node whose name has the same
hash, and a look-up stops there.  `GetsConsistent` does not: `GetOK` says that
a node with what was bound at the start is still ahead of the reader, in the
rest of the tree or in a form further out, or that a nearer node has answered.

**The backends.**  `IdleDeviceClosed` is true while the audio thread sleeps
because it was true when it decided to: `DeviceInv` carries it back to the top
of the loop.  `PlayersHaveStream` is kept by the mutex: while a stream is
marked open but already stopped, the thread that stops it holds `mutex_`
(`ClosingHoldsMutex`), so no player can be added; and that a thread is awake to
serve the players holds because threads fall asleep and leave only while the
stream does not run, and `startStream` wakes one of those that wait for it
(`OpenStreamServes`).

**Registers.**  `CountsExact` equates a count with a sum over all threads of the
pointers each holds.  The sum is finite, and a step changes one summand:
`Held(f, o)` is the set of the threads whose `f` points to `o`, and its
cardinality moves by one when one thread's pointer does.  `MemoryInv` adds
what makes it inductive: no pointer to an object that does not exist yet, and
no more leaks than reads.  `InputsInOrder` speaks of the stream's past; what
carries it is `Ready`: the cursor a pull works on (or the plug's own, between
pulls) is at the beginning of an input or right behind the frame heard last,
and a plug that was set during a pull is at a beginning.

**Machine.**  The properties relate each frame to the state at the moment; the
invariant relates it to every frame above it.  `LocalsOK`: the variables of a
function end where the base that the next frame puts back begins.  `ValuesOK`:
what was below a frame is below the base of every frame entered later.  A frame
that is left then finds its own promise in that of the frame before it.  The
base of a message may lie below that of the scope it is in, when arguments are
missing, which is why `CallersValuesKept` has `overdrawn` and why `BasesOK`
leaves messages out.  `ThrowsOK` follows an exception that no `try` is on
the way of: it is on its way to its `load`, or a handler that will throw it
again runs above that `load`, with no other `load` between (`OnItsWay`).

**MidiRouter and RtMidiBackend.**  What keeps ports apart although they share the
parser's state is that a packet which is not a system exclusive message never
reads that state: it is at its status byte or past its end (`AtOnce`), since
`Top` takes status and data in one go.  So a message is either pending, and the
port's channels are one `Played` away from what was sent, or heard (`PortOK`).
The course of a system exclusive message depends on the flag, and is known only
while nothing disturbs it (`Undisturbed`); when another packet overlaps it, its
port is `spoilt`, and of spoilt ports the proof keeps the types alone.  The flag
is up only while some thread is inside such a message (`FlagOK`), also when
several overlap.  `BackendOK` says that a reset happens when no input's
thread is left, and of a running input that its data is owned, unless a
cleanup is going on.

**Closures.**  A slot is right or wrong by what surrounds a function in the
text, and by the time the code runs the text is gone.  The invariant keeps what
is left of it: every piece of code has a typing, which names the entries of
`mLocals` and `mVars`, the names bound around the function (`known`) and the top
level names that were bound when it was written (`globals`).  `Typed` says
opcode by opcode that a slot is the one of its name, that a name without a slot
has no variable at that place (`BoundAt`), and that `PushFun` makes a function
whose own typing is in the set `W` of typings, with the pushes of what it
captures right before it (`Captures`).  `W` grows when a function or a text
ends; as it is closed under `PushFun`, the nesting of functions needs no
induction.  For the scopes that are being written, `ScopeTyping` is the typing so
far and `CaptureOK` says that a captured variable is one of the same name in the
scope around it; a word deep inside adds variables to every scope on the way
(`WithCaptures`), which renumbers nothing.  For what runs, `FrameFits` and
`FunFits` say that locals and captured values agree with `env`, and `PushRun`
that the pushes just before the next opcode are on the stack, which is what
`Fun::Fun` relies on when it takes them off.

For `GlobalsMean` the invariant also has `F`, the form in which each text began,
which is what its functions capture.  `TextOK` says what that form binds of
the names the text has found or bound, `CurrentOK` that of a name it has
neither found nor bound there is nothing in that form nor in the thread's: only
so does adding a name in place not disturb forms that share the subtree.

**StreamOps.**  `ReadsWhatItWrites` is about numbers of items only.  What is left
to read of an input is the number of items in its nodes less the offset
(`LeftOf`), and skipping empty arrays does not change it (`AtItemsReads`).  The
number of items in a list of arrays is the length of what `FlattenSeq` makes of
it, a recursive function: that there is one, and what it adds up to when lists
are joined (`TotalConcat`), is shown by counting up.  The piece a turn
writes is as long as what it takes of `a`; `merge` holds an item more than
it has written from its first turn on (`Holds`), which its `state` tells.

`ProducedIsPromised` compares items.  The invariant (`Promising`) says that the
promise is `Written` joined to some list `z` that is still to be written, and
`Goes` says of each word which function of what is left to read (`ToRead`, or
`Seen` for an input that may be a constant) `z` is: what is left of `a` and then
`b` for `append`, the items of the lists left in `b` for `cat`, the padding in
progress and then `PaddedItems` for `stutter` and `spread`.  For every such
function a lemma says how it takes a piece off the front, whatever the length of
the piece (`PaddedPiece`, `AcceptedPiece`, `JoinedMore`), and a turn of the loop
moves that piece from `z` to `Written`.  At the end `z` is empty, or the pull
has caught what the function threw.  A pull that is left by an exception
(`Broken`) has written a part of its piece and keeps its old cursors, and
nothing moves any more: the invariant keeps only that what it has written is a
beginning of the promise (`RemainsOK`).  `longas` also needs that `held` is the
last item read (`HoldsLast`).  For `take` the invariant allows `z` to be left
over, since its count runs out early when a piece is short; `TakesWhole` says
that with no such piece (`OnePiece`) what is written and the count add up.

These invariants and those of `Workspace` were checked by TLC, on the constants
of the runs, (`Closures`) on texts of four tokens or (`Promising`) with blocks of
3 only, before they were proved (for `Machine` also with one frame more).

**Only model-checked.**  Liveness (`ReadersFinish`, `ReadersReturn`,
`PutsReturn`, `HeardOrStopped`, `DestructorReturns`, `PlayersFinish`,
`StopReturns`, `OperationReturns`, `Finishes`): TLAPS does not reason about
fairness and `ENABLED`.  `ProducedIsPromised` and `AllIsProduced` of the words
outside `Exact`: what `scan1`, `change`, `expand`, `clump`, `hops`, `flat` and
`merge` promise is a fold or another recursive function of the items, which takes
induction over data; `cyc` and `hang` have no end, and are compared with a list
that is longer than what `MaxNodes` lets them write.

## 5. What the code does not guarantee

Gaps that a property characterises: it says when they can be met, and that
nothing else leads there.  One run shows a disagreement with what the
repository says: `machine_try`.

* **`assert(mGen)`** (`Object.cpp:996`).  An item throws in a pull after
  `fulfill`: `mGen` has moved to the new cell, `mOut` has not.  The REPL or
  `load` catches the exception; the list is still bound; reading on forces the new
  cell, and the assertion ends the process (the release build keeps
  assertions).  Before that it is handed the block, with default values behind
  the items written.  `NoAbort` and `ListsAreStreams`: only when something has
  thrown.
* **A symbol deleted while linked** (`symbol.cpp:72`).  A new symbol is visible
  with count 0 before its maker retains it; a thread that finds it, takes and
  drops a reference deletes it.  `DeletedOnlyUnretained`: only in that window.
* **The device closed under a write** (`AlsaAudioBackend.cpp:278`).  The audio
  thread uses `pcm_` after it has given up the mutex under which others close
  it.  `OnlyStopPullsDevice`: only by a thread that stops or destroys.
* **`stop` and the callback wait for each other** (`RtAudioBackend.cpp:194`):
  `stop` joins the callback thread and holds the mutex that the thread waits
  for.  The repository's README (line 14) promises threads "without deadlock or
  corruption".  A `render` that closes a stream which is not its thread's own can
  do the same.  `StopReturns`: `stop` waits for ever in this case and the next
  only.
* **A wake-up that goes to the wrong thread** (`RtAudio.cpp:8704`).  A stream is
  served by its own thread and one left over from an earlier stream; both sleep
  when it is stopped, `closeStream` wakes one of them and joins the other.
  `StopReturns` (`WokenInstead`).
* **A stream used after it was freed** (`RtAudioBackend.cpp:316`).  `render`
  closes the stream it was called by.  As long as no other is opened the thread
  leaves without touching it; when `play` opens the next stream before that,
  `callbackEvent` goes on with the handle it read before (`RtAudio.cpp:8938`),
  or the thread serves the next stream until that is freed.
  `UsesOpenStream` is false then, and nothing is said of what follows.
  `OutlivedThroughRender`: only a thread that closed its own stream.
* **`Ref::deref` leaks** (`Object.cpp:127`): one count each time.
  `CountsExact`: nothing else does.
* **A plug's last input may not be heard** (`CoreOps.cpp:1216`): one that is set
  during the pull that ends the stream.  `InputsInOrder`: the stream ends for no
  other reason.
* **MIDI callbacks and freed data** (`RtMidiBackend.cpp:112`, `:176`): `cleanup`
  frees the callback data before it joins the threads that use it; and when the
  first `openPort` of an input throws, RtMidi keeps the pointer to the data just
  freed and refuses to replace it.  `CallbackDataLive`: only then.
* **System exclusive data heard as notes** (`MidiRouter.cpp:233`): one input ends
  its message while another is inside its own.  `AsSent`: only then.
* **A message with too few arguments** (`VM.hpp:288`, `Object.cpp:2088-2110`)
  reaches below the sender's base instead of throwing `errStackUnderflow`.
  `CallersValuesKept`: nothing else does.
* **Functions and rebinding** (`Object.cpp:314`).  A function of a text looks top
  level names up in the form of parse time.  After `1 = y` on an earlier line,
  `2 = y \[y] !` gives 1, and `2 = y  3 = x  \[x] !` throws `errNotFound`
  (unless the hashes make the trees share).  `GlobalsMean` says which names
  can be missed.
* **`try` does not recover** (`CoreOps.cpp:792`).  Its help says (`:1435`): "(A B
  --> ..) apply function A. if an exception is thrown, function B is applied.",
  that of `protect` (`:1437`) adds "and the exception is rethrown".  The code of
  both rethrows.  `TryRecovers` states the help and is violated (run
  `machine_try`).  `NothingSwallowed`: where no `try` is on the way, an
  exception gets to its `load` or to the prompt.
* **A function that throws in a stream word**.  `keepWhile`
  (`StreamOps.cpp:4248`), `scan1` (`:6344`) and `merge` (`:6581`) do not catch it,
  nor do `cat`, `stutter` and `spread` when the function leaves no result
  (`:4707`): the list's last array keeps its full length, with default values
  behind what was written, and the next force fails `assert(mGen)`
  (`Object.cpp:996`), as above.  `append` (`:3325`) applies its function again each
  time.  `ProducedIsPromised`: what was written before is right; `Finishes`: forcing
  comes to the end, to that assertion or to `append`'s function.
* **What `longas` and `hang` repeat for an empty signal** (`LongAsZ::last`,
  `StreamOps.cpp:5310`, `Hangz::_b`, `:4576`) is not initialised.
  `ProducedIsPromised`: it is whatever was there, the same throughout.
* **`Take` and `Takez`** (`StreamOps.cpp:3604`, `:3681`) subtract what is left of
  the block, not the length of the piece, and cut a signal off that comes in
  arrays shorter than a block.  `AllIsProduced` exempts them,
  `ProducedIsPromised` does not: what they give is a prefix.

Noticed while reading and outside the models:

* `GTable::get` compares 32-bit hashes only (`Object.cpp:517`), `putPure` also
  identity (`:432`): of two names whose hashes collide the second cannot be read
  back.
* An exception from a list that an audio thread pulls ends the process in both
  audio backends; a list that applies `play` or `stop` while it is pulled would
  lock `mutex_` again (`AlsaAudioBackend.cpp:230`).
* `ZRef::set` writes a plain double that other threads read (`Object.cpp:117`);
  `gTreeNodeSerialNumber` is incremented by all threads (`:561`); a
  `stopEventLoop` that comes before the loop runs is lost
  (`PlatformUnix.cpp:57`).
* `chase_v` on a reference that holds a reference returns null
  (`Object.cpp:2277-2308`).
* `throw` ignores its argument (`CoreOps.cpp:1436`); `change` drops a first item
  that equals 12347918239.198 (`StreamOps.cpp:4788`); `Prim::msgSend` saves
  the stack before it pushes the receiver, so that one value too many of the
  caller is cleared; `quit` in a loaded file is caught by `loadFile`, which also
  drops the file's last byte (`VM.cpp:476`).
* `mprog1_` (`Midi.cpp:163-169`) pushes the channel pressure; a bend below the
  centre is multiplied as an unsigned number, and the reset sets it to 0x4000;
  `sysexData_` is one vector for all inputs and is never cleared.
* `ZIn::fillSegment` pads at the start of its buffer (`Object.cpp`, about line
  1660); `Cyc` of an empty list never ends; the stream words here were not
  modelled for negative counts.
* Of two arguments with one name the first is meant; a name that a function
  uses from outside cannot be bound in it afterwards (`errSyntax`);
  `ParenCompileScope` is not used.

## 6. What is not modelled

* *The remaining primitives and the unit generators.*  `StreamOps` has the words
  whose control is hard: those that cut, repeat, join, align and merge.  The
  element-wise ones share one loop, which `LazyList`'s copying generator stands
  for.  The numerics of filters and oscillators are out of a model checker's
  reach, and their laziness and locking are those of every generator.
* *Automapping* (`EachOps`, `MultichannelExpansion.cpp`), *set operations*.
* *Forms, tables and inheritance*, the conversion of a workspace into a table.
* *Memory of nodes, forms and lists.*  Reference counts are modelled where they
  meet a lock-free structure or a lock that does not cover them (symbols, `Ref`,
  `Plug`).
* *Weak memory.*  Steps are sequentially consistent.  The atomics concerned
  are used with the default order; the races on plain variables that matter
  (`pcm_`) are nondeterministic choices.
* *`List::link`, constructors from arrays, `chase` of lists*; printing; sample
  formats and gains; RtAudio's other interfaces and its backend's destructor.
* *The grammar.*  `Closures` starts from tokens.  Numbers, strings, arrays, forms
  and the each-operator do not touch a compile scope; binding several names in
  one go is several bindings.
* *The readings of MIDI state* (`Midi.cpp`): pure functions of the tables; *MIDI
  output*.
* *CoreAudio and CoreMIDI*: built on systems whose libraries are not in the tree.
* *Sound files, images, options, line editing, vendored code*: input and output.
  The vendored code is most of the tree.

## 7. The plan

Done: lazy lists first, because everything else runs on them; then the two
lock-free structures, the two audio backends, references and plugs, MIDI, the
virtual machine, the compiler's scopes, and the stream words.

1. Inheritance: the linearisation of parents (`CoreOps.cpp:218-305`) as a pure
   operator, against the order each parent promises.
2. Set operations and multichannel expansion, composed with `ListReader`.
3. The CoreAudio watchdog and the event loop, small.
