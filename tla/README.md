# Verification of the version control client and server

The program keeps versions of text files. A user works in a storage folder
(`..\ClientStorage`) and types commands (`add`, `update`, `restore`,
`observe`, `checkIntegrity`, `exit`) at the client; the client keeps, in the hidden
folder `.versions`, a copy of each file and one *version file* per update, which
is the product (byte-wise xor) of the new contents and the ones before. What the
client writes there it also sends to a server, over TCP, as JSON messages.

This directory holds TLA+ modules for that program, TLC configurations that
check them on small instances, and proofs that TLAPS checks for all instances.

```
tlc -config Transport.cfg Transport      # one run; PROJECT.json lists them all
tlapm TransportProofs.tla                # one module of proofs
```

File names below are relative to `src/src/`. `VC` is
`version controller/VersionController.hpp`.

## 1. The system

### Components

| Component | State | Operations | Modelled in |
|---|---|---|---|
| Thread-safe deque, `net/ts_deque.hpp` | `_deque`, two mutexes, a condition variable | `push_back`, `pop_front`, `empty`, `wait` | `TsDeque`, `FifoQueue` |
| Connection as a transport, `net/Connection.hpp` 17-217, `net/Client.hpp`, `net/Server.hpp` 45-61 | socket, `_msg_queue_out`, `_tempMsgIn`, `_msg_queue_in`, the io_context's handlers | `sendMsg`, `writeHeader`, `writeBody`, `readHeader`, `readBody`, connect, accept | `Transport`, `MessageChannel` |
| File transfer, `net/Connection.hpp` 65-132 and 219-360 | `_files_in_process` | `sendFile`; `FileHeader`, `FileTransfer`, `EndOfFile` in `_msgHandler` | `FileTransfer` |
| File multiplier, `FileMultiplier.hpp` | two input streams, an output stream | `multiplyFiles_8` (`multiplyFiles_1` is never called) | `Product`, `FileMultiplier` |
| Version controller, `VC` | the two folders on disk, `_observables`, `_blocked` | `add`, `update`, `restore`, `_observe`, `addObservable` | `VersionController` (all but the last) |
| Server, `net/Server.hpp` 63-140 | the server's folder, `_connections` | `RestoreVersion`, `CheckIntegrity`, `RequestFiles` | `VersionController` (the first), `IntegrityCheck` |
| Integrity check, `VC` 189-242 with `net/Server.hpp` 95-140 | `_blocked`, `_onMessageHandler`, `_files_in_process` | `checkIntegrity`: list of files, request of the missing ones | `IntegrityCheck` |
| Command line, `cli/CLI.hpp`, `Client.cpp` 37-47 | `buffer`, `std::cin` | the loop of `main`, `split`, `resolveArgs` | `CommandLine` |
| Messages, `net/Message.hpp` | header and body | accessors, `<<` | a record in `Transport` |
| Logger, `logger/Logger.hpp` | output streams | `log()`, `err()` | not modelled |
| Run-length encoders, `Compression alternatives/` | none | `<<`, flush | `RunLength`; the program does not use them |
| `TestMask.hpp`, `pch.h` | | benchmark driver, includes | not modelled |

### How they interact

The client process has these threads: the command line's (`main`), the
io_context's (`Client::mainLoop`), the processing thread of its `Connection`
(`_processIncoming`) and the observer's (`VC` 143-175). The server process has
one io_context thread for all its connections and one processing thread per
connection. They meet in

* `_msg_queue_in`, a `ts_deque`: the io_context thread pushes, the processing
  thread waits and pops;
* `_msg_queue_out`: touched by the io_context thread only. Other threads post a
  lambda (`sendMsg`), which pushes the message and starts a write if none is
  under way;
* the files: the command line's thread and the observer's both copy them;
* `_blocked`, `_connected`, `_onMessageHandler`, `_files_in_process`: written by
  one thread, read by another, with no lock.

`update` for instance is: multiply `main` by `copy` into a new version file, copy
`main` to `copy`, `sendFile` both. `sendFile` posts a header, the chunks and an
end; the transport carries them in order; the server's processing thread puts the
file together. `restore` undoes the versions from the newest to the chosen one,
deletes them, and posts `RestoreVersion`, upon which the server deletes its own.

### What is hard in it, and what makes each part correct

* *Deque.* `wait()` and `pop_front()` are separate critical sections, `empty()` is
  looked at outside the mutex of the condition variable, and the two mutexes are
  taken in both orders. Correct: never `front()` on an empty deque, FIFO, no
  deadlock, a push wakes a sleeper.
* *Transport.* Chains of handlers each of which must start the next operation;
  errors close the socket but leave the queue; nothing on the stream marks where
  a message begins. Correct: one write at a time, the reader aligned with the
  writer, messages delivered as a prefix, each with its own body, and all of them
  while the connection is up; one client's end does not affect another's.
* *File transfer.* Each message of a file is independent of the others; the
  receiver tells files apart by path and entries of one path by position only; any
  step may fail by itself; the file may be written while it is read in chunks; a
  version file is a product, which is no UTF-8. Correct: what is reported as
  transferred is whole.
* *Multiplier.* Lengths around the 8-byte block, trailing NULs, a text mode that
  ends at a byte of the product. Correct: the product takes one operand to the
  other.
* *Versions.* A version means nothing without all the later ones and the copy; the
  names must be new and must sort by age; a user, an observer and a crash come in
  between the file operations; the server must cut the history where the client
  does. Correct: every version remains restorable; none is written over; the
  server holds the same versions.
* *Integrity check.* A conversation of three messages, between which both sides'
  files and the list of connections change; `_blocked` is reset by a test that is made
  after every message. Correct: what is listed arrives, what was saved since stays, and
  the command line is blocked from the check to its last file.
* *Command line.* Ends of lines, of quotes and of the input in any order. Correct: each
  line's command once, with the words that are meant.

`PROJECT.json` lists the hazards at their lines, with the properties that would
catch them.

## 2. The modules and the code

Every definition that stands for code is tied to its lines in `PROJECT.json`,
`map`. Operators named as a "slip" in a comment are wrong variants of the
definition after them, by which one sees that a property can fail; no
specification uses them.

**`TsDeque`** (refines **`FifoQueue`**). The threads in `Producers` call
`push_back`, one consumer runs `_processIncoming`. Each acquisition of a mutex, the
check of `empty()`, the wait and the wake-up are steps: `Emplace`, `LockToNotify`,
`Notify` for `push_back`; `CheckEmpty`, `LockToWait`, `Wait`, `Reacquire`,
`PopFront` for the consumer. `WakeSpuriously` is the condition variable's freedom.
In the program there is one producer, the io_context's thread; the module
allows more.

**`Transport`** (refines **`MessageChannel`**). For each client the two `Connection`
objects, its own and the server's (`End`). One action per completion handler, with
and without an error: `ConnectOk`, `ConnectFail`, `Accept`, `RunPosted` (the lambda
of `sendMsg`), `WroteHeader`, `WroteBody`, `WriteFailed`, `ReadHeader`, `ReadBody`,
`ReadHeaderFailed`, `ReadBodyFailed`. A handler runs only if the io_context's thread
of its process is free (`IoFree`): the join in `readHeader`'s handler (line 153)
holds it for ever. `Transmit`, `LoseTail` and `Halt` are the system's: it takes a
write, loses what a closed socket had not yet sent, ends a process. A message is a
number and whether it has a body; the stream is a sequence of header and body
frames.

**`FileTransfer`**. A sender goes through `SendHeader`, `OpenFile` (which may fail after
the header is gone, for files in `Unreadable`), `SendChunk` and `SendEndOfFile`; the
receiver's `_msgHandler` is `ReceiveHeader` (which may come to nothing), `ReceiveChunk`,
`ReceiveEndOfFile`. A chunk is its path, revision and number, and whether it parses:
of a file in `NotUtf8`, which a version file is (a product) and so is a text with
a character across the border of two chunks, any chunk may not. The stream is in text mode,
so that a file in `Cut`, with a byte 0x1A, ends behind any chunk. `BeginRewrite` and
`EndRewrite` are the writers of the sent file, the commands of this machine and the
`_msgHandler` of another connection; nothing in the code keeps them off a file that is sent,
so they come at any time, and what is read meanwhile may be of any revision so
far (`Seen`) and end early. Two ghosts: `torn` says of a send, and of each of its messages,
that the file has been written since its mtime was read; `mixed` has the files
that two senders have sent at one time.

**`Product`**, **`FileMultiplier`**. A byte is the set of its bits that are 1.
`FileMultiplier` is the loop of `multiplyFiles_8` with the streams' eof flags, the
trimmed last block and the rest of the longer file; `Product!Multiply` is what it
writes, in closed form, and what `VersionController` uses. The streams are in text
mode: `ends` is the set of bytes that end a text where the program runs, the byte
0x1A on Windows and none elsewhere, and `Text` (`Product!TextUpTo`) is what a stream gives of
a file.

**`RunLength`**. The two encoders as functions from a file to its codes: the
constructor takes the first byte (or its top bit), `Extend` is `operator<<` and the loop
of `encodeBits`, the flush outputs the last code.

**`VersionController`**. One file, its copy and its version files on the client, and
the server's. `Add`; `UpdateDiff`, `UpdateCopy`, `SendFiles` for `update`; `Restore`,
`Undo`, `CopyBack`, `AllUndone`, `RemoveVersion`, `TellServer` for `restore`;
`ServerHandles` for the server. A version's name is its minute and its postfix, as
the code forms it; NTFS lists names in order, so that postfix "10" is between "1"
and "2" (`Rank`). Files are copied as they are (`CopyFile`), but whatever is multiplied or sent
is read in text mode: `UpdateDiff`, `Undo` and `SendFiles` take the `Text` of the file, of
the version files too. `Disturbances` says what comes between: the observer (`Observe`), an
`add` of a file that has versions, an edit within a command, a crash
(`Crash`), two versions in a second, and a restore of a version that is not there
(`RestoreUnknown`: the assert of `VC` 121 is left out by `NDEBUG`, and the server is told all the
same). Two ghost variables state the promise: `recorded`,
the content that a version stands for, and `broken`, the versions that have been cut off
from the copy. A disturbance cuts off the versions there are, and so does an update
whose version file, which it cuts off as well, is listed before one of them, or is beyond
the limits of `UndoPads` and `UndoStops` (`Reversible`: a byte of the product ends a text, or
the contents end in different blocks or in a NUL). A third one, `behind`, is true from a change of the copy
that the server is not told of, as in a restore, to the next files that are sent.

**`IntegrityCheck`**. Several clients and the server, with a processing thread for each
end of each connection; every message is one step of the thread that handles it.
`Check` is `checkIntegrity`; `ServerLists`, `ServerStartsServing` and `ServeFile` (a round of
the loop each) are the server's `_msgHandler`, which replies to the client that
connected last (`Replied`); `ClientCompares` is the client's one on the list,
`Unblock` its default branch, which follows `Connection`'s own handling of a file in
`ClientReceives`, and is not reached if a header is refused (`ClientRefuses`). In between,
a user's `Save` and `Restore` go on where `_blocked` lets them, and others `Connect`. A restore
removes a version with the later ones of its folder (`Later`), here and on the server. A file
is two messages here, a header and an end with its content; a file that is listed
or sent while it is received is `Partial`. The ghosts say what the
user may rely on: `saved` (what was put there, as long as nothing older was already
on its way to it, or is sent at another client's request), `promised` (the listed files), `spoilt`
(files refused, or sent in part), `served`, and `early` (clients for which the test of
`_files_in_process` may come too early).

**`CommandLine`**. `ReadLine` is `std::getline` with its end-of-file states, one step per
character for `split` (`SplitAtBlank`, `OpensQuote`, `ClosesQuote`, `ScansOn`, `SplitThrows`,
`SplitReturns`), then `ResolveExit`, `ResolveIllegal` or `ResolveCall`. The arguments of the
program go through the same resolution first. A line is a sequence of characters, as
`split` is about nothing else. `Meant` is the reference: blanks outside quotes part the
words, quotes around a whole word are taken off.

**`MCFileMultiplier`**, **`MCVersionController`**, **`MCFileTransfer`**, **`MCIntegrityCheck`**,
**`MCCommandLine`** give constants their values.
The modules whose names end in **`Proofs`** extend the module they are named for and
hold its theorems (section 4).

Composition: `Transport` hands to `TsDeque` (its `inq`), whose order is what
`FileTransfer` assumes of `net`; `VersionController` assumes in its `net` that files and
commands reach the server whole and in order, and `IntegrityCheck` the same of
both directions; a call of `CommandLine` is a command there. Each assumption is the
conclusion of the module below it (`ImplementsChannel`, `ImplementsFifo`,
`FilesAreWhole`); where that conclusion has exceptions (section 3, findings), the
module above says nothing.

## 3. What is checked

Distinct states are TLC's.

| Run | Module | Checks | States |
|---|---|---|---|
| `deque` | `TsDeque` | `DequeInv`, `ImplementsFifo`, `PushReturns`, `PushWakesSleeper` | 943 |
| `transport` | `Transport` | `SendInv`, `FramesAligned`, `ImplementsChannel`, `EveryMessageArrives` | 50 390 |
| `transfer` | `MCFileTransfer` | `TransferInv`, `DataIsWhole`, `NothingLeftOpen` | 5 717 553 |
| `multiply` | `MCFileMultiplier` | `WritesProduct`, `UndoPads`, `UndoStops`, `RunsEncodeFile` | 918 400 |
| `history` | `MCVersionController` | `HistoryInv`, `RestoresAsPromised`, `ServerMirrors`, `NoVersionLost`, `RemovesNewest` | 1 679 491 |
| `history_disturbed` | `MCVersionController` | `HistoryInv`, `NoVersionLost`, `RemovesNewest` | 3 870 282 |
| `integrity` | `MCIntegrityCheck` | `IntegrityInv`, `ListedIsThere`, `BlockedWasServedNothing`, `UnblockedAtTheEnd` | 1 139 106 |
| `command_line` | `MCCommandLine` | `SplitInv`, `SplitsAsMeant`, `CalledInOrder`, `NoneLeftOut` | 318 762 |

`deque`: with deadlock checking, so the two mutexes cannot lock each other out.
`PushWakesSleeper` holds although notifications can be lost: an item left behind
is picked up with the next push.

`transport`: what was sent arrives in order, once, with its own body, through
sockets that fail while writing or reading and processes that end. `OneWrite`
also says what happens after a failed write: the queue keeps its messages and
is never written again. `EveryMessageArrives` is liveness under `FairSpec`.

`transfer`: two threads that send on one connection, as the server's do when one client
gets all replies, a file that may fail to open, and a version file, which is no text. Each
may be written at any time. Messages of different files mix
and do no harm; if both threads send the same file at one time nothing is claimed of it but that no
entry stays behind. A file of UTF-8 without a byte 0x1A, which opens and which nothing writes
meanwhile, is logged only when it is whole (`FilesAreWhole`, in `TransferInv`).
`DataIsWhole` says what is true of the others, whose sends may be torn, cut or
refused chunk by chunk: they get their own chunks only, once and in order, a file of
UTF-8 the first ones without a gap, and all of one revision unless the file was written
meanwhile. A file that fails to open leaves an entry for good, and the next
transfer of that path goes to it: the data is as it should be, the mtime may be the one of
the earlier attempt.

`multiply`: `UndoPads` says exactly what comes back, on texts without NUL bytes: the
previous file, padded with NULs up to the last whole block of the current one. So a
file that grew past a block does not come back as it was. `UndoStops` says what comes
back if a byte of the product ends a text on Windows, though no byte of either text
does: the previous file up to there, and the current one from there on. The run's files also
go through the run-length encoders (`RunsEncodeFile`).

`history`: any sequence of updates and restores. A version stays restorable unless it is
cut off (`VersionsRestorable`, in `HistoryInv`), and a restore of it brings back what it
recorded (`RestoresAsPromised`). What cuts versions off here is the code itself: an update
between two of the run's contents makes a product with the byte that ends a text, and the postfix
comes to its last value and begins again within the minute. Eleven updates in one minute
make #0 to #10, and the next one is #1 again: it is written over the first #1, and
listed before the others. `NoVersionLost` says that a version is lost in no other
way, and `RemovesNewest` that a restore removes from the newest on, wherever it stops, but in
such a minute. The server mirrors the client whenever nothing is under
way, also after a restore of a version that is not there. `ServerMirrors` has the copy too,
except from a restore to the next update: until then the server has versions that its copy
does not lead back along; and a version file with a byte 0x1A is shorter there.
`history_disturbed`: with all disturbances but "hurry" and "unknown", a version made after the
last disturbance is still restorable, and the two action properties hold through a
crash at any step, across two minutes.

`integrity`: a check never overwrites what was saved (`IntegrityInv`) and brings every listed
file (`ListedIsThere`), but the ghosts' exceptions are real. A client that connects between
another one's check and its request gets the files that the other one asked for, and
loses newer work to them, as nothing blocks it. Of several missing files, the first one
that is complete unblocks the client (`UnblockedAtTheEnd` holds for one); a client that
misses nothing stays blocked for ever ("All are here!" is only logged), and so does
one that got no reply (`BlockedWasServedNothing`). A file that exists in part counts as
present.

`command_line`: `split` finds the words that are meant whenever quotes stand around whole
words (`SplitsAsMeant`). Otherwise it skips the character behind a closing quote, whatever it is. A last
line without a newline is executed again and again, as nobody looks at the state of
`std::cin`; `CalledInOrder` says that this is the only repetition. After an open quote the
client ends with an uncaught exception.

### Findings

Four runs are expected to fail. Each checks one statement of the code's own
comments.

| Run | What the code does | Where |
|---|---|---|
| `deque_lost_wakeup` | `wait()` sees an empty deque, a push notifies nobody, `wait()` sleeps: the message is handled with the next one only | `net/ts_deque.hpp` 98 |
| `transport_server_hang` | when a client leaves, the server's only io_context thread joins a `[[noreturn]]` thread; no other client is accepted or served any more | `net/Connection.hpp` 153 |
| `transfer_split` | a file is cut every 1024 bytes, also within a UTF-8 character, and a version file is no UTF-8 anyway; such chunks are refused, and the file is reported as whole | `net/Connection.hpp` 116 |
| `history_wrap` | restore takes the order of the folder, which is by name, for the order of the versions: "10" sorts before "2", so in a minute in which the postfix comes to 10 (with the eleventh update of the file, or an earlier one if it had run on from minutes before) the restore of a version from "2" on leaves the newest one out | `VC` 105 |

Further scenarios need a change of constants and have no run of their own:
`RestoreIsCorrect` (every restore, also to a version that is cut off) fails on the constants of
`history` without disturbances (the byte that ends a text), and
with "observer" (the observer replaces the copy that
all versions are relative to, and makes no version, `VC` 164), "readd" or "crash" (the
same); `RestoresAsPromised` fails with "edit" (the user writes the file between its restore and
the end of the command); `NoVersionLost` and `RemovesNewest` fail with "hurry" (two versions of
a second: which one is the latest is not said, and a name is used twice).

### Bounds, and why they are enough

* `deque`: two producers with two pushes each. The consumer tells producers apart by
  nothing; two pushes are enough for one to be left behind and one to wake. The
  proofs cover any number.
* `transport`: one client, two messages to the server and one back. Two messages
  make the queue non-empty at a push, and at a pop; each with or without a
  body. Connections share nothing but the server's thread, which
  `transport_server_hang` needs two clients for.
* `transfer`: two senders, three paths, one of each kind, two chunks, two transfers, each of
  them possibly torn, cut, refused or failed, three messages under way: a failed
  transfer and one into the entry left behind, two of one path at one time, one of each
  of two paths. `MaxRev` 1: one rewrite of each file, which begins and ends
  anywhere. The two threads are symmetric: no definition tells them apart.
* `multiply`: blocks of 2 bytes of 2 bits, files of up to 4 bytes: all pairs of lengths
  around zero, one and two blocks, all positions of NULs and of the byte that ends a
  text. The encoders' counters reach their caps of 2 bytes and 3 bits.
* `history`: one minute of four seconds and base 2, so that the versions of a minute are
  #0, #1, #2 and, with the next one, #1 again: the wrap of the code's #0 to #10 at one update a
  second, in small. `Contents` are two that can be had back from each other, of two and of three
  bytes in blocks of two, and one whose product with the longer one has the byte that
  ends a text. `MaxNet` bounds the messages under way: a command that would
  post while there are as many waits, which changes nothing for the files. `history_wrap`
  uses base 3 and two minutes, where the postfix runs on into the second one; its versions are
  #2 and then #3, which stands for the value with two digits and is listed before #2.
* `history_disturbed`: a fifth second, which is another minute, the two contents that can be had
  back, and no server, as none of its properties looks at the server.
* `integrity`: two clients, two versions of a file (the first of several, and the last), two checks by
  one client or by both, one command that changes files.
* `command_line`: all lines of up to five characters over two letters, blank, quote and
  backslash, which has every neighbourhood of two quotes and a blank; two lines of
  eight kinds; four reads, two of them behind the end.

Deadlock is checked in `deque` and `deque_lost_wakeup` only. Elsewhere a behaviour may
really end: the call returns, everything has been sent, or the clock has reached its
bound.

### Fairness

`TsDeque!FairSpec`: the consumer loops for ever and the scheduler runs it; a producer
within `push_back` goes on. Nobody must push again, and no wake-up comes for free.
With two producers a mutex is always handed over eventually in the model's instance
under weak fairness, as the number of pushes is bounded; nothing stronger is assumed.

`Transport!FairSpec`: the thread in `io_context::run` runs what is ready; the kernel
transmits what was written to a connected socket; a connection attempt is
answered. Nothing is assumed of the user, of processes that end, or of lost
tails. `EveryMessageArrives` and `EveryClientIsAccepted` allow for connections that
are down and processes that have ended.

The other modules state safety only, over `Spec`.

## 4. What is proved

TLAPS checks the theorems below for all values of the constants: any number of
clients, threads, messages, files, versions, characters and bytes. They rest on nothing
but the modules' `ASSUME`s, which TLC evaluates on every run, and which say little more
than that bounds are naturals, that the parts of the instance are of their types, and that
the values that stand for "none" are no values of the other kind
(`Server \notin Clients`, `None \notin Name`, `Missing \notin Content`,
`Blank # Quote`, `IsFiniteSet(Files)`). Where a theorem needs more, that is a
hypothesis of its own about the disturbances, and section 3 says which run fails
without it.

Most of what the runs check is not inductive. The invariants that are have been checked
by TLC on the runs' instances before they were proved.

**`TsDequeProofs`**
* `DequeIsSafe`: `Spec => []DequeInv`. `NoPopOnEmpty` alone is not inductive: that the
  deque stays non-empty from the check to the pop needs that only the consumer
  removes items (its position `loop`) and that the positions determine the mutexes'
  owners (`MutexOwners`). With the types this is `DequeInv`, which is inductive, and is
  also what the run checks.
* `TypeCorrect`, `PopsAreSafe`: its parts.
* `DequeIsFifo`: `Spec => ImplementsFifo`. `Emplace` maps to `Put`, `PopFront` to `Take`, all
  else stutters.

**`TransportProofs`**
* `SendIsSafe`: `Spec => []SendInv`. `OneWrite` counts the writes under way and those
  whose handler has not run: a queue with messages has exactly one, an empty one
  none. That the queue cannot be empty while a handler is to come is part of the
  same invariant, and so `RunPosted` may decide from the emptiness of the queue; the
  exception, a queue with messages and no write, needs the socket to be closed or
  refused, and to stay so, which is why both are in the disjunct. One lemma per
  handler for the types and one for `OneWrite`; handlers that leave the outgoing side
  alone go through `QuietStep`. `WritesNeverMix` is the part about two writes.
* `StreamIsAligned`: `Spec => []FramesAligned`. The stream marks nothing, so the invariant
  (`StreamInv`) gives each frame a position, the number of its message and its part. The
  frames under way have consecutive positions (`StreamAt`), the writer's position
  follows from its queue and its write, the reader's from what it has handed over and
  whether it has a header in `_tempMsgIn`; a lost tail cuts at the end, where no writer
  goes on.
* `ConnectionsAreChannels`: `Spec => ImplementsChannel`, by the same invariant: `SendMsg`
  maps to the channel's `Send`, the handler that pushes to `_msg_queue_in` to its
  `Deliver`, all else stutters.

**`FileTransferProofs`**
* `TransfersAreWhole`: `Spec => []TransferInv`, and `DataComesWhole`: `Spec => []DataIsWhole`,
  for any files, writers and threads. The receiver finds the place of a chunk by its path
  alone, so its entries say nothing without what is under way. `WholeInv` says of each path that
  its messages, the sender's next one behind them, are one stream: each message fits the
  stage that the one before it has come to (`Fits`), and the first one the stage of the
  entry. A stage is how many chunks have been sent, of which revision, and whether the file was
  written meanwhile, so that only then a revision may change or an end may come
  early; what an entry holds is bounded by its stage (`Holds`), exactly so for a file of UTF-8.
  `AgesInv` says that along a stream revisions do not decrease, as far as they were
  read while nothing wrote the file, which also bounds the mtime of an entry that a failed
  transfer left behind.
* `NothingStaysOpen`: `Spec => []NothingLeftOpen`. `BalanceInv` bounds the
  entries of a path along the stream: a header makes at most one, an end takes
  one if there is one, and at the end there are as many as threads that will still send
  their end. Its induction over the messages under way is a sequence of bounds that
  each step shifts or extends.

**`ProductProofs`**, **`FileMultiplierProofs`**
* `LoopWritesProduct`: `Spec => []WritesProduct`. The loop invariant is that `out` is the product
  of the blocks read so far, and then with the ending (`LoopInv`).
* `UndoingPads`, `UndoingStops`: `Spec => []UndoPads`, `Spec => []UndoStops`, from the lemmas
  `PadsAgain` and `StopsThere` of `ProductProofs`, which say for all files what
  `Multiply(a, Multiply(a, b))` is. They rest on `ProductInOne`: under the conditions there, the
  blocks, the logical ending and the rest are one piece, byte for byte the xor of both files,
  up to the last byte that is not NUL.
* `RunsAreEncoded`: `Spec => []RunsEncodeFile`, for files of any length and any caps of the
  counters. `ExtendEncodes` is the loop invariant of both encoders: what has been output,
  with the run in hand behind it, encodes the values so far (`Encodes`). That `Codes`
  ends with it is an induction over the values, again as a minimal counterexample
  (`StatesExist`, `CodesFound`), and so is that `FlattenSeq` puts one more sequence behind the others
  (`FlattenAppend`). The number of bits of a byte only has to be finite and not zero.
* `FittingUndone`: files of the same number of whole blocks that do not end in a NUL come back
  as they were.

**`VersionControllerProofs`**
* `ServerFollows`: `Spec => []ServerMirrors`, for any contents and with any disturbance. `Mirror`
  replays what is under way on the server's files: when all of it is handled, they are the
  client's, but for what the command at work has yet to send.
* `NoVersionIsOverwritten`, `NewestGoFirst`: `Spec => NoVersionLost` and `Spec => RemovesNewest`
  without "hurry", for any number of versions over any number of minutes, with the
  wrap of the postfix in them. What is inductive (`OrderInv`) is that a name has the minute in
  which its version was made, and that within a minute higher postfixes are newer as long as
  it has no version with postfix `Base`; that the version with the latest mtime is the one whose
  postfix counts then makes the next name new.
* `HistoryIsChained`, `VersionsStayRestorable`: `Spec => []HistoryInv`, for any contents and any
  disturbance. `VersionsRestorable` is about a run of `restore` that may never happen, so
  `ChainInv` says what holds of the files: the versions that are cut off are listed before the
  others, and of these, taking one back (the product of texts) leads from what the next newer one
  recorded to what it recorded itself, and from the copy for the newest (`Links`). That holds also
  between the steps of an update, and while a restore has undone or removed some
  of them: the restore has come to some set of versions, and those not in it are
  the ones it has taken back (`Undoing`). That one version file can be undone is
  `FittingUndone`; that following the chain ends in the recorded content is an induction over its
  length, done as a minimal counterexample.
* `RestoreBringsBack`: `Spec => []RestoresAsPromised`, without "edit", by the same invariant: what
  was promised is in the storage folder when all is undone (`Brought`).
* `HistoryTypes`: the types, and that each command finds the files it opens.

**`IntegrityCheckProofs`**
* `IntegrityIsKept`: `Spec => []IntegrityInv`. The invariant `SavedIsAlone` is about what may
  still come to a client, posted files, files being served and requests under way: none
  of it is a file that counts as saved there.
* `CheckBringsTheFiles`, `BlockedForNothing`: `ListedIsThere` and `BlockedWasServedNothing`,
  from `Serving`, which follows a listed file from the list to the request, the round of
  the server's loop and the two messages, and orders the messages of each client.
* `UnblockedInTime`: `Spec => []UnblockedAtTheEnd`, from `OneFileAtATime`: a client that is not in
  `early` has at most one file to come, and as long as that is so it is blocked.
* `IntegrityTypes`: the types.

**`CommandLineProofs`**
* `SplitStaysInLine`: `Spec => []SplitInv`.
* `SplitFindsTheWords`: `Spec => []SplitsAsMeant`. The loop invariant `WordsInv` takes `start` for a
  border of the line; the words so far are those of the parts before it, and between
  `start` and `end` there are neither borders nor quotes, but for an open one at `start`. The
  lemmas on `Borders` (`PlacesAre`, `PartBetween`) count borders instead of
  sorting them.
* `CallsAreInOrder`: `Spec => []CalledInOrder`. That a line which stays in the buffer makes the
  same call again needs that `split` is a function of the line: `SameAgain` has the set of
  positions it passes.
* `EveryLineIsCalled`: `Spec => []NoneLeftOut`, from the two above.

### What is only model-checked

* Liveness and deadlock freedom: `PushReturns`, `PushWakesSleeper`, `EveryMessageArrives`, the
  deadlock check of `deque`. Fairness and `ENABLED` are beyond the prover.
* The statements of the four runs that fail: they are false.

## 5. What is not modelled, and what is assumed

* The io_context runs posted handlers in the order they were posted, which a single
  thread in `run` gives; `async_write` and `async_read` are all or error; TCP keeps
  its order.
* NTFS lists a folder by name, `CopyFile` keeps the mtime (the code asserts it,
  `VC` 284-298).
* The clock goes forward; local time does not jump (`VC` 249-263 uses it for names).
* The line ends that text mode converts: contents are what is read, as both ends of a
  transfer, and the reading and writing of a version file, convert alike. A file with
  bare line feeds comes back from a restore with the line ends of the platform. (That text mode
  ends at a byte 0x1A is modelled, in all modules that read files.)
* In `VersionController` a file operation is whole or not at all: a crash leaves no half-written
  file, and a file is not read while it is being written. The observer's look and its copy are one
  step. `FileTransfer` does have sends of files that are written meanwhile; there, all
  revisions of a file have as many chunks, and a chunk, read at once, is of one revision.
* What `VersionController` posts reaches the server whole, as the texts that were read. A
  version file that is no UTF-8 loses chunks instead (`transfer_split`): then `ServerMirrors` is
  only about the names of the server's versions.
* A single file in `VersionController`: the commands work on one file each, and files
  share only the loop of the observer and the order of messages.
* JSON text, headers' layout, paths as strings, log lines. A path that is not UTF-8 is
  a header that is refused.
* One folder for versions: `net/Client.hpp` 15 has the one for received files in the code,
  the rest uses the one of `Client.cfg`. They are the same in the repository.
* In `IntegrityCheck` connections stay up, checks begin when connected, and the queues wake
  their consumers: liveness is therefore not claimed, only what holds once all
  messages are handled. The order in which the server lists and sends files is arbitrary.
* The server leaves files out of its list whose path has a second part that begins with
  a dot (`net/Server.hpp` 103); the `Files` of `IntegrityCheck` are the others.
* `_blocked`, `_connected` and the handler are read and written as wholes; that they
  are not synchronised (`net/Client.hpp` 37) is undefined behaviour beyond that.
* `addObservable`'s file (`VC` 180 truncates it, so that only the last path stays), the
  mixing of two threads' log lines (`logger/Logger.hpp` 33), `multiplyFiles_1` (never called), `TestMask.hpp`, `Logger.hpp`,
  the operations of `ts_deque` that nobody calls, `Server.cpp`'s reading of its configuration.

## 6. Plan

Done, in this order: the deque (all else rests on its order), the transport, the product,
the history of a file, the file transfer, the integrity check, the command line, the
encoders; the proofs about the deque and the transport, then those of the other
modules, so that each safety property of a passing run is a theorem.

What is left:

* the exceptions of the integrity check (`early`, `spoilt`) as states that are reached, each
  with the shortest way to it.
