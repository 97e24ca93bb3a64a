# Remote management system: specifications and proofs

TLA+ models of the remote management system in `src/`: a server that executes
commands and transfers files for clients that know its passphrase, in a Linux
and a Windows version (`src/Linux`, `src/Windows`). TLC checks the models on
small instances, TLAPS proves the most important facts for every instance.
Every definition is translated from the C code; `PROJECT.json` maps it to its
lines.

## 1. The system

| Component | State | Operations | Hard behaviour |
|---|---|---|---|
| Linux server, accept loop and pool (`Linux/server/source_server.c` main, protocol) | array `threads` of slots (`state`, `fd`, `mutex`), semaphore `mutex` of free slots, `max`, `listen_fd`, `conn_fd` | build the pool, bind, accept, hand a connection to a slot, serve, give the slot back, stop the pool, restart or exit | slots are handed over by unlocking another thread's mutex; `state` and `fd` are shared without a lock |
| Linux server, reload (handlerSighup, setThreadsNumber, setPortNumber) | `threads_number`, `port_number`, `force_restart` | SIGHUP reads the configuration file again | the handler runs between any two instructions of main, which reads the two globals again and again |
| Handshake (authentication, both platforms) | token of each end, challenge, the two streams | HELO, 300 and challenge, AUTH, 200 or 400 | both ends read by position; the client may die at any point |
| Passphrase and token (Fgets / scanf, generateToken) | the token so far | one term per character | 64-bit against 32-bit arithmetic, line against word |
| File transfer (executeCommand, both client and server programs) | bytes due, bytes saved, the two streams, the file on disk | DOWNLOAD, SIZE then UPLOAD, the final OK | a stream without message boundaries; loops that end on a count; arrays compared before they are filled |
| Windows server, accept loop and pool (`Windows/Server/server.c`) | array `thState` (`state`, `sock`, suspension), semaphore, `count` | create suspended threads, accept, assign and resume, serve, release and suspend, stop | no lock at all around a slot; suspend and resume have no memory; Recv and Send end the thread |
| LSF and EXEC (both servers, both clients) | the lines of a pipe, the stream, the reader's buffer, what is printed | run a command, send its output, end marker | the end marker may be split over two reads, or lie in the output; a client that closes early |
| Start-up (options, configuration file, both servers and clients) | option flags, the globals | precedence of option over file, what is refused | options in any order; two platforms with different rules |
| Log file | one stream and its mutex | append a line | which requests get one, and when |
| Daemonisation, wrappers, build files | - | system calls made once | - |

main and the workers of a server interact through the slots and the semaphore;
the operator through SIGHUP; a client with its worker through one connection,
on which the handshake comes first, then one command.

What makes each correct: a **pool** serves every accepted connection exactly
once, keeps as many permits as free slots, stops only when no conversation runs
and ends after the connections it was meant for; a **reload** takes effect,
drops nobody and listens where the configuration says; the **handshake** admits
exactly the holders of the passphrase and both ends agree on that; the
**tokens** of the two platforms agree; after a **transfer** an OK means the
whole file (a full disk aside), and both ends come back; the **output** of a command is printed as
it was sent and to its end; the **settings** are those the user gave, whatever
the order of the options.

## 2. Modules

| Module | Contents |
|---|---|
| `ConnectionService` | abstract: what a server promises its clients, without threads or locks |
| `ServerPool` | Linux daemon: main, workers, SIGHUP; refines `ConnectionService` |
| `ServerPoolProofs` | the slots and permits of `ServerPool`, with and without reloads that resize the pool |
| `ServiceProofs` | what clients rely on: `ServerPool` ends in time, listens where it should, implements `ConnectionService` |
| `WinPool` | Windows server: main and its threads; refines `ConnectionService` under prompt threads |
| `WinPoolProofs` | theorems about `WinPool`, the refinement among them |
| `Handshake` | authentication between one client and one server, both platforms |
| `HandshakeProofs` | theorems about `Handshake` |
| `Passphrase` | from the typed line to the token on both platforms |
| `PassphraseProofs` | theorem about `Passphrase` |
| `Transfer` | DOWNLOAD and SIZE/UPLOAD between a client and a server of either platform, and the log |
| `TransferProofs` | the account of the bytes of a transfer, the OK and the log |
| `Output` | LSF and EXEC between a client and a server of either platform |
| `OutputProofs` | the stream of an output: order, end, and who may kill the server |
| `Startup` | from the command line and the file to the settings, for the four programs |
| `StartupProofs` | the settings of every command line and file |
| `MC...` | instances for TLC, one per module above |

The composition is by abstraction: a conversation is one step of a pool
(`Finish`, `Converse`), and `Handshake` followed by `Transfer` or `Output` is
what happens inside that step. These two start where `Handshake` ends with
"accepted" and "authenticated" at the two ends (`ClientAgrees` makes that one
event). `Startup` comes before all: the port and the number of threads of its
Linux server are the ones `ServerPool` starts with, and `ReloadedThreads` and
`ReloadedPort` there are the same setters after `force_reloading`. The pools
assume, as fairness, that a conversation ends; `HandshakeEnds`, `TransferEnds`
and `ClientEnds` are that assumption checked; section 3 says where it fails.

### ServerPool

main has a program counter `mpc`, each worker `wpc[i]`. A step accesses at most
one shared location: `AllocThreads`, `CreateThread`, `SaveThreadsNumber` and
`ScanFree` each read `threads_number` for themselves because the code does. The
makefile does not optimise, so the order of plain accesses is the order of the
source.

| Code (source_server.c) | Model |
|---|---|
| sem_init, malloc, creation loop 750-762 | SemInit, AllocThreads, CreateThread, CreateDone |
| socket, bind, listen 764-783 | PortCheck, LastPort, BindListen |
| `threads_number_temp` 789 | SaveThreadsNumber |
| sem_wait 791-792; force_restart and accept 794-797 | SemWait, AllAccepted; CheckRestart, EnterAccept, Accepted |
| search 801-813 | ScanBusy, ScanFree, ScanExhausted, AssignThread, UnlockThread |
| stop 816-825, free and close 827-831, 833-839 | StopThread, StopUnlock, JoinThread, StopDone, FreeThreads, ExitOrRestart |
| protocol 585-658 | Lock, CheckFd, Finish, ClearFd, ClearState, SemPost |
| SIGHUP 86-166 and EINTR 256-275 | ReloadedThreads, ReloadedPort, Sighup, Interrupt |
| an access outside the array or after free | UndefinedAccess |

The mutex of a slot is a Boolean: main locks it before it creates the worker and
unlocks it to wake the worker, the worker only locks. Unlocking an unlocked
mutex leaves it unlocked (what glibc does with a default mutex). `fd` is
`Garbage` until it is assigned, as malloc leaves it. The kernel's part is `open`
(listening ports), `backlog` and `client` (what became of a connection, a ghost
for the properties except for queued and new).

`ResizeAt` and `RebindAt` say at which points of main a SIGHUP may *change* the
pool size or the port; a SIGHUP that changes neither may come anywhere. The
points at which a change does harm are named `ResizeUnsafe` and `RebindUnsafe`.

### WinPool

`wpc[i]` is the position of a thread, "suspended" its suspension. The three
fields of a slot are written one at a time, in the order of
`Windows/Server/server.c:453-457` and 657-663. The handle of a thread is stored
in a step after its creation (`StoreHandle`), because `_CreateThread` starts the
thread first. `ConversationFails` is ExitThread in Recv or Send,
`ProcessFails` the calls of them, and of Strtol, that end the process.
`Preempt` names the places where a worker may fall behind main: before its
first suspension ("start") and between the release of its permit and its
suspension ("tail").

### Handshake

A token is a function from bit positions to {0,1} with `^^` as exclusive or, so
the check of the server is the real one at any width. `Generated` is what
generateToken may return, `Randoms` what rand may; `RejectsZero` is the
difference between the servers (`strtoul(...)` as a condition on Linux).

### Passphrase

A token is `<<high, low>>` for high * 2^30 + low because TLC's integers have 32
bits; `LinuxAdd` adds in 64 bits (254 characters stay below 2^36), `WindowsAdd`
modulo 2^32.

### Transfer

Both ends are a Linux or a Windows program, in all four pairs. The two streams
are sequences; a byte of a file is a unit in the scale of `Buffer`, a command or
a code is a unit too. A read returns any non-empty prefix up to its limit: what
is due on Linux, `Piece` (254) on Windows. `disk` is what the sender's file still
holds; `Chunk` is the next piece of it, as fread and Write or ReadFile and Send
make it, with `Stale` bytes where a Windows program sends more than it read.
`Mishaps` names what may go wrong, each with the request during which it may:
"merge" (the read of a command takes units that were sent after it), "death" of
the client, "shrink" of the file, "unreadable" (a file that can be measured but
not opened), "full" (a write to the destination takes less than was read).
`mishaps` holds the kinds that have happened, for the properties. Every write to the
destination is `Saves` or `FallsShort`; the second ends the loop and leads, on Linux, to
the OK as a finished loop does (`BreaksTo` at the client). `saved` counts what fwrite
or WriteFile took. Where the code compares
an array it never filled (client.c:348, server.c:441) both outcomes are possible.
`acked` holds the ends that were told OK, `heard` the commands the server read,
`log` its lines.

| Code | Model |
|---|---|
| source_client.c 227-313, client.c 300-412 | SendRequest, SendData, DataSent, WaitAck; ReadCode, OpenDestination, ReadSize, SendUpload, ReceiveData, DataReceived, SendAck |
| source_server.c 467-535, server.c 335-444 | ReadCommand, ReceiveFile, FileReceived, WriteAck; AnswerSize, ReadUpload, SendFile, FileSent, ReadAck |
| source_server.c 481, 625; server.c 152-155 | LogAfterUpload, WriteLog; Heard |

### Output

The stream after the code is a sequence of numbered stretches of text, so that
order, gaps and repetitions show; the marker is two units because a read may end
inside it. A 0 ends a C string (`CString`). The Linux reader is `Gathered` (reads
are put together in one buffer), `Shown` (what it prints), `Kept` (what stays) and
`Stops`, all of the same buffer as source_client.c:299-313 has it; the Windows
readers are `ReadWindows`. An output is a sequence of lines, with `Nul` for a line
that begins with a byte 0 and `Inner` for output that holds the marker, " \r\n.\r\n":
to fgets these are two lines, the end of one and ".\r\n", which the server writes one
behind the other; the model writes them at once, and a read may end between them.

### Startup

`program` says which of the four programs starts; each has its loop over the
command line, one argument a step (`i`), and a server a second loop over the lines of
the file (`at`): on Linux where `-c` stands, on Windows behind the options. A word is a string that is compared with the options or
looked up in the constants (`Number`, `Hosts`, `LogNames`, `Readable`). `set` is the
record of the settings. `flags` are the Windows flags: 1 for an option that waits
for its value, 2 for one that has it; `Pending` is the chain of `if`s that gives a
value to the first waiting option in a fixed order. `Joined` is strcat on `argv[i]`, which writes over the
next argument: the model loses any of the following words.

## 3. Runs

`pass` runs finish without error; a `violation` run checks one sentence of the
repository's README or of a message of the server, which the code does not keep.

| Run | Checks | Shows |
|---|---|---|
| ServerPoolReload | TypeOK, PermitsCountFreeSlots, NoConnectionDropped, NoUndefinedAccess, ListenPortAgrees, ImplementsService | with reloads at the points main tolerates the pool loses nothing |
| ServerPoolLiveness | ExclusiveService, TerminatesWhenDone, AcceptedIsClosed, QueuedIsAccepted | what survives a reload that changes the pool size at any instruction: no connection in two hands, no early end, an accepted connection is answered unless main itself lost it, permits come back |
| ServerPoolShutdown (violation) | TerminatesAfterMaxAccept | two unlocks before the worker locks once count as one |
| HandshakeLinux | TypeOK, AcceptsOnlyRightPassphrase, RejectsOnlyWrongPassphrase, ClientAgrees, HandshakeEnds | the Linux handshake, with a client that may die |
| PassphraseShort | TypeOK, TokensAgree | one word of up to 27 characters: same token |
| WinPoolAnyTime | TypeOK, PermitsBacked, ExclusiveService, TerminatesWhenDone | what the unlocked slots keep under every schedule |
| WinPoolPrompt | NoConnectionDropped, AssignedIsAnswered, TerminatesAfterLimit, ImplementsService | the pool when its threads keep up |
| WinPoolLostWakeup (violation) | AssignedIsAnswered | ResumeThread before SuspendThread |
| TransferWhole | TypeOK, AckMeansComplete, RequestsLogged, UndisturbedDownloadSaved, TransferEnds | both transfers between all pairs of platforms, with every mishap |
| TransferCoalesced (violation) | DownloadSaved | data read together with the command |
| OutputStream | TypeOK, PrintedInOrder, DoneMeansAll, OrdinaryOutputIsHarmless, ShortOutputIsSeen, ClientEnds | LSF and EXEC between all pairs of platforms, under every cut of the stream into reads |
| StartupSettings | TypeOK, ServerAsAsked, ClientAsAsked, GoodLineStarts | the settings that options and file lead to, in every order |

### Known disagreements

The passing runs state the conditions under which the code keeps its promises.
The conditions are needed; besides the three violation runs, TLC gives these
counterexamples when a constant of a run is changed:

* A SIGHUP between the test of `force_restart` and accept()
  (source_server.c:794) interrupts nothing: the reload waits for the next
  client. Visible in every run with reloads as an `EnterAccept` with
  `force_restart` set, which is why `ListenPortAgrees` and `QueuedIsAccepted`
  except a pending reload.
* `RebindAt <- Everywhere` in ServerPoolReload: `ListenPortAgrees` fails.
  `port_number` is read at 764, 765, 766 and 829 as if it could not change.
* `ResizeAt <- Everywhere` there: `NoConnectionDropped` fails, by a SIGHUP that
  shrinks the pool between accept() and the search for a slot (801): the free slot
  lies beyond the new size, and the accepted descriptor is overwritten.
  README.md:1 says such a request waits ("la richiesta rimane in sospeso").
  `NoUndefinedAccess` and `PermitsCountFreeSlots` fail too (750, 756, 757, 789 each
  read the global).
* An honest enc1 or enc2 equal to 0 is refused on Linux (311, 315): the
  exception in `RejectsOnlyWrongPassphrase`.
* `Lines <- LongWords` in PassphraseShort: `TokensAgree` fails. A word of 60
  characters passes 2^32, and the token has 64 bits on Linux (common.c:177), 32 on
  Windows (functions.c:24), although README.md:1 promises a mixed mode.
* A line of two words in `Lines` of PassphraseShort: `TokensAgree` fails.
  Linux reads the line, Windows the first word (Windows/Server/server.c:597).
* `Preempt <- AtTail` in WinPoolPrompt: `NoConnectionDropped` fails too. The
  permit is released (455) before `sock` is cleared (456), so main may hold a
  permit and find no slot.
* `ClientsFail = TRUE` in WinPoolPrompt: `TerminatesAfterLimit` fails. Recv and Send
  end the thread (functions.c:266, 304, 313), and its slot never returns.
* In TransferWhole, without the exception `Starved`, `TransferEnds` fails. Of a client
  that has closed, the Linux receive loop (source_server.c:520-532) reads 0 bytes and
  writes 0 bytes, and counts down nothing: the worker is busy for ever. A read that
  fails (-1, as with the announced size -1) does end the loop, because fwrite returns
  something else (527), and the OK follows. A file that shrinks while it is sent leaves
  both ends waiting.
* A write to the destination that takes less than was read ends the receive loops of
  Linux (source_server.c:527-530, source_client.c:287-290), and both go on to the OK (534,
  292), which says that the operation went well (200 in README.md:1) of a file that is
  stored in part. `AckMeansComplete` excepts "full" for that reason; without the
  exception TransferWhole finds it violated, by the server's OK and by the client's.
* The Windows programs do not wait for the OK (client.c:348, server.c:441 compare an
  array that was never filled; the client prints success at 350 in any case). `acked`
  is for that reason never the Windows ends.
* The Windows server logs the first command of a conversation, never UPLOAD
  (server.c:153): the second half of `RequestsLogged`. README.md:1 lists UPLOAD
  among the requests of the log.
* LSF of a path that is no directory, and EXEC of a command that fails, are
  answered 300 by the Linux server (source_server.c:555), where README.md:1 has 400;
  the status of the command follows its output as text.
* Without `Orderly`, `PrintedInOrder` fails: LSF of the Windows client prints the rest
  of an earlier, longer read behind a shorter one (client.c:258), and the zeros behind
  a failed copy (server.c:290) hide the text after them in the same read.
* The exception of `ClientEnds` is needed: EXEC of the Windows client looks for the
  marker in each read by itself, and then reads 0 bytes for ever (client.c:289).
* `Nul` and `Inner` in `OrdinaryOutputIsHarmless` are needed: a line that begins with
  a byte 0 makes Write exit the daemon (source_server.c:559-567, common.c:60); output
  that contains the marker makes the client close early, and the second write to it
  is SIGPIPE.
* `ServerAsAsked` excepts an option of Linux that gives the default: `-p 8888` before
  `-c file` yields to the file, behind it it does not (source_server.c:100).
* `GoodLineStarts` excepts, on Windows, a file with a key that an option gives as
  well: the value is taken for the next key and the server exits (server.c:563).
  README.md:1 lets both be given. It also excepts \r\n in the file (the value is no
  number for Strtol) and ports of five digits for the Windows client
  (client.c:149); README.md:1 has no such limits. On Linux it excepts a line without
  "=", an empty one for instance: atoi gets a null pointer (source_server.c:128).
* `ClientAsAsked` excepts `-p` and `-h` among the words of a command on Linux, which
  replace the address of the server (source_client.c:115, 122), and a command before
  `-h` and `-p`, which takes them as its words (92); on Windows the words that strcat
  loses (client.c:167).

### Bounds

* ServerPool: two slots, two ports, three connections, two of them or all three
  in the budget, up to two SIGHUPs, a configuration file with values in range,
  out of range or absent; in ServerPoolReload a third slot, which a reload may
  ask for. With a budget of two, one client is left waiting;
  with two slots a search can meet a busy slot, find one, or run out; a second
  SIGHUP can meet the restart that the first began. A third slot adds no
  interaction: main handles one slot at a time, and workers never meet.
* WinPool: two threads, two connections per thread (six in the code), five
  connections: the pool fills, every thread is used again, the limit is
  reached and one client is left over.
* Handshake: two bits, all tokens and random values. The properties treat bits
  independently, except for zero, which two bits tell from the rest. The run
  has the Linux server; the theorems also cover the Windows one.
* Passphrase: runs of the smallest, a middle and the largest character. 27
  characters is the most for which no passphrase reaches 2^32.
* Transfer: Buffer and Piece of a few units, files of none to more than two
  buffers, so that a file is less than, exactly, and more than one block, and the
  last block of Windows is empty or not.
* Output: Buffer 4, outputs of no line to ten units: the marker lies inside, across
  and behind a full buffer, a read ends at every place of it, and a read of Windows
  passes half of the buffer (32768 in the code).
* Startup: all sequences of two items out of fourteen (an option with a good, an odd
  or no value), of three items out of seven, with ten files: every key alone and
  with others, out of range, twice, unknown, without a value, with \r\n. Three items
  are enough for an option, a file and another option on either side of it. Clients:
  nine beginnings (good, odd, incomplete) before and behind forty commands.

CHECK_DEADLOCK is FALSE where the programs may stop: the servers and the clients end.

### Fairness

`FairSpec` has weak fairness of each thread's next step, as the scheduler gives.
For a worker this includes `Finish` / `Converse`, the end of a conversation; the
runs that depend on it are ServerPoolLiveness, ServerPoolShutdown, WinPoolPrompt
and WinPoolLostWakeup. Nothing is assumed of clients that connect, of SIGHUP or of deaths. In
`Handshake`, `Transfer` and `Output` both processes are scheduled while they live, and in
`Output` the command on the server writes its lines and ends. In `Startup` the program
is scheduled.

### Faults

Each model defines a few mistaken variants of its definitions (*Faults*): a
forgotten reset, a missing guard, an exchanged step. They are in no behaviour;
put in the place of the definition they name, they make TLC report the property
that PROJECT.json pairs them with, which shows that this property depends on
that code.

## 4. Proofs

TLAPS checks the theorems below for all values of the constants allowed by the
named assumptions (`PoolAssumption`, `WinPoolAssumption`, `HandshakeAssumption`,
`PassphraseAssumption`, `TransferAssumption`, `OutputAssumption`,
`StartupAssumption`), which say what kind of value a constant is. Where a theorem
needs more, the condition stands in its statement and below. Every safety invariant
of a passing run, and both refinements, are proved.

| Property | Theorem | Condition |
|---|---|---|
| ServerPool TypeOK, ExclusiveService | TypeCorrect, AlwaysExclusive | none |
| ServerPool PermitsCountFreeSlots, NoConnectionDropped, NoUndefinedAccess | PermitsAlwaysCount, NeverDropped, NeverUndefined | SafeWindows |
| ServerPool TerminatesWhenDone | EndsWhenDone | none |
| ServerPool ListenPortAgrees | PortAlwaysAgrees | SafeRebinds |
| ServerPool ImplementsService | PoolImplementsService | SafeWindows |
| WinPool TypeOK, PermitsBacked, ExclusiveService, TerminatesWhenDone | TypeCorrect, PermitsAlwaysBacked, AlwaysExclusive, EndsWhenDone | none |
| WinPool NoConnectionDropped | NeverDropped | ParkedTail |
| WinPool ImplementsService | PoolImplementsService | ParkedTail, ~ClientsFail |
| Handshake TypeOK, AcceptsOnlyRightPassphrase, RejectsOnlyWrongPassphrase, ClientAgrees | TypeCorrect, OnlyRightPassphrase, RightPassphraseAccepted, OutcomesAgree | none |
| Passphrase TypeOK, TokensAgree | TypeCorrect, MixedTokensAgree | ShortWords, for TokensAgree |
| Transfer TypeOK, AckMeansComplete, RequestsLogged | TypeCorrect, AckAlwaysMeansComplete, AlwaysLogged | none |
| Output TypeOK, OrdinaryOutputIsHarmless, PrintedInOrder, DoneMeansAll | TypeCorrect, OrdinaryOutputAlwaysHarmless, PrintedAlwaysInOrder, DoneAlwaysMeansAll | none |
| Startup TypeOK, ServerAsAsked, ClientAsAsked | TypeCorrect, ServerAlwaysAsAsked, ClientAlwaysAsAsked | none |

**ServerPoolProofs** has two layers.
*Whatever reloads do*: `TypeInv` strengthens TypeOK by the range of an index in use,
the budget main may still decrement, and the socket it accepts on. `CoreInv`
relates per slot the position of its worker to `state`, `fd` and `mutex` as far as
main has not overwritten them (`SlotInv`), and says that a connection is in main's hand
or in one slot (`InHand`, `Holders`). That suffices for `ExclusiveService`, which no
resize can break: main assigns to a slot whose `state` is 0, however it came to look
at it. *Under `SafeWindows`* (no reload changes the pool size in `ResizeUnsafe`)
`SizedInv` adds that main's copies of the size agree with the array (`SizesAgree`),
that exactly the slots below `alloc` have a thread, and that a search has its slot
ahead (`SlotAhead`); with `PermitsCountFreeSlots` it is inductive, as `PoolInv`. None of the properties
is inductive alone: that a search succeeds needs the count of permits, the count needs
that the slot main assigns is free, and that needs the relation between a worker's
position and its slot. The proofs have a case per action, grouped by who takes it.
`SafeWindows` cannot be dropped: see `ResizeAt` under *Known disagreements*.

**ServiceProofs.** `CountInv` keeps the number of connections taken over equal to
MAX_ACCEPT - `max`, with one more while main has a connection in hand: so `max` = 0
means MAX_ACCEPT of them, and the exit is behind the join of every worker. `PortInv`
follows the one listening socket from bind() to the decision to close it; with
`SafeRebinds` (no reload changes the port in `RebindUnsafe`) the port bound is the
port wanted. `PoolImplementsService` is the refinement step by step under the mapping
of `ServerPool`: initial states map to initial states, and each action to one
of ConnectionService or to a stutter; the capacity of the service counts when a
connection is accepted, and there `PermitsCountFreeSlots` is what is needed.

**WinPoolProofs.** `SlotInv` says for each position of a thread what the three
unlocked fields of its slot may be, `Holders` who holds a connection, `CountInv` how
many conversations were counted. `PermitsBacked` is an inequality: between
`ReleaseSemaphore` and the two assignments behind it a permit's slot is not seen to
be free yet. With `ParkedTail` (a thread that released its permit reaches its
suspension before main looks at its slot, `Preempt` without "tail") a search finds a
slot, and the pool implements `ConnectionService`, if no client fails in the middle.

**HandshakeProofs**, for the Linux and the Windows server and tokens of
any width. `HandshakeInv` says which message is on the way at which pair of
positions (`ControlInv`), what it contains, and what the server's verdict says of the
tokens. The arithmetic is one lemma about a bit (`HonestBit`), lifted by
extensionality (`HonestReply`); `ZeroReply` says for which challenge a component
of the answer is 0.

**PassphraseProofs**, for lines of any length. The invariant bounds the token by the
number of characters read, so for one-word passphrases of at most 27 characters
no sum reaches 2^32.

**TransferProofs**, between any two platforms, for files, buffers and pieces of every
size, every cut of the streams and every mishap. `Flow` is the account of a transfer:
what is due at the receiver covers what is in flight and what is still to be sent, and,
until a write to the destination falls short, what came from a Linux sender and is not
due any more is saved. `Stands` and `Upload`
say which pairs of positions of the two programs are possible and what then lies in
each stream; an OK on its way, or taken, means that nothing is due any more or that a
write fell short, which is the exception that `AckMeansComplete` states. `LogInv`
counts the requests that were heard and not yet logged.

**OutputProofs**, for every output, buffer and cut into writes and reads. In order
(`Orderly`), the stream is what was printed, what the Linux client holds in its buffer
and what it has not read (`Reading`); the marker can only be in what was read last
(`Finished`). The text of a piece ends at its first 0, and text joins
(`TextJoins`): as long as no 0 lies inside the stream (`Solid`), the text of two
pieces is the text of one and then of the other. `HarmlessInv` says which outputs and
which ends of a client lead to a dead daemon or thread.

**StartupProofs**, for every command line, of any length, and every file. For each
program an invariant says what the arguments before `i` and the lines before `at`
have made of the settings. A number of the Linux server is the default, or was given by
its option, or was given by the file; once an option gave another number than the
default the file leaves it alone, and once the file was read it is not the default if
the file gives one (`LinuxNumber`). The proof uses nothing about the form of the line:
`Paired` is needed on Windows only, where the options and their values have to alternate
for `WindowsOptions` (an option seen once is noted, and waits for the next argument
alone), and `Sane` because Windows does not look at the range (`PortFits` is the
16 bits of its port). For the clients, `LinuxClientInv` holds the command and its
arguments once argument 5 was passed, whatever follows; `WindowsClientInv` says that
the option before a value is the only one that waits. `PendingWaits` is the lemma
about the chain of `if`s.

Only model-checked, because liveness under fairness is beyond the
prover's reach: `AcceptedIsClosed`, `QueuedIsAccepted`, `AssignedIsAnswered`,
`TerminatesAfterLimit`, `HandshakeEnds`, `TransferEnds`, `UndisturbedDownloadSaved`,
`ClientEnds`, `ShortOutputIsSeen`, `GoodLineStarts`, and the three properties of the
`violation` runs. What the recursive parts of a conversation compute (a token from
its characters, a text from its pieces) is proved as an invariant of the loop that
computes it, not by induction over the data.

## 5. Not modelled

* How a server turns LSF and EXEC into a command of its shell, and the command.
  Listings of Windows longer than BUFF_SIZE, which overrun their array (server.c:200).
* Daemonisation, the mutex and the format of the log; build files.
* Configuration files longer than the 254 bytes that the Windows server reads.
* Short reads in the handshake; files that grow during a transfer; what
  fclose writes, or fails to write, of the bytes fwrite took; connections that the
  network resets.
* What SIGPIPE does to the *other* conversations of the daemon; what happens when
  the handler interrupts malloc.

## 6. Plan

1. `ServerPool`, `ConnectionService`, `Handshake`, `Passphrase`, `WinPool`,
   `Transfer`, `Output`, `Startup` with their runs. Done.
2. Proofs of every safety invariant of these runs and of the two refinements. Done.
3. Left: `Handshake` with short reads, and its properties without the assumption that
   a message is read whole. `WinPool` with threads that end inside a conversation, and
   what is left of the pool then, with the refinement for clients that fail. The
   reload that is lost before accept() as a property of its own. The action properties
   on which the liveness arguments rest (who may move whom), as theorems.
