# OpenVEIL in TLA+

A verification project for OpenVEIL (`src/`): TLA+ modules translated from the
C++ of VEILCore, TLC configurations that check them on small instances, and
proofs that TLAPS checks for every instance. Paths below are relative to
`src/`; `PROJECT.json` maps every definition to the lines it stands for.

    tlc -workers 2 -config RWLock.cfg MCRWLock.tla     # one run
    tlapm RWLockProofs.tla                             # the proofs

## 1. The system

OpenVEIL is a client library (VEILCore) with a command line tool, two GUI
libraries, a file encryption library and a CMS header library on top. Its
control lives in VEILCore: objects are found through service locators, a
connector talks to a KeyVEIL server over HTTP, the HTTP channel runs over a
TCP connection and may protect its messages with a tunnel, and a monitor thread
looks for changes (smart cards, preferences).

    application threads
       |            \
       v             v
    KeyVEILConnector  ServiceLocator --AutoReader/WriterLock--> RWLock
       | locks           ^      ^
       v                 |      | TerminateAllPlugins, DeleteClass
    HttpChannel       plug-ins  TerminateVEILSystem <-- AddSystemTerminationFunction
       |  \                              |
       |   TcpMsgProcessor / TLS         v
       v                          change monitor thread --> producers, consumers
    TcpConnection --> KeyVEIL server

| Component | State it keeps | Operations | Hard behaviours | What makes it correct |
|---|---|---|---|---|
| Readers/writer lock, `VEILCore/RWLock.cpp` | a recursive mutex, a mutex, a reader count, an event | Start/End Reader/Writer through scoped guards | interleaving, lost wakeups, nested guards | a writer is alone; no wakeup lost; who may block for good |
| Service locators, `VEILCore/servicelocator.cpp` (`CryptoLocator.cpp` is the same over other types) | three maps: classes, singleton classes, singleton objects; pointers between aggregated objects | Add..., Copy..., DeleteClass, TryCreate, Create, paths into child locators | iterators used after the guard is gone; two creators of one singleton; lock inside lock | first registration stands; deleted names stay deleted; names carry stacks of objects |
| KeyVEIL connector, `VEILCore/KeyVEILConnector.cpp` | channel, processors, two lists, three locks | connect, disconnect, refresh, isConnected, lists by index, favorites | lock order, values read before a lock, a link that breaks anywhere | no deadlock, lists of this connection only, answers merged in order |
| HTTP channel, `VEILCore/HttpChannel.cpp`, `HttpHeader.cpp`, `TcpConnection.cpp` | socket, parse state, bytes not parsed yet | Send, Receive, WebSocket frames | pieces of any size, 100 Continue, a server that goes away or answers nonsense | a success has exactly its answer, as long as the connection has had no nonsense |
| Change monitor and system life, `VEILCore/CkmChangeMonitorImpl.cpp`, `VEILCore.cpp` | a thread, two lists, cookies, the stack of termination functions | Start, Stop, Kill, Register, Unregister, RaiseChange, TerminateVEILSystem | lists without a lock, a global reset while the thread may use it, order of termination | the thread is down before what it uses; calls return |
| Plug-in manager, `VEILCore/PluginModuleManager.cpp`, `PluginModule.cpp` | modules registered in a locator, their cleanups among the termination functions | load, find, terminate all, cleanup | initialisation fails after the cleanup was registered; Terminate called inside a reader guard; plug-ins that call back; names that are paths | every module initialised is terminated once, before its library goes |
| Tunnel and message protection, `VEILCore/SSL/TLSClientHandshakeProtocol.cpp`, `TcpMsgProcessor.cpp`, `TcpChannel.cpp` | handshake state, transcript, keys, sequence numbers | handshake messages, Wrap/UnwrapMessage, login loops, logout | messages out of place, a renegotiation at any time, a closed peer, keys left after a logout, a resend on a new connection | an active tunnel agrees with its server; no key seals twice; an answer is that of the request |
| JSON channel and WebSocket, `VEILCore/JsonChannel.cpp`, `HttpChannel.cpp` | partial frame | Send, Receive | fragments, control frames in between | messages come out whole and in order |
| Session and tokens, `VEILCore/KeyVEILSession.cpp` | login state, retries, profile | Login, Logout, GenerateWorkingKey | a retry limit, a profile that is stale | no key without a login |
| Threads, events, signals, `VEILCore/pevents.cpp`, `tsSignal.cpp`, `tsThread.cpp` | waiters, flags | Wait, WaitForMultiple, Set, Reset | the last waiter, a timeout racing a signal | a set event releases whom it should |
| File encryption, `VEILFileSupport/`, headers, `VEILCmsHeader/`, the commands `veiltool/extensions/file/` | the temporary file, the output, the input | encrypt and decrypt files | a failure or a kill at any step, two commands in one directory | no half-written output is kept; no document is lost |
| Algorithms, encodings, preferences, tools, dialogs | | | mostly sequential | by tests |

## 2. The modules

| Module | Stands for |
|---|---|
| `RWLock` | `RWLock.cpp`, statement by statement |
| `ReadersWriters` | what the lock promises to its callers |
| `RWLockProofs` | theorems about `RWLock` |
| `ServiceLocator` | `servicelocator.cpp`, one action per guarded section and one for what is done between two |
| `ServiceLocatorProofs` | theorems about `ServiceLocator` |
| `ObjectStacks` | what a name of a locator promises about its objects |
| `KeyVEILConnector` | `KeyVEILConnector.cpp`, its locks, its channels and the server's lists |
| `KeyVEILConnectorProofs` | theorems about `KeyVEILConnector` |
| `HttpReceive` | `HttpChannel::Receive`, `HttpHeader::ReadStream`, `TcpConnection::RawReceive` |
| `ChangeMonitor` | `CkmChangeMonitorImpl.cpp` and the life of the system in `VEILCore.cpp` |
| `ChangeMonitorProofs` | theorems about `ChangeMonitor` |
| `TlsClient` | `TLSClientHandshakeProtocol.cpp`, the transport state of `TcpMsgProcessor.cpp`, the login loops of `TcpChannel.cpp` and `HttpChannel.cpp` |
| `TlsClientProofs` | theorems about `TlsClient` |
| `MsgTunnel` | `TcpMsgProcessor::WrapMessage`, `UnwrapMessage` and what their keys live through |
| `ChannelProofs` | theorems about `MsgTunnel` and `HttpReceive`, what comes over a connection |
| `PluginManager` | `PluginModuleManager.cpp`, `PluginModule.cpp`, and the cleanups loading leaves in `VEILCore.cpp` |
| `PluginManagerProofs` | theorems about `PluginManager` |
| `FileOperations` | `FileOperations.cpp` of VEILFileSupport, the readers and writers under it, the commands `fileencrypt.cpp` and `filedecrypt.cpp` |
| `FileOperationsProofs` | theorems about `FileOperations` |
| `MC...` | the instances TLC checks |

**RWLock.** `csWrite`, `csReadCount`, `numReaders`, `writeAvailable` are the
fields of `RWLockInternal`; `pc` is where a thread is inside the lock, `held`
the guards it holds, oldest first. Each statement that can wait, or that another
thread can see half done, ends an action: `StartReader` is `StartReaderWrite`
(csWrite), `StartReaderCount` (csReadCount and the increment) and
`StartReaderReturn` (the event, and both mutexes given back). The constant
`Nestings` says which guards callers ask for inside which; `MaxDepth` bounds the
nesting. The mutexes and the event come from the TSALG library and are external.
The destructor, which waits for the last user, is left out.

**ServiceLocator.** A section under one guard is one action: that is what
`Exclusion` in `RWLockProofs` allows. It is not what protects `TryCreate`, which
keeps an iterator after its guard is gone and searches `_classes` without one;
`BuildSingleton`, `BuildOther` and `Crash` are those steps, and the fields
`torn` and `erased` of a call record that the map changed under it (undefined
behaviour: the call goes on, or the program crashes). `disturbed` and `raced`
are history that the properties use. Objects are values; `contained` and
`container` are the pointers aggregation sets. `DeleteClass` resets the
container of the *outer* object, as line 401 of the code does.
When an initialisation fails, `TryCreate` ends in an exception; the caller has
no object either way, and the model returns `NoObject`.
Names hold no path here, so `resolvePath` gives the locator itself.

**KeyVEILConnector.** `lock` holds the three recursive mutexes, `thread[t].at`
the statement a thread is about to run, `thread[t].ret` the return address of
`disconnect`, `LoadTokens` and `LoadFavorites` where they are called from inside
another method, and `thread[t].snap` the channel a method read before it had a
lock. A list is the number of the server's version of it that was merged last.
`link` says of each channel object whether its socket is up and whether its
processor has logged in (`Login`): `refresh` only begins a tunnel, and the next
request finishes its handshake in `HttpChannel::Send` (`RequestWorks`,
`RequestFails`). `Request` is `sendJsonRequest` and `sendRequest`, `Response` the
accessors of the last response (`status`, `dataPart`, `errorCode` and the others),
which dereference `_hdr` without a lock or a test; `_hdr` is made and reset with
`_channel`, and a thread that read it before another one reset it uses a response
that is gone. The server (`ServerChanges`) and the network
(`LinkLost`) are external. A read past the end of a list and a use of a
null or freed pointer go to `crash`, after which nothing happens. Left out: the change
callbacks (their calls are commented out), `m_failureReason`, the search of a list by
name or id (the same two sections as by index), `favoriteForEnterprise`,
`tokenForEnterprise` and `favoriteCountForEnterprise` (loops over what is modelled),
what a caller does with the reference that `dataPart` returns, and the moment in a
`connect` between the new channel and its `_hdr` (lines 73 to 81).

**HttpReceive.** The stream is a sequence of tokens: a response line, the rest of
the header, units of text, junk. `Read` is one turn of `ReadStream`'s loop:
`RawReceive` may return any number of tokens up to the target, `Take` parses as
far as it goes, and `ReturnOrContinue` is what `Receive` does with the result,
the loop over 100s included. A server answers a request with a script, which is any
number of 100s, which have no body, and then one message that is not a 100, without a
body if it has no content-length (`ReceiveAssumption`: the parser has no other way to
find its end); or with any other sequence of tokens (`Malformed`): junk in one piece or
in several, text where a line should be, headers that break off, a body without a
length or of another one. The parser does with these what the code does: it gives the
answer up with `hh_Success` at the first piece that is no line (`pse_Error`, 206-210),
or with `hh_Failure` for a 200 without a length (189-191), and in both cases `Receive`
leaves the socket open with what was not read on it. `ReadFails` is the second `recv`
of `RawReceive` failing, or an `UnwrapTransport` that does: `hh_Failure` too. The next
`Receive` then begins in the middle of an answer, so nothing is claimed until the
connection is made anew: `clean` is the history variable that says so, and `asked` the
script of the last request where it holds. The names
of the specification (`HttpInit`, `HttpNext`, ...) differ from those of `MsgTunnel` so
that one module can prove about both. `HttpSend` stands for `HttpChannel::Send` and
`RawSend` as far as they decide what is on the socket: a broken socket is
connected again and its unread bytes are lost, an unbroken one keeps them
(`flushBuffer` has an empty body, `TcpConnection.cpp:656`). Each `Send` is followed by
its `Receive`, as `Transceive` and the connector do. Left out: the unwrapping of a
message (module `MsgTunnel`) and its decompression.

**ChangeMonitor.** `pc` is the application's thread, `thread` the monitor's. The
lists are sets of cookies, walked in order; `at` holds the entry each walk stands
on (the monitor's scan of producers, and `RaiseChange` on either thread), and
`lost` records that a walk's entry was erased under it. `terminators` is
`gTerminators`: `CloseSystem` pushed by `TopServiceLocator`,
`ShutdownChangeMonitor` by `GetChangeMonitor`, `Other` by everyone else.
`TerminateVEILSystem` pops them one by one (`PopShutdown`, `PopCloseSystem`,
`PopOther`); a function of another part may use the monitor and so make it
anew. `back` is where `StopChangeMonitorThread` returns to: the application,
`ShutdownChangeMonitor`, or the destructor. One application thread controls the
monitor, as `VEILWxWidgets/test/AppMain.cpp` does. `RunInitializers` (nothing in
the repository registers an initializer) and the class `ChangeTracker` (nothing
creates one) are left out.

**TlsClient.** `client` is the tunnel object: `state` is `__state`, `log` the
transcript, `rx` and `tx` the handshake whose keys the record layer uses,
`transport` the state `TcpMsgProcessor` derives from the events. `Entered` is
`changeState`: an entry from a state that is not allowed is refused, as in the
code, and the events it fires set `transport`. A handler is an operator that
takes the client and returns it with what it has sent in `out`; `Receive` applies
the handlers to one record. Messages come in two parts, and a record holds up to
`MaxRecord` parts, so a message may be cut by a record and a record may hold
several. The server is external: it keeps to TLS 1.2 or has one `fault`, chooses
a suite, and may ask for a client certificate (`asks`) and go on without it or with
a wrong Finished (`lenient`). It may send a `HelloRequest` at any moment. `call` is the connector:
in a login loop, sending, or connected. A socket that broke is replaced under the
tunnel (`RawSend` connects again); `stale` remembers it. Left out: certificates
of the client, session resumption, the PSK suites, sequence numbers and padding
of records, and the crash of a client whose server omits the `ServerKeyExchange` of an
ephemeral suite (`_serverEphemeral` is null at `TLSClientHandshakeProtocol.cpp:1111`
and 1131): the servers of the model send it. `SendRequest` waits until nothing is under
way in either direction, which the code does not; no property speaks of a request that
crosses a message of the server.

**MsgTunnel.** The processor after a login: `processor.key` is the session key and
id, `seq` the sequence number, `msg` the key of the last message, which
`UnwrapMessage` uses. The session comes from a TLS tunnel, and ends with it, or
from the three messages of `KeyVEILConnector::Login`, and then outlives its
connection. `Send` wraps, and a broken connection makes `RawSend` connect again
and send the same bytes; `Receive` accepts what `UnwrapMessage` lets through, an
answer without a body included; `ReceiveInterrupted` leaves an answer behind on the
socket. The server is external.

**PluginManager.** `frames[t]` is the stack of calls of a thread, since a plug-in's
`Initialize` and `Terminate` may call the manager. A frame's `at` is the statement
it is about to run. `modules` are the `PluginModule` objects with their `life`,
`registered` what each name leads to, `cleanups` the termination functions that
`LoadModule` adds (`AddSystemTerminationFunction`). The manager's lock is that of
`RWLock` and is derived from the frames. `early` records a cleanup that ran before
its load was over. The name of a plug-in is `PLUGIN_` and its path, and veiltool loads
its extensions by path: a name with a slash (`Nested`) is resolved into a locator below
the manager's (`servicelocator.cpp:440`). It is found and deleted by its name as any
other, but `ObjectGroup` does not list it: `TerminateAllPlugins` terminates and
disconnects nothing there, and its `DeleteClass` drops that locator with all it has, so
that a module loaded without a cleanup goes without its `Terminate` (`Referenced`:
`~PluginModule` only disconnects). `AddSingletonObject` refuses a second module of one
name, which `LoadModule` does not look at. Left out: a `TerminateAllPlugins` that a
module's own code calls (lines 267 to 285; it is called from outside, or by
`TerminateVEILSystem`), two paths that `TryCreate`'s cut at the last dash takes for one
name (or the cut at a colon on Windows, line 578), and the end of the locators, which
drops what they still have.

**FileOperations.** `dir` maps names to inodes and `store` inodes to contents, so
that a file which is deleted or replaced under a command that has it open is what
a file system makes of it. `cmd[c]` is the call a command is in and its local
variables; `WriteBlock` writes to the temporary file, `Remove` and `Rename` are the
end of `EncryptSignFile` and `DecryptVerify`, `Wipe` and `Unlink` are
`secureDeleteFile` of the temporary file when the rename has failed. Whatever a
call can fail at fails at any time, `CkmFileWriter::Close` may lose what was
buffered without a report (`CloseLoses`), and `Crash` kills a process between any
two steps. `spoiled` are the names that two commands have met in, or
that a close has damaged: the properties speak of the others. Opening reader and
writer is one step; named streams are left out (the Unix build has none); a power
failure that undoes what was written is not modelled; the layers of a document
encrypted twice are not told apart.

## 3. The runs

| Run | Question | Bounds, and why they are enough |
|---|---|---|
| `rwlock` | Does the lock exclude, wake, let writers in, and implement `ReadersWriters`; where can it block for good? | 3 threads: a writer, a reader inside and one that arrives; guards three deep, any nesting, so recursion of csWrite and a reader inside its own writer both occur. |
| `locator_names` | Does an undisturbed `TryCreate` answer as the registry says, and does a deleted class stay deleted? | One thread, two locators, three names: a long one whose creator returns nothing, its shorter form, one whose initialisation fails. At most three entries are registered at a time (`Few`): enough for a long name, its shorter form and one in the other locator. |
| `locator_race` | What do two racing creators of one singleton get, while it is added and deleted, and do the pointers implement stacks of objects? | Two threads, one name, three objects: the racers' two and one that was there, one of the three not aggregatable. |
| `connector_alone` | What may one thread meet, calling every method in any order, accessors of the last response included? | Three channel objects: two connections after each other and one more; lists that grow, shrink and change owners. |
| `connector_race` | What may two threads do to each other? | Two threads, two channel objects, the methods that take more than one lock. |
| `http` | Does a `Receive` that succeeds on a clean connection have exactly its answer, and all of it, and does a `Receive` return? | Bodies of up to 3 units with reads of up to 4 tokens: a body comes whole, in halves or token by token, and a read spans two messages; two requests, so what one leaves meets the next, on the same connection or on a new one; eight scripts, and thirteen malformed answers, one for each way the parser can be thrown off. |
| `monitor` | What is down when the system closes, and do calls return? | Two registrations per list (one walk stands on one while the other is removed) and two other termination functions (one before and one after the monitor's). |
| `tls` | Does an active tunnel agree with its server, does the processor know what the tunnel does, does a login succeed, and does it return? | Eight servers: the three suites, the three faults, and two that ask for a certificate, one of which goes on without it. Two logins, so that one meets what another left; a renegotiation, before, in and after a login; records of up to three parts, so that a message and a half share one. |
| `message` | Is a key used once, and an answer taken for another's? | Three sessions, so that a third can meet what two left; five requests: on either side of a broken socket and of a new login. |
| `plugin` | Can the manager block, and is a module terminated once and before it goes? | Two threads, two libraries, one of them with a slash in its path, two modules, calls three deep: a load from an `Initialize` that is itself in a load, or a find from the `Terminate` of a cleanup of a close. |
| `files` | What does a name lead to, what does success mean, how is a document lost? | Two commands that run seven command lines on two documents of two blocks: one file, two files into one output, both directions; a kill anywhere, and a close that loses data. Two blocks tell a half-written file from a whole and from an empty one. |
| `files_open` | A finding, section 5. | One command. |

What the passing runs show, property by property, is said at each definition.
The more surprising results:

- `StuckOnlyInsideReader`: the lock blocks for good only if a thread asks for a
  guard inside its own reader guard. `CopyClassDef` does, for a writer, and
  waits for itself when the new name is in the same locator; a visitor that calls
  its locator back would.
- `OnlyRacersGetTheirOwn`, `SingletonsStay`: two threads may get different
  objects for one singleton, only if their calls overlapped; the one registered
  first stays registered.
- `OnlyFavoritesDeadlock`: the connector can deadlock, and only with
  `favoriteCount` on one side: it holds `_favoriteListLock` and waits for
  `_channelLock`, which the other methods take the other way round.
- `TwoPlacesToDie`: even one thread can make `refresh` call through a null
  processor, after a `connect` that found no server, and the accessors of the last
  response through a null `_hdr`, before a `connect` and after a `disconnect`; no
  other method can.
- `AnswerIsExact`, `NothingLeftOver`: they hold on a connection on which the server has
  kept to its scripts and no read has failed. After nonsense, `Receive` may succeed and
  leave the rest on the open socket, where the next one finds it.
- `TerminatedBeforeDropped`: `TerminateAllPlugins` never disconnects a module that is
  up. A module goes with its last reference without a `Terminate` only where its
  cleanup came too early, or where it has no cleanup and either a path with a slash or
  a name that another module has.
- `OnlyUnregisterLosesAWalk`: stopping, dropping and terminating never empty a
  list under a walk; a call of `Unregister...` during one can.
- `LoginReturns`: both login loops end, except after the server has closed the
  connection in a handshake: `recv` returns 0, and the loop polls for good.
- `LoginSucceeds`: a sound server's login makes the tunnel active whatever the
  cut of its records, unless the server asks for new keys in it: a
  renegotiation keeps the old transcript and fails.
- `AnswerIsForRequest`: an answer without a body is accepted whatever it
  answers; after a `Receive` that left its answer on the socket, it may be that of
  the request before.
- `StuckOnlyInTerminate`: the manager can block, and only when a module's
  `Terminate` asks for one of its guards.
- `OnlyTheseLoseADocument`: the last whole copy of a document goes only when an
  output is replaced by that of another document (or of an input that could not
  be opened), when a command deletes the temporary file that a killed one left, or
  when a rename fails and the copy is wiped.

Type invariants that only say so are conjuncts: `TypeOK` is the first part of
`ContainerCurrent`, `TokensOfThisConnection`, `AnswerIsExact`, `NoNullScan`,
`Agreement`, `NeverHalf` and both `IInv`.

Deadlock. TLC's deadlock check is off everywhere because each model really can
stop: `RWLock` when a guard is asked for inside a reader guard
(`StuckOnlyInsideReader` is the check in its place), `KeyVEILConnector` in the
deadlock above, after a crash, or out of channel objects, `ServiceLocator` when
every object has been constructed and its threads have crashed, `HttpReceive`
after `MaxHttpRequests` or waiting for a silent server, `ChangeMonitor` on a
termination thread whose walk was lost, `TlsClient` after `MaxLogins`, `MsgTunnel`
when sessions and requests are used up and nobody is connected, `PluginManager`
when a `Terminate` asks for a guard (`StuckOnlyInTerminate` is the check in its
place) or the system is closed, `FileOperations` after `MaxStarts` commands.

Fairness. `RWLock`: each thread goes on inside the lock and gives its guards back
(weak fairness of `Run(t)`); nothing is assumed about who gets a mutex, and
nothing about who asks. `HttpReceive`: the thread in `Receive` runs when the
socket has bytes or its end to give; a read need not fail. `ChangeMonitor`: both threads are scheduled;
callbacks and termination functions return; and a `ScanForChanges` returns after
finitely many changes (strong fairness of `ScanNext`, since between two of its
calls to `RaiseChange` the thread is elsewhere). `TlsClient`: a thread in a login
loop reads when there is something to read or the read fails (the loop has no
other way on), and the server reads what it was sent; it need not answer well, and
may give up at any time. No liveness is claimed of the other modules.

## 4. The proofs

Each `...Proofs` module states an inductive invariant `IInv` of its module, proves
that `Init` implies it and that every step keeps it, one lemma per action or per
conjunct, and draws the theorems from it. Before it was proved, each `IInv` was
checked by TLC on the instance of the module's run. The theorems hold for every
value of the constants the module's assumption allows; where a theorem assumes more,
it is said below.

### RWLock

`RWLockProofs` proves of `RWLock`, for any set of threads (also infinite), any
nesting and any depth, from `RWLockAssumption` alone (`NoThread` is no thread,
`MaxDepth` is a natural number, `Nestings` are pairs of modes):

| Theorem | |
|---|---|
| `Invariant` | `Spec => []IInv` |
| `TypeCorrect` | `Spec => []TypeOK` |
| `Exclusion` | `Spec => []MutualExclusion` |
| `NoLostWakeup` | `Spec => []EventAgrees` |
| `Refinement` | `Spec => Implements`, the abstract lock |
| `NobodyElseIsStuck` | `Spec => []StuckOnlyInsideReader`, if there is a thread at all |

`MutualExclusion` is not inductive: whether a writer is let in depends on the
count of readers, and the count says nothing of who holds a guard. `IInv` closes
the gap through *frames*. A frame of a thread is the position of one of its
guards, or the one after them for the guard it is just making or destroying; a
frame may be counted in `numReaders` or hold `csWrite`.

- `ReadersCounted`: `numReaders` is the number of counted frames of all threads.
- `WriteOwned`: `csWrite.count` is the number of frames of its owner that hold it,
  and no other thread has one.
- `CountOwned`: `csReadCount` belongs to the thread inside the counting section.
- `EventTracks`: what the event says, also between counting and signalling.
- `WriterAlone`: a thread with a writer guard leaves no counted frame to others.

The argument: a writer passes its wait only when the event is set, so
`numReaders` is 0 (`WaitEnds`: while it waits, it owns `csWrite`, so nobody is
between the increment and the reset), so nobody has a counted frame
(`NoReaders`); nobody else has a writing one (`OwnsWrite`); so nobody else holds
a guard (`NoFramesNoGuards`). New readers need `csWrite`. The counting itself is
`ReadFramesStep` and `WriteFramesStep`, what each action does to the frames of
its thread, with the cardinality facts of the library. `StepImplements` maps
`StartReaderReturn`, `StartWriterReturn`, `EndReader` and `EndWriter` to the
abstract grants and releases and every other step to a stutter.
`NobodyElseIsStuck` goes from thread to thread. Whoever owns `csReadCount` goes on, so
nobody waits for it; whoever waits for `csWrite` waits for its owner, so if nobody goes
on that one waits for the event (`WriterWaits`); then somebody has a counted frame,
and, being blocked too, asks for a guard inside its reader guard.

### MsgTunnel

`ChannelProofs` proves of `MsgTunnel`, for any number of sessions and requests,
from `MsgAssumption` alone (both bounds are natural numbers):

| Theorem | |
|---|---|
| `Invariant` | `Spec => []IInv` |
| `TypeCorrect` | `Spec => []TypeOK` |
| `NoKeyTwice` | `Spec => []KeyUsedOnce` |
| `OwnAnswer` | `Spec => []AnswerIsForRequest` |

Neither property is inductive. For the first, the next key must be new: the
session at hand has sealed with smaller numbers than its next (`NumbersGoUp`), and
a new session has a number that nothing was sealed with, whatever the processor
kept through `Logout`. For the second, an answer must be tied to the call that
waits: that call's key is in `used` with its request (`WaitsWithKey`), everything
under way is in `used` too, and unless an answer was left unread there is nothing
under way but what belongs to the call (`UnderWay`). So a sealed answer that opens
with the call's key was sealed by one request only (`KeyUsedOnce`), and it is the
call's; an answer without a body is the call's unless one was left unread. The
proof takes the conjuncts of `IInv` one after the other, each with one step per
action (`NextTypeOK`, `NextNumbers`, `NextWaits`, `NextUnderWay`, `NextAnswer`);
`FreshSession`, `Sent`, `EmptySocket` and `OpensItsOwn` are what the actions have in
common.

### HttpReceive

`ChannelProofs` proves of `HttpReceive`, for any set of scripts, of any length and with
bodies of any size, any set of malformed answers, any size of a read and any number of
requests, from `ReceiveAssumption`:

| Theorem | |
|---|---|
| `HttpInvariant` | `HttpSpec => []HttpIInv` |
| `ExactAnswer` | `HttpSpec => []AnswerIsExact` |
| `NothingLeft` | `HttpSpec => []NothingLeftOver` |

Both properties speak of the end of a `Receive` on a clean connection; the invariant
says where it is in between. On a connection that is not clean it says no more than
that the parser makes a response of whatever comes. On a clean one, the answer as a stream is known token by token (`EncodedAllIs`, `IsStream`):
message `j` has the tokens `2j - 1` and `2j`, and what comes after the header of the
last one is its body. While `Receive` reads, the response is the `k`-th message of
the answer for some `k`, and what it has as data, followed by what is on the socket,
is a stretch of that stream that begins after `2k - 2`, `2k - 1` or `2k` tokens as
its state is in the request line, in the header or in the data (`Progress`, `At`). A
server that goes away cuts the stretch short (`AtCut`), a read moves its middle
(`AtMore`), a parse its beginning (`AtNext`). So when the parser is done (`Took`) it
has come to the end of a 100, and the next message begins there, or to the end of
the stream, and then nothing is left (`AtEnd`) and the data is the body (`WholeBody`).
That the stream is what `FlattenSeq` makes of the messages is an induction: its
recursion has one solution (`FlattenGrows`), of which each piece is a message longer
than the one before (`AddMessage`). The library's induction theorems, which are about an
operator, are of no use here; `Induction` is one about a set, from `LeastNumber`, which
comes from the well-founded order of finite sets.

### ChangeMonitor

`ChangeMonitorProofs` proves of `ChangeMonitor`, from `ChangeMonitorAssumption` (both
bounds are natural numbers):

| Theorem | |
|---|---|
| `Invariant` | `Spec => []IInv` |
| `NullIsNeverScanned` | `Spec => []NoNullScan` |
| `ClosesWithoutMonitor` | `Spec => []CloseWithoutMonitor` |
| `NothingIsLeftOver` | `Spec => []NothingOutlives` |
| `WalksAreSafe` | `Spec => []OnlyUnregisterLosesAWalk` |

The four properties are consequences of how three lives are nested (`Nested`: the
thread lives inside the monitor, the monitor inside the locator) and of what is due
in the stack of termination functions (`ShutdownIsDue`: as long as there is a
monitor, its shutdown is in the stack, above every function that closes the
system). The second is what makes it safe that another termination function calls
`GetChangeMonitor`: the monitor is made anew with a new shutdown on top. `WalksAreRun`
says which places in the code stand on an entry of a list.

### KeyVEILConnector

`KeyVEILConnectorProofs` proves of `KeyVEILConnector`, from `ConnectorAssumption`
(`NoThread` and `NoChannel` are neither, the lists have sizes, there is a scheme):

| Theorem | |
|---|---|
| `Invariant` | `Spec => []IInv` |
| `OnlyFavoritesMayDeadlock` | `Spec => []OnlyFavoritesDeadlock` |
| `AnswersComeInOrder` | `Spec => []NeverOlder` |
| `NothingIsLeft` | `Spec => []NothingLeft` |
| `TokensAreOfThisConnection` | for one thread, `Spec => []TokensOfThisConnection` |
| `OnlyTwoPlacesDie` | for one thread, `Spec => []TwoPlacesToDie` |

`Held` says how often a thread holds a lock at its place in the code, return
addresses included, and `LocksAgree` that the recursive mutexes say the same.
From it: a deadlock is two threads, each at a place that waits and each holding what
the other waits for, and all methods take their locks in the order channel, tokens,
favorites, but for `favoriteCount`, which asks for `_channelLock` last. `Emptied` and `InOrder` tie what threads have in hand
between a question and its merge to the lists: an answer about tokens is fetched and
merged under `_channelLock`, one about favorites under `_channelLock` or, in
`favoriteCount`, under `_favoriteListLock` alone, so that of two answers in hand the
one merged last is the newer. The last two theorems are about a connector that one
thread uses (`Threads = {t}`), as the run `connector_alone` is: with two threads they
are false, which is why no run claims them. They need `AloneInv`: what the thread
read before it had a lock is still so.

### PluginManager

`PluginManagerProofs` proves of `PluginManager`, for any threads, libraries, numbers
of modules and depths of calls, from `PluginAssumption` (the bounds are natural
numbers, `Nested` are paths and `Loads` pairs of a locator and a flag):

| Theorem | |
|---|---|
| `Invariant` | `Spec => []IInv` |
| `NamesAreOfWorkingModules` | `Spec => []RegisteredWorks` |
| `TerminatedFirst` | `Spec => []TerminatedBeforeDropped` |
| `TerminatedAtMostOnce` | `Spec => []TerminatedOnce` |
| `EverythingIsDown` | `Spec => []NothingLeftUp` |
| `OnlyTerminateBlocksForGood` | `Spec => []StuckOnlyInTerminate` |

The invariant is about stacks of calls. `Stacked` says which call may stand on which:
whatever has a call above it is inside a module or in `TerminateVEILSystem`, and
terminations are at the bottom. `LoadsOK` says that a module being loaded has no
name yet and one load only; `LocksOK` that one thread loads at a time, and nobody
under a reader; `AllOK` how far the first loop of `TerminateAllPlugins` has come;
`CleanupsOK` that a cleanup runs once. On these rest the three about terminations:
`OneTerminator` (two threads terminate at a time only if `overlapped` says so),
`TerminatedOK` (a module that is terminated and still connected has nothing left
that would terminate it again) and `CleanupIsDue` (what is up has a cleanup to
come). What goes with its last reference needs two more: `CleanDone` (a cleanup has
terminated its module before it deletes the name) and `NobodyLost` (a module that is up
is referenced, or was dropped in one of the ways the property names). For the last theorem (`NothingIsStuck`), suppose that no call can go on and no
`Terminate` asks for a guard. Whoever is inside a module waits in a call made from
there. Inside a termination that call can only be a load that waits for the thread in
its module, which in turn would be a second writer; so only loads are inside modules.
A load is the one writer, and no reader is there with it, so its call waits for
nothing. So nobody is inside a module, and then neither a reader nor a writer waits.

### ServiceLocator

`ServiceLocatorProofs` proves of `ServiceLocator`, from `ServiceLocatorAssumption` (there
is a locator and a name, and the objects are finitely many, so that a chain of them
ends; the rest says which values are different) and, for the last theorem,
`ShorterAssumption` (the shorter forms of a name come to an end: `TryCreate` cuts the
last part off each time):

| Theorem | |
|---|---|
| `Invariant` | `Spec => []IInv` |
| `ContainersAreCurrent` | `Spec => []ContainerCurrent` |
| `Refinement` | `Spec => Implements`, the stacks of `ObjectStacks` |
| `RegistrationsStand` | `Spec => SingletonsStay` |
| `RacersOnly` | `Spec => OnlyRacersGetTheirOwn` |
| `DeletedNamesStayDeleted` | `Spec => DeletedStaysDeleted` |
| `QuietAnswers` | `Spec => QuietCallsAnswer` |

`Represents(s)` is the shape the pointers have: `s` gives each name a stack of objects,
the pointers lead through it both ways, no object is in two places, and none of them is
still in the hands of a call. `IInv` says it of `Stacks`, the refinement mapping. An
addition, a deletion and a registration each lead to stacks that differ at the top of
one name (`StackStep`), which is the abstract step. That `Stacks`, which follows the
pointers, returns the stacks that are there (`StacksRead`) needs two facts about a
recursive function: that its recursion has a solution (`BelowIs`, by induction over
the natural numbers, for which `SetInduction` is a form about a set rather than about
an operator, from the library's well-founded minimum), and that a stack is no longer
than there are objects (`Height`, by counting). The three action
properties before the last follow from `CallsOK`: what a call found in its first
section is still so in its second, or `erased` or `raced` says that it is not.
`QuietAnswers` compares the loop of `TryCreate`, which runs over several steps with
other threads between them, with `Found`, which recurs down the shorter forms of the
name in one state. `FoundInIs` is the equation of that recursion: it has a solution
because partial solutions exist for every name and agree (`PartialExists`,
`PartialsAgree`), both by `ShorterInduction`, which is `ShorterAssumption` read as an
induction over a set of names. The invariant is `QuietOK`: while nothing changed the
locator, `Found` gives the same for the name the call tries now as for the full one,
and what the call read there is still so.

### FileOperations

`FileOperationsProofs` proves of `FileOperations`, for any finite sets of commands and
documents, any size, any command lines and any number of crashes, from
`FileAssumption`:

| Theorem | |
|---|---|
| `Invariant` | `Spec => []IInv` |
| `FilesAreNeverHalf` | `Spec => []NeverHalf` |
| `SuccessMeansWhole` | `Spec => []SuccessIsWhole` |
| `LastCopiesStay` | `Spec => OnlyTheseLoseADocument` |

A command is `Alone` when no other has met it on its output. The invariant says
that such a command owns its temporary name: the temporary file, while it is open, is a
`Draft` of as many blocks as are done, then what the call makes of its input
(`Made`), and after the rename the output is that (`OutputOK`, step by step of the
call), while the input stays what it was (`InputOK`). `MeetingsSpoil` and `NamesOK`
are what makes a step of one command harmless to another: it touches its temporary
file, its output and its open inode, and whoever shares one of them is spoiled.
`NewInode` returns a free inode because there are more of them than names and open
files (`FreeInode`, by counting). For `LastCopiesStay` each step that changes a file is
looked at: what it does not touch keeps its copies, and a copy that it takes away
is an output replaced or a temporary file deleted, which is one of the exceptions, or
the document is in the file put in its place.

### TlsClient

`TlsClientProofs` proves of `TlsClient`, for any set of servers, any numbers of logins
and of renegotiations and records of any size, from `TlsAssumption` (the servers are
records of the right kind, and only one that needs a certificate can have a fault in
it; the bounds are natural numbers):

| Theorem | |
|---|---|
| `Invariant` | `Spec => []IInv` |
| `TransportIsRight` | `Spec => []TransportAgrees` |
| `ActiveMeansAgreed` | `Spec => []Agreement` |

`ClientOK` is the tunnel by itself: each handler keeps the processor's transport state
in agreement with `state` (`Agrees`), and between two records the tunnel is in one of
nine of its states (`States`). `TransportAgrees` follows.

`Agreement` needs what is under way. A tunnel is `Engaged` when it is in a handshake or
a session with the server of this connection, and then `Settled` says what it knows of
the server's plan (a suite once the server hello has come, keys and, if the suite
wants one, a certificate once it has sent its own Finished) and `InStep` ties
the two ends together: a ClientHello under way is the last one and the only one, and
nothing answers it yet (`HellosOK`); an answer under way is the only one (`AnswersOK`);
a Finished under the keys of the server's last handshake holds what the server has
hashed (`FinishedOK`); and an active tunnel has the transcript of a server that is
done (`ActiveOK`). Why does a server hello always find a tunnel that waits for it?
Because of `FirstOK`: as long as one may come that a tunnel without keys can read,
the tunnel waits for it and nothing comes before it. A tunnel that has failed cannot be
brought back by a server hello that was already under way, for none is. `StaleOK` is
the tunnel whose socket was replaced: the new server has seen no ClientHello, so all
it can say is an alert without a key, and all that it hears has one.

The proof has three layers. Each handler is looked at once (`MessageHandled`): what it
leaves alone, what it sends (`More`), and what it asks of the message. Then the same
step is looked at with the wires (`HandledGood`), and the messages of one record
are taken one by one: `Handled` is a recursive function, that its recursion has a
solution is `HandledIs` (by well-founded induction, with the library's minimum), and
`RecordsGood` carries the invariant from part to part. Last come the actions. Those of
the server either start a handshake (`GreetsGood`), end one (`FinishesGood`) or keep
keys and transcript (`QuietMoves`).

### Model-checked only

All liveness (`LoginReturns`, `CallsReturn`, `WriterGetsIn` and the like: fairness and
`ENABLED` are out of the prover's reach). Every other property of a passing run is stated by a
theorem.

## 5. Findings

- `files_open` (a run that TLC refutes): `EncryptSignFile` means to report an input
  that cannot be opened (`VEILFileSupport/FileOperations.cpp:938`), but
  `CreateFileReader` always makes an object, so the branch is never taken. The input
  is encrypted as an empty file, which replaces the old output, and the call
  returns success.

Behaviours the models contain, and the properties except by name:

- the deadlock of `favoriteCount`, the null pointers in `refresh` and in the accessors
  of the last response, and the race between an index and its list
  (`KeyVEILConnector`);
- `tokenCount` does not load the tokens, although `KeyVEILConnector.cpp:811` says so;
- after a 100, `Receive` reads before it parses what it has (`HttpHeader.cpp:147`,
  against `HttpChannel.cpp:859`): with the whole answer at hand it waits for more;
- the error set for "really bad data" (`HttpHeader.cpp:274`) is not reported:
  the call succeeds, and what was not read stays on the open socket (`HttpReceive`);
- a plug-in loaded by a path with a slash and without a cleanup is dropped by
  `TerminateAllPlugins` without its `Terminate`, and one whose name is taken has no name
  at all (`PluginManager`);
- a class deleted while its object is being built comes back as that object
  (`ServiceLocator`, `erased`);
- `GetChangeMonitor` does not start the monitor's thread, against
  `include/core/ChangeTracker.h:195`;
- a server that closes in a handshake leaves the login loops polling
  (`TcpChannel.cpp:204`, `HttpChannel.cpp:766`);
- after an extension it does not know, `handleServerHello` stops the tunnel and goes
  on (`TLSClientHandshakeProtocol.cpp:456`); a later check refuses the handshake;
- `encrypt` keeps the name of its first output for the files that follow it
  (`fileencrypt.cpp:469`), so each replaces the one before; `--overwrite` is parsed
  and not used.

## 6. Not modelled, and what is left

Not modelled for good: the values of cryptographic algorithms (an external
library), encodings and parsers without control (JSON, TLV, XML, ASN.1: the
unit tests reach them better), generated code, the dialogs of two GUI libraries,
the reading of command lines. These are most of the source: the map covers the
code whose control is worth checking, not a share of the lines, and a share of
a third of them would have to take in dialogs and parsers.

Left out of the components that are modelled in part:

1. Service locators: paths into child locators, `CopyClassDef`, `CopyClass`,
   `clear`, `CleanEmptyCollections` and the visitors, with the order of the locks
   of two locators.
2. Plug-ins: `LoadModulesOfType` and its variants (loops over `LoadModule`), the
   visitors, a `TerminateAllPlugins` inside a module's code.
3. Tunnel: client certificates, resumption, PSK suites, the record layer, a
   handshake without its `ServerKeyExchange`.
4. Connector: the callbacks for changes, the search by name or id, the lists of one
   enterprise.
5. Files: named streams and FIFO streams, detached headers, `secureDelete` as a
   command of its own.

Not begun: `pevents` (waits for several events), `tsSignal`, `KeyVEILSession` (a
retry counter that the server keeps), the framing of WebSocket and of
`JsonChannel` (which nothing in the repository uses).
