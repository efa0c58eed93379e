# protorpc in TLA+

A model of protorpc.cxx: first of all its RPC layer (`src/src/google/protobuf/rpc`:
client, wire format, connections, server, and the Env that runs its connections),
then the parts of the vendored Protocol Buffers 2.5.0 whose state is hardest to keep
right: the streams that parsers read from, the pool of descriptors, and what protoc
does with its generators, its plugins and its output. TLC checks small instances;
what matters most is proved with TLAPS for instances of any size. The rest of the
repository (generated code, reflection, the parser and the language generators,
snappy, TinyXML) is not modelled.

File names below are relative to `src/src/google/protobuf/`.

## The system

| component | state | operations | talks to |
|---|---|---|---|
| Wire format (`rpc/rpc_wire.cc`, `rpc/wire.pb/wire.proto`) | none | Send/Recv of RequestHeader, request body, ResponseHeader, response body; header size limit, checksum | connections |
| Client (`rpc/rpc_client.cc`) | `conn_`, `seq_`, and the locals of the call under way | CallMethod, Close, destructor | connections |
| Server connection (`rpc/rpc_server_conn.cc`) | `conn_`, the locals of ProcessOneCall | Serve, ServeProc, ProcessOneCall, destructor | connections, services, Env |
| Server accept loop (`rpc/rpc_server.cc`) | the listening `conn_` | BindAndServe | connections, Env |
| Method registry and names (`rpc/rpc_server.cc`, `rpc/rpc_service.cc`) | three maps | AddService, FindService, FindMethodDescriptor, CamelCase | - |
| Connections (`rpc/rpc_conn.cc`, `rpc/rpc_conn_posix.cc`) | `sock_`; the two streams of TCP | DialTCP, ListenTCP, Accept, Close, SendFrame, RecvFrame | TCP |
| Default Env, POSIX (`rpc/rpc_env_posix.cc`) | `mu_`, `bgsignal_`, `started_bgthread_`, `queue_` | Schedule, BGThread, StartThread | threads |
| Env::Default (`rpc/rpc_env_posix.cc`, `stubs/once.cc`) | `g_env_default`, its once object | Default | threads |
| Coded and zero-copy input streams (`io/coded_stream.cc`, `io/zero_copy_stream_impl*.cc`) | buffer and position, the limits, what was shown last and may go back | Read..., Skip, PushLimit, PopLimit, SetTotalBytesLimit; Next, BackUp, Skip, ByteCount | parsers, files |
| Descriptor pool (`descriptor.cc`) | `Tables`: files, symbols, extensions, checkpoints, pending and known bad files | Find..., TryFind...InFallbackDatabase, BuildFile | a database, users of descriptors |
| Compiler plugins (`compiler/subprocess.cc`, `plugin.cc`) | two pipes, the child | Start, Communicate; PluginMain | protoc, the plugin's process |
| Output of protoc (`compiler/command_line_interface.cc`) | `files_` and `had_error_` of each location, the streams open | Run from the parsed files on, Open, OpenForInsert, WriteAllToDisk, WriteAllToZip | generators, plugins, the disk |

How they interact. A `Client` belongs to one thread. `CallMethod` dials if there
is no connection, writes two frames and reads two, and keeps the connection
whatever happened; only `Close` and the destructor give it up. The server's
thread accepts connections and schedules each as a job of the Env; the job
repeats `ProcessOneCall` until an error and then closes the connection. A frame
does not say whether it is a header or a body: the reader parses what it expects
next.

What is hard, and what makes each part correct:

- A call that fails half way (a header without its body, a request whose answer
  is not read) leaves the connection out of step, and the next call uses it.
  Correct is: no caller takes another call's answer for its own, nothing runs
  that was not asked for, nothing runs twice or out of order.
- `ProcessOneCall` answers an unknown method without reading the request's
  body, and ignores whether that answer could be sent. The body is then read as
  a header, and parsing may well succeed.
- Headers have a maximum length, tested by the sender: an error text or a method
  name too long for it makes the answer, not the call, fail.
- No read has a timeout: a call returns only because the other side answers or
  closes.
- PosixEnv has one background thread, so one connection is served at a time:
  whoever keeps its connection open keeps everybody else waiting.
- `Schedule` signals before it pushes the item, and only if the queue is empty.
- Several threads may race for the first `Env::Default`.
- The size of a frame is a varint of up to 64 bits, cut to 32 and to an int on its way to
  `recv`; `send` and `recv` move as much as they like and may fail inside a frame.
- A stream hands its bytes out in pieces of its own choice, and its reader must give
  back what it did not use, hidden behind a limit or beyond INT_MAX as it may be.
- The pool builds a file while it looks something up, with all that the file imports,
  and whatever it looks up to link it: files within files, each with a checkpoint. One
  that has errors must leave nothing behind, in tables that others have used since.
- Insertions into generated files happen when a stream is destroyed; generators fail
  after others have written; nothing may reach the disk of a run that failed.
- protoc and a plugin write to each other through pipes that hold less than either
  has to say.

`PROJECT.json` lists these hazards at their lines, the ones no property covers
yet included.

## Modules

| module | models | notes |
|---|---|---|
| `Wire` | `rpc_wire.cc`, `wire.proto` | what a frame means when read in each role |
| `Transport` | `rpc_conn*.cc` and the TCP under it | two streams per connection, backlog, aborts, when a read or write may fail |
| `RpcClient` | `rpc_client.cc` | one action per frame operation of `callMethod` |
| `ServerConn` | `rpc_server_conn.cc`, `BindAndServe` | one action per frame operation of `ProcessOneCall`; the Env by its promise |
| `RpcSystem` | all of these together | the properties, the fairness, the refinement mapping |
| `CallContract` | abstract specification | calls without connections, frames or a server loop |
| `RpcInvariant` | - | the inductive invariants of `RpcSystem`, `IInv` and `FInv` |
| `MCRpcSystem` | - | a small service for TLC |
| `RpcStepProofs`, `RpcProofs` | - | the proofs about `RpcSystem` |
| `PosixEnv` | `Schedule` and `BGThread` | every step between two operations on `mu_` or `bgsignal_` |
| `WorkQueue` | abstract specification | what a caller of `Schedule` relies on |
| `EnvDefault` | `Env::Default`, `GoogleOnceInit` | every access to the once object |
| `EnvSystem` | both together | threads get the Env before they schedule on it |
| `EnvProofs` | - | the proofs about these three |
| `Naming` | `CamelCase` | a name is a sequence of characters here, and only here |
| `ServerRegistry` | `AddService`, the lookups, `~Server` | FATAL on a taken name throws before any change, so it is no step |
| `MCServerRegistry`, `ServerRegistryProofs` | - | |
| `Uvarint` | the sizes of `rpc_conn.cc` | a number is the set of its bits, with the widths of the code |
| `ConnFrames` | `SendFrame`, `RecvFrame`, `Read`, `Write` | byte by byte, with calls that fail half way |
| `FrameChannel` | abstract specification | what the RPC layer relies on: frames, whole and in order |
| `MCConnFrames`, `ConnFramesProofs` | - | |
| `MCPosix` | - | connections and Env in one run, one or the other in a behaviour |
| `CodedInput` | `CodedInputStream` | a step for every round of a loop that gets new bytes |
| `InputStreams` | array, file, limiting and concatenating streams | one inside the other |
| `ByteSource` | abstract specification | what `zero_copy_stream.h` says of every input stream |
| `MCStreams` | - | reader and streams, one or the other in a behaviour |
| `StreamsProofs` | - | the proofs about both |
| `DescriptorPool` | lookups, `BuildFile`, checkpoints and `LookupSymbol` of `descriptor.cc` | every look into the database is a step, and may build files |
| `PoolInvariant`, `PoolProofs` | - | its inductive invariants, and the proofs |
| `MCPool`, `MCNames` | - | databases; registry and pool in one run, one or the other in a behaviour |
| `PluginPipe` | `Subprocess` on POSIX, the child | descriptors are numbers, the pipes' bytes are counted |
| `Protoc` | `Run` with `--*_out` | a file is a sequence of lines, known by the stream that wrote them |
| `MCProtoc`, `ProtocProofs` | - | both modules |

Correspondence with the code:

- `pc[c]` is the frame operation the client's thread is in (`sendHeader`,
  `sendBody`, `recvHeader`, `recvBody`); `sock[c]` is `conn_.sock_`, `seq[c]` is
  `seq_`. `call[c]` holds CallMethod's arguments and the id taken, `respHeader[c]`
  is the local of that name, `outcome[c]` the value returned.
- `phase[k]`, `reqHeader[k]`, `request[k]`, `response[k]` are the same for the
  ServeProc of connection `k`; `queue` is the Env's queue.
- `issued`, `ran` and `dropped` are history variables: no action reads them.
- A write on a connection whose peer has closed may succeed, be lost or fail; a
  read fails once the stream is drained; closing with unread data may abort the
  connection. `ClientInterrupted` and `ServerInterrupted` are system calls that
  fail on a connection that is intact, which `Conn::Read` and `Conn::Write` do
  not tell from its end.
- Names, payloads and error texts are values; what depends on their bytes
  (lengths, whether a payload parses as a header, or as the message of a method)
  is in constant tables. HashCRC32 is taken to be free of collisions on the
  payloads at hand, and compression to be undone by decompression: the checksum
  of a body is the body. A header's bytes have a checksum no frame carries.
- In `CodedInput`, `b.buffer` and `b.end` are `buffer_` and `buffer_end_` as offsets in
  the input, `b.read`, `b.overflow` and `b.after` are `total_bytes_read_`,
  `overflow_bytes_` and `buffer_size_after_limit_`; `b.given` is the ByteCount of the
  stream below. That stream gives pieces of any size, which is all that
  `ByteSource` promises, and `InputStreams` implements `ByteSource`.
- In `DescriptorPool`, `builders` is the stack of `DescriptorBuilder`s: the code's
  recursion through `TryFind...InFallbackDatabase`. The three `..._after_checkpoint_`
  vectors are one sequence here. A `FileDescriptor` is a number; `allocations_` are
  those not freed. A name is resolved scope by scope: `Use` holds the names that
  `LookupSymbolNoPlaceholder` forms, so that no name is taken apart in the model.
- In `Protoc`, `streams` are the `MemoryOutputStream`s ever made and `closed` those
  destroyed; a slot of `files_` is absent, NULL or a file.
- In `PluginPipe`, `parentFd` and `childFd` are the descriptor tables; `cut` notes that a
  signal ended a read or write, which the code takes for the end of the pipe.
- `once`, `g_env_default`, `mu`, `started` and `queue` are the variables of the
  code; `created` counts the PosixEnvs constructed.

## Runs

| run | module, cfg | what it asks |
|---|---|---|
| `calls` | MCRpcSystem, RpcCalls | `AnswerIsOwn`, `NoPhantomCall`, `ExecutedInOrder`, `NotFoundExplained`; `RpcSystem` implements `CallContract` |
| `live_pool` | MCRpcSystem, RpcPool | calls return and connections are reclaimed, with a worker per connection |
| `live_single` | MCRpcSystem, RpcSingle | calls return with PosixEnv's one thread, if no client rests for good on an open connection |
| `posix` | MCPosix, Posix | one Env for all, mutex discipline, no lost wakeup; it implements `WorkQueue`, every item is run if those before it return, nobody spins for good; sizes come back as they were sent, and frames through `send`s and `recv`s of any size: `ConnFrames` implements `FrameChannel` |
| `names` | MCNames, Names | CamelCase leaves what it made as it is; a request reaches the service it names, with a method of that service; the pool holds whole files, linked as they are written |
| `streams` | MCStreams, Streams | the reader keeps to its position and its limits, the streams implement `ByteSource` and lose nothing |
| `protoc` | MCProtoc, Protoc | failures touch nothing, success is written, insertions are in place; `Communicate` returns, with all of a plugin's output or an error |
| `frames_in_role` | MCRpcSystem, RpcFrames | violated: after an unknown method the server reads a body as a header |
| `array_total` | MCStreams, CodedArray | violated: an array longer than the total limit |
| `extension_lost` | MCPool, Extensions | violated: one extension number in two files |
| `plugin_standoff` | PluginPipe, PluginStandoff | violated: a plugin that writes before it has read stops both processes |
| `doc_name` | MCServerRegistry, DocName | violated: the example that explains CamelCase |

Properties in short. `AnswerIsOwn`: a success or a service's error comes from the
execution of this very call. `NoPhantomCall`: what runs on a connection was begun
on it, with that method and those arguments. `ExecutedInOrder`: at most once
each, in order. `NotFoundExplained`: "Can't find ServiceMethod" for a registered
method is seen only on a connection that was used for an unregistered one.
`CallReturns`, `CallReturnsInTurn`: the call comes back; the exception, written
into the properties by `dropped`, is a connection on which the answer to an unknown
method could not be sent and both sides wait. `ServerReclaims`: a
connection its client has closed is closed by the server too.

`RoundTrip`, `AcceptedIsDefined`: a size of 64 bits comes back as it was written, and none
is accepted that was computed with an undefined shift. `WholeIfItFits`: what `RecvFrame`
returns is filled with what was read, unless it has 2^31 bytes and more; and the frame
that was sent comes back, bytes and length, exactly if its size fits in an int. One that
does not is lost or cut without a word, by both ends alike, so that the next is not harmed.
`CamelTwice`: what the client has put through CamelCase the server puts through it once
more, and finds unchanged.
`ImplementsChannel`: until a call fails inside a frame, frames come whole and in
order; `BytesInOrder` holds even then. `PositionTrue`, `LimitsHold`, `ReadsExact`: the
position limits are counted from is the true one and is left behind for the next
reader, no byte behind any limit is read, a read fails for want of bytes only.
`NothingMissed`, `LimiterGivesBack`, `BackUpGranted`: no stream inside another loses
bytes, and none is asked to take back more than it has shown. `NothingDangles`: between
lookups all that is in the pool's tables belongs to files built without an error,
and all they import and name is there too. `LinksAsWritten`: a name is linked to what it
means by the text of the file and its imports, whatever was looked up before or was
drawn in while it was sought. `RefusedForAFault`: a file is refused for a fault in it or
its imports; the exception, `strayed`, is a file that was tried while imports of another
were pending, see the observations. `LookupsEnd`: circles of imports and wrong answers of
the database do not keep a lookup going. `FailureTouchesNothing`, `SuccessIsWritten`,
`InsertedInPlace`: a generator that fails leaves the disk as it was; 0 is returned only
if all that was generated is written, each line once; what is inserted stands above its
point, in the order of insertion. `SuccessIsWhole`, `PluginHasPipes`,
`CommunicateReturns`: protoc takes no part of a plugin's output for all of it, the
plugin holds its two pipes and no other end of them, and a plugin that reads before
it writes is never waited for in vain.

### Bounds

- `Conns`: two. Connections share nothing but backlog, queue and worker; what one
  connection does to another is that it stands before it in these. A connection
  is an identity that is dialled once; reconnecting takes another one, so two
  also allow for a client that closes and dials again.
- `MaxCalls`: three in `calls`. The failures need a call that is cut off, one that
  meets what it left behind, and one that comes after; with two the third is
  missing.
- `MaxFaults`: one interruption, network failure or failed accept per behaviour,
  at any point. Everything a second fault can do to a stream that is out of step
  is covered by the proofs, which have no bound on any of these.
- Bodies and replies: one that is answered with success, one with an error, one
  with an error too long for a header; one whose bytes parse as a header of a
  registered name (`MCBodyAsCall`), one as a header of an unregistered name.
- `MaxHeaderLen = 10` with names and texts that fit in the request header and the
  answer, in the request header only, and in neither; 10 itself occurs.
- `PosixEnv`: two threads and the items themselves, two calls of Schedule each, so
  that the queue runs empty between items and a signal may come at every point of
  the background thread's loop. `EnvDefault`: two threads that call once each, so that
  one runs the closure while the other spins, or comes late.
- `Naming`: every name of up to six characters over two lower case letters, a
  capital, underscore, dot and digit. What CamelCase appends for a position depends
  on its neighbours and on being first, so longer names only repeat these
  surroundings. `ServerRegistry`: six objects, of which two pairs compete for a
  name, with and without ownership.
- `Uvarint`: numbers with bits at the positions in `Borders` (0, the ends of the first
  two groups of seven, 30 to 32, 62, 63) in all combinations, and byte strings grown up
  to more bytes than a varint may have. `ConnFrames`: frames of 5, 0, 9 and 2 bytes, over a connection that
  holds three bytes. With `IntMax = 3` the first is negative as an int, the third more than
  32 bits hold and cut to one byte; `MaxSize` bounds what a byte out of step is read as.
- `CodedInput`: inputs of up to seven bytes with `IntMax = 5` and a default total of 4,
  so that both are met inside the input; varints of one byte, of two, and overlong ones
  with `kMaxVarintBytes = 2`; two limits nested. `MaxFlat` is held to the default total in
  `streams`, and one longer in `array_total`. `InputStreams`: a file of five bytes, one of
  which was read before, with limits inside, at and beyond its end, and blocks that
  divide neither.
- `DescriptorPool`: databases of four files, 192 combinations of what each may say, with an
  index that knows nothing, the first or the last declaring file; one in which an index
  leads back to a file under way; a package of several files. Two lookups: one that
  leaves something behind, one that meets it. `MaxDepth` is not
  reached.
- `Protoc`: three directives, of which two share a directory, three streams, so that
  one can insert into what another has inserted. `PluginPipe`: five bytes of request and
  four of response through pipes of two, with descriptor 2 closed at the start, so that
  the pipes do not come to lie where they lie as a rule.

In `posix`, `names`, `protoc` and `streams` a behaviour is about one of two parts, chosen in its
first state (`subject`); the other part rests. What joins the parts in the code is
what the modules assume of each other, as said in `MCPosix`, `MCNames`,
`MCProtoc` and `MCStreams`.

`CHECK_DEADLOCK FALSE` stands where the system may stop: both sides waiting after a
dropped answer (`calls`, `live_pool`, `live_single`), threads with no call left,
frames that are all sent or ends that wait after a failure (`posix`), a server or a
stream that was destroyed (`names`, `doc_name`, `streams`), a run of protoc that is over or a plugin
that does not read (`protoc`). `Terminated` in `RpcSystem` is the server back in
`accept()`. Connections are interchangeable, and treated so, in `calls`, which has no
liveness property.

### Fairness

A thread that can take a step does so in the end (weak fairness): the steps of a
call begun, of the accept loop, of the Env's start of a job and of a job under
way. That is what an operating system gives its threads, and nothing more: no
client has to make a call or give a connection up, no interruption has to happen.
In `PosixEnv`, weak fairness of a caller includes getting `mu_` once it is free for
good; calls are bounded there, so nothing is said of a thread that others keep
from the mutex for ever. `ItemsRun` assumes that items return,
`CallReturnsInTurn` that clients do not rest for good on an open connection; both
assumptions are the properties' premises, and without them they are false of
this code.

`FramesArrive` assumes that a `send` or `recv` that can go on does, `CommunicateReturns` that
both processes run and that the plugin reads before it writes (its premise;
`plugin_standoff` shows it without), not that a signal ends a `write` or `read` that waits
(`Uninterrupted`), `DefaultReturns` that a thread that may leave the
spin is scheduled. A lookup in the pool is the work of one thread that holds the
pool's mutex: it goes on by weak fairness, and nobody is obliged to look anything up.

## What TLAPS proves

| theorem | module | says |
|---|---|---|
| `Invariance`, `TypeCorrect` | RpcProofs | `Spec => []IInv`, `Spec => []TypeOK` |
| `AnswersAreOwn` | RpcProofs | `Spec => []AnswerIsOwn` |
| `NoPhantoms` | RpcProofs | `Spec => []NoPhantomCall` |
| `InOrderOnce` | RpcProofs | `Spec => []ExecutedInOrder` |
| `NotFoundsExplained`, `NotFoundInvariance` | RpcProofs | `Spec => []NotFoundExplained`, `Spec => []FInv` |
| `Implementation` | RpcProofs | `Spec => ImplementsContract` |
| `BytesKeepOrder`, `OrderInvariance` | ConnFramesProofs | `FramesSpec => []BytesInOrder`, `FramesSpec => []OrderInv` |
| `SizesComeBack`, `AcceptedAsTheySay` | ConnFramesProofs | of every size of 64 bits, of every string of bytes |
| `SizesRoundTrip`, `AcceptedSizes` | ConnFramesProofs | `MCSpec => []RoundTrip`, `[]AcceptedIsDefined` |
| `FramesWholeIfTheyFit` | ConnFramesProofs | `FramesSpec => []WholeIfItFits` |
| `GrownInvariance` | ConnFramesProofs | `MCSpec => []Grown` |
| `ConnectionIsChannel`, `ConnInvariance` | ConnFramesProofs | `FramesSpec => ImplementsChannel`, `FramesSpec => []ConnInv` |
| `NeverSleepsOnItem`, `MutualExclusion` | EnvProofs | `Spec => []NoLostWakeup`, `Spec => []MutexGuards` |
| `EnvKeepsOrder` | EnvProofs | `Spec => ImplementsWorkQueue` |
| `EnvInvariance`, `EnvTypeCorrect` | EnvProofs | `Spec => []IInv`, `Spec => []TypeOK` |
| `OneEnvForAll`, `EnvIsKept`, `OnceInvariance` | EnvProofs | `OnceSpec => []OneEnv`, `OnceSpec => NeverReplaced`, `OnceSpec => []OnceIInv` |
| `SystemIsBoth`, `SystemSafe` | EnvProofs | `SystemSpec => Spec /\ OnceSpec`, and all of these of `EnvSystem` |
| `NeverMisdispatched`, `OwnershipKept` | ServerRegistryProofs | `Spec => []DispatchOwn`, `Spec => []DeletesItsOwn` |
| `CallsAlwaysArrive` | ServerRegistryProofs | `Spec => []CallsArrive` |
| `CamelEverywhere`, `NamesAlwaysFit` | ServerRegistryProofs | what `CamelCase` makes of any name; `NamesFit` |
| `CamelInvariance` | ServerRegistryProofs | `RegistrySpec => []CamelTwice` |
| `RegistryInvariance` | ServerRegistryProofs | `Spec => []IInv` |
| `PositionIsTrue`, `LimitsAreHeld`, `ReadsAreExact` | StreamsProofs | from `ArraysFit`: `Spec => []PositionTrue`, `[]LimitsHold`, `[]ReadsExact` |
| `ReaderInvariance` | StreamsProofs | from `ArraysFit`: `Spec => []CInv` |
| `MissesNothing`, `GivesBack`, `BackUpIsGranted` | StreamsProofs | `StreamSpec => []NothingMissed`, `[]LimiterGivesBack`, `[]BackUpGranted` |
| `SourceImplemented`, `SourceInvariance` | StreamsProofs | `StreamSpec => ImplementsSource`, `StreamSpec => []SInv` |
| `FailuresTouchNothing`, `ProtocInvariance` | ProtocProofs | `Spec => []FailureTouchesNothing`, `Spec => []PInv` |
| `SuccessesAreWritten`, `InsertsInPlace` | ProtocProofs | `Spec => []SuccessIsWritten`, `Spec => []InsertedInPlace` |
| `LinesInvariance` | ProtocProofs | `Spec => []LInv` |
| `SuccessesAreWhole` | ProtocProofs | `PipeSpec => []SuccessIsWhole` |
| `PluginGetsPipes` | ProtocProofs | from `StdOpen`: `PipeSpec => []PluginHasPipes` |
| `PipeInvariance` | ProtocProofs | `PipeSpec => []PipeInv` |
| `PoolIsWhole`, `PoolInvariance` | PoolProofs | `PoolSpec => []NothingDangles`, `PoolSpec => []DInv` |
| `LinkedAsWritten`, `LinkingInvariance` | PoolProofs | `PoolSpec => []LinksAsWritten`, `PoolSpec => []MInv` |
| `RefusalsExplained`, `RefusalInvariance` | PoolProofs | `PoolSpec => []RefusedForAFault`, `PoolSpec => []FInv` |

They hold for any number of clients, connections, workers, calls and faults, any
methods and bodies, frames, sizes and pieces, threads and items, services, names of any length, files,
blocks and limits, generators and locations, requests and responses, databases of any
files that import and use one another in any way, from the assumptions
named in the modules that declare the constants (`WireAssumption`,
`TransportAssumption`, `ClientAssumption`, `ServerAssumption`, `FramesAssumption`,
`EnvAssumption`, `NamingAssumption`, `RegistryAssumption`, `CodedAssumption`, `StreamsAssumption`,
`ProtocAssumption`, `PipeAssumption`, `PoolAssumption`). Those that carry weight:

- `WireAssumption`: bytes of a payload that happen to parse as a header never carry a
  checksum that matches a frame of the stream.
- `ArraysFit`, a hypothesis of the theorems about `CodedInputStream`: no input that is a
  flat array is longer than the total limit. It is needed: `array_total` is the run in which one is.
- `StdOpen`, a hypothesis of `PluginGetsPipes`: protoc was started with descriptors 0 and
  1. Without them `pipe` gives these out, and `subprocess.cc:308-314` closes what it has just
  put there.
- `NamingAssumption` and `RegistryAssumption`: capitals are no lower case letters, digits are no
  letters, and the names of services and methods are identifiers, which `ValidateSymbolName`
  (`descriptor.cc:2920`) has seen to when a user holds their descriptors.
- `PoolAssumption`: a name without its last component is shorter, so that scopes around a name
  come to an end. It is said without lengths: every set of names has one whose parent is not in it.

`BordersAssumption` and `AlphabetAssumption` say of TLC's instances that what is grown there are
numbers of 64 bits and names.

### The arguments

**Calls.** Why an answer is the caller's own cannot be seen in one state of one
variable; `RpcInvariant.IInv` follows it along the chain from the call to its
answer:

1. `OwnConn`: a connection in use is open at its client's end and used by no other
   client.
2. `IssuedOnce`: calls on a connection have ids of their own, below the client's
   `seq`.
3. `RequestsIssued`: every header in the stream, or held by the server with a
   checksum that can match, is that of a call issued. A body that was parsed as a
   header is held too, but its checksum matches nothing: it never gets to a
   service.
4. `IdsAscend`: from what ran, over the header held and the headers in the stream,
   to the call not yet written, ids only grow. A header that was cut off from its
   body is followed by a larger id, never by its own again.
5. `AnswersRan`: every service answer under way, from the server's locals over the
   stream to the client's, is that of a call that ran, with its id. Comparing ids
   in `callMethod` then picks the right one.
6. `Unanswered`: a call has no outcome until it returns.

`RpcStepProofs` proves the types of each action and the way from call to execution (1
to 4), `RpcProofs` the way back (5, 6), the theorems, and that a step of the system is one
of `CallContract` or changes nothing a caller sees.

`NotFoundExplained` is about what does not happen, and `IInv` says nothing of it: a header
that is cut off, a body without its header and a late answer are all in order there. `FInv`
adds what holds of a connection while every call made on it is to a registered method
(`Clean`):

1. `WaitOnce`: a connection waits once, in the backlog or in the Env's queue, and is
   `none` while it does. A second job on it would read a body for a header.
2. `BodiesFollow`: a body in the stream follows a header; if it is the first frame, the server
   has taken that header, or reads no more. `HeaderSent`: so will the body a client is about
   to write, or it will be lost. A call cut off between the two leaves a header without a body;
   the next call's header is then read as that body and refused, which closes the connection
   before anything is read out of turn.
3. Hence what `ProcessOneCall` reads as a header is one, of a registered method, and no
   NotFound answer is held (`NoneHeld`), sent (`NoneSent`) or read (`NoneRead`).
4. `LatestCall`: the call under way has the largest id on its connection, so that the
   unregistered one that explains the answer came before it, or is that call.

A step of client, network or server keeps the frames of a connection (`Keeps`), writes a
header (`HeaderPut`), writes the body after it (`BodyPut`) or takes the oldest frame
(`TakeOrder`). `IInv` and `FInv` were checked by TLC, on the instances of `calls`, `live_pool` and
`live_single`, before they were proved.

**Frames.** `OrderInv` says that received, half received, under way and still to be
written is the order in which the bytes were sent; it holds through any failure and gives
`BytesInOrder`. The refinement needs more: `Whole` says that as long as no call has
failed inside a frame there is a place for the start of each frame, behind the reader or in the stream, such that each
is followed by its own bytes and the next frame, and that the reader stands in the frame whose turn it is. Each step
is shown to move these places: reading `n` bytes by `n`, writing a frame by adding
one at the end. When the last byte is read, the bytes held are those of that frame. For
`WholeIfItFits`, `Filled` says that a string is returned only when as many bytes were read
into it as `int` says, and `Exact` that its length is that of the frame whose turn it was. The rest is
arithmetic: of a size, `int` is the size itself if it fits, and otherwise something else,
be it smaller or not positive.

**Sizes.** `putUvarint` and `ReadUvarint` are loops, here functions on a number's bits and on
positions. For `putUvarint` the proof states what each byte is (`VarintOf`: seven bits of the number, marked
if bits are left), shows that some number of bytes fits each size (`TakesBytes`), and takes the least number
of bytes for which the loop would write something else. For `ReadUvarint` it states what the loop holds
after `i` bytes (the bits of all bytes so far, until one ends the number or is one too many) and
takes the least `i` where it does not. Both are put together in `SizesComeBack`: the bits
written are the bits read. A tenth byte is accepted with one bit at most; this is why no shift of an
accepted size is by 64 or more (`AcceptedAsTheySay`). From these theorems, which are about all
values, those about TLC's instance follow.

**The Env.** The strengthening of `NoLostWakeup` is
that a caller who is about to push has already woken the background thread, and
that nobody but the holder of `mu_` is between lock and unlock. For the once object it is
that one thread at most is between the compare-and-swap and the store. A behaviour of `EnvSystem` is one
of both parts, so that what was proved of each holds of them together.

**Registry.** `IInv` never opens CamelCase: that the maps agree
depends only on AddService refusing a name that is taken. `CallsArrive` needs besides
that each method of a service added is in the map under its name, and `NamesFit`.

**Names.** The loop of CamelCase is a function from positions to what it appends from there on.
`CamelEverywhere` says that it appends, one after the other, what each position becomes by
itself (`Piece`, the rule at `rpc_service.h:76`; its example is finding 5): a run of lower case letters, which the code copies in one go, is a run of positions
that stay. The least number of characters left for which this is false would be
a counterexample, and the step from a shorter rest to a longer one shows that there is none. That such
functions exist at all (a recursive function is a CHOOSE) is proved by naming one that
satisfies the equation. With this theorem `NamesFit` is a matter of positions: what CamelCase wrote has no
underscore before a lower case letter and no lower case letter without a letter before it (`Settled`), so that nothing
is changed again, which is `CamelTwice`; behind a dot a name is treated as at the start, save that an underscore does not become
X; and there is one dot in a full name, which tells where the service ends.

**Input streams.** `CInv` places the buffer between the bytes read and the nearest limit:
the bytes given by the input are those before the buffer's end, those behind the limit, and
those over INT_MAX; limits are nested; and while bytes are left behind a limit, the buffer ends
at it. `SInv` says for each of the streams inside one another how what it
counts follows from what the one inside it has shown, and how much of that may be backed up.
Both were checked by TLC before they were proved.

**protoc.** `PInv` adds to the property what phase the run is in: until all generators have
returned nothing is written and no location is taken off `pending`, a location that
has an error is still pending, and a slot of `files_` without a file is one whose
location has an error. `LInv` adds what is in the files: their lines are those of streams
destroyed, each stream's in its order (`OwnOrder`), those inserted at one point in the order
of the streams (`InTurn`) and above the line that bears the point (`Above`), of a point borne
once; and all of a destroyed stream's lines, unless its location has an error (`Kept`). That
none is missing in the end rests on streams being open only while their generator runs
(`Hands`), and on what had its turn being written (`WrittenOut`). That a line is in a file once
follows from `OwnOrder`. `PipeInv` says which descriptor leads where after each of the calls of
`Start`, that the only writer of the response pipe is the plugin and the only reader
protoc, and that what was written is what was read and what is in the pipe.

**Descriptor pool.** What a rollback must take away is spread over the stack of builders:
files half built below, files built whole in between, and what the innermost builder has put
into the tables, all under their checkpoints. `DInv` ties these together by the order in which files
are allocated (`Ascending`, `Nested`):

1. `Stacked`: the builders that link have a checkpoint each, in the same order, and each
   checkpoint precedes the file of its builder (`Start`).
2. `Imported`, `Working`: the pending files are those of the builders that import, each once,
   and are not in the tables.
3. `Logged`: what a table has logged since a checkpoint is exactly what it holds of the file
   after that checkpoint and of later ones, and nothing is logged twice. That is what makes a rollback
   take away all of a file and nothing of another.
4. `References`: a file refers only to files that no rollback takes away before itself.
5. `Wholes`: a file that lacks something belongs to a builder that knows of an error, and will
   be rolled back; so a builder that clears its checkpoint leaves a whole file.
6. `HandedOut`: what users hold is under no checkpoint.

A rollback to a checkpoint keeps the files before it (`RolledBack`), and 3 and 4 then say that nothing
of what it keeps leads to what it frees. With no builder left there is no checkpoint (1) and no
pending file (2), and `NothingDangles` is what remains of the rest. Two lemmas about operators carry 3:
`TrackAppend` (something is entered and logged) and `TrackUndo` (the log is taken back). They hold of the tables of
files, symbols and extension numbers alike. Nothing of this uses what `Ancestors` computes.

`MInv` says why a name is linked to what the text means, although a name is sought in
tables that other files fill and a rollback empties. It speaks of files that are `Clean`: no builder
has yet noticed an error in the file or in one that it imports, directly or not. For these:

1. `Provenance`, `Around`: what the table of symbols holds of a file is what its text declares,
   or a package that it is in; around a package are packages, unless such a name was taken.
2. `Entered`: the imports are there, and were before the file; what they make visible by
   `import public` is what can be reached over such imports in the text. `Reached` is a least set
   closed under imports, so that this is shown by exhibiting closed sets, without induction.
3. `FoundIsDeclared`, from 1 and 2: what `FindSymbol` finds among the files that the builder sees is what
   these files declare, and if it finds nothing, they declare nothing under that name. A name that another file
   declares is found in the table and passed over, unless it is a package.
4. `Underway`: where a builder is among the uses and scopes. The scopes it has passed decide nothing
   (`ScopesTried`), each link made is `Right`, and while a search in the database is under way, what is sought
   is declared by no file that the builder sees (`Waits`), so that files drawn in meanwhile make no difference.
5. `TableStays`: what is rolled back is of files with greater numbers, so what was said of
   a file that stays goes on being true (`IdStays`).

`Clean` is what makes this inductive. A file whose import failed may be linked to anything: it
will be rolled back (`Wholes`), and with no builder left every file is clean. That a name found in the
table has packages around it is an induction on names, from `PoolAssumption`.

`FInv` is about files without a fault in the text (`Faultless`, which passes on to what is imported).
`Descending`: what is built above a file that imports is in the closure of one of its imports. So
an error in one of these would be a fault of the file itself, a faultless file does not meet itself
among the pending files, and an import that was there when it was asked for is there when the file is entered (`Importing`):
only the rollback of a file with an error takes away anything, and above a faultless file there is none. While the file is
linked, `MInv` tells that each name is found and each extension number is free in it. `Judged`
follows: no builder of a faultless file has an error, none is known to be bad, none
was refused. Where a search draws a file in while imports are pending, `Descending` fails, and the
property with it: that is what `strayed` notes.

TLC checked `DInv`, `MInv` and `FInv` on the databases of `names` before they were proved.

The invariants contain the types; these are not checked apart.

Induction over data is done without the induction theorems of the library, which take an
operator as parameter and are out of these provers' reach: sets of numbers have a least element
(`LeastIn`, from the well-foundedness of `<`), and the least counterexample is refuted.

### Only model-checked

- All liveness properties: `CallReturnsInTurn`, `ItemsRun`, `FramesArrive` and their like.
  Their fairness is out of the prover's reach.

Every safety invariant and action property of the passing runs is stated by a theorem.

## Findings

1. `frames_in_role`: `ProcessOneCall` does not receive the body of a call of an unknown
   method, which `wire.proto:18-20` says the server does. The next call on that connection
   meets the body. `NotFoundExplained` and `AnswerIsOwn` say how far the damage goes:
   later calls may fail, or be told that their method is unknown, and none gets a
   wrong answer.
2. `plugin_standoff`: `subprocess.h` says that all is done carefully to avoid deadlocks;
   the pipe is not set to O_NONBLOCK, so that `write` of the whole request blocks while
   a plugin that did not read it first writes its response.
3. `array_total`: a `CodedInputStream` on an array longer than
   `kDefaultTotalBytesLimit` reads beyond the total limit, and at the next `PushLimit` its
   buffer ends before it begins.
4. `extension_lost`: the comment at `descriptor.cc:3941` says that a collision of extension
   numbers has been reported already; it has within one file only. Two files may
   extend a message with the same number, and the second extension is not found by
   its number.
5. `doc_name`: `rpc_service.h:82` says that CamelCase makes `XMyFieldName2` of
   `_my_field_name_2`. It makes `XMyFieldName_2`, as only an underscore before a lower case
   letter is dropped (the rule that the same comment gives at line 76).

Observations without a run of their own:

- `rpc_conn_posix.cc:36` takes descriptor 0 for no descriptor: a socket that gets it is
  neither used nor closed. `queue_` of the Env has no bound: each accepted connection
  waits in it with its descriptor open.
- `wire.proto:31-32` says that headers are shorter than `max_header_len`; the code sends
  one that is exactly as long.
- `known_bad_files_` may hold a file without a fault: if the index names a file for a
  symbol sought while imports are pending, and that file imports something that imports
  one of the pending files, this looks like recursion and is remembered. That is the
  exception `strayed` of `RefusedForAFault`, and it does happen in the model.
- `ExpectAtEnd` takes the total limit for the end of a message, `ReadTag` does not.
- A read or write of `Communicate` that a signal interrupts is taken for the end of the
  pipe: a part of a plugin's output may be parsed as all of it.
- A plugin's descriptors 0 and 1 are not its pipes if protoc was started without them:
  the originals that are closed may be 0 or 1 themselves.
- `FileInputStream::Skip` by lseek goes beyond the end of the file and returns true. A read
  error in one stream lets a `ConcatenatingInputStream` go on with the next.
  `LimitingInputStream::ByteCount` counts bytes read before it was created.
- `code_generator.h` says of `Open` that a file that exists is truncated; opening one twice
  in a run is an error. Write errors in an archive do not change protoc's exit status.
  An error in one location is seen when its turn comes, and others may be written by then.

## Not modelled

- In `RpcSystem` frames are sent and received whole. That this is what `rpc_conn.cc`
  provides, until a read or write stops inside a frame, is `ImplementsChannel`; what
  happens after one has, on a connection that is used again, is followed in bytes by
  `ConnFrames` (`BytesInOrder`) but not up to the calls.
- In `ServerConn` the names that resolve (`Registered`) are fixed and name what they
  name; `ServerRegistry` has the maps behind it. That servers register before they
  serve is taken from how they are used: an AddService while a connection is served
  would be a data race.
- `Server::CallMethod`, the call without a connection.
- A service that calls its own server, or answers with an empty error text.
- Process crashes: nothing is persistent, and what remains of a peer that crashed
  is a connection closed or aborted, which is modelled.
- Windows sockets and Env: the pool with a worker per connection is `Workers = 2`
  in `live_pool`; the sockets are as on POSIX.
- Input streams: istream adaptors, the output side, Tokenizer and Printer.
- Descriptor pool: an underlay, `BuildFile` called by a user, placeholders, options,
  enums and their values, `FindAllExtensions`, and the checks of `CrossLinkField` other than
  those of names and numbers. `Enter` notes an error if any scope
  around the file's package is something else than a package; `AddPackage`
  (`descriptor.cc:2895-2917`) looks no further than the first that is there. They differ only
  while a file that has this very error is linked, and about a file that is rolled back with
  that one: the model remembers it as bad, the code at the next attempt.
- protoc: its arguments, `--encode` and `--decode`, the bytes of an archive; `Subprocess` on
  Windows.
- `StartThread` (unused by the RPC layer), logging, XML, CRC-32's table, the stubs of the
  code generator (they forward to `Caller::CallMethod`), generated code, reflection, the
  parser and the language generators, which are sequential and keep no state between
  calls, and the libraries below them.

## Plan

Done, in this order: `Wire`, `Transport`, `RpcClient`, `ServerConn`, `RpcSystem` with
`CallContract`; their proofs; `PosixEnv` with `WorkQueue`; `EnvDefault`; `Naming` and
`ServerRegistry`; `Uvarint` and `ConnFrames` with `FrameChannel`; `EnvSystem`; `PluginPipe`;
`CodedInput` and `InputStreams` with `ByteSource`; `Protoc` and its proofs;
`DescriptorPool` and its proofs.

To do, the most important first:

1. `ServerConn` over `PosixEnv` instead of the Env's promise, with a method that calls
   its own server.
2. A theorem: that the server's use of `queue` is `WorkQueue`'s for one worker, which needs
   the job on the `Conn` of a failed `accept()` to be begun and over in two steps.
3. The output streams, which a `ByteSink` like `ByteSource` would describe.
4. The descriptor pool with an underlay and with placeholders.
