# A verification of p2pfsync

TLA+ modules for p2pfsync, the peer to peer file synchronizer whose C sources
are in `src/`; TLC configurations that check them on small instances; and
proofs, checked by TLAPS, of what holds for instances of every size.

## The system

One process runs on every host. `main` starts five threads and waits for
SIGINT; everything else is done by these threads, which share five things: the
shutdown flag, the log, the peer list, each other's message queues, and, without
a lock, the pointer that `strtok` keeps between its calls: both servers parse
their requests with it.

| part | state | operations | called by |
| --- | --- | --- | --- |
| message queue (`message_queue.c`) | a linked list and its mutex | create, push, pop, free; create and free a message | every thread owns one; the broadcast thread pushes to the command client's, the command client to the file client's |
| peer list (`peer_list.c`, `ip_address_list.c`) | list of peers, each with a list of addresses and times; one mutex | find, add, remove, best address, free | broadcast thread, `main` at the end |
| broadcast thread (`broadcast.c`) | own id, listener, timer | send DISCOVER every 10 s, answer with AVAILABLE, list the sender, announce new peers to the command client | network |
| command client (`command_client.c`) | its queue, one connection | for each announced peer: ask for `/` and every directory below, queue a download for every file that is not there | broadcast thread |
| command server (`command_server.c`) | set of open sockets | answer `GET <dir>` with the directory's entries | command clients of other hosts |
| file client (`file_client.c`) | its queue, one connection, `./sync_files` | fetch a file and write it | command client |
| file server (`file_server.c`) | set of open sockets | answer `GET <file>` with its contents | file clients of other hosts |
| tcp messages (`util.c`) | a connection | send and receive a length and that many bytes | the four above |
| shutdown (`shutdown.c`, `main.c`) | a flag and its mutex | set by the SIGINT handler, read by every loop | all |
| logger (`logger.c`) | one file and its mutex | write a line | all |
| helpers (`util.c`) | none | connect with a timeout, listeners, addresses and hex as text, `mkdirp`, time | all |

A file travels like this: broadcast thread (peer seen) -> queue -> command
client -> tcp -> command server of the peer (listing) -> command client (file is
missing) -> queue -> file client -> tcp -> file server of the peer -> file
client (written).

What makes each part correct, and what is hard about it:

- **Message queue.** The list survives any interleaving of pushes and pops;
  messages are delivered once and in order, never used after they were freed;
  all leave; the owner may free the queue only when nobody pushes, which at
  shutdown depends on the order in which the threads see the flag.
- **Peer list.** One entry for each peer and ip, with its latest time, and nothing lost.
- **Discovery.** Datagrams are lost, delayed, reordered, and hosts come and go.
  Hosts must find each other, a peer is announced once although the test and the
  insertion are separate critical sections, nobody is his own peer, the answers
  do not multiply, and the sockets do not run out.
- **Tcp messages.** A stream has no borders: the message has to be put together
  from whatever pieces arrive; a receive must end, one way or the other, when
  the peer stalls or goes away.
- **Process.** Five threads, nested mutexes and a signal handler that takes
  mutexes: no two in one critical section, no deadlock, an orderly end.
- **Servers.** One loop serves all clients: sockets must be closed when their
  clients are gone and at the end, and one slow client must not stop the others.
  Each parses requests with two calls of `strtok`, between which the other one may
  call it, and cuts or misreads paths.
- **Command client, file client.** The tree is walked over one connection, so
  that requests and replies have to stay in step; jobs are made from a listing
  that is old when they run; a crash, an error reply or a second download of the
  same file must not leave a wrong file that then counts as present.

`PROJECT.json` lists the places in the code where these can go wrong
(`hazards`) and the properties that watch them.

## Modules

| module | models | |
| --- | --- | --- |
| `Fifo` | the abstract queue that `message_queue.h` describes | specification |
| `MessageQueue` | `message_queue.c` with the threads around one queue | implements `Fifo` |
| `MessageQueue_proofs` | theorems about `MessageQueue` | proofs |
| `PeerLists` | the list operations, as functions from list to list | operators |
| `PeerLists_proofs` | what these operations return | lemmas |
| `PeerList`, `MCPeerList` | the list under all sequences of calls | uses `PeerLists` |
| `PeerList_proofs` | theorems about `PeerList` | proofs |
| `Discovery`, `MCDiscovery` | the broadcast threads of several hosts and the network | uses `PeerLists` |
| `Discovery_proofs` | theorems about `Discovery` | proofs |
| `Channel` | what sending and receiving a message is to the callers | specification |
| `TcpMessage` | one connection: sender, stream, receiver | implements `Channel` |
| `TcpMessage_proofs` | theorems about `TcpMessage` | proofs |
| `Process` | `main`, threads, mutexes, SIGINT | |
| `Process_proofs` | theorems about `Process` | proofs |
| `Service` | what the two servers promise their clients | specification |
| `SelectServer` | the loop of the command server and of the file server, with its clients and descriptors | implements `Service` |
| `SelectServer_proofs` | theorems about `SelectServer` | proofs |
| `Sync` | what the synchronisation promises: files are made, copied whole, or spoilt | specification |
| `FileSync`, `MCFileSync` | command client, file client and both servers of several hosts, with their disks | implements `Sync` |
| `FileSync_proofs` | theorems about `FileSync` | proofs |

How they fit: `FileSync` is the composition. What it takes as one step each is the
subject of a module of its own: that a peer is announced once is `Discovery`, that
messages and jobs come out of a queue in order and once is `MessageQueue`, that a
message arrives whole or not at all is `Channel`, which `TcpMessage` implements, that
a request on an open connection is answered is `Answered` of `SelectServer`, and
that it is answered once and in turn is `Service`.

`PROJECT.json` maps every definition to its lines of the source. An operator
whose comment starts with "Mutant" is not part of a model: it is a plausible bug,
and putting it in the place of the definition that follows it makes a property fail.

### MessageQueue

State: the queue pointer of the owner's module, the mutex, `head`, the `next`
field of every node, which nodes are allocated, and for each thread where it is
and which message it holds. `list` is auxiliary, the nodes linked from `head`;
`ChainIntact` says that it is what the pointers say. Pushes and pops are split
at every access to the list (`LockPush`, `ScanBegin`, `ScanNext`, `LinkAtEnd`,
`UnlockPush`; `LockPop`, `TakeHead`, `UnlockPop`). The owner is the main loop of the command client
and of the file client: create, pop until empty, handle, free. A freed node may be
allocated again. A call on a queue that is absent or freed is undefined: the
model stops in such a state and claims nothing of it. The only such states are
those of the finding below and of a send before the owner has created its queue.

- `ChainIntact`, `SingleOwner`, `ControlInv`: the list under concurrency, the
  life of a message, who touches what and when.
- `ImplementsFifo`: `MessageQueue` implements `Fifo`, with `q <- list` and
  `out <- hand[Owner]`.
- `PushedLeaves`, `ThreadsEnd`: under `FairSpec`.

Run `MessageQueue`: two producers and three messages, the least with which two pushes and a
pop overlap while the list is longer than one. Fairness: every thread runs; strong
fairness for the two `lock` calls, because a mutex that is released again and
again, by threads that sleep or select for a second between their turns, is got
in the end; strong fairness for `WorkDone`, because one iteration of a
thread has finitely many messages to send.

Run `MessageQueueClose` (finding): the owner frees its queue when it reads the flag. A
producer that has tested the flag earlier sends to the freed queue.

### PeerList

`PeerLists` has `find_peer`, `append_peer`, `add_ip_to_peer`, `remove_peer`,
`find_entry`, `add_or_update_entry` and `get_best_address` with the names of
the code. Every call runs under `peer_list_lock`, so that it is one step of
`PeerList`. `seen` is auxiliary: the table of times that the list stands for. `ListIsTable`
relates the two after any sequence of calls, and `UniqueEntries` and
`PrefersIPv6` say what the callers rely on. `remove_peer` and `get_best_address`
are not called by any thread; they are part of the module's interface. Run
`PeerList`: two peers, an IPv4 address and two IPv6 ones, one of these with two
ports (the list compares ips only), two instants of time.

`get_best_address` returns the *last* IPv6 address (`ip_address_list.c:51`) where
`ip_address_list.h:40` says the first; and an IPv4 address received through an
IPv6 socket, as in `broadcast.c`, counts as IPv6.

### Discovery

State for each host: whether it runs, its id, where its thread is, the packet in
the buffer, the peer list, what it has announced to the command client, the
sockets it has not closed; and the datagrams under way. `Discover` is
a round of broadcasts, of which any subset arrives, the sender's own host
included; `Receive`, `IsPeerInList`, `Announce`, `AddIp`, `SendAvailable` are
the handling of one packet, cut at the locks that `peer_seen` takes. `Start` and `Stop` are
the process, which keeps nothing. The time of an entry is left out here.

- `AnnouncedOnce`, `GenuinePeers`, `AnsweredOnce` (run `Discovery`): `a` has two interfaces, `b`
  restarts once and is sent packets of another protocol, and a descriptor for
  one answer for each start of a host covers a host that is out of
  descriptors. Packets of different host lives meet in the network.
  `AnsweredOnce` counts the DISCOVER packets that may still be answered (`Owed`, under way or in a
  buffer): an AVAILABLE packet that is sent uses up one of them, so that answers
  neither multiply nor answer each other. `Settles` below is what follows under fairness.
- `Discovered`, `Settles` (run `DiscoveryLive`): hosts without a hardware
  address, whose ids are the seconds of their starts, unlimited descriptors.
  `Discovered` excludes hosts with equal ids: they ignore each other for ever,
  and nothing prevents it, since `srand(time(0))` gives the same on every host
  that starts in the same second (`broadcast.c:271-272` expects otherwise).
  `Settles` shows that only DISCOVER packets cause others.
- Fairness: threads run, a packet under way is received while its host runs.
  `Discovered` has a hypothesis more, `BroadcastFair`: the timer of a host that
  keeps running runs out again and again, and of the packets it sends to another
  host, not all are lost. These are the assumptions under which a protocol on
  datagrams can promise anything. `Settles` is about the behaviours in which
  broadcasts stop and must not assume the second.

Two things the code does follow from one line each and have no run. The socket of
`send_available_packet` is never closed (`broadcast.c:318`), so that a host runs out
of descriptors in the end and is not found any more; with a `FdLimit` in the
constants of `DiscoveryLive`, `Discovered` fails. And a packet of a listed peer gives no
message, where `broadcast.c:149-150` has one for a peer that is "seen again": a
peer with new files is not asked for them before one of the two restarts.

### TcpMessage

The stream is a count of bytes: written, arrived, read. `SendHeader`/`SendBody`
are `tcp_message_send`, `Recv` is one round of the loop of `receive_tcp_n`,
with the length it asks for as in the code (`Asked`, the index subtracted
twice), `HeaderDone` and `BodyDone` are the tests in `tcp_message_receive`.
`Cuts` says where the network may end a segment. A select that times out is no
step, since the code then only goes around the loop. Room for a negative length is the whole stream, as
`recv` takes a `size_t`.

- Run `TcpReply`: bodies of at most half the buffer (the replies of the servers in
  all but extreme cases) and a length prefix in one piece. `NoFalseClose`,
  `StaysInBuffer`, `DeliveredIntact`; `ImplementsChannel`, with a message under way from
  its length to the answer, returned when the receive returns it: all rounds
  and pieces in between are no step of `Channel`; and `Delivered`, if both sides run and what
  was written arrives. Three lengths with every cut of the body cover the cases
  below, at and above half of what was asked for.
- Run `TcpRequest` (finding): the servers pass `sizeof(receive_buffer - 1)`, 8; a longer
  request that arrives in two pieces is dropped as if the client had closed.

An empty message is received as a closed connection (`util.c:211` returns its
length, 0), so that empty files are never written by the peers that fetch them:
`NoData` of `FileSync`.

The receive has no timeout (`util.c:361-365` is commented out, and the code says
so), and so a peer that stalls keeps the thread for ever; `Delivered` assumes
that it does not.

### Process

State: the three mutexes, the flag, where each thread is, and where the SIGINT handler is on top of it.
What threads do is reduced to the locks they take. `LocksAlive` depends on
the order of join, clean-up and destruction in `main`; `Exclusive` and
`ShutdownCompletes` on the nesting of the peer list's lock and the logger's.
`NoDeadlock` says that no threads wait for each other: `WaitsFor` is a thread whose next lock, or
whose handler's, another one has, or `main` at the join of one that has not ended. The
deadlock that TLC looks for is one of all threads; this one is of any set of them.

Run `Process`: `main`, the broadcast thread (which nests the locks) and one more,
for the other four differ from it in nothing the model sees; one SIGINT, at a moment at which the
thread it interrupts holds no lock. Fairness: every thread runs and gets a
mutex that is free again and again; every iteration of a loop ends (`select`,
`sleep` have timeouts; a receive ends if the peer goes on, see above).

Run `ProcessSignal` (finding): without the condition on the moment, the handler
waits for a lock that the interrupted thread holds, and the process never ends.
With two signals `LocksAlive` fails as well: the handler stays installed while
`main` destroys the locks.

### SelectServer

The two servers have the same loop; `kind` says which one it is, where they differ:
the command server keeps a connection for further requests and closes what
it watches in the end, the file server closes it after its reply. State: the table
of descriptors of the process (`owner`), `master_read_set`, `maxfd`, `read_set` and
the loop variable; for each client its end of the connection, what has arrived of its
request, and whether it waits in the backlog. Numbers are given out
lowest first, and any thread may get the one that was just closed: `OtherOpens`
and `OtherCloses`. A reply leaves the file or directory it opened open, as the code does.
`Receive` needs the whole request, so that a client that stops after the length
keeps the thread there; `GiveUp` is a receive that returned 0 or -1 (a request
in two pieces, see `TcpRequest`).

- `OwnDescriptors`: no stale number is watched. `ReadyIsCurrent`: what
  `select` reported is still so in the pass over it, although connections are
  accepted and closed meanwhile; without it a receive would wait for a client that
  has sent nothing. `Watched`: no connection is forgotten.
- `ImplementsService`: to its clients the loop over numbers is a server that
  accepts in the order of the connections and answers in rounds (`turn`, what is
  left of the read set). In a round is every accepted client that has asked, so
  that none gets two answers while another waits; an answer is to a
  request that is there; and the process ends at a request only, by SIGPIPE (no
  `MSG_NOSIGNAL`, no handler) only if that client is gone.
- `Answered`, `Ends`: under `FairSpec`. The server thread runs; a client that has sent a
  length also sends the body, and reads and closes in the end. Both clients of
  the program do that unless they die, which the model allows at any point.
  Without it the claim is false: the receive has no working timeout.
- Run `SelectServer`: two clients, one of which may be in the middle of a request while the
  other is served, and three descriptors, so that the listener and both
  clients just fit and any descriptor of another thread makes `accept` fail.

The clean-up loop of the command server stops before `maxfd` and does not close the
connection with the highest number, though its comment (`command_server.c:113`)
wants all closed; a connection that was given up is closed by nobody. Neither matters
to a process that ends, but the second costs descriptors while it runs.

### Sync and FileSync

`Sync` is the promise of `mainpage.dox`: a host gets a file from its user, or a
copy of a peer's whole file, and has it from then on. `Spoil` withdraws the
promise for a path at which users changed the file, or for which a server sent
something else. A crash or a full disk does not.

`FileSync` has for each host the files in `sync_files`, the command client (`walk`: the peer,
whether the connection is up, and the stack of calls of
`download_remote_directory`, each with the entries that are left), the queue of
jobs, the file client's download, and the state of `strtok`. A file is a sequence of
blocks, which become visible one by one (`Write`).

A request is handled in the steps in which the code handles it:

- *Its parse.* `SplitRequest` and `SplitFileRequest` are the first call of `strtok`, in
  the command server's thread and in the file server's; the second call is at the
  beginning of `Answer` and of `Stat`. `strtok` is the server of a process that
  called it last. When that is the other one, the path comes from its request: the
  command server lists any directory, or none (`Places`), and the file server finds no
  file, for what is left of a request for a directory ends in `/`, or does not
  begin with it. `confused` says that this has happened anywhere. A crash
  is possible there too, where the second call returns null (`Crash`).
- *Spaces.* The command server's path ends at its first space (`Parsed`), the file
  server's does not (it looks for `>`). So a directory with a space in its name
  is never listed; what is listed in its place is its parent, or the
  directory whose name is what comes before the space, with the entries taken for entries of the
  directory asked for. If the name begins with the space the parent is listed as its
  own child, and so on, until the stack has no more room (`MaxDepth`).
- *The reply.* `Listing`, `Stat` and `Read` are the servers at the moment they
  look at their disk; between `Stat` and `Read` the file may change, and a read
  that fails, or an `open` without a descriptor, sends a freed buffer (`Garbage`). An
  error text of the file server is data to the file client (`Text`). `astray` has the paths
  for which one of the two was sent.
- *No reply.* When the receive fails the command client takes what is in its buffer for a
  reply: the part that came, and what earlier calls left on the stack. `NoAnswer`
  lets it see any names that users have given, in any number.

Faults, bounded by `MaxFaults`: a refused connection, a full disk, no descriptor, a
user's change, a crash of the process at any point with a restart (the disk stays, all
else goes, and a host without a hardware address gets another id). What became of requests
under way when their client went down is `ServeNobody`. `made`, `changed`, `astray`,
`confused`, `trouble` and `faults` are auxiliary.

- `Genuine`: in whatever state crashes, short writes, second downloads, torn reads and
  mixed up requests leave the disk, each block of a file that users did not change is the one a user
  made at this place of it, or the error text (only if somebody was confused, and
  as the first block), or freed memory (only after a failure, and only for a path for
  which that was sent). No block gets to another place or another path.
- `JobsOnce`: no two jobs of a host are the same while its peers run. Also a confused
  walk asks for no directory twice: every name it reads is right below the directory it
  asked for.
- `ImplementsSync`: with `have` the whole files at paths that were not spoilt, every step is one
  of `Sync`. In particular crashes, short writes, parts of files and downloads over a file that
  is there (two peers with the same file cause them) take no whole file away; the one thing in
  the program that does is a reply that was not the file, and `astray` says when.
- `Synced`: under `FairSpec`, a file that the peer has when the command client turns
  to it is here in the end. Fairness: the clients run, and the servers they wait for answer;
  that they do is `Answered`. It excludes empty files, directories with spaces
  (`Plain`), peers out of reach (`trouble`), files in the way of directories
  (`Blocked`), users' changes, and runs in which somebody was `confused`. The code gives no
  reason why the last should not happen; it is a race of two calls, lost when a peer
  asks for a directory while another, or its own file client, asks for a file.
- Run `FileSync`: two hosts, of which one keeps its id, a file of two blocks in a
  directory, and a file in a directory whose name begins with a space. The second file gives
  the file client work while the command client still walks, so that the two servers of a
  host parse at once, and gives the walk that goes in circles. One fault at most; the
  constraint `OneOrOther` keeps the second file and the fault apart, so that the run ends in
  minutes. Two faults with one file, and three hosts, are beyond this run; the theorems below have no bound.
- Run `FileSyncTorn` (finding): the servers of a host list and send a file that the
  file client of that host is just writing. A third host gets the first part, and
  as it has the file then, never asks again. No fault and no confusion is needed. Two hosts
  are not enough (`DownloadedByTwo`).

The race of the two parses breaks the same promise by itself: without `~confused`,
`Downloaded` fails with two hosts, two files and no fault, the error text being the
contents of the file. That it fails no other way with two hosts is `DownloadedByTwo`.

What the model leaves out: a call of `strtok` is one step, since a race within
it reads or writes the same pointer and ends in one of the outcomes above or in a crash; names that
end in a space, or that contain the delimiters `<` and `>` of a listing; the early return of
`file_server.c:122-125`, for requests with nothing before a space, which no client sends;
the byte before the receive buffer that a failed receive sets to 0 (`command_client.c:84`);
that the bytes behind a request are not initialised. A listing is one look at the tree below a directory, with
directories that are empty left out (nothing comes of them); dates; contents longer than the
receive buffers. A crash also stands for SIGPIPE.

## Proofs

`MessageQueue_proofs` proves for any sets of producers and nodes, from
`QueueAssumption` (the owner is not a producer, `NULL` is neither a node nor a
thread) only:

- `TypeCorrect`, `ChainCorrect`, `OwnershipCorrect`, `ControlCorrect`: the
  invariants that the run checks. None of them is inductive alone: that `LinkAtEnd`
  keeps the chain needs the iterator inside the list and the new message outside
  of it (`ControlInv`, `SingleOwner`), that `FreeMessage` does no harm needs one
  owner, and who has the message follows from where the threads are. The
  inductive invariant `IInv` is the conjunction of the four; its step lemma has
  one case for each action.
- `Refinement`: every step is a step of `Fifo` or leaves its variables alone,
  from the same invariant (a node that enters is fresh, a node that leaves is
  the head).

`PeerLists_proofs` says what the operations of the list return, for lists of any
length: that the searches find the entry if there is one, what `add_or_update_entry`
changes (`IsUpdate`) and that it changes nothing else, the same of `add_ip_to_peer` and
`remove_peer`, and that the last of the IPv6 entries exists, so that `get_best_address`
returns it (from the library's theorem on well-founded relations). `PeerList_proofs`
proves with them, for any peers, addresses and times:

- `TypeCorrect`, `UniqueCorrect`, `TableCorrect`, `PreferenceCorrect`: the four
  invariants that the run checks. `UniqueEntries` is needed for the table: with two
  entries for an ip only the first would get the new time. The inductive
  invariant `IInv` is their conjunction with the types written as sequences.

`Discovery_proofs` proves for any hosts, interfaces, starts and descriptor limits:

- `TypeCorrect`, from `DiscoveryAssumption` alone.
- `AnsweredCorrect`, from `DiscoveryAssumption` too (hosts and interfaces are finite): the
  invariant `OwedInv` says that what is answered is a DISCOVER packet and
  that the network is finite. A step that sends nothing moves a packet from the
  network to one buffer at most; the answer empties its buffer.
- `AnnouncedCorrect` and `GenuineCorrect`, if the hosts have distinct hardware
  addresses (`DistinctMacs`): two hosts with the same id would be one peer. The
  invariant `SafeInv` says what packets are (`NetInv`: except those of other programs, each
  has the hardware address of the host it came from), that what is in the buffer
  is another host's (`PacketInv`), and where the thread is when the messages are one peer ahead of
  the list (`AnnouncedInv`). Between the test and the insertion nobody else adds
  to the list, for only this thread does; that is why two critical sections are enough.

`TcpMessage_proofs` proves for all sizes, buffers and segmentations, from
`TcpAssumption`:

- `TypeCorrect` and `Intact`: what is returned is the whole message and nothing else. The
  invariant `Position` ties the index of the receive loop to the bytes read.
- `Safe` and `BufferCorrect`: if every body is at least one byte and at most half of the
  buffer, and the length prefix is not cut (`SafeSizes`), then `NoFalseClose` and
  `StaysInBuffer`. The hypotheses are needed: in the run `TcpRequest` a body is longer than
  that, and an empty body is taken for a closed connection (see `TcpMessage`). The
  strengthening `NoOverrun` says that the length arrives at once and that a call
  stays in its message.
- `Refinement`: from the same invariant and hypotheses `Channel` is implemented: the first
  byte sent is `Send`, the end of the body `Receive`, a return of 0 or -1
  `ReceiveFails`, which the channel has only when the sender has closed.

`Process_proofs` proves for any number of threads, from `ProcessAssumption`:

- `TypeCorrect` and `MutualExclusion`, whatever `AnyPoint` and `MaxSignals`, that
  is, also where the handler deadlocks. The invariant `IInv` says for each lock what
  its owner is doing (`Sections`), that a handler never gets the lock its own
  thread has (`NoDouble`: without it a release by one would end the section of the
  other), and what `main`'s place in its code tells about the rest (`Order`: a lock
  is destroyed only after all threads were joined, when nobody can have it).
- `LocksAliveCorrect`: for at most one SIGINT no destroyed mutex is used. The
  strengthening `OneHandler` is why: the flag is set by the handler's last step,
  and `main` leaves its loop after that.
- `DeadlockFree`: for any number of threads and signals, if these find threads outside of
  their critical sections (`SafePoints`), which `ProcessSignal` shows to be needed. The
  invariant `Outside` says that under a handler no lock is held; `LockOrder`, that the
  owner of the logger's or the flag's lock asks for no lock and that of the
  peer list's only for the logger's. Of threads that wait for each other the owner of the
  innermost lock would wait for none, and without locks only `main` waits, for others.

`SelectServer_proofs` proves for any clients, descriptors and bounds, from
`ServerAssumption` (clients are not the other values of `owner`):

- `TypeCorrect`, `OwnDescriptorsCorrect`, `ReadyIsCurrentCorrect`, `WatchedCorrect`.
  The inductive invariant adds that a connection is in one place
  (`OnePlace`: not made, in the backlog, or at one descriptor; otherwise the answer to one
  descriptor would empty another that select reported), that there is one listener
  (`Listens`: otherwise accept could empty a backlog reported for another), that what is left of the
  pass is current during a reply too (`Pending`), and that a reply is to a request
  that is there, on a socket that the file server no longer watches (`Replying`).
- `Refinement`: from the same invariant. The lemmas on `Turn` are the heart of it: a step
  of the pass takes at most the client at its descriptor from the round, because of
  `OnePlace`, and a number that is given out during the pass is none of those that are left
  in it, because of `Pending`; a new round has all that wait because of `Watched`.

`FileSync_proofs` proves for any hosts, trees, contents, names with spaces and faults, from
`FileSyncAssumption` (paths are not empty, contents are sequences of blocks, what is before
a space is a name or nothing):

- `TypeCorrect`, with what the phase of a download says of its fields.
- `GenuineCorrect`. `Genuine` alone is not inductive: the invariant `IInv` says
  that the entries and jobs that came of listings are files that are at that peer
  (`InEntries`, `Queued`: unless somebody was confused or users changed the file); that the
  blocks a download has are `Good` for its path, which is what `Genuine` says of a disk; and that the size the
  server found is at most the file's (`Fetched`), so that a read fails only for want of a
  descriptor. `Grows` is what every step does to the disks: files that users
  do not change stay and get no shorter.
- `Refinement`: from the same invariant every step is a `Make`, a `Copy`, a `Spoil` of
  what was changed or went astray in it, or a stutter. A `Write` puts a block that is `Good` at
  its place, so that it leaves a whole file whole, and the one that makes a file
  whole is a `Copy`.
- `JobsOnceCorrect`: no two jobs queued are the same as long as no host is out of
  reach. The invariant `OnceInv` says that a peer is announced and walked once
  and only peers that were walked have jobs (`PeersApart`); and that the calls of
  the walk and the jobs are apart (`Apart`): the entries a call has left, the
  directories of the calls it made and the jobs that came of it are disjoint,
  and only the last call waits for a reply, when nothing of it is queued yet. It asks nothing of
  what is in a reply, so that it holds for confused servers too.
- `DownloadedByTwo`: with at most two hosts, and until somebody is confused or out of
  reach, no host keeps a part of a file, so that the finding of `FileSyncTorn` needs its third
  host. The invariant `CalmInv` says that hosts ask others, not themselves (`AsksOthers`), that a
  path is asked for by one of the hosts only (`Calm`: the other one, which it asks, has the file and
  never asks), and that what was received is as long as what was made (`Got`). So the host that is asked is not fetching the file itself, and no file is sent while it is written.

Only model-checked: liveness (`PushedLeaves`, `ThreadsEnd`, `Discovered`,
`Settles`, `Delivered`, `ShutdownCompletes`, `Answered`, `Ends`, `Synced`), which is beyond the prover.

## Not modelled, and what could follow

Not modelled: the text of log lines, addresses and dates; failures of `malloc`
and of the initialisation of locks; a failed `pthread_create`; how a listener finds
its socket and the single calls of `connect_with_timeout`; listings and files that are
larger than their buffers, which is undefined behaviour; `mkdirp` and the other
helpers of `util.c`, which are sequential and without state; the executables. `docs/`
is the output of Doxygen with the scripts Doxygen ships: it is no part of the
program, and nothing here is about it.

What could follow: the socket calls of `connect_with_timeout` and
`create_listener_socket` one by one, with the descriptors each error path leaves open.

Constants that bound the models: `Nodes` (messages alive), `MaxTime`, `MaxStarts`, `MaxSeconds`,
`FdLimit`, `MaxSignals`, `MaxRequests`, `MaxCuts`, `MaxFaults`, `MaxDepth`; each is named where it is declared.
