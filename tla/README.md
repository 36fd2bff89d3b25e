# A verification of p2p-dprd

p2p-dprd is a daemon by which radio devices find the devices near enough to
interfere with them. It keeps two lists of nodes, gossips them with its peers
over UDP, and tells local programs which nodes are *candidates*: those whose
coordination range touches its own. This directory holds TLA+ models of the
daemon, the TLC runs that check them on small instances, and proofs of their
invariants and action properties for all instances. `PROJECT.json` lists every run, property,
theorem and known disagreement with the source, and maps every definition to
the source lines it stands for.

    tlc -workers 2 -config MCClientRandom.cfg MCClient     # a run
    tlapm ClientProofs.tla                                 # the proofs

## Inventory

| component | source | state | operations | what makes it correct |
|---|---|---|---|---|
| node lists | `node.c`, `node.h` | an array of records with a length and a capacity | append, three sorts, removal of duplicate, expired and excess records, growth, utilities, random choice | no record is lost or mixed up; one record per identifier; capacity is respected |
| protocol | `protocol.c` | the random and the important nodes | receive (four payload types), periodic timeout, bootstrap, sending | lists keep room and forget the right records; what is sent fits, is fresh, and useful to the receiver |
| main loop | `p2p-dprd.c` | the run flag, the select timer, the time of the last cleanup | one event per iteration, then the cleanup if due; shutdown | the cleanup runs often enough; a signal ends the process; every input is served |
| local service | `io.c` (LocalIO), `subscribe.c` | up to 25 subscribers, sockets | set position, set range, subscribe, unsubscribe, publish | subscribers get exactly the current candidates; resources stay bounded |
| network sockets | `io.c` (IO) | none between calls | send, receive | what arrives whole is understood, whatever was cut or left in a buffer |
| serialization | `serialize.c`, `upack/` | none | pack, unpack | what is unpacked is what was packed; sizes fit |
| configuration | `configuration.c` | the global CONFIG | read the file, defaults, set position and range | every field is set before it is used |
| logging, utilities | `utilities.c` | the log file | log, own address, distance, identifier | an identifier is unique |
| network of clients | all of the above, several times | the lists of every client and the packets under way | start, end, move, exchange | what is used is alive and current; clients in reach of each other find each other |
| Python client | `python/` | the last publication | encode requests, decode publications | it reads what the daemon wrote, and the daemon does what it asked |

The daemon is single-threaded. The main loop calls the protocol with what
arrives on the UDP socket and the local service with what arrives on the local
socket; after each event it runs the cleanup if more than `PROTO_timeout`
seconds have passed since the last: expired records are removed, a request with
the random nodes goes to a random peer (or to the configured origin peer when
there is none), one with the important nodes to an important peer, and the
candidates go to the subscribers. All parts share the two lists and the global
configuration. A handler is never interrupted by another one; the difficulty
is in the *sequences* of handlers: messages arrive at any time, in any order,
more than once or never, with records of any age, also of the client itself;
local users move the client between two messages; records expire between any
two steps; lists run full; the process may end in the middle of a handler.

## Modules

| module | what it models |
|---|---|
| `NodeCollection` | the list operations of `node.c` as operators. An array is a sequence; the order `qsort` leaves among equals is a set of possible results |
| `DuplicateRemoval` | `NodeCollection_removeDuplicateNodes` pass by pass over the array, with the pointer swap that exchanges identifiers |
| `Protocol` | the routines of `protocol.c` as operators: how a received list updates a list, what is sent, whom to contact |
| `Client` | one process: a step per event of the main loop, the periodic cleanup, the exit; all properties of a client |
| `ProtocolLemmas` | what the operators of `NodeCollection` and of `Protocol` return, preserve and bound, proved |
| `ClientProofs` | the invariants and action properties of `Client` and its refinement of `PeerTable`, proved |
| `DuplicateRemovalProofs` | that the passes leave one whole record per identifier, whatever the array, proved |
| `MainLoop` | when things happen: the timer of select, the two sockets, the period of the cleanup, signals |
| `MainLoopProofs` | how long a signal can take, and how far apart two cleanups can be, proved |
| `SubscriberSet` | the promise of the local service: a set of subscribers with a limit, publications that reach every member once |
| `Subscriptions` | how it is kept: the array of `subscribe.c`, the publication loop with its sockets and descriptors, subscribers that die or do not read, the shutdown |
| `SubscriptionsProofs` | that every step of `Subscriptions` is one of `SubscriberSet` or leaves it alone, proved |
| `PeerTable` | what a client's lists are to an observer: two sets of peers, one of them bounded, that only messages add to |
| `Network` | several clients, each with its lists and clock, and the network between them |
| `NetworkProofs` | that what a process uses is of an identifier in use lately, and scored by its present place, proved |
| `UPack` | the codec of `upack.c`: integers as bytes, floating point numbers as the bits of IEEE 754, for any width |
| `Wire` | the layouts of `serialize.c` and of `python/`, the buffers datagrams are read into, a user's program that sets the place, subscribes and reads |
| `WireProofs` | that what is packed is understood, for all widths, sizes and contents, proved |
| `Config` | how each field of the configuration gets its value, and the capacities `main` computes |
| `ConfigProofs` | that a complete file is what the process runs with, proved |
| `MCClient`, `MCDuplicateRemoval`, `MCConfig`, `MCNetwork`, `MCWire` | small instances for TLC; `MainLoop` and `Subscriptions` need none |

How the modules compose. `Client` says what the handlers do and lets an event
come at any moment; `MainLoop` says when events come and abstracts from what
the handlers do; both walk through the same loop of `main`. `Client` treats its
subscribers as `SubscriberSet` does, as a set that a publication serves in one
step; `Subscriptions` implements `SubscriberSet` (`KeepsPromise`, the abstract
specification with its fairness, under the mapping `Range(subs)`, the addresses
from the index of the loop on, and the end of the process). `Config` justifies
the first capacities that `Client` assumes (`CapacitiesAsAssumed`). `Client`
implements `PeerTable` (`KeepsTable`, under the mapping of each list to the set
of its identifiers). `Network` runs the operators of `Protocol`, the same that
`Client` runs, in several processes; where `Client` has an environment that may send
anything, the packets of `Network` are those that the processes really send.
It takes from `MainLoop` that a due cleanup happens within a bounded time
(`CleanupPeriod`) and again and again (`CleansAgain`). `Wire` says what is
inside the datagrams of `Network`, `Client` and `Subscriptions`, with the
codec of `UPack`.

How `Client` corresponds to the code:

| model | code |
|---|---|
| `randomNodes`, `importantNodes`, `maxImportant` | the two NodeCollections of `main` and the capacity of the second (the first one's never changes) |
| `place` | `CLIENT_lat`, `CLIENT_lon`, `CLIENT_coordRange` |
| `subs` | the addresses in the SubscriberList |
| `now`, `lastCleanup` | `time(NULL)` and `last_cleanup_timestamp` |
| `phase` | "select": waiting; "check": an event was handled, the cleanup test is next; "exited" |
| `received`, `sent`, `published` | what the last step exchanged, for the properties only |
| `Tick`, `Idle` | select waits; select returns and nothing is done |
| `ReceiveRandom`, `ReceiveRandomRequest`, `ReceiveImportant`, `ReceiveImportantRequest` | the four branches of `Protocol_receiveFromPeer`, each with its reply and its merges in one step |
| `SetPlace`, `Subscribe`, `Unsubscribe` | the branches of `LocalIO_handleRequest` |
| `Cleanup`, `NoCleanup` | the end of the iteration: `Protocol_timeout` and the publication, or nothing |
| `Exit` | a signal, or one of the calls of `exit` inside a handler |

How `MainLoop` and `Subscriptions` correspond to the code:

| model | code |
|---|---|
| `LoopTest`, `CallSelect`, `Wait`, `SelectTimesOut`, `SelectReady` | `while(RUNNING)`; entering select; select waiting, which counts down `varTime` as Linux does; the branches for 0 and for more than 0 |
| `timer`, `age`, `subsec` | `varTime`; `time(NULL)` less `last_cleanup_timestamp`, in whole seconds; the part of the second that has passed |
| `Handle`, `Check` | the handlers, which take no time or one tick; the cleanup if due |
| `Signal` | a signal and `terminate`, at any moment, between the test and select too |
| `network`, `local`, `Arrive` | datagrams in the two sockets, at most `Rate` new ones in a tick |
| `subs`, `AddSub`, `RemoveSub` | the SubscriberList and the two functions on it |
| `OtherEvent`, `Due` | an event that changes no subscription, a cleanup: both send with a socket of their own, and may end the process (`IO_sendBytes`), the latter also when no second descriptor is left for the log |
| `OpenSocket`, `Send`, `FinishPublication` | the publication; socket and sendto for each subscriber, `i` being the index of the loop |
| `free`, `Logged` | the descriptors left; `log_event`, which exits if it cannot open the log |
| `ShutDown` | the end of `main`; what `free` does with an address inside the list is a choice between going on and aborting |
| `bound`, `queue`, `Start`, `Die`, `Read` | the subscribers' own processes and sockets (external) |

How `Network` and `Wire` correspond to the code:

| model | code |
|---|---|
| `random`, `important`, `capacity`, `place`, `id` of `Network` | for each process, the lists of `main` and the fields of CONFIG |
| `idle` | `time(NULL)` less `last_cleanup_timestamp` |
| `net`, `Send`, `Receive` | packets under way: a delivered packet may stay and come again; one that is not delivered within `MaxDelay`, or for which there is no room, is lost |
| `seed`, `issued`, `RandAfterSeed`, `Start` | `srand(time(NULL))` and `generateUniqueID`: for each clock the identifier of a process that starts in the second it shows, the same for every clock that shows this second earlier or later |
| `Stop` | a signal or a call of `exit`: the lists are lost, the packets and the identifier at the peers are not |
| `Move` | the local requests for position and range |
| `Cleanup`, `Tick` | `Protocol_timeout`; a second passes, for all |
| `gone`, `settled`, `upsets` | history, for the properties and the bounds only |
| `PackCollection`, `UnpackCollection` of `Wire` | `NodeCollection_pack`, `NodeCollection_unpack` |
| `Halved`, `Doubled` of `UPack` | the two loops of `enc754`, which bring a number to at least one and below two |
| `PackRequest`, `UserAsks`, `UserReads` | `IPCMessage.pack`, the senders of `p2pdprd.py`, `NodeCollection.from_bytes` |
| `HandleRequest`, `AddSub` | recv into `local_sock_buf`, `LocalRequest_unpack`, `LocalIO_handleRequest`; `SubscriberList_addSub`, which refuses a path when the list is full |
| `PeerSends`, `ReceiveFromPeer` | `IO_sendBytes`; recvfrom into a fresh buffer and the unpacking |
| `Publish` | the packing in `LocalIO_sendCandidateNodes` |
| `heap`, `local` | what the memory of the two buffers held before |
| `stuck` | the loop of `enc754`, which an infinity never leaves |
| `asked`, `accepted`, `content` | history: the place that was asked for, the paths that were named while there was room for one, what was packed |

In `Config` a field holds where its value came from, not the value: nowhere
(`Config_new` does not clear the memory), the file, its default, the host or
the random generator. `ReadSetting` is one setting of `Config_readFromFile`
with its fallback, `NextSection` the end of a section or the check that finds
it missing, `FinishReading` the return. `LogFails` is the exit of `log_event` when the
log does not open, for the line that `getHostIPAddress` logs before the path of the log
is set, and for the one that `main` logs. The library that parses the file is external: a
file parses or does not.

Abstractions. An IP address and port are one number. A position is a point on a
line, and a utility an integer scaled by `Unit`: the code only compares
utilities with each other and with 1.0, and `NodeUtility` decides those
comparisons exactly. The radac address travels unread and is left out.
A handler is one step because the process is single-threaded and nothing it
shares is changed by others; the clock does not advance within a handler.
Messages come from an environment that may send any message of a given set at
any time: this subsumes loss, duplication, reordering and delay. Packets that
do not decode, carry no record at all, or name the null identifier 0 are
outside the model, and so is an error of select that is not a signal (it sets the
timer as a timeout does). In `Network` time is relative: the present is always `NodeMaxAge` and every
stamp falls by one when a second passes, so that the state space is finite
though time goes on for ever; nothing in the code compares a stamp with
anything but the clock and other stamps. The utilities of the random nodes are
left out there, as each use computes them anew. Two seconds give two
identifiers, as `rand` makes all but certain, and identifiers fixed in the configuration
are not modelled. In `Wire` a byte has `ByteBits` bits and an exponent
`ExpBits`: the layouts and the codec depend on the widths in no other way. A
number is an integer in units of the smallest positive one, and `Double` says which
numbers have few enough digits to be held; the division and
multiplication by two in `Dec754` round as the hardware does only where the
result has no full significand. The outcome of duplicate removal is abstracted to "any one
record of each identifier"; `DuplicateRemoval` checks the abstraction against
the passes over the array (`LeavesOnePerID`).

## Runs

| run | question | bounds |
|---|---|---|
| `client_random` | Do the lists keep their room and forget only what they may when random nodes are exchanged? Do they behave as the sets of `PeerTable`? Are requests fresh, do payloads fit? | 3 peers, one of which moves between its two stamps, messages of up to 2 records, stamps 0 and 1, records expire after 1 s, clock up to 2; N = K = 2, first capacity 3, hard limit 5 |
| `client_important` | The same for the important nodes, while local users move the client and subscribe; are replies and publications right? | 3 peers, 2 places, 2 subscribers for 1 seat; N = M = K = 1, capacity 2 growing to the hard limit 3 |
| `duplicate_removal` | Do the passes over the array leave one whole record per identifier, and count right? | arrays of up to 3 records over 2 identifiers, 2 stamps, 2 positions |
| `main_loop` | Does the cleanup come in time however busy the client is; does a signal end the process, and when; is the network socket served? | 2 ticks a second, timeout 2 s, variation up to 3 ticks, 2 datagrams in a socket and 2 new ones in a tick |
| `subscriptions` | Do the array and the publication loop implement the set? Does a signal end the process if subscribers read? | 4 addresses for 3 places, 4 descriptors, sockets that hold 1 datagram |
| `config` | Does a complete file fill every field with its own setting or default? Are the capacities those that `Client` assumes? | files without any of the 5 sections and without up to 2 of the 18 settings; small sizes, sizes at the limit, sizes beyond 16 bits |
| `network` | Do dead nodes disappear however records are passed around; are published utilities those of the present place? | 2 clients, the clock of one a second ahead; 2 places, age limit 2 s, timeout 1 s, 2 packets under way, 1 restart or move |
| `discovery` | Do two clients in reach of each other find each other, whoever starts first and whatever is lost? | the same with equal clocks, age limit 3 s and no restart; under fairness |
| `wire` | Does the receiver understand what was sent, whatever the buffers held and whatever was cut? Do the program in Python and the daemon agree? | bytes of 3 bits, exponents of 3; collections of up to 4 nodes, buffers for 2 (peer) and 3 (user), packets that wrap around at 4; 4 positions, among them both ends of the range, 2 paths for 1 place in the list |
| `keeps_most_recent`, `pushes_to_all`, `find_each_other` | Is what a comment, or the manual, says true? Each is violated, see below | the same; `pushes_to_all` with 3 addresses, `find_each_other` with N = 1 and age limit 2 s |

The bounds are chosen so that every case happens: with N = 2 and three peers a
random list must forget one; one or two of three peers are candidates at the
first place, as the one that moves stands, and the others at the second; the important nodes fill their first
capacity, grow, reach the hard limit and evict; with one second of life and a
clock up to 2 a record expires between a message and a cleanup, comes back in a
later message and expires again; the capacities equal the smallest values for
which the headroom differs from the capacity. The actions treat all peers
alike, so a fourth adds no new kind of step. `MaxTime`, `MaxLength` and the
sets of messages are bounds of the runs only; the theorems have none but
`MaxTime`, an arbitrary natural number at which the clock stops.

In `MainLoop` two datagrams may come in the time of one handler, so that the
network socket can always have one waiting when select looks: with one there is
no starvation. The bounds `CleanupPeriod` and `StopDelay` are exact: less by
one tick or second, and TLC finds them violated. In `Subscriptions` the
cleanup needs two of the four descriptors for its own socket and the log. They let a
publication to one subscriber or two succeed, and a later one run out of them in its
middle, or a later cleanup before it publishes.

In `Network` a client is due for a cleanup every 2 seconds and a record lives for 2
or 3, so that it may be used once or twice before it expires, come back from the peer
and expire again; after a restart
there is a dead identifier, and after a move an old place, whose records circulate
(one of the two in each behaviour). Two packets are enough for a request and
a reply, or two requests, to cross; packets are delivered in the second they
are sent, in any order and more than once. Larger instances were checked once
by hand, without violation, both with N = 1: age limit 3 s, and delivery up to a second
later (2.5 and 5.3 million states). As in the default configuration a record outlives the
timeout; the longer it does, the easier is discovery. `Wire` has bytes of 3 bits because TLC's
integers have 32: a double has then 24 bits, 20 of them in the significand.

Deadlock is not checked where the system really stops: the process may end,
the clock of `Client` stops at its bound, the duplicate removal returns, the
configuration is read once, and a process caught in `enc754` goes no further. In
`Subscriptions` and `Network` it is checked.

The properties are described where they are defined. Those of a client:
`TypeOK`, `Headroom`, `DistinctPeers`, `ImportantSorted`, `PayloadsFit`,
`RequestsFresh`, `PublicationSound` (invariants); `NewestKept`,
`MostUsefulKept`, `RandomPromoted`, `RepliesUseful` (what a step may not
do), and `KeepsTable`. `MostUsefulKept` and `RandomPromoted` hold of every merge, also one
that grows the list or finds it grown. A node that is left out is *outranked*
(`Outranked`): the list is as full as a trim leaves it, the merge had a record of the
node that is no more useful than any it keeps, and if that record is a candidate, the list
may grow no more. Where a merge has two records of a node, an old one in the list and one
that came in, the duplicate removal may leave either, and so it may be either that is
outranked: a node whose old record has too low a utility, because it or the client was
elsewhere, may go with it, as the utility of what is in the list is not calculated
again. `RandomPromoted` needs N <= K, as in the run and in the default
configuration (10 and 15): with N > K the random nodes need not fit the places
the important nodes keep free. Every property is shown to be able to fail by a mutant
of the model (marked "Mutant" in the modules).

Fairness. `Client` and `Config` have none: their properties are safety
properties. `Returns` of `DuplicateRemoval` needs weak fairness of the
function's own steps: a called function is executed. `MainLoop` assumes that
the process is scheduled (`WF_vars(Loop)`) and that time passes while it waits
in select (`WF_vars(Wait)`); no signal and no datagram need ever come.
`Subscriptions` assumes the former, and `ReadersSpec` that a subscriber that
lives reads what is in its socket. The code does not ensure that; what happens
without it is told below. `Network` assumes in `FairSpec` that time goes on, that a process
that is due for a cleanup gets to it (`CleansAgain` of `MainLoop`), and, of the
network, strong fairness: when a process sends packets of one type to another again and
again, not all of them are lost. Nothing in the code ensures the latter, UDP does not
either, but without it no message need ever arrive. No process need ever start, stay up or
stay where it is: these are hypotheses of `Discovery`.

## Where code and comments disagree

* `KeepsMostRecent`: the duplicate removal is said to keep the most recent
  record. The swap at `node.c:288` exchanges only the identifiers, so the record
  that the sort put last survives, be it the older one. An outdated position or
  address can thus replace a newer one.
* `PushesToAll`: a publication never closes its sockets. When the descriptors
  are used up the log cannot be opened for the next line, and the process exits in the
  middle of a publication.
* `FindEachOther`: two clients that start in the same second draw the same
  identifier. Each takes the other's record for its own and skips it, and they never
  find each other, although `README.md` of the repository says they do after a few
  seconds. `Discovery` has the hypothesis that the identifiers differ.

The models also show these differences, which no run reports:

* `Protocol_sendRandomNodes` never sends the last random node. Thanks to this a
  payload fits the N free places of the receiver (`RandomPayload`, `PayloadsFit`).
* `SubscriberList_destroy` frees the wrong addresses; with a subscriber left the
  shutdown may abort before it removes the socket's path (`ShutDown`).
* sendto waits for a subscriber that lives and does not read, and handlers installed by
  `signal` restart it: SIGTERM does not end the daemon then (`Send`). `EndsOnSignal`
  holds under `ReadersSpec` only.
* The fallback for `host_ip` is written to the origin peer's address and that for
  `local_sock_path` to the path of the log (`WithSetting`). `WellConfigured`
  has the hypothesis that the file has both. Without `host_ip` a line is also logged
  before the path of the log is set, so that the process may exit (`LogFails`).
* A client that hears of a neighbour all the time need not publish it at every cleanup,
  not even again and again at cleanups: the duplicate removal may keep the older
  record each time, which then expires just before it is published. What holds is
  `Discovery`: it is among the candidates again and again, between cleanups perhaps.
* Two clients can keep the record of a dead node alive between them, each handing it
  back after the other has expired it, since replies are sent without expiry. It never
  survives the receiver's own cleanup, so it is never used (`PublishedAlive`).
* `enc754` does not return for an infinity, which the highest exponent decodes to
  (`Publish`, `stuck`). It encodes a number without a full significand with a
  negative exponent, and `dec754` adds the one to numbers that have none, so that such
  numbers decode to others (`Enc754`, `Dec754`). `Normal` keeps them out of the
  properties; a position on the globe is never that small, except 0, which is
  treated apart.
* The buffer for peers holds 862 nodes of 38 bytes, not about 1000 of 32 as
  `io.h:60` says; longer packets are cut, and the receiver unpacks nodes that were
  never sent (`UnpackCollection`).
* `Protocol_updateImportantNodes` calculates the utility of the received nodes
  only (`UpdatedImportantNodes`). After the client has moved, the others keep
  the utility for the old position and are sorted, kept and published by it;
  the properties speak of the recorded utility for that reason.
* The bootstrap is not run once (`protocol.c:84`), but whenever the random
  nodes are empty (`RandomRequests`). The comment is outdated; the code is what
  heals a client whose peers have all expired.
* Nine, not ten, top nodes are chosen from (`ImportantRange`).
* The local socket is looked at only if nothing waits on the network socket
  (`SelectReady`): packets that keep coming starve local requests.
* The exchange needs more than a timeout in whole seconds (`Check`), so a timer
  that has just run out may trigger nothing; `CleanupPeriod` has the longest
  time between two exchanges.
* Without a file, or with an empty or damaged one, the defaults are not used
  (`Set`, `NextSection`), although `examples/p2p-dprd.cfg` says so: they are
  only for a file that cannot be read.
* The first capacities are not compared with `P2PDPRD_NODES_MAX_SIZE`
  (`Allocate`); only growth is.

## Proofs

Every invariant and every action property that a passing run checks is proved for
all values of the constants. The theorems assume the named
assumptions of the modules: sizes and periods are natural numbers, N > 0, a
message is a nonempty list of records, own and peers' identifiers are not 0,
there are finitely many clients. `Wire` assumes of its buffers that they hold a
header and the longest request, of positions that they are doubles, of lists that 16 bits
count them with the own record before them, and of paths that they fit an address
with the zero that ends them. What more a theorem needs stands before its `PROVE`.

`ClientProofs`. `TypeOK` is inductive. `Headroom` is inductive under it because
every merge ends with a trim (`UpdatedRandomProperties`,
`UpdatedImportantProperties`) and a cleanup only removes
(`CleanupProperties`); the part on `maxImportant` needs only that growth
is checked against the hard limit. `DistinctPeers` is inductive because an
append skips the own identifier and each merge goes through the removal of
duplicates. `ImportantSorted` follows from the sort that ends each handler, and
from the trim's keeping a prefix. `PayloadsFit`, `RequestsFresh` and
`PublicationSound` speak of the last step's output; they follow from the
invariants of the lists before the step, in particular `Headroom` and
`DistinctPeers`, which is why these are stated for every state. The same
invariants carry the action properties:

* `NewestKeptHolds` and `KeepsTableHolds`: what a merge of random nodes forgets,
  and that each step is one of `PeerTable` or a stutter. Both assume
  `MessagesFit`: a message of random nodes has at most N records. `PayloadsFit`
  shows this of every sender whose N is no larger; longer ones are cut by
  `NodeCollection_append` where the array ends, so records of the message, not
  of the list, would be lost unseen.
* `MostUsefulKeptHolds`: however many records arrive, and of whichever nodes, an
  important node that is forgotten is outranked, in the sense above: by a full list of nodes
  at least as useful as one of the records of it, and if that one is a candidate, only
  when the list may grow no more. The argument is one of counting: candidates that do not
  fit make the list grow (`CandidatesCounted`), and the trim takes the end of a sorted list
  (`UpdatedImportantForgets`).
* `RandomPromotedHolds` says the same of the random nodes that a merge does not make
  important. It assumes N <= K, without which it is false.
* `RepliesUsefulHolds`: sorting by utility to the asker and keeping a prefix leaves
  nothing more useful out.

`MainLoopProofs`. From a signal to the end of the process there is at most
the longest timer and one handler (`StopDelayHolds`), and between two cleanups at
most a timeout, the longest timer and one handler (`CleanupPeriodHolds`), for every
timeout, variation and rate of arrival. Neither is inductive. The
strengthenings `Deadline` and `Period` say for every place in the loop how much time
may have passed there: for a signal none where no time passes between a test of
`RUNNING` and select, and what the timer leaves in select; for the cleanup, that the
time since the last one and what is left on the timer stay within the bound. `TypeOK` is
not inductive either: that a handler finds the datagram it was called for
(`DatagramThere`) belongs to it.

`SubscriptionsProofs`. `UniqueAddresses` and `TypeOK` are inductive with
`IndexInPlace`: while a publication walks the array, the index is one of its places.
`PromiseSafe` is the safety part of `KeepsPromise`: serving the place `i` takes
exactly one address off those pending because no address stands in two places.

`NetworkProofs`. `TypeOK` is not inductive: that a start finds an identifier left needs
a count of the starts (`IdentifiersFit`). The core is `ListsStamped` and
`PacketsStamped`: every record, in any list or packet, is stamped no later than its
identifier was last in use, by the clock of its address. A process stamps no
record but its own, and passing records on, merging, losing and repeating packets
preserve this; so a cleanup, which removes what is `NodeMaxAge` old,
uses nothing of an identifier that has been gone for that long plus the difference of
the clocks (`PublishedAliveHolds`), though dead records may circulate for ever. In the same way
`UtilitiesScored` bounds how long the utility of an old place survives a move
(`PublishedCurrentHolds`). All of it holds for any number of clients, restarts, moves
and packets.

`DuplicateRemovalProofs`. The invariant `Inv` says that at any place of the loop
the array is what some sort of the input makes of it, with every record nulled whose
duplicate stands next to it before that place (both branches
null one of the two records, and what they leave is one whole record), and that the
count is short by exactly those. When the loop ends no identifier is left twice; the second sort puts
the nulled records last and the cut takes them off. This proves for every array what
`WithoutDuplicates`, and all the theorems above with it, assume of the function.

`ConfigProofs`. `SettingsInPlace` says that every setting that has been passed is in its
field, unless one of the two stray fallbacks replaced it: the table sizes always,
which is why `CapacitiesHold` needs no hypothesis about the rest of the file. The
capacities follow as nothing is written between the end of the reading and
`Allocate`.

`WireProofs`. From the bits to the two programs:

* Induction. The library's takes an operator as a parameter, so here it is over a set
  of numbers (`Induction`), from the least number of every set that is not empty. From it
  follows that recursive functions exist (`Recursion`), and so the powers of two.
* Integers. `ValueOf` inverts `Bytes` where the bytes are enough (`BytesInverse`): the
  value of the first k bytes is the number without its other digits.
* Doubles. A number with a full significand is m * 2^e in exactly one way
  (`NormalForm`). The loops of `enc754` find this e (`HalvedForm`, `DoubledForm`). As a
  double has no more digits than the significand, no division loses one, and as the
  significand is full, the exponent is positive. The bits follow, and
  that they are those of IEEE 754; `dec754` and Python's struct module find m and e again
  (`DoubleCodec`).
* Layouts. `Holds` says that a buffer has certain bytes at an offset. It holds of every
  field of a packed record, of every record of a packed list (`NodePacked`,
  `CollectionPacked`), and of a cut datagram in a buffer as far as it arrived whole,
  whatever lay there before (`NodeUnpacked`).
* Requests. A position and a range are read from the place they were packed to. A path
  has no end in its datagram: `RequestReceived` proves that the buffer, cleared after
  each request, ends it (`StringFound`).
* The invariant. `PlaceAsAsked` and `SubscribedAsAccepted` speak of the time after a request
  was handled and are not inductive. `ToProcess` says what holds while one is under
  way: that handling it will make the place and the list what was asked for
  (`Pending`). `FromPeer` and `ToUser` say that a datagram is what was packed, cut to the
  16 bits of its size, and that the own record in a publication is at the place. `Inv` is
  the conjunction with `TypeOK`; `PeersUnderstoodHolds` and `UserInformedHolds` need one
  step from it.

Of numbers with fewer digits than a significand nothing is proved but their type: the code
does not preserve them. `TypeOK` does say that what is decoded from any bits is a double.

Only model-checked:

* liveness, and the fairness of the abstract specification: `Returns`, `Stops`,
  `CleansAgain`, `NetworkServed`, `EndsOnSignal`, `Discovery`, and that a publication
  of `KeepsPromise` which has begun goes on. The prover has no ENABLED;
* what is found to be violated.

## Plan

The parts of the program that decide something are modelled, and what the provers reach is
proved. What is left is to keep both true to the code as it changes, and to shorten
proofs where one lemma could serve several theorems.

## Not modelled

Printing and the wording of the log, the geometry of the globe (`Node_utility` by the
haversine formula, beyond TLC's integers), memory management, the set-up of the sockets (once, before
any handler), the library that parses the configuration, the test program of the
codec, Twisted, packaging and build files.
