# asio-ice in TLA+

A verification project for asio-ice, a C++ library of ICE (RFC 8445), STUN, TURN,
DTLS, SCTP and WebRTC data channels built on Boost.Asio and senders. It holds
TLA+ modules translated from the source, the TLC configurations that check them
on small instances, and theorems proved with TLAPS for every instance.

## The system

| Part | Source | What it does | State here |
|---|---|---|---|
| ICE agent: gathering and pairing | `src/agent_base_impl.cpp` 147-762 | host, server-reflexive and relayed candidates; remote candidates, mDNS; forms the checklist | `IceAgent` |
| ICE agent: connect() and checks | `agent_base_impl.cpp` 764-1380 | the paced loop, ordinary and triggered checks, role conflicts, valid list | `IceAgent` |
| ICE agent: inbound requests | `agent_base_impl.cpp` 1387-1677 | Binding requests, role conflicts, early and triggered checks | `IceAgent` |
| ICE agent: nomination, release, close | `agent_base_impl.cpp` 643-662, 1679-1910 | set_nominated, default_nominate, free_candidates, close | `IceAgent` |
| ICE agent: restart, keepalive | `agent_base_impl.cpp` 664-695 | restart() and periodic Binding indications | not modelled |
| A session of two agents | two agents and a network | what the two sides agree on | `IceSession` |
| STUN transactions | `include/asioice/detail/stun_transaction.hpp` | retransmission, stop_retring, cancel | the phases of a check in `IceAgent`, a question and its answer in `TurnClient` |
| STUN messages | `src/stun.cpp`, `detail/stun.hpp` | parsing, serialising, integrity | data, abstracted |
| TURN client | `impl/datagram_turn_client.ipp` | allocation, permissions, channels and the tasks that refresh them | `TurnClient` |
| DTLS transport | `ssl/dtls_transport_impl.ipp`, `ssl/datagram_bio.hpp` | the perform loop, its timer and close around OpenSSL | `DtlsTransport`, in part |
| SCTP transport | `exsctp/exsctp/impl/`, `impl/sctp_impl.hpp` | calls, timers, packet queue and back-pressure around dcsctp | `SctpTransport`, over `DtlsTransport` |
| Data channels | `impl/data_channel_impl.hpp` | stream identifiers, DCEP handshake, cache, close | `DataChannels`, both sides |
| Asynchronous primitives | `detail/async_mutex.hpp`, `shared_promise.hpp`, `packet_queue.hpp`, `property.hpp`, `async_queue.hpp` | mutex, promises, queues, observable values | where they are used; `async_queue` is not |
| Transports, sockets, facade, mDNS resolver, fibers, logging, examples, vendored code | | I/O and forwarding | not modelled |

Everything of one connection runs on one executor. Coroutines (`do_connect`, one
`do_check` per check, a refresh task per permission, `packet_sender`, `read_loop`)
interleave only where they `co_await`. **A step of the model is what the code does
between two suspensions**, so a handler with three awaits is three actions and
everything else may happen in between. How a coroutine resumes is part of the
model: inside the call that resumed it (`async_mutex`, `recv_queue`), or by a post
that runs later (`continues_on`, a detached task), when the state may have changed.

## Modules

`IceAgent` (one agent). The peer, the network and the timers are the environment.

| Variable | Code |
|---|---|
| `state`, `clState`, `controlling`, `tie` | `_state`, `_check_list_state`, `_config.ice_controlling`, `_tie_breaker` |
| `locals`, `remotes`, `localEnd`, `remoteEnd`, `resolving`, `receivers` | `_local_candidates`, `_remote_candidates`, their end flags, `add_remote_candidate` calls waiting for mDNS, `_stun_receivers` |
| `made`, `checkList`, `pairState` | the `candidate_pair` objects and their state |
| `valid` | `_valid_list`: endpoints, the checklist object if it is one, the source pair, nominated |
| `trigQ` | `_triggered_check_queue`, a set of tickets ordered by `at` |
| `checks`, `pending` | the running `do_check` coroutines with their transaction, `_pending_check_count` |
| `loop` | where `do_connect` stands: idle, waiting for the timer or a state change, woken, draining, done |
| `handlers`, `freeTimer` | the running `do_handle_request` coroutines; `free_candidates` in its three seconds |

A pair is `<<key, instance>>`, because the code distinguishes a pair object from
its endpoints: the valid list compares endpoints, `_transaction_states` and
`check_complete` compare pointers, and the same endpoints may be paired again.
A NAT is the function `Seen` from a pair to the address the peer reports.
`localEnd` is `"told"` when a nomination has indicated the end of the candidates
while `do_gather_candidates` still runs (it may go on adding some), `"over"` when
that has returned.

| Actions | Code |
|---|---|
| `GatherHosts`, `SrflxAnswer`, `GatherRelay`, `GatherEnd` | `get_component_candidates`, `server_reflexive_candidate`, `create_relayed_candidate`, `do_gather_candidates` |
| `AddRemoteCandidate`, `AddMdnsCandidate`, `MdnsResolved`, `MdnsFailed`, `EndOfRemotes` | `add_remote_candidate` |
| `Connect`, `Tick`, `Woken`, `Drained` | `do_connect` and `pick_next_pair`: first turn, next turn, the loop is left, connect() returns |
| `PermissionGranted`, `TransactionRun`, `Answer`, `GiveUp` | what happens to a check while it waits in `request`, `transaction::run` or for a TURN permission |
| `CheckOk`, `CheckFailed`, `CheckCancelled`, `CheckConflict` | `do_check` resumes with its result: `construct_valid_pair`, `set_nominated`, `check_complete`, `default_nominate`, the next round after a 487 |
| `Request`, `RequestWaits`, `RequestLate`, `RequestProceeds` | `do_handle_request` before, at and after its awaits |
| `FreeCandidates`, `Close` | `free_candidates`, `close` |

Where the order in which the code walks a container decides an outcome that the
model does not track (which of several new pairs is compared first in
`init_pair_state`), the model allows every order. So it does for pairs of equal
priority, which `unfreeze_initial` and `default_nominate` sort by `std::ranges::sort`:
`Topmost` and `ToNominate` are sets of possible choices. Equal priorities are common,
as the priority of a candidate follows from its type and component alone. `Priority`
leaves out the last bit of `compute_priority`, which a role switch turns over: pairs
that differ in nothing else are taken in either order.

`IceSession` composes two instances of `IceAgent`. The hosts of one are the
remotes of the other; a request carries what `build_request` puts into it (the
pair, USE-CANDIDATE, the role and the tie-breaker when it was sent), and the
answer is computed by the receiving agent when it arrives. Constants `Lossy` and
`Late` choose the network: requests and answers lost, duplicated, or delivered
after their transaction is over. Candidates are signalled as an offer and an
answer or one by one (`Trickle`). `ARelays` are candidates of A that a TURN server
relays: A asks for a permission before each of their checks, and the server passes on
only what comes from a peer A has checked (`Permitted`). Only `find_disagreement` has
one.

`Connection` is what an agent promises its application, with two variables: `phase`
(`_state`) and `chosen` (the nominated pairs). `Connect`, `Choose` a pair for a
component that has none, `Close`; CONNECTED comes with the choice for the last
component and not before, and no choice is taken back. `IceAgentPromise` maps the agent
to it (`Chosen` is `nominated_pairs()`): with a lite peer every step of `IceAgent` is
one of these or changes neither variable (`ConnectionPromise`).

`TurnClient` (one client; the server is external). `perm` and `chan` are the
`permission_state` and `channel_state` objects, each with the place of its refresh
task (posted, in its loop, told to stop) and the table that holds it; `creating` is
`_creating_permissions`; `call` is what the application awaits; `srvAlloc` and
`srvBind` are what the server has. `CreateAllocation`, `CreatePermission`,
`ChannelBind`, `DeleteAllocation`, `DeletePermission` and `Stop` are the calls up to
their first await, `AllocationAnswered` ... `DeleteAnswered` what follows the answer,
`WaitFinish` the wait for addresses another call is creating. `AnswerLost` lets the
server act and the client hear nothing. `NumberFor` is the search for a channel
number with its wrap-around. `LeaveLoop` keeps a channel that expired, and whose stop
was lost, in its table for five more minutes when its bind is refused.

`DtlsTransport` (no specification of its own). One `perform` for each of the
operations handshake, send, receive, shutdown and retransmission: `at` is where it
is, `holder` and `waiters` are `_ssl_mutex`, `out` and `in` the two queues. `Run` is
one turn of the loop: OpenSSL, external, takes datagrams, writes records and ends in
one of the ways `perform` distinguishes (`HandshakeEnds` ... `RetransmitEnds`).
`Flushed`, `Recheck`, `DatagramReceived`, `RetransmitTimer` and `DtlsClose` are the
other steps.

`SctpTransport` extends it with `transport_impl` and its `io_interface`: the calls
(`Send`, `Read`, `Connect`, `Accept`, `Shutdown`, `Close`, `Stop`) and their next
turns, `packet_sender` (`SenderTurn`, `SenderSent`), `timeout_handler`
(`HandlerTurn`), `read_loop` (`ReadLoopPacket`, `ReadLoopEnds`), the timeouts of the
socket. The dcsctp socket is external: a state, a number of unacknowledged messages
and of received ones. `Inline` steps come first, as they run inside the call that
resumed them.

`DataChannels` has a manager on either side of an association. `obj` are the channel
objects with state, queue, reader and closer; `channels`, `next`, `cache`, `loop` are
`_channels`, `_next_stream_id`, `_cache_bytes` and where `read_loop` waits. Calls:
`Create`, `CreateNegotiated`, `Send`, `Read`, `Close`, `Release` (the application
drops a channel: the destructor), `Start`, `Stop`. `LoopData`, `LoopOpen`, `LoopAck`,
`LoopEnds` are the branches of `read_loop` and `handle_dcep`, with `AckSent` and
`AckFails` after the await. The association is external: it delivers each stream in
order into one inbox, resets streams or denies the reset (`DenyReset`), and goes down
on one side, then the other. After stop() a `read_loop` whose next turn is posted goes
on; one that waits ends. Stream ids go up to `IdMax` (65535 in the code), because a
negotiated id, and `_next_stream_id` after one, may be beyond the `MaxStreams` that
in-band ids are taken from.

`MCIceAgent`, `MCIceSession`, `MCTurnClient`, `MCSctpTransport` and `MCDataChannels`
give the constants small values. The proofs:

| Modules | What is in them |
|---|---|
| `IceAgentProofs` | the inductive invariant `Inv` of the agent, and `Safe` given `Inv`: every step, the theorems |
| `IceAgentSafety` | given `Inv`: the invariants `Transports` and, for a lite peer, `Lite`; the refinement of `Connection` |
| `IceAgentRoles` | what one agent's steps do to the roles it claims and to USE-CANDIDATE; instantiated for both agents by `IceSession` |
| `IceSessionProofs` | the inductive invariant `SessionInv` of two agents, every step of a session, the theorems |
| `TurnClientProofs` | the TURN client |
| `SctpInvariant` (definitions) | the invariants of the two transports |
| `SctpTransportProofs` | lemmas on the queue of a mutex; the steps of the DTLS part and of the SCTP part, the theorems about both transports |
| `DataChannelsInvariant` (definitions) | the inductive invariants of the data channels: `IInv`, `Books`, `Paired` |
| `DataChannelsProofs` | every step keeps `IInv`, and `Paired` given `Books`; the theorems that follow from `IInv` |
| `DataChannelsRecords` | sums over queues and channels; every step keeps `Books`; the theorems that need it |

Definitions marked *Mutant* are wrong variants of a definition, each a plausible
slip in the code it models. They are in no specification; replacing the
definition by its mutant must break the property it is listed with in
`PROJECT.json`, which shows that the property depends on that code.

## What TLC checks

| Run | Instance | Properties |
|---|---|---|
| `agent_nat` | one trickling agent behind a NAT, either role, 2 checks at once | `TypeOK`, `FailedPairNotValid`, `InProgressHasCheck`, `NominatedKeepsTransport` |
| `agent_lite` | lite peer, 2 components, one relayed, one mDNS candidate, 2 checks at once of 3 slots | `NominatedUnique`, `NominationKept`, `ConnectionPromise` |
| `agent_live` | two pairs of one component, two rounds of role conflict, fairness | `PendingAccounting`, `SourcePresent`, `ConnectReturns`, `CloseEnds` |
| `session_network` | two agents, network that loses, duplicates and delays | `NominationAsked`, `RolesStayApart` |
| `session_roles` | two agents in all combinations of roles and tie-breakers, fairness | `RolesSplit` |
| `turn_client` | 2 addresses, a peer on each, 2 channel numbers, 3 calls, fairness | `RoutesAgree`, `BoundHangsOnPermission`, `TablesRefreshed`, `CreatingHasOwner`, `CallsReturn`, `StopEndsTasks` |
| `sctp_transport` | SCTP over DTLS, 2 calls, 2 timeouts, a packet queue of 2 that is high from 1 on, batches of 2, fairness | `OutBelongsToHolder`, `DtlsWaitsForReason`, `SenderWakes`, `CallsWaitForReason`, `MutexesHandedOn`, `HandlerSleepsToFirst`, `StopEnds`, `QueueDrains` |
| `data_channels` | two managers, 6 channel objects, 2 streams, ids up to 3, a cache of 2, fairness | `EntriesLive`, `ChannelsReachable`, `CacheAccounted`, `LoopWaitsForRoom`, `ReaderFinds`, `CloseReturnsClosed`, `OpensPaired`, `StatesAdvance`, `ClosingEnds`, `OpensAnswered`, `BothEndsClose` |

- `TypeOK` includes that a check makes no more requests than `MaxRounds`, however
  often it is answered 487.
- `FailedPairNotValid`, `InProgressHasCheck`: a pair may be under two checks at
  once (a triggered check cancels the first and starts another), which end in
  either order. No pair stays In-Progress with nobody to move it on, and nothing
  stays valid that was made by a pair that failed later.
- `PendingAccounting`: the counter of running checks is exact on every way out of
  `do_check` and respects its limit.
- `NominatedUnique`, `NominationKept`: one nominated pair in a component; with a
  lite peer, whose pairs are never checked twice, it stays nominated.
- `ConnectionPromise`: with a lite peer the agent implements `Connection`; no check,
  timer or late answer takes a choice back, makes a second one in a component, or
  announces CONNECTED while a component has none.
- `SourcePresent`, `NominatedKeepsTransport`: what `free_candidates` removes is
  neither dereferenced by `default_nominate` nor needed to receive data.
- `ConnectReturns`, `CloseEnds`: once its loop is left, connect() returns; after
  close() no check and no loop is left.
- `NominationAsked`: nothing is nominated that no controlling agent asked for.
- `RolesStayApart`, `RolesSplit`: a role conflict is settled, and late requests
  and late 487 answers do not undo it.
- `RoutesAgree`: the number the client writes for a peer is bound to no other peer
  at the server, and the peer it reports for a number is the one the server has,
  whatever calls, refreshes, expiries and lost answers do to the tables.
- `BoundHangsOnPermission`, `TablesRefreshed`, `CreatingHasOwner`: the asserts of
  `do_delete_allocation`; nothing in a table is without its refresh task; a mark in
  `_creating_permissions` has exactly one owner. `CallsReturn`, `StopEndsTasks`: no
  call waits for ever, and after stop() no task stays.
- `OutBelongsToHolder`, `DtlsWaitsForReason`: the assert at the top of `perform`; an
  operation waits for a datagram or for the mutex only while there is a reason.
- `SenderWakes`, `CallsWaitForReason`, `MutexesHandedOn`, `HandlerSleepsToFirst`: no
  wake-up is lost between the packet queue, the socket's callbacks, the mutexes and
  the timeouts. `StopEnds`: stop() ends the three tasks and the calls. `QueueDrains`: a
  send() that waits for the packet queue to get low is woken, unless the socket goes on
  putting packets into it for ever.
- `EntriesLive`, `ChannelsReachable`: the raw pointers of `_channels` are live, and a
  channel in use can be reached. `CacheAccounted`, `LoopWaitsForRoom`: the shared
  cache is counted exactly, and each byte given back tells `read_loop`.
- `ReaderFinds`, `CloseReturnsClosed`, `StatesAdvance`: the assert of read(); what
  close() returns on; no late answer or reset takes a channel back.
- `OpensPaired`: a channel is open only with an end on the other side, which opened
  first if it is the one that answered. No answer is made up or reaches a channel of
  another stream, however ids are used again.
- `ClosingEnds`, `OpensAnswered`, `BothEndsClose`: a closing channel is closed, an
  open is answered, and both ends of a channel close. Their premises name the cases
  in which the code does not promise it: an id that was used before, a manager that
  was stopped, a `read_loop` nobody started or that waits for a reader, a reset that is
  denied.

Bounds. `CheckIds` bounds the running checks (2 or 3: the races of the code are
between two checks, or a check and a request); `HandlerIds` = 1 in most runs,
because a handler touches shared state only in its first and last step and the
slot is reused; `MaxRounds` 1 or 2 stands for the ten requests of `do_check` (what
matters is whether a round is the last); `MaxInst` bounds the objects made for
one key, `QueueBound` the triggered queue. Actions are disabled at these bounds.
The theorems below hold for every value of them.

In `turn_client`, two channel numbers make the wrap-around and two calls for one
number happen; three calls allow two concurrent binds or permissions and the
allocation before them; two objects of a kind allow one that ends next to one made
anew. A call is made once, and an object's slot is used again when it ends. In
`sctp_transport`, `Plans` chooses at the start what the application does (send and
connect, read, accept and shut down, or the timeouts): the interference of each with
the tasks and with stop() is explored, not that of all of them together. Two calls
make one wait for the other's mutex. In the code the packet queue is high from three
quarters of `max_send_buffer_size` on and a batch is a few packets, so that a batch
seldom makes it low; with room for two packets, high from one on and batches of up to
two, a queue may be high after a batch (one packet sent, one queued meanwhile) as well
as low, and a batch may hold one packet or two. In
`data_channels`, six objects are three channels with both their ends, or one id used
again; ids up to 3 with two streams let a negotiated channel take the next id beyond
the range, so that the bitmap is searched; sizes 1 and 2 with a cache of 2 make `read_loop` wait with one message
cached. Its `Plans` likewise say who creates, sends, closes and drops.

Deadlock is not checked in any run: a closed or connected agent, and a connection
at rest, may stop.

Fairness. `Tick`, `Woken`, `Drained`, `TransactionRun`, `Resumes` are weakly fair,
because each is a timer that is armed or a continuation already posted to the
executor. `GiveUp` is weakly fair, because every check has a timer. Nothing is
assumed of answers or requests in `IceAgent`. In `IceSession`, in the runs
without loss, delivery is strongly fair: the transaction retransmits. In
`TurnClient`, posted work and timers are weakly fair; the answer to a request is
strongly fair, because `request_with_retry` ends by an answer or its last
retransmission; the server drops an allocation nobody refreshes, and then refuses
what depends on it. In `SctpTransport`, resumed and posted code is weakly fair, and the
end of a send of the layer below strongly fair; nothing is assumed of the peer,
OpenSSL or the socket. In `DataChannels`, the executor, `read_loop` and the
association are weakly fair, and an association that is down on one side goes down
on the other; it may always go down.

`turn_client` and `sctp_transport` use `PromptSpec`: what is already posted to the
executor runs before the next timer or datagram is handled, as its queue is FIFO. The
theorems are about the larger `Spec`, without that order.

### Where code and text disagree

Four runs expect a violation. They use `PromptSpec` or the session's `Next`, in
which everything already posted to an executor runs before the next timer or
datagram, so the traces need no unusual scheduling.

- `find_nomination_undone` (`NominationKept`): behind a NAT, the check of the
  source pair keeps retransmitting after its valid pair was nominated through a
  request; when it times out, `check_complete` erases the nominated entry. The
  comment in `set_nominated` says that such a check is not treated as a failure.
- `find_connect_hangs` (`FailedNominationEnds`): the nominating check fails while
  another pair of the component is valid. The comment in `check_complete` says the
  checklist is set to Failed; the code does not, and connect() waits for ever.
- `find_lost_nomination` (`BothConnect`): a request with USE-CANDIDATE for a pair
  that is already queued for a triggered check is answered, but the flag is
  dropped. The trace ends with A CONNECTED, B not, and no step left (`ENABLED`)
  although nothing was lost.
- `find_disagreement` (`Agreement`): `default_nominate` runs again after every
  success while nothing is nominated. A has a host and a relayed candidate. The relayed
  pair succeeds first and is checked with USE-CANDIDATE, then the host pair, of higher
  priority, succeeds and is checked so as well. By the previous point B answers the
  first of these checks and drops its flag; it acts on the second. A is CONNECTED on the
  relayed pair and B on the host pair.

Noted while modelling, as the model has it, without a run of their own: a
triggered task popped while `max_pending_check_count` is reached is dropped (line
918, the comment at 770 says it is performed); all frozen pairs of an idle
foundation are thawed at once (line 797, comment at 787); a pair can be Succeeded
without an entry in the valid list that has it as source, because a known entry
keeps its first source (line 1148, comment at 1563).

TURN client (`datagram_turn_client.ipp`): after a wrap the number returned is the one
behind the gap found (line 458), and two concurrent binds may ask for one number; in
both cases the server refuses. A stop before the posted start of a refresh task is
lost, and the task refreshes until the server refuses. The five minutes an expired
channel is kept (comment at 862) are cut short by the stop that expired it, unless that
stop was lost. The assert at lines 622-625, that the table has no permission for an
address create_permission() was answered for, can fail: a channel_bind() to that
address, answered meanwhile, puts one there. The model goes on as a build without
asserts does (`Install`): the second object stays outside the table, where no stop
reaches it, and refreshes until a refresh fails.

DTLS transport (`dtls_transport_impl.ipp`): `handle_timeout` runs before the operation
that starts the timer (line 350), so a lost first flight is retransmitted only after
some datagram arrives; close() does not wake an async_receive() that waits.

SCTP transport (`transport_impl.ipp`): a timeout with the same expiry as another is not
inserted (line 9); connect() and accept() made after the transport stopped itself do
not return; a send() waits as long as acknowledgements keep the queue high, for ever if
they never pause (without that case `QueueDrains` does not hold of the instance).

Data channels (`data_channel_impl.hpp`): a denied reset closes the channel on the side
that asked (line 396 falls through); `_next_stream_id` may pass the range, and the
channel made with it is ignored by the peer; a stream id may be used again while
the reset of its last channel is under way, whose answer then closes the new channel;
a reset reported before the open was read leaves the accepted channel open; an
in-band open takes the place of a channel negotiated during its await; one channel
nobody reads stops `read_loop` for all; negotiated channels stay connecting.

## What is proved

For all candidate sets, component counts, priorities, NAT mappings, limits and
schedules, under the named assumptions of `IceAgent` (candidates have components;
the address a NAT shows has the component of the host; at
least as many check slots as `MaxPending`) and, for the last three,
`NatAssumption` (a check from the address a NAT gave a host leaves by that host, and
the peer sees the two alike):

| Theorem | Module | Property |
|---|---|---|
| `TypeCorrect` | `IceAgentProofs` | `TypeOK` |
| `PendingExact` | `IceAgentProofs` | `PendingAccounting` |
| `SourceNeverLost` | `IceAgentProofs` | `SourcePresent` |
| `OneNomination` | `IceAgentProofs` | `NominatedUnique` |
| `NoFailedPairValid` | `IceAgentProofs` | `FailedPairNotValid` |
| `NoPairAbandoned` | `IceAgentProofs` | `InProgressHasCheck` |
| `TransportKept` | `IceAgentSafety` | `NominatedKeepsTransport` |
| `NominationLasts` | `IceAgentSafety` | `NominationKept`, if the peer is lite |
| `PromiseKept` | `IceAgentSafety` | `ConnectionPromise`, if the peer is lite |

and likewise for every value of the constants of the other modules, under
`CandidateAssumption` and `LimitAssumption` of `IceSession`, `TurnAssumption`, `DtlsAssumption` and `SctpAssumption`, `DataChannelsAssumption`:

| Theorem | Module | Property |
|---|---|---|
| `NominationsAreAsked` | `IceSessionProofs` | `NominationAsked` |
| `RolesStay` | `IceSessionProofs` | `RolesStayApart` |
| `AgentsInSession` | `IceSessionProofs` | each agent of a session behaves as `IceAgent` specifies |
| `RoutesAgreeAlways` | `TurnClientProofs` | `RoutesAgree` |
| `BoundHangsOnPermissionAlways` | `TurnClientProofs` | `BoundHangsOnPermission` |
| `TablesRefreshedAlways` | `TurnClientProofs` | `TablesRefreshed` |
| `CreatingHasOwnerAlways` | `TurnClientProofs` | `CreatingHasOwner` |
| `SenderWakesAlways` | `SctpTransportProofs` | `SenderWakes` |
| `CallsWaitForReasonAlways` | `SctpTransportProofs` | `CallsWaitForReason` |
| `HandlerSleepsToFirstAlways` | `SctpTransportProofs` | `HandlerSleepsToFirst` |
| `OutBelongsToHolderAlways` | `SctpTransportProofs` | `OutBelongsToHolder` |
| `DtlsWaitsForReasonAlways` | `SctpTransportProofs` | `DtlsWaitsForReason` |
| `MutexesHandedOnAlways` | `SctpTransportProofs` | `MutexesHandedOn` |
| `EntriesLiveAlways` | `DataChannelsProofs` | `EntriesLive` |
| `ReaderFindsAlways` | `DataChannelsProofs` | `ReaderFinds` |
| `CloseReturnsClosedAlways` | `DataChannelsProofs` | `CloseReturnsClosed` |
| `LoopWaitsForRoomAlways` | `DataChannelsProofs` | `LoopWaitsForRoom` |
| `StatesAdvanceAlways` | `DataChannelsProofs` | `StatesAdvance` |
| `CacheAccountedAlways` | `DataChannelsRecords` | `CacheAccounted` |
| `ChannelsReachableAlways` | `DataChannelsRecords` | `ChannelsReachable` |
| `OpensPairedAlways` | `DataChannelsRecords` | `OpensPaired` |

`Inv` (in `IceAgentProofs`) is the inductive invariant: `TypeOK`, `PendingAccounting`, the tickets of
the queue have different places, the valid list has one entry for each pair of
endpoints, only nominated entries lack a source. The type invariant alone is not
inductive: the count of checks stays a natural number only because it equals the
number of running checks; popping a ticket yields places that are natural
numbers only because places differ; the tasks `default_nominate` queues are pairs
only because their entries have a source, and their tickets differ because it picks
one entry of a component, whichever of several with the highest priority. `Inv` is preserved by each
group of actions (`CandidatesInv`, `LoopInv`, `WaitsInv`, `ResumesInv`,
`InboundInv`, `EndInv`), which gives `Invariance`.

`Safe` is the conjunction of `NominatedUnique`, `FailedPairNotValid` and
`InProgressHasCheck`. Given
`Inv` it is inductive: `QuietStep` covers every step that starts and fails no pair,
ends no check and adds nothing to the valid list; `TurnSafe`, `FailCheckSafe`,
`CancelCheckSafe`, `ExhaustCheckSafe`, `CheckOkSafe` and `RequestProceedsSafe` are
the steps that do. The relation `SameChecks` (the same checks are running, each
for its pair) carries the argument through retransmission stops, cancellations
and role-conflict rounds.

`NominatedKeepsTransport` only speaks of nominated entries, which are made from what
the agent held before. `Transports` therefore says it of everything the agent may
still turn into an entry: until close(), every local candidate, every pair in the
checklist, in the queue, under check or the source of an entry has a transport that
serves it (`Serves`: its own, or the host's behind whose NAT it appears), and every
entry is carried by one (`AllServed`). `free_candidates` may drop transports because
it runs only after connect() has returned with no check left (`LoopRests`).

`NominationKept` fails in general (`find_nomination_undone`), because a check that is
still running may erase what another one made. With a lite peer no request arrives and
nothing is queued (`LiteQuiet`), so a pair has at most one check, and a pair that made
something valid has none (`LitePairs`); every check carries USE-CANDIDATE, so the first
valid entry of a component is nominated at once and stays the only one to be
(`LiteNominated`). `Lite` is inductive given `Inv` and `Transports`.

`PromiseKept` goes step by step. A step that nominates nothing changes neither `state`
nor the nominated entries, except connect() and close(); a step that nominates adds one
entry to a component that had none, and is CONNECTED exactly if every component has one
then (`SuccessPromised`). That a check that fails takes no choice with it is `Lite`
again, and `free_candidates` keeps the nominated entries (`FreedPromised`).

`IceSessionProofs`. Two agents may begin in one role, each learns of the conflict from a
request or from a 487 answer, and both kinds of message may be as old as the network
likes. What is the same from beginning to end is how the conflict must come out:
`SessionInv` says that there are *lasting* roles, one for each agent, fixed by the roles
and tie-breakers they began with. An agent is in its lasting role or has not yet been
told; one of the two has been in its own from the start and, if the other has not, has
the better tie-breaker (`Pact`). Everything under way fits that: a check that claims the
other role carries the old tie-breaker and can only be answered 487, one that claims the
lasting role can only be answered 200, and a USE-CANDIDATE in a request, a task, a
handler or a check was asked for by an agent that was controlling when it sent it, or
is one a controlling agent is about to send (`Plays` of `IceAgentRoles`). So an agent that is in its
lasting role stays in it (`RolesStay`), for any number of checks at once, and nothing is
nominated that was not asked for (`NominationsAreAsked`). `IceAgentRoles` proves it of
one agent, for whatever the other has asked; `IceSessionProofs` instantiates it twice
and adds the network. `AgentsInSession` connects the two levels: a session's steps are
steps of `IceAgent` on each side, so that the theorems about one agent hold of both.

`TurnClientProofs`. `RoutesAgree` is not inductive: a client that loses an answer, or
whose channel ends, has fewer routes than the server. `IInv` says what does persist:
the server's bindings are one to one, and while it has the allocation every channel
in the tables has its binding (`BindsGood`); a channel in the tables hangs on a linked
permission and has a task (`ChansGood`, `PermsGood`); an address is marked by the one
call that asks for it (`MarksOwned`); before the allocation is answered there is
nothing else (`NothingYet`, `AllocAlone`).

`SctpTransportProofs`. `IInv` has three independent parts, each with its own lemma
for every step: what calls wait for (`CallsGood`), the packet queue with its sender
and its waiting senders (`QueueGood`: while the transport runs the sender is at work,
or waits on an empty queue) and the timeouts (`TimersGood`). Nothing is assumed of
the DTLS part: its steps change none of these variables.

`LocksGood` is the invariant of the mutexes, inductive given `IInv`. `DtlsGood` is
about `_ssl_mutex`: an operation runs or flushes exactly while it holds the mutex, the
waiters are distinct and are the operations that wait for it, and a free mutex has
none (`MutexGood`); no operation is started while it is under way, which rests on who
starts it: `packet_sender`, `read_loop`, start() and close() (`OpsGood`); the output
queue is empty unless the holder is sending it (`BuffersGood`). Without `OpsGood` a
second start would overwrite the place of an operation that waits. `CallsQueue` says
of `_send_mtx` and `_read_mtx` that the call at the head is at work, those behind it
wait, and no other call of that kind is at work. It rests on a few lemmas about a
queue that is joined, left at its head (`QueueJoined`, `QueueReleased`) or whose calls
move on while others wait (`QueueWoken`, `QueueAt`).

`DataChannelsProofs`. `IInv` is `Core` (every channel is `Sound`: what its reader and
closer wait for fits its state and queue; `EntriesLive`; the channel an answer is
being sent for is not registered yet, `AckPending`), `Traffic` (types of what the
association holds) and `Room` (`LoopWaitsForRoom`). `EntriesLive` needs `AckPending`,
because `handle_dcep` inserts after an await what it made before. `StatesAdvance` is
an action property that follows from `IInv` step by step.

`Books`, inductive given `IInv`, is what a manager records.
`CacheAccounted` is a sum over the channels of sums over their queues. Both are
recursive functions; that they exist, and that appending, removing the head and
changing one channel add and subtract what they should, is proved by taking a least
counterexample, from the well-foundedness of < on Nat (`SetInduction`). `Table` says
that, while the manager runs, a live channel is registered under its id unless it is
the one an answer is being sent for or shares its id with a negotiated one (`Listed`). It needs
`NextOwn` and `Answering`: what handle_dcep() inserts after its await has an id of the
peer's parity, which no in-band channel of this side can have taken meanwhile.

`OpensPaired` relates the two sides through everything between them. `Paired`, inductive
given `IInv` and `Books`, follows an open and its answer on their way: every open in a
buffer, on the wire, in an inbox or waiting to be sent comes from a side that has made a
channel of that id, every answer from a side that has opened one, and the open being
answered was sent by a channel of the other side (`Asked`). It needs `Books`, because an
object that is unmade is blank, and because the channel an answer is sent for has an id
of the other side's. What has been made or opened is not forgotten when a channel is
closed or destroyed, so a step can only add to what `Paired` may rest on (`Grows`); the
two steps that open a channel (`LoopAck` and `AckSent`) are looked at one by one.

The proofs that a step keeps `IInv`, `Books` or `Paired` have one named step for each
action. In modules that begin with `USE Zenon`, leaves without a prover's name are
Zenon's; those that need arithmetic, records or sequences name SMT.

Only model-checked: the liveness properties (`ConnectReturns`, `CloseEnds`, `CallsReturn`,
`StopEndsTasks`, `StopEnds`, `QueueDrains`, `ClosingEnds`, `OpensAnswered`,
`BothEndsClose`) and `RolesSplit`, because fairness is outside the prover. Every
invariant and every action property that a passing run checks is also proved, on the
larger specification without fairness; `NominationKept` and `ConnectionPromise` for a
lite peer only, as with a full peer they fail (`find_nomination_undone`).

## Next

An abstract lock and queue that `async_mutex` and `async_queue` implement; peers that
share an address in `turn_client` (the theorems cover them, the instance does not); an
abstract pair of channel ends that `DataChannels` implements, from `OpensPaired` and
`StatesAdvance`.

## Not modelled

- `restart()`: it erases from a container while that is empty (line 675), so nothing
  can be said of its result. The keepalive task, which changes no state of the agent.
- Message contents and authentication (a request that fails it changes nothing),
  nonces and keys of TURN, labels, options, priorities and partial reliability of data
  channels, the parsing of DCEP messages.
- Of the DTLS transport: async_shutdown without fast_shutdown, the branch for a full
  output queue, fingerprints and the export of SRTP keys.
- OpenSSL, dcsctp, the TURN server and the network, beyond what the code above sees
  of them. `src/` holds a JSON and a regular-expression library, which are
  most of its lines and are vendored.
- `async_queue` and `early_data_cache`: buffers between a transport and a receiver
  that an application attaches.
- `allocate_stream_id` beyond what the language defines: once an id above 30 is
  registered its bitmap is built by shifts of an `int` past its sign bit or its width.
  The model lets it give any free id then (`Allocable`); it has neither the loop that
  does not advance when a word of the bitmap is full (line 469) nor the write past the
  bitmap's end for a negotiated id beyond the number of streams.
- Interface enumeration, DNS, sockets, logging, fibers, examples.
