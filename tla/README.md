# A verification project for cs2520-2021spring

TLA+ models of the transport tools in this repository, the TLC runs that check
them on small instances, and theorems about them that TLAPS proves for all.

## 1. The repository, its parts and what can go wrong in them

| Part | Files | State | Operations |
|---|---|---|---|
| p1 sender `ncp` | `p1/source/ncp.c` | connection flag, window `head..tail` with the packets in it, `seq`, `eof`, one message buffer | send the file name until accepted; fill and send the first window; shift on an acknowledgement; resend on a NACK; resend the window on a time-out; finish |
| p1 receiver `rcv` | `p1/source/rcv.c` | session (`hassender`, `currentip`, `currenthost`), `C_ack`, window with `buffer[]` and `buffersize`, ACK timer, NACK limiter (`lastACK`, `NACKTime`), `from_addr`, message buffers, open file | open and close a session; decline other senders; take the expected packet and drain the window behind it; keep an early packet and NACK the gaps; drop the rest; repeat the acknowledgement |
| p1 lossy send | `p1/source/sendto_dbg.c` | none that matters | drop a datagram at random and claim success |
| p1 TCP baseline | `p1/source/t_ncp.c`, `t_rcv.c` | a connection, a "name not read yet" flag | send name and file over a stream; write what `recv` returns |
| p2 sender `rt_srv` | `p2/source/rt_srv.c` | client, window of packets with deadlines (`slide`), `head`, `seq`, half RTT | accept one client; forward application packets; answer ACKs (with an ACKACK) and NACKs; slide the window with time |
| p2 receiver `rt_rcv` | `p2/source/rt_rcv.c` | window, `C_ack`, `buffersize`, `Base_Delta` and `Half_RTT` with their records | request; store, acknowledge and NACK; deliver on time, skipping what is lost; average clock offset and RTT |
| p2 generator, sink, bonus | `p2/source/udp_stream*.c`, `p2/source/bonus/` | counters | starter code, and the same p2 programs for raw video payload |
| course starter code | `p1/tutorial_code/`, `p2/tuition/` | | not part of the delivered programs |
| p4 measurement programs | `p4/spines-src-5.5/testprogs/availability_*.c`, `latency_traffic.c` | per-sequence counters | send through Spines; count losses, duplicates, latency |
| Spines reliable link | `p4/spines-src-5.5/daemon/reliable_datagram.c`, `reliable_udp.c` | send and receive windows, buffered messages, NACKs, congestion window, queued events | send; acknowledge; NACK; resend on a NACK or a time-out; resume blocked sessions |
| Spines real-time link | `daemon/realtime_udp.c` | history of sent packets, marks of received ones, token bucket | forward; NACK once; resend while tokens last |
| Spines intrusion-tolerant link | `daemon/intrusion_tol_udp.c` | window of packets with nonces and their digests, incarnations, keys, timers | forward; acknowledge with a digest; NACK; ping; exchange keys; start anew with a new incarnation of the neighbor |
| Spines legs | `daemon/hello.c`, `network.c`, `link.c`, `protocol.c` | status of the leg, its control link, counters of hellos, queued events | send hellos, requests, pings; connect; disconnect; start anew |
| Spines state flooding | `daemon/state_flood.c`, `link_state.c`, `node.c` | costs and stamps of all edges, changed states with masks, ids of neighbors | change a cost; flood; synchronise a new neighbor; outbid others' states of the own edges |
| Spines, the rest | `daemon/session.c`, `dissem_graphs.c`, `priority_flood.c`, `libspines/` ... | | sessions of clients, routing, dissemination, configuration, client library |

The processes of p1 and of p2 share nothing but datagrams. What is hard in them
is what datagrams do: they are lost (`sendto_dbg` loses them on purpose), they
overtake one another and can come twice; two senders can compete for one
receiver; and each process reacts in one loop, one event per turn, with timers
deciding which. For p1 correctness means: the two windows stay consistent, the
file at the receiver is what was sent, in order and once, and the transfer
ends. For p2 it means: what is delivered is delivered in order, not twice, and
not before its time; a lost packet is asked for while it still makes sense; and
the averages stay near what was measured.

Spines is the overlay network the p4 experiments run on. A daemon is one process with an
event loop: datagrams come in, queued events fire, and handlers run to their end. What
is hard there is between the handlers: events that were queued for something that is
gone, windows whose slots are reused, two ends of which one has started anew, and
bookkeeping (masks, marks, digests) that must agree with what the other end holds. A leg
joins two daemons and carries one link of each kind; the control link is a reliable
link, connected by hellos, and the state packets travel on it. For a link correctness
means that what arrives is what was sent, as often as its kind promises; for a leg, that
it is connected to who is there and torn down only for a reason; for the flooding, that
what changed is known everywhere in the end, and that it does end.

`PROJECT.json` lists every component, and under "hazards" what is hard to test,
each at its line with the properties that are about it.

## 2. Modules

| Module | Models |
|---|---|
| `MessBuf` | the data area of the message buffers: C strings, `recvfrom` over old bytes, the `bzero` that clears the size of a pointer |
| `Datagrams` | what a socket and `sendto_dbg` do to datagrams: loss, reordering, duplication |
| `UdpNet` | the datagrams in flight between `ncp` and `rcv`, both ways (EXTENDS `MessBuf`, `Datagrams`) |
| `Ncp` | the sender's loop (EXTENDS `UdpNet`) |
| `Rcv` | the receiver's loop (EXTENDS `UdpNet`) |
| `FileTransfer` | any number of senders, one receiver and the network (EXTENDS `Ncp`, `Rcv`); the properties |
| `StrayAcks` | `FileTransfer` with a history variable, `misled`: an acknowledgement went to a sender without the session (EXTENDS `FileTransfer`) |
| `SlidingWindow` | the abstract specification: a counter of packets sent, one of packets received in order, one of packets known to be received; no datagrams |
| `RtNet` | p2: the datagrams between server and clients, and the clock (EXTENDS `Datagrams`) |
| `RtSrv` | p2: the loop of `rt_srv` (EXTENDS `RtNet`) |
| `RtRcv` | p2: the loop of `rt_rcv` (EXTENDS `RtNet`) |
| `RealTime` | p2: one server, any number of clients, network and clock (EXTENDS `RtSrv`, `RtRcv`); the properties |
| `GapStream` | p2: the abstract specification, a stream with gaps |
| `TimeVal` | `struct timeval` and its arithmetic |
| `Averages` | p2: the running means of `rt_rcv` (EXTENDS `TimeVal`) |
| `ReliableLink` | Spines: both ends of a reliable link |
| `ReliableChannel` | the abstract specification of a reliable link |
| `RealtimeLink` | Spines: a real-time link |
| `IntrusionTolLink` | Spines: both ends of an intrusion-tolerant link, with restarts |
| `NetworkLegs` | Spines: both ends of a leg and its control link, with the events queued for it |
| `StateFlood` | Spines: the flooding of edge costs between any number of daemons |
| `MCFileTransfer`, `MCRealTime`, `MCAverages`, `MCNetworkLegs`, `MCStateFlood` | values of the constants for TLC |
| `MCTwoSenders` | `StrayAcks` with the values of `MCFileTransfer` |
| `MCLinkProtocols` | the three kinds of link side by side, and values of their constants |
| `FileTransferProofs` | lemmas about the buffers; type correctness; the inductive invariants of the windows and of what the buffers hold, any number of senders; that one sender with the receiver implements `SlidingWindow`; the file names |
| `RealTimeProofs` | p2: the inductive invariants, any number of clients; that the server and a client implement `GapStream` |
| `AveragesProofs` | p2: what the running means are means of, and to how much |
| `ReliableLinkProofs` | Spines: the invariant of a reliable link, and that it implements `ReliableChannel` |
| `RealtimeLinkProofs` | Spines: the invariant of a real-time link |
| `IntrusionTolProofs` | Spines: the invariant of an intrusion-tolerant link, any number of restarts |
| `NetworkLegsProofs` | Spines: the invariants of a leg, its events and what severs it |
| `StateFloodProofs` | Spines: the invariants of the flooding, any number of daemons |

### State and code: p1

Sequence numbers are what they are in the code: 0 is the file name, 1, 2, ...
the packets, -1 the end. A datagram to the receiver is `[src, seq, data]`, one
to a sender `[dst, cack, nack]`. A window is an array of `WINDOW_SIZE` slots
indexed by sequence number modulo `WINDOW_SIZE` (`Slot`), as in both programs.

*Data.* A chunk of the file is a short tuple of bytes. `DATA_LEN` stands for the
1359 bytes one `read()` may fill, `POINTER_SIZE` for the 8 bytes that
`sizeof(data_buf)` is. The difference between `strlen` bytes and the whole
buffer is kept, because what a short datagram leaves behind in the buffer of
the receiver decides what `fprintf("%s")` writes. What was never written (the
stack) is `Stack` or, for `echo_data_buf`, `EchoData`.

*Sender.* `phase` stands for the place in `main()`: the connection loop, the main
loop, after `exit`. An action is one turn of the loop. `select()` also watches
the source file, which is always readable, so it never waits: with no datagram
it returns 1 and the loop takes its "time out" branch at once. `Timeout` and
`TimeoutFinish` are therefore enabled in any state. A turn of the connection
loop sends the file name if a microsecond has passed since it did so last;
that is left free, and since a datagram may be lost anyway "not sent" and
"sent and lost" are the same step. The reads of the file advance with the
sequence numbers (packet n carries the n-th read).

*Receiver.* An action is one turn of the loop that handles a datagram, together
with the check of the ACK timer at the top of the next turn: `Reply` adds the
timer's acknowledgement to what the handler sent, surely where the handler
has just cleared `ACKtimeout`, possibly elsewhere. It goes to `from`, the
source of the last datagram. `RcvIdle` is a turn in which `select()` timed out.
The `nack` array of `echo_mess_buf` is state (`echoNack`) since replies to a
file name and to strangers carry whatever it last held.
`file[f]` is the sequence of strings printed to f since it was last opened
with mode "w". `fopen` may fail for the names in `MayFail`; the process exits.

*Network.* `toRcv` and `toNcp` are sets: order is lost. A send is dropped or
carried (`Carried`); a delivery removes the datagram or, with `MayDuplicate`,
may leave it. `RcvCap` and `NcpCap` bound the datagrams in flight: the rest is
lost, which is one of the things a network does.

### State and code: p2

*Time* in `RtNet` is a number of ticks, one clock for all. That the clocks of two
machines differ is a matter of the estimate `Base_Delta`, and every estimate is any
member of `Estimates`, taken anew wherever the code computes one: what the code
computes is the subject of `Averages`. `Half_RTT` is not kept by the client of the
model but chosen when an ACK carries it. `now` starts at `StartTime`, so that the
zeros in the fresh `slide` array are as long ago as the epoch is.

*Server.* An action is a turn of the loop. `select()` may find a packet of the
application and a datagram at once: `App` then leaves `midTurn` set, and the turn
goes on with `RecvAck` or `RecvRequest`. Each turn ends with the sliding of the
window (`EndTurn`). `Slid` computes what the loop at `rt_srv.c:219` computes, running
off included: `head` is then the last value before `head + WINDOW_SIZE` overflows (the
programs are built without optimisation, so the sum wraps). `NacksSeen` are the
arrays the walk over the NACKs reads, each resent packet overwriting the one before;
`Answer` is what it sends. `srvNack` is the
`nack` part of `rcv_pkt`, which goes into the window with each packet, after `Spilled`.

*Client.* `atTop` splits its loop in two: the delivery at the top (`Deliver`), then one
datagram or a report. `Due` is what one look through the window delivers, `C_ack` its
last packet. `delivered` is history. `cliReport` is `Unset` until the first packet.

*Environment.* The application sends as fast as it likes. The window is made for the
packets of one latency window at 2.5 MB/s (`rt_rcv.c:404`), and `rt_srv.c:144` does not look
whether it is full: a burst, or packets that stay fresh for half a round trip longer
(`rt_srv.c:220`), overwrite packets that could still be resent (`Overrun`). The ten copies
of a permission are one datagram of which a copy may stay behind (`ReadFrom`).

*`Averages`* works on `[sec, usec]` pairs like the code, with C's division, and with
`USEC` microseconds in a second. A sample is what `timersub` makes of two clock readings.

### State and code: Spines

An action is one handler of `E_handle_events` to its end: an event, or a datagram that
was read. Times are left out: a queued event may fire at any moment, unless the code
gives it no time-out, in which case it comes before the next datagram (`Reads` of
`NetworkLegs` and `StateFlood`). The names of variables are those of the structs in
`link.h`; an array over a window is a function over its slots.

*`ReliableLink`*. `SendMuch` is the loop that moves messages from the buffer into the
window. Data packets bring acknowledgements and NACKs; one datagram of a burst brings the
NACKs, which is what the loop does since it marks them as sent. The congestion window
is rounded up, as `head - tail` is compared with it; whether it grows by a whole packet
when the code adds a fraction is left free (`Grown`), as is the rounding of its half
(`Halved`). `delivered` is history.

*`RealtimeLink`*. Packets grow too old in the order in which they were sent or came: at
the sending end the age is any new tail (`t`), at the receiving end it is counted in
`arrivals`, of which `expired` are too old.

*`IntrusionTolLink`*. The nonce of a packet is its content with the incarnation it is
for, as random numbers do not repeat; a digest is the set of the nonces (XOR is symmetric
difference). A key is the pair of incarnations it was agreed for. `it_sent` and `it_got`
are history, as is `blacklisted`. `Restart` is `Create_Link` at a later second. Each
behaviour has one of `Configurations`: that of `spines.conf`, or with cryptography and
without reintroducing messages. A packet carries one fragment.

*`NetworkLegs`*. `queue` has the events by their place in the array `Links`, as
`E_queue` knows them. A control link can be made at any free place. The id of a new
control link is one nobody remembers (`rand()`). `stale` is history: ids that were dead
when this end made its control link.

*`StateFlood`*. A state is `[stamp, cost]`; a stamp is the microseconds since the epoch,
with `Second` of them in a second. A control link is here a bag of packets
of which any may be the next to be read: none is lost or comes twice until the link is
destroyed, but a reliable link hands on each fresh packet when it arrives, whatever is
missing before it (`reliable_datagram.c:1406`), so that a newer cell can come before an older
one. That is the channel which `ReliableLink` implements (`ReliableChannel`); `NetworkLegs`
decides when it is destroyed. An end connects again only after both ends gave up the old
control link (`torn`). A restarted daemon takes its first stamps from a clock that may
have been set back. `neighbor_id` is any free one. All daemons know all edges from their
configuration. The groups, which the same functions flood, are left out.

## 3. Properties and runs

| Run | Instance | Checks |
|---|---|---|
| `one_sender` | window 3, NACK 3, 2-byte chunks, 4 chunks (the last short), duplication, 2 datagrams in flight each way | the types; `WindowsAgree`, `NeverTooFarAhead`, `ResendsWhatIsAsked`, `BufferAgrees`, `FullPacketsIntact`, `FinishSparesAllButLast`; refinement of `SlidingWindow` |
| `two_senders` | two senders, window 2, `fopen` may fail for one, the echo buffer holds the name of the other's file | `FullPacketsNeverMix`, `OpensTheNamedFile` |
| `liveness` | one sender, window 2, three chunks, fairness | `SendersExit` |
| `real_time` | one client, window 2, NACK 2, 4 packets, two estimates, 4 ticks | `RtTypeOK`, `RtBufferAgrees`, `ReportTimerSet`, `ResendsWhatIsNacked`, `LossIsWhatWasSkipped`; refinement of `GapStream` |
| `rt_clients` | two clients, window 2, 3 packets, duplication | `ServesOneClient`; refinement of `GapStream` |
| `rt_liveness` | one client, window 2, 3 packets, 5 ticks, fairness | `BufferedIsDelivered` |
| `averages` | record of 3, 4 microseconds in a second, 6 samples of both signs | `MeanWhileFilling`, `MovesWithTheRecord` |
| `link_protocols` | reliable link: windows of 2, three messages one way and one back, duplication. Real-time link: history of 3, 5 packets, 3 tokens. Intrusion-tolerant link: window of 2, a message of two packets and (without cryptography) one of one, one restart of either end | `SendWindowHolds`, `ReceiveWindowHolds`, `BlockedMeansFull`, refinement of `ReliableChannel`; `HistoryHolds`, `MarksTell`; `ItDeliversInOrder`, `AcksProve`, `ItWindowHolds`, `KeyExchangeGoesOn` |
| `daemon_liveness` | reliable link with congestion window, three messages one way; intrusion-tolerant link without one, two messages; fairness | `MessagesArrive`, `SentIsAcked` |
| `hello_legs` | 3 hellos to connect, 2 missing ones to disconnect, at most 1 and 2 datagrams on their way, one loss, overtaking or crash | `EventsFindTheirLink`, `ConnectedMeansLive`, `SeveredForCause` |
| `flooding` | three daemons in a row, two ids, two costs, two cells in a pass, one disconnection, change of a cost or crash, fairness | `NewsIsOnItsWay`, `OneCostPerStamp`, `FloodingEnds` |
| `nothing_to_send` | intrusion-tolerant link as shipped, window of 2, three messages, no restart | violated: see section 5 |

What the properties say:

- `WindowsAgree`: `head - 1 <= C_ack <= tail < head + WINDOW_SIZE` while the
  receiver serves the sender. It is the consistency of two processes that only
  see each other through lost and late datagrams.
- `NeverTooFarAhead`: `rcv` buffers packets up to `C_ack + 1 + WINDOW_SIZE`, but
  the search of its window stops one earlier, and the outermost packet would
  take the slot of the expected one. No packet that far ahead exists.
- `ResendsWhatIsAsked`: whatever is in `head..tail` is still in its slot of the
  sender's window.
- `BufferAgrees`: the receiver's count is right, the slot of the expected packet
  is free, and a taken slot holds the packet of its place.
- `FullPacketsIntact`: while the sender is served, the open file has one string per
  acknowledged packet, and the full ones are those the sender read, in order and
  once. Full packets only, and only while the sender is there: section 5 says why
  (`WritesWhatWasRead`, `WindowAsDrawn`).
- `FullPacketsNeverMix`: the same of a sender that others interrupt, unless an
  acknowledgement was sent to somebody without the session. The ACK timer does that
  (`rcv.c:109`), and a sender so misled goes on with a window that is not the
  receiver's (`AcceptedMeansOpen` in section 5). `misled` says that it happened, and
  the run follows each behaviour up to there. `OpensTheNamedFile` holds beyond it
  too, which is proved (section 4).
- `FinishSparesAllButLast`: when the sender exits, at most the last packet is
  missing at the receiver.
- `OpensTheNamedFile`: a session opens the file its sender named. An answer to a waiting
  sender brings bytes of a buffer nobody wrote over the name it goes on sending
  (`rcv.c:158`); then it may be the file that these bytes make of the name, and no other
  name ever. With the echo of the run this does happen (`NamesArrive` in section 5).
- `SendersExit`: the transfer ends.
- `ImplementsWindow`: the whole is a sliding window as `SlidingWindow` has it.
  At the sender's exit the mapping counts the last packet as received, since
  the sender does.

For p2:

- `RtBufferAgrees`: `buffersize` counts the taken slots, and each holds the packet of
  its place, though the window jumps over what is missing.
- `LossIsWhatWasSkipped`: the loss of a report, which is computed from three counters,
  is the number of packets passed over.
- `ReportTimerSet`: the timer that only an original packet sets is set before it is read.
- `ResendsWhatIsNacked`: what the server would resend for a NACK under way can be in time,
  and is the packet asked for. Only while the application has overrun the window may it be
  the heir of its slot; an expired packet whose slot was given on is not answered with it.
- `ServesOneClient`: a client takes part only if it is the admitted one.
- `ImplementsGapStream`: the application gets a stream with gaps, in order, nothing twice.
- `BufferedIsDelivered`: a packet in the window goes out in the end, whatever is missing.
- `MeanWhileFilling`, `MovesWithTheRecord`: what the two stages of a running mean compute,
  with the exact bound on their rounding errors.

For Spines:

- `SendWindowHolds`: the window has the packets under way, each in its slot, and the
  buffer those that follow; the messages "Reliability failure" and "sending a packet with
  a smaller seq_no" cannot be reported.
- `ReceiveWindowHolds`: the slots of the receive window, reused every `MAX_WINDOW`
  packets, say what was delivered, and each packet was delivered once.
- `BlockedMeansFull`: sessions do not stay blocked by a buffer that has drained.
- `ImplementsChannel`: a reliable link is a reliable channel, over datagrams that are
  lost, reordered and duplicated; an end never knows of deliveries that did not happen.
- `HistoryHolds`, `MarksTell`: the history of the sending end has what it is asked for,
  and the marks of the receiving end tell each packet from the one a history later.
- `ItDeliversInOrder`, `AcksProve`, `ItWindowHolds`: across restarts, both ends deliver
  what the other's current incarnation sent, whole, in order and once; their digests
  agree, or the link would be stuck; the windows stay windows. A correct neighbor is
  never blacklisted.
- `KeyExchangeGoesOn`: an end whose key exchange is not over goes on sending it.
- `MessagesArrive`, `SentIsAcked`: what was handed to the link, or was sent, arrives.
- `EventsFindTheirLink`: an event queued by place finds the control link it is for.
- `ConnectedMeansLive`: hellos of a dead control link do not connect an end.
- `SeveredForCause`: a connected end is torn down after `DEAD_LINK_CNT` hellos without
  an answer or when its control link at the other end is gone, unless datagrams overtake
  each other or a daemon crashes.
- `NewsIsOnItsWay`: what a daemon knows and its connected neighbor does not is queued for
  that neighbor or under way, whatever the masks say and in whatever order packets are read.
- `OneCostPerStamp`: an equal stamp of an edge means an equal cost, which the code takes
  for granted when it ignores a cell, unless its source's clock was set back.
- `FloodingEnds`: nothing goes round for ever, also when a restarted daemon and its
  neighbors outbid each other.

*Bounds.* A window of 3 has an inner slot, a wrap-around, and, with 4 chunks, a
shift that ends with a short read, empty packets behind it, and NACKs for up to
three places. Two datagrams in flight each way are enough for one to overtake
or outlive another, and duplication lets an old one come back any time. (The
same instance with three in flight and without duplication was checked too.)
The two-sender run has the smaller window, since the senders only interact
through the session, the reply address and the buffers. With two datagrams under way
the session that a late file name opens is short of the late packets that
`WindowAsDrawn` needs: its instance has five. All bounds are
constants of the instance. Nothing cuts the runs off: the state space is finite
because a sender stops at the end of its file.

In p2, time is what bounds the runs: packets are sent until `AppTime`, and the clock
stops at `MaxTime`, after the last of them is due (for `rt_liveness` a report interval
later, since the last report must come after that). With a latency of one tick and
estimates of 0 or 1 a packet can be delivered, expire at either end, be too late, or
be overtaken by the window. Four packets in a window of two use a slot twice, and three or
four within a tick overrun it. (A window of three, one tick shorter, was checked too.)
`rt_clients` has one estimate and stops a tick earlier, since two clients and duplication make it large as it is.

For Spines, windows of two slots and three packets use a slot twice; with two datagrams
in flight one overtakes the other. A history of 3 with 5 packets has skipped, aged and
reused slots. One restart of either end makes all pairs of old and new incarnation. One
fault per behaviour on a leg (any kind, at any moment) is enough for each of the late
hellos and events the properties are about: the mutants listed in `PROJECT.json` are all
found. Three daemons in a row have one that forwards, and `CellsPerPass` of 2 makes its
flooding take several passes. `MaxToDo` lets a leg or a cost change only when at most
one packet or daemon is waiting.

*Deadlock* is not checked: the programs stop. A sender exits, the receiver exits if
`fopen` fails, and the Spines models end with the messages and faults they are given.

*Fairness* (`Fairness`): both loops run forever and never block for more than a
second, so a turn that stays possible is taken: weak fairness of handling a
datagram in flight, one condition per sequence number because the socket's
queue is served in order. Loss is random, so a datagram that is sent again and
again arrives: strong fairness of "sent and not lost" for the file name, for
each packet of the resent window and for the timer's acknowledgement. There is
none for the final datagram, which is sent once. In p2, `RtFairness` says that time
passes and that a client's loop goes on: a delivery at its top is done, a report that
is due is made. It needs nothing of the network or the server. `AskFairSpec` adds to
the loops of both ends that requests, which are repeated, arrive; the permission,
which is not, has no fairness. `PromptSpec` is no fairness but a fast computer: time
passes only while the clients wait.

For the reliable link (`Fairness` of `ReliableLink`) queued events fire and datagrams are
read (weak fairness: `E_handle_events` serves what is due, and a socket in its order);
strong fairness of "resent and not lost" for each packet of a time-out and for the
acknowledgement. `ItFairness`: pings and the last packet are repeated until they are
answered (weak fairness of a timer that stays queued), what is under way again and again
is read at last, and an acknowledgement that carries all NACKs that are due, which are
repeated when their time has come, and the answer to it happen again and again while
they are possible (strong fairness). It is stated for links without cryptography. `FloodFairness`: a daemon that has
something queued or to read does something.

## 4. Proofs

`FileTransferProofs` proves of p1, from the named assumptions on the constants
(`BufAssumption`, `NetAssumption`, `NcpAssumption`), for any window size, NACK size, files,
loss, reordering, duplication and number of datagrams under way:

For any number of senders,

- `TypeCorrect`: `Spec => []TypeOK`.
- `SessionsOfMany`: `HistorySpec => [](~misled => SessionInv)`, the inductive invariant;
  `HistorySpec` follows a behaviour to the first acknowledgement that goes astray.
- `WindowsOfMany`: as long, `WindowsAgree`, `NeverTooFarAhead`, `ResendsWhatIsAsked` and
  `BufferAgrees` hold of whichever sender is served; `FinishOfMany`:
  `FinishSparesAllButLast`.
- `FullPacketsOfManyNeverMix`: `CleanBuffers /\ HistorySpec => []FullPacketsNeverMix`.
- `NamedFileOpens`: `Spec => OpensTheNamedFile`, whatever goes astray and whatever the
  echo buffer holds.

For a sender alone with the receiver (`OneSender`, a hypothesis of these theorems),

- `SoleCorrect`: `OneSender /\ Spec => []SoleInv`, and from it the same invariants
  (`SoleWindowsAgree`, `SoleNeverTooFarAhead`, `SoleResendsWhatIsAsked`,
  `SoleBufferAgrees`, `SoleFullPacketsIntact`) and `SoleFinishSparesAllButLast` without a
  history variable.
- `SoleImplementsWindow`: `OneSender /\ Spec => ImplementsWindow`.

*Why `SessionInv`.* `WindowsAgree` is not inductive: that `head - 1 <= C_ack` stays true
when an acknowledgement arrives needs that no acknowledgement under way exceeds
`C_ack`, and that `C_ack <= tail` stays true when packets are drained needs that
every buffered packet was sent. `WhileSending` therefore adds `DatagramsInWindow`
and `ReceiverHolds`. The hard step is `InOrderHolds`: after a packet is written and
the d packets behind it are drained, the slot of the packet expected next is free.
The search stops for one of three reasons: at a gap (the slot is free); after
`WINDOW_SIZE - 1` slots (the next slot is, modulo the window, that of the packet
just written, `SlotShift`); or when `buffersize` packets are drained, and then the
window is empty only because `buffersize` is the number of taken slots
(`CounterRight`, inductive by itself: `CounterStep`, which needs that d consecutive
packets have d different slots, `DrainedSlots`). `WhileConnecting` is what makes the
first acknowledgement safe: nothing but the file name has been sent, so an answer of 0
finds the receiver at `C_ack = 0` with an empty window.

*Why any number of senders.* Everything `SessionInv` says is about the datagrams of one
sender and, while it sends, the session is its own: it left the connection loop on an
acknowledgement of 0, and none goes to a sender without the session (`NoneAstray`, what
the step must satisfy: `SessionStep`). The session stays its own until its last datagram
is read, and that is sent when it has stopped sending. So the step of another sender
changes nothing that the invariant reads (`OtherStepWindows`), and the receiver, when it
reads a datagram of somebody else, declines, and touches only its data buffer. Of that
buffer `ContentInv` needs its last byte to be NUL, which the foreign datagram keeps as well
(`OtherStepContent` and the receiver's steps). The ACK timer may break `NoneAstray`, and
beyond that the invariant is false: a session can belong to somebody else
(`AcceptedMeansOpen` is violated), and a late file name opens one behind its sender's back.
A sender alone gets every acknowledgement while the session is its own
(`SoleNoneAstray`), so that `SoleCorrect` is a corollary; `SoleInv` adds only that before
the first answer `C_ack` is 0, which the refinement's first step needs.

TLC agrees on small instances: `SoleInv` and `ContentInv` on that of `one_sender` (832,530
states), `~misled => SessionInv /\ ContentInv` on that of `two_senders` (2,359,296).

*Why `ContentInv`.* That a full packet reaches the file unharmed follows it through five
places: the sender's buffer, the slot of its window, the datagram, the buffer of `rcv`, the
slot of the receiver's window. In each of them it is a buffer that begins with what was
read (`Begins`) and has nothing but a NUL behind the data (`Ends`), or `fprintf` would go
on into it. A datagram as first sent has no NUL of its own and ends where the packet does,
so that what is behind it in the buffer of `rcv` decides: a file name fills that buffer
when a session opens, and every later datagram and `bzero` keep its last byte. This is
where the hypothesis `CleanBuffers` comes from. The last byte that a file name brings is
the last of the sender's `data_buf`, which nobody wrote: it is NUL if the stack was, or if
the name is as long as the buffer; and the echo of a waiting receiver must not reach it.
Without it the property is false (section 5, `WritesWhatWasRead`). That each string is in
its place is `SessionInv`'s: the slot drained j-th holds packet `C_ack + j`.

*Why `NamesRight`.* A session opens what a datagram with number 0 says, so all those under
way must be the names of their sources, as their senders wrote them (`NameBuf`) or, once an
answer has been received over them, with the echo over the beginning (`EchoedNameBuf`; a
second answer writes the same bytes there, `EchoedAgain`). That an unanswered sender only has
the first kind under way is what the property adds. And nothing that a sender resends may
have the number 0: its window is filled with packets from 1 on before it resends anything.

`RealTimeProofs` proves of p2, for any number of clients, window, length of NACKs,
estimates, loss, duplication and number of datagrams under way (`RtConstants` collects
the assumptions): `RealTimeCorrect` (`RtSpec => []RtInv`) and from it
`AlwaysServesOneClient`, `RtBufferAlwaysAgrees`, `ReportTimerAlwaysSet` and
`AlwaysResendsWhatIsNacked`; with further invariants `LossIsAlwaysWhatWasSkipped`,
`StreamAlwaysInOrder` (`RtSpec => ImplementsGapStream`) and `RtTypeCorrect`.

*Why p2's `RtInv`.* `ResendsWhatIsNacked` needs that the window holds the last
`WINDOW_SIZE` packets, overrun or not, and that a slot expires no later than a latency after
the packet in it was sent (`SrvHolds`). A slot asked for by number holds that packet or one
some rounds of the window later (`SlotReached`), and then `head`, which is not beyond the
number asked for, is more than a window behind `seq`. It also needs that NACKs under way are about packets that were sent (`ToSrvRight`).
`ReportTimerSet` needs that a packet of type RESENT is under way only to a client that
accepted one before (`ToCliRight`): it is asked for only in ACKs, and a client sends none
before it accepted something (`ToSrvRight` again). `ServesOneClient` needs that before the
first request nobody receives and afterwards permissions go to the admitted client only
(`Admission`). The hard step is the delivery at the top of the client's loop: when the
window moves on, the slots passed are emptied, and those that stay taken keep their
packets.

*Why `OutputRight`.* The loss of a report is computed from `C_ack`, `rcvd_count` and
`buffersize`; that it counts what was passed over needs a set that ties the three together.
`OutputRight` says that `delivered` has increasing numbers up to `C_ack`, and that
`rcvd_count` is their number and that of the taken slots together. A delivery appends the
packets due in order (`InOrderSorts`: the packets of a finite set in order are those of the set, each
once), all beyond `C_ack`, and takes their number from `buffersize`. The same invariant
gives the refinement: a delivery is a step of `GapStream`, everything else a stutter.
`RtTypeCorrect` must say what the walk over the NACKs leaves in `rcv_pkt`. `NacksSeen` is a
function that calls itself; that each of its values is an array of NACKs is proved by the
least index where it is not (`LeastExists`), which needs no induction rule.

`AveragesProofs` proves of the running means, for any length of the record, number of
microseconds in a second, and samples (`AvgConstants`): `AvgTypeCorrect`,
`MeanAlwaysWhileFilling` (`Spec => []MeanWhileFilling`) and `MeanAlwaysMoves`
(`Spec => MovesWithTheRecord`, an action property).

*Why `MeanRight`.* The error of a mean is the sum of those of all divisions before it.
`MeanRight`, of both means, says that n times the mean is the sum over the record to
n(n - 1)/2 microseconds: the next sample multiplies the mean by n again and one division
by n + 1 adds an error of at most n. The sum over the whole record is that of the n
samples because the places that no sample has filled are 0. A division is one although
the code divides seconds and microseconds apart: what C's division leaves is smaller than
the divisor on either side of 0 (`CDivRest`), and the rest of the seconds goes into the
microseconds (`DividesTogether`). The sum is a function that calls itself; that it has the
values it is defined by, and that replacing a sample changes it by the difference
(`RecordedChanges`), is proved by the least index where that fails. Samples are times in
normal form (`SamplesNormal`); the means are not, and section 5 says what comes of it.

`ReliableLinkProofs` proves of both ends of a Spines reliable link, for any window,
number of messages, marks of the buffer, loss, reordering and duplication: `LinkCorrect`
(`Spec => []LinkInv`), from it `SendWindowAlwaysHolds`, `ReceiveWindowAlwaysHolds`,
`EndsAlwaysInStep`, `TimerAlwaysRuns` and `LinkTypeCorrect`; with a lemma about the loop
that drains the buffer, `BlockedAlwaysMeansFull`; and `LinkImplementsChannel`.

*Why `LinkInv`.* `LinkInv` says the same of both ends: what an end sends (`SendSide`) and
receives (`RecvSide`), and what is under way to it (`Between`). That a mark of the receive
window is not taken for the packet a window later needs that every slot outside
`recv_tail..recv_head` is empty. That a retransmission sends the right packet needs that
each slot from `tail` to `head` holds its own (`SendSide`), which filling the window from
the buffer keeps only as `head` is never more than `MAX_WINDOW` ahead of `tail`. That
`tail` may move on needs that no acknowledgement under way is ahead of the receiver, and
that NACKs are in the window that no NACK is about a packet not sent (`Between`). The
refinement takes `seq_no` for what was accepted and `tail` for what is known to be
delivered.

`RealtimeLinkProofs` proves of a Spines real-time link, for any length of the histories:
`RtLinkCorrect` (`RtSpec => []RtInv`), `HistoryAlwaysHolds` and `MarksAlwaysTell`. Beside
the two properties `RtInv` has only that nothing under way or noted is ahead of what was
sent (`OnlySent`, `NothingAhead`): with it a NACK falls into the history or behind it.

`IntrusionTolProofs` proves of a Spines intrusion-tolerant link, for any window, any
messages and configurations, any number of restarts, loss and duplication:
`ItInvariant` (`ItSpec => []ItInv`), `ItWindowsHold`, `AcksAlwaysProve`,
`KeyExchangesGoOn` (inductive by itself), and `ItAlwaysDeliversInOrder`.

*Why `ItInv`.* That an acknowledgement proves receipt relates three things: the digest in a
slot of the sender's window, the digest the receiver has added up, and the packets between
the two. `Digested(s, a, A)` says it for one end: whoever has digest `A` of the packets
before number `a` finds, in each slot whose digest is still kept, `A` with the packets from
`a` on. A window at its beginning has it with the empty digest, also after
`Incarnation_Change` has packed it again with other nonces, which needs that slot 0 was
cleared; between paired ends the receiver has it with what it has received (`LinkRight`).
Digests are symmetric differences, so they add up only if no packet is in the window twice
(`Ordered`). What is under way is told by its incarnations: a datagram names none that has
not been (`AsSent`); a data packet of the incarnations its sender knows is one of its
window (`DataRight`); an acknowledgement of an incarnation its reader does not know yet is
of nothing, one of the incarnation it knows proves receipt (`AckRight`). That the second
becomes the first when an end learns of the other's new incarnation is `Clean`: an end not
yet known to the other has received and acknowledged nothing. The proof has two layers.
`Step` is what the invariant sees of any action: the end goes on, learns of a new
incarnation or starts again, its windows are windows afterwards, and it sends only what is
in them. `StepKeeps` shows that such a step keeps the invariant, and one lemma for each
action (`ForwardITStep`, `ProcessITPacketStep`, ...) that it is one.

*Why `StreamInv`.* `ItInv` says that the receiver has what the sender sent, not which
packets those are: fragments that do not follow each other would get a correct neighbour
blacklisted by `Build_Message_From_Fragments_IT`. `Nth(e, b, n)` is the fragment which
packet `n` must carry when an incarnation of end `e` begins behind message `b`. `Streams`
says it of what an end has packed and will pack next; `Link(s, i, b)` says it of what is
under way from incarnation `i` of `s`, and of what the other end has received of it and put
together (`Gathered`: the messages behind `b` whole, and the first fragments of the next).
`StreamInv` has such a `b` for every incarnation: the one the messages began with when the
other end was last heard of anew, which `Incarnation_Change` may set back to a message
behind which everything is sent again (`RenewedStreams`, `AmongHas`). That a packet of an
old stream cannot pass for one of a new stream is that the two differ in an incarnation.
What a pass of `Build_Message_From_Fragments_IT` makes of the packets is a walk along a list:
that such walks exist and what they keep is proved from the least element of a set of
numbers (`StepsExist`, `AllUntil`), without an operator as parameter.

`NetworkLegsProofs` proves of a leg between two Spines daemons, for any counts of hellos,
any number of places in `Links`, of datagrams under way and of faults, in any order:
`LegInvariant` (`LegSpec => []LegInv`), `LegTypeCorrect`, `EventsAlwaysFindTheirLink`,
`LegsAreSeveredForCause` (an action property), and `ConnectedToTheLiving`.

*Why `LegInv`.* An event knows its control link only by the place, so each end must say
which events are queued for a place that is not its control link's (none but the periodic
ones that destruction dequeues) and in which status: `EventsFound`, with `Placed`. That
`hellos_out` stays in its range needs that a hello due at once was preceded by an answer,
and that past `DEAD_LINK_CNT` the death of the leg is queued (`HellosDue`). For
`SeveredForCause` a second invariant, `NothingBehind`, says that while datagrams keep
their order and nobody crashed, what an end has heard of the other's control link is never
behind what is under way to it: a hello of another id then means that the control link it
is connected to is gone. For `ConnectedMeansLive` a third one, `StaleFades`, counts: the
hellos of a dead control link still under way and those already counted towards connecting
are together no more than the network held of it. The theorem has the hypothesis
`EnoughHellos`, `WireCap[e] < CONNECT_LINK_CNT`: with as many late hellos as it takes to
connect the property is false, and it is the code's reason to count hellos at all. The run
`hello_legs` satisfies it.

`StateFloodProofs` proves of the flooding, for any number and arrangement of daemons, ids,
costs, cells in a pass, clocks and faults: `FloodInvariant` (`FloodSpec => []FloodInv`),
`FloodTypeCorrect`, `NewsReachesEverybody`, and `StampsTellCosts`.

*Why `FloodInv`.* That the news stay on their way when ids are handed on needs that
connected neighbors have ids, no two of them the same (`IdsGiven`); that a cell which a
daemon swallows as old was indeed known needs that no channel is ahead of its sender
(`ChanNotAhead`). Neither speaks of the order in a channel: the invariants are about every
packet of the bag. The hard steps are a pass over the changed states, where a state leaves
the list only when its mask has every connected neighbor, and a packet that changes some
cells of its receiver and is older than others. `OneCostPerStamp` needs `SourceLeads`:
until the clock of an edge's source is set back nobody has a newer cell of the edge than
the source, and the same stamp means the same cost in all cells known or under way
(`Agreed`). A start of the source would break that if the stamps it gave before had run
ahead of its clock; a stamp grows by one with a change of the cost and with a bid, so that
`Bounded` limits it by the second of the last start and twice the faults since. The theorem
has the hypothesis `FaultsFitASecond`, `Second >= 2 * MaxFaults`: a second has a million
microseconds, and fewer changes of costs fall between two starts of a daemon. Without it
the property is false: with `Second = 1` and two faults TLC finds a counterexample. The run
`flooding` (`Second = 100`, one fault) satisfies it.

Only model-checked: liveness, everywhere (out of the prover's reach). Every invariant of a
passing run is stated by a theorem.

## 5. Where the code does not do what it says

Each of these is a claim of a comment or a message, stated as a property at the end of
a module, and TLC finds a counterexample to it. The run `nothing_to_send` shows the first:

- `TimerOffMeansNothingToSend` (`intrusion_tol_udp.c:2201`, 2640): an acknowledgement is
  answered with what the congestion window allows, and only then are waiting fragments
  packed. If it covered the whole window, the new packets are sent by nobody: the
  retransmission timer finds nothing that was sent and stops ("otherwise, we have nothing
  to send", 2653). They wait until another message is forwarded.

The others need only a configuration that names the claim:

| Claim | Instance | What happens |
|---|---|---|
| `AcceptedMeansOpen` | `TwoSenders.cfg` with `Spec` | `rcv.c:109`: the ACK timer's acknowledgement 0 goes to a waiting sender, which takes it for its acceptance ("filename have been successfully sent", `ncp.c:83`) and sends its file to a receiver that declines it |
| `HeadInWindow` | `RealTime.cfg` | `rt_srv.c:219`: when nothing in the server's window is fresh, `head` runs to the end of the integers, and nothing is ever resent again |
| `AnswersEveryNack` | `RealTime.cfg` | `rt_srv.c:172`: the first packet resent overwrites the NACKs behind it; and when the application has overrun the window, the slot has a later packet, which is resent instead |
| `StreamStaysWithClient` | `RtClients.cfg` | `rt_srv.c:153`: data go to whoever wrote last, a declined client included |
| `RequestAnswered` | `RtLiveness.cfg` with `AskFairSpec`, `Estimates = {1}`, `Report_Interval = 2`, `MaxTime = 4` | `rt_srv.c:188`: a client whose permission was lost is never answered again ("Keep Sending request every 1s until we get reply from sender", `rt_rcv.c:117`) |
| `FinishDelivers` | `Liveness.cfg`, `DATA_LEN = 2`, `LongFile` | `ncp.c:169`, `270`: the sender says "Finish Sending the file" while the last packet may be undelivered, and then nobody resends |
| `WritesWhatWasRead` | the same with `Spec` | `rcv.c:199`: a short last packet is written with bytes of an earlier datagram behind it, when it arrives as first sent (without its NUL). With a stack that is not zero even a full packet is written with a byte of the sender's stack behind it, unless the file name filled the buffer: `one_sender` has a stack of NULs, `two_senders` file names of full length |
| `WindowAsDrawn` | `Liveness.cfg` with `Spec`, `RcvCap = 5`, `NcpCap = 1` | `rcv.c:235`, `295`: packets up to `C_ack + 1 + WINDOW_SIZE` are buffered, the last in the slot of the expected packet, where the search of the window does not look ("Buffer Window:[C_ack+2, ....... C_ack+Window_size+1]", `rcv.c:49`). A session that a late file name opens gets late packets that far ahead; one that stays in its slot is written as the packet `WINDOW_SIZE` further on |
| `FinishedIsFinal` | `Liveness.cfg` with `Spec` | `rcv.c:132`: a late copy of the file name opens the finished file again and empties it |
| `NamesArrive` | `TwoSenders.cfg` | `rcv.c:158`: replies carry bytes of a buffer nobody wrote, and overwrite the name a declined sender goes on sending: its session opens, and empties, another file ("filename have been successfully sent", `ncp.c:83`) |
| `WaitEnds` | `TwoSenders.cfg` with `FairSpec`, `RcvCap = 1` | `ncp.c:171`: the datagram that ends a session is sent once; if it is lost, every later sender waits forever |
| `DeliverOnTime` | `RtLiveness.cfg` with `PromptSpec`, `Estimates = {1}`, `Report_Interval = 2`, `MaxTime = 6` | `rt_rcv.c:195`: the wait for datagrams does not end when a packet is due, only when the next report is, up to five seconds later |
| `MeanOfTheRecord` | `Averages.cfg` with `DriftingOffsets`, `RoundTrips = {1}`, `MaxSamples = 12` | `rt_rcv.c:313`: with a full record, differences of less than `RECORD_SIZE` microseconds per sample are rounded away; a slow drift of the clocks is never followed |
| `DeliversWhenDue` | `Averages.cfg` | `rt_rcv.c:305`: the microseconds of a mean leave their range, and the comparison with the delivery time goes wrong |

## 6. What is not modelled

Of p1 and p2: report counters and rates; stdio buffering of the received file of p1 (its
tail is flushed only when the process ends); host names, command lines, socket errors;
overflow of sequence numbers (2^31 packets are 2.9 TB); the payload of p2 packets (its
last twelve bytes are lost, see the hazards); a p2 client that stops or starts anew; the
TCP baseline, whose two loops copy a stream.

Of Spines: time as a number, and with it the loss and latency estimates and whether two
ends that lost each other connect again (it depends on how hello periods and
`stable_timeout` relate); daemons that misbehave, against which the intrusion-tolerant
link is made; wireless monitoring; the group states. Sessions, the dissemination
protocols above the links (`session.c`, `reliable_session.c`, `reliable_flood.c`,
`priority_flood.c`), route computation and dissemination graphs, and the client library
have no module: they are most of the lines of Spines, a third party's program that the
experiments of p4 run. The scanner and parser of the configuration are generated.

## 7. Plan

1. Done: p1, p2, and the parts of Spines that carry messages between daemons and decide
   who is connected, model-checked; the proofs of section 4.
2. Proofs: every invariant of the runs has its theorem. What is proved next comes with the
   next models.
3. Next models: the group states of the flooding; `priority_flood.c` over
   `IntrusionTolLink`; the flushed part of each received file of p1.
