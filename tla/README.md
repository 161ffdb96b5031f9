# Formal models of the ZBOSS ZigBee stack

TLA+ models of the ZigBee stack in `src/zboss_test_project/stack`, the TLC
configurations that check them, and TLAPS proofs. Paths below are relative to
that directory. The reference build is the Linux one (`ZB_PLATFORM_LINUX_PC32`,
network simulator over pipes: `ZB_NS_BUILD`, `ZB_MANUAL_ACK`, `ZB_SECURITY`);
where the code differs between builds, the models follow this one.

1. [Inventory](#1-inventory)
2. [Modules and how they correspond to the code](#2-modules-and-how-they-correspond-to-the-code)
3. [Runs](#3-runs)
4. [Proofs](#4-proofs)
5. [Disagreements found](#5-disagreements-found)
6. [Not modelled, and the plan](#6-not-modelled-and-the-plan)

## 1. Inventory

A device runs a single thread. `zb_sched_loop_iteration()` runs the MAC main
loop, then all queued callbacks, then the alarms that are due, and starts over
while any of them did something; then it waits for a frame or for the timer in
`zb_mac_wait_for_ext_event()`. Layers talk to each other by putting a callback
with a buffer reference into the ring (`ZB_SCHEDULE_CALLBACK`) or by a direct
call. There are no locks: what makes the code hard is that every request is cut
into callbacks, and state that one callback leaves in a table or global is used
by another one much later, after frames, timeouts and other requests.

| Component (source) | State | Operations | What makes it correct |
|---|---|---|---|
| Buffer pool (`common/zb_bufpool.c`) | free list, `bufs_allocated[2]`, queues of callbacks that wait for an IN or OUT buffer | get, get delayed, free | exact accounts, one owner per buffer, neither direction can starve the other, waiters are served |
| Scheduler (`common/zb_scheduler.c`) | callback ring `cb_q`, MAC ring `mac_tx_q`, alarm queue `tm_queue` and its free list | schedule, cancel, loop iteration | no callback lost, alarms in order and on time, entries neither lost nor doubled |
| Stack timer and wait (`common/zb_time.c`, `osif/unix/zb_mac_transport_linux_pipes.c`) | `timer`, `timer_stop`, `started`, `start_t`, `time_delta_rest_ms`, `time_delta_rest_us` | start, stop, wait for event | wakes up for the first alarm; comparisons survive the wrap of 16 bits; the timer keeps time |
| APS sender (`aps/aps_main.c`, `zdo/zdo_app.c`) | retransmission table, one alarm per entry, APS counter | data request, command, NLDE confirm, ACK frame, ACK timeout, confirm | each request confirmed once and truthfully; entry, alarm and buffer agree in every order of events |
| APS receiver (`aps/aps_main.c`, `aps/aps_dups.c`) | queue of packets that wait for their ACK, last counter and clock of every peer, duplicate timer | data indication, send ACK and continue, timer | what is queued is acknowledged; copies are rejected, first packets are not |
| Address translation (`common/zb_address.c`) | `addr_map[]` (open hash), `short_sorted[]` index, lock counts | by long, by short, update, delete, lock, unlock | index and table agree, searches are exact, locked entries stay |
| Neighbor table (`nwk/nwk_neighbor.c`) | base and extended table, `addr_to_neighbor[]` | get, update, delete, extended start and stop | one entry per address reference, references stay valid, bounds |
| NWK data service (`nwk/nwk_main.c`) | handles of confirms to come, broadcast transaction table, pending status | data request, forward, MCPS confirm, broadcast retry | every packet forwarded, confirmed or freed once; a broadcast is relayed once |
| Routing (`nwk/nwk_cr_mesh_routing.c`, `nwk/nwk_cr_tree_routing.c`) | routing table, route discovery table, packets that wait for a route | RREQ, RREP, expiry of discovery and of packets, tree next hop | no loops, pending packets end, discoveries expire, tree addresses are unique |
| Join, formation, leave (`nwk/nwk_join.c`, `nwk_cr_join.c`, `nwk_formation.c`, ...) | NWK state, parent, children, address pool | association, rejoin, leave, formation | parent and child agree; addresses are not reused while in use |
| MAC (`mac/*.c`) | `tx_wait_cb`, ACK wait, pending (indirect) queue, scan state | data request, ACK, retry, poll, scan, association | one transmission at a time, each request confirmed, an indirect frame goes to its poller once |
| Binding and groups (`aps/aps_bind.c`, `aps/aps_main.c`) | source and destination tables, group table, pass-up queue | bind, unbind, add and remove group, pass up | tables agree after deletion; each member endpoint gets a packet once |
| Security (`secur/*.c`) | key sets, active key, frame counters | transport, switch, update device, encrypt, decrypt | counters never go back, a key switch loses nobody |
| ZDO (`zdo/*.c`) | start-up state, outstanding requests with callbacks and timeouts | start, client requests, server answers | every request answered or timed out once; start-up ends |
| Platform, transports, driver (`osif/`, `../linux_drv`) | descriptors, trace | I/O | I/O |

Interactions that matter to the models: APS sender and receiver, NWK, MAC and
ZDO all draw on the buffer pool; a freed buffer wakes a waiting callback through
the ring; the retransmission table, the duplicate check and every retry live on
alarms; the duplicate check keeps its memory in the address table; the neighbor,
binding and security tables keep references into the address table.

Hard behaviours are listed with their lines as `hazards` in `PROJECT.json`. The
main groups: buffers and queues at their limits; an event that comes before,
after or instead of the one the code expects (APS ACK before the MAC confirm,
second ACK, timeout during a transmission, no confirm at all); time that wraps
and a timer that stands still; memory left in a slot by its previous owner; a
table, its index and its counters drifting apart over long sequences of calls.

## 2. Modules and how they correspond to the code

Every module has `Init`, one action per function that changes state, `Next`,
`Spec`, and where liveness is checked `FairSpec`. Definitions carry the names of
the functions they model. A definition whose name ends in an underscore and a
word (`Wakes_RxBlocksOut`) is a deliberately faulty variant of the one after it;
it shows that the properties notice that fault and is used nowhere else. History
variables that exist only for the properties are marked below.

### BufPool - the pool, the callback ring and the receive half of the MAC loop

| Variable | Code |
|---|---|
| `freelist`, `bufs_allocated`, `is_in_buf` | `ZG->bpool` and the header of each buffer |
| `buf_queue` | `sched.outbuf_queue` (0) and `sched.inbuf_queue` (1), sharing `ZB_BUF_Q_SIZE` entries |
| `cb_q` | ring of callbacks; the running one stays at its head until it returns |
| `rx_need_buf`, `mac_receive_pending` | MAC context and scheduler flag |
| `held` | buffers referenced by running code, globals or tables (no code equivalent) |
| `did_something`, `pc` | position in `zb_sched_loop_iteration()` |

The users of the pool (all layers) are one nondeterministic process: wherever
their code runs (`UserPc`) it may take an OUT buffer, ask for a delayed one, free
or pass on one it holds, or schedule a callback without a buffer. It never frees
a buffer it does not hold: that is the contract; whether a layer keeps it is the
question of that layer's own module (`BuffersOwned` in `ApsRetrans`, `EntriesSound` in
`NwkBroadcast`, `HalvesFit` in `MacIndirect`). The free list is a set, because no property depends on which
free buffer is taken, except in `zb_free_buf()`, where the model uses that the
list is a stack and the waiter receives the very buffer that was freed.

### AlarmQueue - delayed callbacks and the timer

`tm_queue` is the queue with its head first, `tm_freelist` the free entries,
`running` the entry in neither list while its callback runs. `timer`,
`timer_stop` and `started` are those of `zb_time.c`; `start_t`, `rest_ms` and
`rest_us` are what `zb_mac_wait_for_ext_event()` keeps between waits. A wait ends
any number of microseconds after the last one, up to the timeout the code passes to
`select()` plus `MaxLate`. From them the action computes what the code computes:
`Delta` counts seconds and microseconds apart and rounds the latter to 0,
`Advance` converts to beacon intervals with the remainders of earlier waits,
`KeepRest` keeps or drops remainders. The units are constants (1000, 1000 and
15.3 ms in the build). The timer moves only if it is started, as in the code.
`left` in an entry is history: how many beacon intervals the waits still have to count
until the entry is due, without any wrap and whether or not the timer was started. It
is time of the stack timer, not real time: the two part, because of the remainders
(`TimerKeepsTime`, section 5). `WriteInstead` is the call that has a frame for the
pipe and does not wait. `InsertPos` keeps a quirk of the list code: stepping back from
the first entry leads to the tail.

### ApsRetrans - the APS sender

`hash`, `aps_counter` and `alarms` are the retransmission table, the counter and
the scheduled `zb_aps_ack_timer_cb` alarms per entry. `owner` and `packet` say
who may touch a buffer and which request it carries. The network layer is
abstract: `nwk_q` are the buffers it has yet to transmit, `nwk_sent` the ones
whose confirm is to come. It transmits, or drops a frame it cannot route
(`NwkDrop`; `zb_nwk_forward()` and `zb_nwk_mesh_expiry_pending()` free the buffer
and confirm nothing). `confirm_q` holds the scheduled `zb_apsde_data_confirm`
callbacks. `reqs`, `copies`, `acked`, `result` are history. The four kinds of
request are data with an ACK request, data with one but without a bound
destination, an APS command to one device, and everything without an ACK.
Abstracted: endpoints, clusters, profiles and header layout (the APS counter
tells requests to a peer apart), APS encryption of the payload, the wait for the
short address of a destination that is only known by its long one.

### ApsReceive - the APS receiver

`addr_map` has the slots of the address table with the fields of the duplicate
check, `dups_alarm_running` and `alarms` its timer, `ack_q` the packets that wait
for an OUT buffer. The OUT half of the pool is counted (`out_free`,
`out_granted`, `out_others`); `BufPool` shows that the pool behaves like that.
`out_queue` are the requests that wait for an OUT buffer, for an ACK and for other
parts of the stack. Requests for IN buffers (`in_waiting`) take their entries from
the same list of `ZB_BUF_Q_SIZE`; without an entry left the request for an ACK is
refused (`refused`) while its packet stays in `ack_q`. Peers number their packets and may repeat any of their last
`Outstanding` ones. `sent`, `copies`, `queued`, `acked`, `got`, `up`, `bad`,
`last`, `age`, `repeats` are history. Lookup by short address is assumed to be exact here;
`AddrMap` is the module about it.

### AddrMap and AddrPairs - the address translation table

`addr` is `ZG->addr`. The operators on the table (`addr_add`,
`add_short_sorted`, `del_short_sorted`, `short_search`, `ieee_search`) take a
table and return one, and compose as the calls do. `del_short_sorted` is modelled
with the bytes behind the index, because `memmove()` moves one of them in and the
scan then looks at it; behind the last element of the array that byte is the low
byte of `n_elements`. `aborted` becomes true where the code fails a `ZB_ASSERT`;
nothing happens afterwards. Compression of long addresses, the table of PAN
identifiers and the clock bits (which nothing reads) are left out.

`AddrPairs` is the abstract specification: a set of pairs of a long and a short
address, either of which may be unknown. A device is first heard of by one
address (`LearnIeee`, `LearnShort`), both become known (`Bind`, which replaces
everything known about either address), a device is forgotten (`Forget`). The
property `ImplementsPairs` is refinement under the mapping that takes the pairs
of the used entries.

### NwkBroadcast - broadcasts in the network layer of a router

| Variable | Code |
|---|---|
| `buf` | where every buffer is: free, in a table, with the MAC, or the callback it is scheduled for; its frame and MSDU handle |
| `brrt`, `brrt_cnt` | broadcast retransmission table: buffer, retries, `neighbor_table_iterator`, `passive_ack` |
| `btt`, `btt_cnt` | broadcast transaction table, with its expiry counters |
| `wait_alloc`, `dup_req` | buffers to be duplicated, and the calls of `new_buffer_allocated()` to come |
| `out_req`, `again`, `tx_alarm` | the three ways in which `nwk_broadcast_transmition()` is called: with a buffer that was asked for, from the ring, from its alarm |
| `stat_req`, `btr_alarm`, `joined` | status indication to come, expiry of `btt`, the leave flag |
| `asked`, `confirmed`, `expired`, `indicated`, `received` | history |

One device is modelled and its neighbors are the environment: they repeat
broadcasts (passive ACKs), originate them, or are silent. The order of the
callback ring is left open, and alarms fire at any moment after they were set:
both allow more than the code does. `TransmitBuf` is the long function
`nwk_broadcast_transmition()`: it chooses an entry whose time has come,
skips originators, sends the frame as a broadcast or as a unicast to the next end
device child, keeps the copy and gives the original to the MAC. `AckBits` is the
size of `passive_ack[]` in bits: the conditional expression in its size
(`include/zb_nwk_globals.h:120`) makes it one byte whatever the size of the
neighbor table. Writes past it are not modelled; the instances stay below eight neighbors.
`LeaveSpec` adds `zb_nwk_do_leave()`, which clears counters but no entries.

### MeshRouting - route discovery on several routers

`route`, `disc` and `pend` are the routing, discovery and pending tables of every
router, `bufreq` the calls of `zb_nwk_mesh_initiate_route_discovery()` that wait
for a buffer, `heard` the requests still in the broadcast transaction table,
`msgs` the requests and replies in flight, `pkt` where each data packet is.
Messages are a set: they come in any order, and one that is never taken is lost.
Requests and replies carry the costs of the code (`NWK_CALC_PATH_COST`,
limited to 7) added up in a byte. Discovery entries and pending packets expire at any moment, with
one restriction on time: the copies of a request are on the air for nine seconds
at most and a discovery entry lives for twenty, so copies that have not arrived
when the entry of their request expires are dropped. What an expiry does to the
routing table depends on places: `zb_nwk_mesh_expiry_route_disc()` passes a condition
with its own index `i` to `NWK_ARRAY_FIND_ENT`, which declares an `i` of its own, so that
routing entry j is compared with entry j of the discovery table, in use or not. The model
therefore keeps the place of every route (`slot`) and the destination that every
place of the discovery table held last (`dest_addr`, at first the zero of fresh
memory, the address of the `Coordinator`); `Matching` and `GivenUp` are the routes that
the condition finds and the first of them. `LateNodes` are routers
that a copy may reach after their transaction entry is gone. `forgot` is history: the
requests for which some router gave its discovery entry up because of a reply. Left out: the status
indication of a failed discovery, the alarm that drives the expiry, RREQ retries
(compiled out), many-to-one routes (absent from the code).

### TreeJoin - association and the addresses of the tree

`nib` are the limits of the tree (`max_children`, `max_routers`, `max_depth`),
`nwk` what a device knows of itself (address, depth, `cskip`, children counted,
whether it is started and permits joining), `nbt` and `used` its neighbor table,
`pendq` the association responses that wait in the MAC queue of a parent, `join`
and `seen` the attempt under way and the beacons it chose from. A response is
taken by the child with or without its ACK reaching the parent, or expires; a
parent whose response failed deletes the child
(`zb_mlme_comm_status_indication()`), but keeps it counted. Beacons of a scan
lie in memory behind the neighbor table, so how many of them get an entry after the
join is left open (`kept` in `JoinDone`). Every address is a number, computed by the
code's own arithmetic (`Cskip`, `Assigned`); `Growth` is the repeated multiplication of
`zb_nwk_daa_calc_cskip()`, and `Blocks` the sizes the blocks should have, by
recursion over the depth, which the properties compare with. `JoinAssumption`
keeps the tree within the 16 bits of an address; the stack's own tree, 32 children
of which four are routers on five levels (`common/zb_ib.c:132`, `nwk/nwk_main.c:120`), does so
with 10913 addresses.
`CrossAnswers` = FALSE excludes one case: a device gives up a request
as one kind of device, asks as the other kind and is then handed the first response. `Movers` leave and join again, `Announcers` are heard by
others. Left out: link quality in the choice of a parent (any candidate may be
chosen), orphan scan and permit-join timing.

### NwkKeys - network keys and frame counters

`nib[n]` has the slots of `secur_material_set` with their labels, the active
index and label, and both outgoing counters of node n; `auth` is
`aps.authenticated`; `nbr[n][m]` the label and counter n keeps for m; `q` the
frames that have reached a node; `keySw` and `swLeft` the state of a key switch
by broadcast or by unicasts; `pend` a frame the trust center is to forward under
the key it came with. `switches`, `frames`, `joins` count, and bound, what
happened. A key is the number of the slot it was generated in, so that "the right
key under the right label" can be stated; `Zero` is an empty slot or the all-zero
key that stands for "keep your key". All devices are children of the trust center
and hear only it; a device may miss any frame but the transport of its key.
Updates relayed by a router, link keys and APS security are left out.

### MacIndirect - the transmitter and the pending queue of a parent

`slots` and `timers` are `pending_data_queue` and the alarms of its slots,
`pending_buf` is `MAC_CTX().pending_buf`, `mac_tx_q` the ring of TX callbacks,
`tx_wait_cb` the second half that waits for the end of a transmission, with the
slot and frame kept in `mac_storage`. `upper` are the buffers the layers above
hold, and as what; `lost` the buffers nothing refers to any more. `aired`,
`unsecured`, `crashed` and `overlapped` are history: which data frames were
transmitted, which ones a poll could not secure, whether a
null buffer was used, and whether another callback or a timeout changed
`pending_buf` or the slot between the halves of a poll. The radio, CSMA and MAC
retries are one step. The acknowledgement of a data request is a transmission of its own that
raises `tx_cnt` (`osif/unix/zb_mac_transport_linux_pipes.c:222`), so the second half of a poll comes whether or
not the frame was sent.

Several safety properties are conjunctions of named parts that fail together or
belong to one question; the parts stand above them in the modules
(`BuffersOwned` is `EntryOwnsBuffer /\ NwkOwnsBuffer`, `TableExact` is
`IndexExact /\ SearchExact /\ EntriesExact`, and so on).

## 3. Runs

Sizes are those of one machine with two workers.

| Run | Checks | Distinct states | Result |
|---|---|---|---|
| `bufpool` | `TypeOK`, `AllocExact`, `HalvesIndependent`, `OneOwner`, `NoBufferLost`, `OutWaitServed` | 290 000 | hold |
| `alarm` | `TypeOK`, `QueueSound`, `RunsWhenDue`, `AlarmRuns` | 478 000 | hold |
| `aps` | `TypeOK`, `BuffersOwned`, `RetriesEnd`, `ConfirmsMatch`, `OkMeansAcked`, `EveryRequestConfirmed` | 58 000 | hold |
| `rcv_safety` | `TypeOK`, `DupMemorySound`, `DupRejected` | 1 370 000 | hold |
| `rcv_acked` | `OneBufferPerPacket`, `EveryQueuedAcked` | 316 000 | hold |
| `addr` | `TypeOK`, `TableExact`, `ImplementsPairs`, `LockedSurvives` | 105 000 | hold |
| `nwk_broadcast` | `TypeOK`, `EntriesSound`, `OnceOnly` | 1 214 000 | hold |
| `mesh` | `MeshTypeOK`, `RepliesGetBack`, `HeldOnce` | 230 000 | hold |
| `tree_join` | `JoinTypeOK`, `UniqueWithinQuota`, `BlocksNested` | 776 000 | hold |
| `keys` | `TypeOK`, `KeysAgree`, `CountersAdvance` | 236 000 | hold |
| `keys_index` | `ActiveIndexMatchesSeq` | | violated |
| `mac_indirect` | `TypeOK`, `SlotTimers`, `HalvesFit` | 344 000 | hold |

What the passing runs show, module by module, is in the comment of each property;
the configurations of section 5 show properties the code does not have.

### Bounds, and why they are enough

*bufpool.* Six buffers are the smallest pool the assumption allows: the MAC
keeps three, so one OUT and two IN buffers change hands. That lets each half fill
up, both queues of waiters grow, a waiter be woken by each kind of free, and the
ring wrap around every mixture of entries. The ring has six places, `MaxPlain` =
2 callbacks without a buffer may be queued: three buffers that travel, two plain
callbacks and the running one fill the ring exactly, so `NoBufferLost` is tight;
in the configured stack 13 buffers travel and the ring has 16 places, which is
the same margin. It is the code that keeps the number of plain callbacks small;
the model takes it as a bound, and `NoBufferLost` holds under it only. The proofs
below hold for every size of the pool.

*alarm.* Three entries, delays 0 and 1, a timer of 9 values (it wraps many times;
`AlarmAssumption` keeps any two times of the queue within half of the range, as
`ZB_TIME_GE` needs), one API call between two waits. Three entries give all the
positions of insertion (head, middle, tail) and a full queue. A second has two
milliseconds of two microseconds each and a beacon interval takes 2.3 of them, which
rounds as 15.3 does: there are waits of less than a millisecond, of less than a beacon interval,
across the end of a second and remainders of both kinds. `MaxRest` = 3 cuts off
the waits that leave more in `time_delta_rest_us`.
The invariants also hold (2 600 000 states) with `MaxDelay` 2, `MaxCalls` 2, `UsPerMs` 1,
`MsPerSec` 3, `MaxRest` 2, `MaxStall` 3 and `TimeSize` 13; there no remainder above `MaxRest`
can come about, and nothing is cut.
In the stack half of the range is 503 seconds; the longest alarm, the end of permit
joining, takes at most 255, and the 16 bits of `delta` hold 66. The
remainder stays below 30 seconds: each end of a second adds a millisecond to what
`delta` and the remainder make, and 15 of them drop it. So the assumption holds with
room.

*aps.* Two requests of any kind in two buffers, three transmissions per packet as
configured, an APS counter that starts at its last value and wraps. `MaxOutstanding`
is below the size of the table, `MaxAcks` = 1 and `DropKinds` = {"unacked"}
exclude the three situations that the configurations of section 5 exhibit (last entry of the
table, second ACK, acknowledged packet without a route), so the run says that
everything else works. Requests stop at `MaxReqs`, so the run ends in states
without a step (`CHECK_DEADLOCK FALSE`). The liveness property covers data
requests with an ACK: a command has no confirm to the upper layer and an
unacknowledged request may be dropped.

*rcv_safety.* Peer `p1` sends two packets and may repeat the first after the
second, peer `p2` sends one, one of the three comes twice; the ACK queue has two
places and there is one OUT buffer, so it is full and empty, and every packet may
or may not ask for an ACK and pass security. `ZB_BUF_Q_SIZE` = 0: a request that
finds no buffer is refused, its packet stays in the queue for ever. `DupCheckTimeout` = 2 time units and
`DupWindow` = 3: the clock of a slot starts at 3 and the first tick comes after 0
to 2 units, so a copy is rejected for at least two full periods less one step.
`Leaves` = 0 here because a slot that is reused rejects the first packet of its
new owner (section 5). *rcv_acked* has one slot in the table for two peers and
one departure, which gives the reuse, a full table, and the race between timer
and departure. Two requests can wait for a buffer, from any part of the stack, so
the one for an ACK is served, waits behind others, or is refused. After a refusal
one packet too many is in `ack_q` and nothing is promised any more
(`EveryQueuedAcked` has `refused > 0` as its way out; section 5).

*addr.* Three entries, two long addresses with the same hash, which is the last
slot, so that every search wraps and collides (and the two are
interchangeable, which the run uses as a symmetry); three short addresses, among them
0, the address of the coordinator and the content of a fresh entry. `LockSize` = 2
makes the overflow of the lock count reachable, `MaxDeletes` = 2 entries may be
deleted. `DoubleHits` = FALSE excludes the deletions in which
`del_short_sorted()` meets the deleted reference again behind the index; the configuration
`MCAddrMap_index.cfg` has them (`DoubleHits` = TRUE) and fails. After a failed assertion
nothing happens: `CHECK_DEADLOCK FALSE`.

*nwk_broadcast.* Two router neighbors and one sleeping end device child, a
broadcast of the device's own and one that comes from the child: the passive ACKs
have to come from two routers, the copy for the child is a unicast, and the
originator among the children is skipped. Two OUT and two IN buffers are fewer
than two broadcasts with their copies need, so every wait for a buffer happens;
the transaction table has one entry and is full for the second broadcast, the
retransmission table has two. Two retries, two frames received in all, and
transaction entries that live for one run of the expiry. The run ends when no more
frames come: `CHECK_DEADLOCK FALSE`.

*mesh.* Routers 1, 2 and 3 hear each other, the link between 1 and 3 is bad, 4
hears 3 and 5 hears 4. The direct request over the bad link usually comes first
and the cheaper one by way of 2 replaces it, which is the case the replies are at
risk in; behind the triangle the request and the reply have two more hops to
overtake one another. Two packets, from 1 to 5 and from 5 to 3, so that 3 and 4 have
requests and routes for two destinations; tables of two entries are what the wrong
index of the expiry needs to give up the route of a discovery that still lives, and it
does in this instance (`MCMeshRouting_aged`). `MaxId` = 1 request per router, copies may
come late at 3. The upper layer gives its packets a radius of one hop: otherwise every
router that gets one starts a discovery too, and the run does not end in time. The
routing and discovery tables are therefore never full here; full tables are in the
theorems, which hold for every size, and (one entry, four hops) in the instances of
`MCMeshRouting_loop` and `MCMeshRouting_assert`. Two
discoveries of the same destination that start at two routers can send a packet
in a circle until its radius is used up; loops of data packets are not excluded by
any property here.

*tree_join.* A coordinator, two routers that may join at either of two levels, an
end device that moves; two configurations, with two routers and one end device for
every parent, and with one of each, where the second router has to join below the first. Three association
requests reach a parent altogether; the neighbor table is full with two entries,
the MAC queue with two responses. Both routers are interchangeable (symmetry).
Blocks and addresses are compared under `WithinQuota`, because a parent hands the
unused places of routers to end devices (section 5). In both configurations the quota is
one end device; in the stack's own tree it is 28.

*keys.* Two devices, four secured frames, two frames waiting per node, one key
switch: enough for an update, a switch under the old key, a frame forwarded under
the old key after the switch, and a join or rejoin between any two of them. After
a second switch the active index is wrong (`keys_index`, `MaxSwitches` = 2), so
one is the most the agreement can be checked for. Devices are interchangeable.

*mac_indirect.* Four buffers, one child that polls by its short and its long
address, two slots and two ring entries: one poll, one frame in the slot, one request behind
it and one that does not fit. Buffers are interchangeable. Nothing follows the use of a null buffer,
which an overlap may lead to: `CHECK_DEADLOCK FALSE`.

### Fairness

The loop of a device never ends and every callback returns, so every queued
callback and every expired alarm is run: weak fairness of the loop's steps
(`BufPool`, `AlarmQueue`) and of each scheduled callback (`ApsRetrans`,
`ApsReceive`). In `AlarmQueue`, strong fairness of a wait that takes at least one
microsecond says that real time passes: a wait that always returns at once because
frames keep coming is the only alternative. In `BufPool`, strong fairness of
freeing an OUT buffer is the contract of every holder; it is an assumption about
all layers, which the modules of the layers check for theirs. The network layer
transmits or drops each frame and the MAC confirms each transmission
(`ApsRetrans`). No fairness is given to the peers: ACKs may never come.
The five modules of the network layer, the keys and the MAC state safety only:
what they wait for (a neighbor, a poll, a buffer of another layer) is outside
of them, and `EntriesSound` and `SlotTimers` say instead that a step that goes on
is always to come.

## 4. Proofs

Eight modules hold the proofs: one for each of `BufPool`, `AlarmQueue`, `ApsRetrans`,
`ApsReceive`, `NwkKeys` and `MacIndirect`, `NwkRoutingProofs` for `NwkBroadcast`
and `MeshRouting`, and `AddressProofs` for `AddrMap` and `TreeJoin`. TLC shows a property
for the instance of section 3, the theorem for every value of the constants that
the assumptions of the module allow: every pool, table, queue and counter size,
every number of devices, requests and retries. A hypothesis
of a theorem beyond these assumptions is a named operator of its module; each
stands for a disagreement of section 5 or a width of the code, is true of the
instance of the run, and is listed below with what is known without it.

| Module | Theorem | Property | Hypothesis |
|---|---|---|---|
| `BufPoolProofs` | `PoolInvariant` | `PoolInv` | |
| | `TypeCorrect`, `CountersExact`, `PoolHalvesIndependent` | `TypeOK`, `AllocExact`, `HalvesIndependent` | |
| | `SingleOwner` | `OneOwner`, `OutWaitOnlyWhenFull` | |
| | `RingLosesNothing` | `NoBufferLost` | `RingLongEnough` |
| `AlarmQueueProofs` | `AlarmInvariant` | `AlarmInv` | |
| | `TypeCorrect`, `QueueStaysSound`, `RunsAreDue` | `TypeOK`, `QueueSound`, `RunsWhenDue` | |
| `ApsRetransProofs` | `ApsInvariant` | `ApsInv` | `NormalUse` |
| | `TypeCorrect`, `BuffersStayOwned`, `RetriesAreBounded` | `TypeOK`, `BuffersOwned`, `RetriesEnd` | `NormalUse` |
| | `ConfirmsAreMatched`, `ReportsAreTrue` | `ConfirmsMatch`, `OkMeansAcked` | `NormalUse` |
| `ApsReceiveProofs` | `RcvInvariant` | `RcvInv` | |
| | `TypeCorrect`, `BufferForEveryPacket`, `ClocksTick` | `TypeOK`, `OneBufferPerPacket`, `EveryClockTicks` | |
| | `DupMemoryIsSound` | `DupMemorySound` | `NobodyLeaves` |
| | `DuplicatesRejected` | `DupRejected` (a step property) | `RoomForAll` |
| `AddressProofs` | `AddrInvariant` | `AddrInv` | `~DoubleHits` |
| (`AddrMap`) | `TypeCorrect`, `TableStaysExact` | `TypeOK`, `TableExact` | `~DoubleHits` |
| | `LockedEntriesSurvive` | `LockedSurvives` (a step property) | `~DoubleHits` |
| | `PairsImplemented` | `ImplementsPairs` (refinement) | `~DoubleHits` |
| (`TreeJoin`) | `JoinInvariant`, `JoinTypeCorrect` | `JoinInv`, `JoinTypeOK` | |
| | `TreeInvariant` | `TreeInv` | `RoutersStay`, `~CrossAnswers` |
| | `AddressesUnique`, `TreeBlocksNested` | `UniqueWithinQuota`, `BlocksNested` | `RoutersStay`, `~CrossAnswers` |
| `NwkRoutingProofs` | `BroadcastInvariant` | `BroadcastInv` | `TablesFit` |
| (`NwkBroadcast`) | `TypeCorrect`, `EntriesAreSound`, `DeliveredOnce` | `TypeOK`, `EntriesSound`, `OnceOnly` | `TablesFit` |
| (`MeshRouting`) | `MeshInvariant` | `MeshInv` | |
| | `MeshTypeCorrect`, `TablesHoldOnce` | `MeshTypeOK`, `HeldOnce` | |
| | `ReplyFindsOriginator` | `RepliesGetBack` | `CostsFit` |
| `NwkKeysProofs` | `KeyInvariant` | `KeyInv` | `OneSwitch` |
| | `TypeCorrect`, `KeysAreAgreed`, `CountersKeepAdvancing` | `TypeOK`, `KeysAgree`, `CountersAdvance` | `OneSwitch` |
| `MacIndirectProofs` | `MacInvariant` | `MacInv` | |
| | `TypeCorrect`, `SlotsAreTimed`, `HalvesFitTogether` | `TypeOK`, `SlotTimers`, `HalvesFit` | |

The hypotheses:

- `RingLongEnough`: the ring of callbacks has a place for every buffer the MAC
  does not keep, for `MaxPlain` callbacks without a buffer and for the one that
  runs. 16 places and 16 buffers (`include/zb_config.h:354`, `372`) satisfy it with
  `MaxPlain` = 2, and the instance with equality.
- `NormalUse`: one entry of the retransmission table is spare, a packet is
  acknowledged once, and a packet that asks for an ACK finds a route. The three
  configurations `MCApsRetrans_*` fail without the three parts.
- `NobodyLeaves`: no device leaves, so no slot with a running clock is reused
  (section 5). `RoomForAll` adds that every peer finds a slot and that a copy comes
  within two periods of the duplicate timer.
- `~DoubleHits`: no deletion meets its reference a second time behind the index;
  `MCAddrMap_index` fails otherwise.
- `TablesFit`: at most 255 entries in the tables of broadcasts. `brrt_cnt` and
  `btt_cnt` are bytes, and a counter that wraps to 0 with entries in use is wrong.
- `CostsFit`: seven times the number of routers fits in a byte, so at most 36
  routers. `path_cost` is a byte (`nwk/nwk_cr_mesh_routing.c:345`): on a longer path it
  would wrap and make a long way look cheap.
- `RoutersStay`: end devices may leave and join again, devices that can be routers do not.
  `MCTreeJoin_move` fails otherwise. `~CrossAnswers`: a response is taken for the request it
  answers; `MCTreeJoin_answers` fails otherwise.
- `OneSwitch`: one key switch; after a second one the run `keys_index` shows the
  wrong active index.

In `AlarmQueue`, the assumption of the module does the work: a delay and what one wait adds
to the timer (`MaxStall`) together stay below half of the range of the timer. How the waits compute
what they add is not restricted otherwise. In `MacIndirect` no hypothesis is
needed, because `HalvesFit` itself speaks of the behaviours in which nothing has
come between the two halves of a poll.

### The arguments

None of the properties is inductive as it stands. What each invariant adds, and why:

*PoolInv.* `AllocExact` needs `OneOwner`: `zb_free_buf()` decrements a counter, so
it has to be called for a buffer that is not free. `OneOwner` needs to know that a
running callback is the head of the ring (`RunningInRing`), or the buffer it
received would be counted twice, and that the MAC's own buffers stay in its hands
(`MacBufsReserved`), because parameter 0 means "no buffer" while 0 is also the index
of one of them. `HalvesIndependent` follows by arithmetic: if the free list were
empty, both counters together would be the size of the pool, and each is at most
half of it. For `NoBufferLost` the ring is counted (`RingHasRoom`): the queued
callbacks have different buffers, none of them the MAC's or the one about to be
queued, so there is a place left for it. `OutWaitOnlyWhenFull` (a callback
waits for an OUT buffer only while that half is used up) is established here and not
repeated in a run.

*AlarmInv.* The order of the queue is stated by the time left (`QueueInOrder`:
the stored time is the current one plus the time left, modulo the range, and what is left
is within half of it); that makes `ZB_TIME_GE` mean what it says across any number of wraps
(`AlarmQueue` is therefore modelled with the macros' arithmetic, not with an order on
times). `Covered` and `Apart` say where an entry is, `LoopInOrder` what is true at the places
of the loop.

*ApsInv.* `EntryMatches`, `PacketHasEntry`, `OneAlarmPerEntry` and the two owner
invariants tie entry, alarm, buffer and request together in both directions: an ACK,
a confirm or a timeout finds the entry only by parts of the request. Counters of 8 bits
identify a request because of `CountersDiffer`: fewer requests were made than the
counter has values (`MaxReqs` in `ApsAssumption`), so ages differ. `RetriesCounted` relates the retries
left to the transmissions made, with one case for a transmission still
queued; `AckNoted` and `ConfirmsTrue` carry the truth of the confirm from the ACK to the
callback.

*RcvInv.* `Counted` keeps the accounts of every packet: what came is queued or
processed, what was queued is waiting or acknowledged. `OneBufferPerPacket` does the
same for the requests, granted, waiting and refused ones, so the head of `ack_q` exists
whenever a buffer comes. The memory of duplicates has
two invariants of its own, for behaviours in which nobody leaves: `MemInv` (a running
clock stands for the last packet of the slot's peer) and `WindowInv` (age, clock and
the time left on the alarm add up to at least two periods until the window is over).

*AddrInv.* It is a predicate of a table (`Sound`), because operations compose within
one step: `zb_address_update()` deletes, moves and inserts. `Indexed(a, S)` says that the
index lists the entries S in ascending order, with S changing from call to call within an
operation. On it rest the lemmas on the searches: the binary search of
`short_search()` and the different one of `add_short_sorted()` return the
position a plain scan would (`LowerBoundFinds`, `UpperBoundFinds`), the open hash looks
at every slot (`ProbeFinds`), `del_short_sorted()` takes one entry out although its scan
continues over what `memmove()` brought (`DeletesOne`), and there is a free place
whenever an entry is inserted (`IndexFits`, by counting). Refinement: every operation
keeps the pairs, adds one about an unknown address, replaces what was known of both
addresses, or removes one (`PairsStep`), which is what `AddrPairs` allows.

*BroadcastInv.* Table entries and buffers determine each other (`EntryBufs`), counters
count entries, and `Driven` (a part of `EntriesSound`) needs all of it: an entry that is not done has its alarm,
its request or its callback. `RetriesBounded` follows an entry through the two phases of
`nwk_broadcast_transmition()`. `GoesUp` counts for `OnceOnly`: what was or will be
indicated is covered by one entry of the transaction table each.

*MeshInv.* The parts common to all requests: types (`MeshTypes`), every message and every
sender in a discovery entry is a neighbor or the node itself (`OverLinks`,
`SendersAreNear`), one entry per request and router (`EntryPerRequest`), an id is never newer
than `rreq_id` of its originator, and packets are where the pending tables say
(`PacketsPlaced`); `HeldOnce` follows from the last two. Nothing is said of which route an
expiry gives up: any may go, and no other part depends on it. `RepliesGetBack` is not a
matter of one router: `PathsDescend` says that along the senders of a request the stored
forward cost falls at every step (`Descends`), so a circle would have to have a
cheapest member whose sender is cheaper still (`NoCircle`).
A better path lowers a cost, which keeps the order towards the routers behind; to be
sure that the copy which made an entry is still the cheapest its sender ever had,
the invariant also has to say that no router on the way lost its entry while copies
fly (`Remembered`), and that costs do not wrap (`CostsBounded`: at most seven for every router
the request has reached). A router that frees its entry because of a reply breaks the
second part, and the circle is then real (`MCMeshRouting_loop`, section 5).

*JoinInv.* What one device knows: its counts (`SelvesSound`), its neighbor table, of which
`used` is an upper bound and not the number of entries, because the place of a deleted entry is
not used again (`TablesSound`), its queue and its attempt (`AttemptsSound`). It holds whoever moves.
With it comes the arithmetic of the blocks (`BlockSizes`): the quotient that `Cskip` computes is the
size that a recursion over the depth gives, with the division exact, for every depth.

*TreeInv.* A property of the whole tree. For the addresses, a step is one of three kinds
(`Quiet`, `Takes`, `Gives`): no device learns an address, a device takes one it
was given, or a parent gives the next one. `Origin` says that an address known anywhere, in a
device, a neighbor table or a response under way, was given by a router of the tree under
one of its counts, so a count that is never lowered never gives the same address again. `Promised` says that a router
that has not joined yet is known only by addresses that begin a slot of some parent; when it takes one,
its block is that slot. Uniqueness (`NobodyShares`) and nesting (`Tree`) need each
other: the next address lies in the block of its parent and in none of the slots
given before, so nobody has it as long as the blocks are nested; and two routers can only be
placed side by side because no two share an address. Both are stated under `WithinQuota`, which,
since counts never go down, held at every earlier step as well. `RoutersStay` enters because a router that
leaves takes its block with it, with the devices below still in it.

*KeyInv.* `TcStore`, `DeviceStore` and `ToDevices` describe keys and labels at both ends and
in flight, so that a key is never stored under another label; `CountersInOrder` relates the
counter a receiver notes, the frames on their way to it and the counter the sender will use
next, per label, for senders whose counters never started again. It needs `Unheard`: until a
device has a key, nobody noted anything of it.

*MacInv.* `SlotTimers` is inductive with the types. Everything else holds as long as
nothing overlaps (`Undisturbed`): every buffer is in exactly one place, the second half
of a poll finds its request and its frame, and what is confirmed was transmitted or could not
be secured in a poll.

### Induction and searches

Recursive functions (the binary searches and the scan of `AddrMap`, `Growth` of `TreeJoin`) are defined by
`f[x \in S] == e`; that such a function exists and what it returns is proved by
contradiction from the least argument, or the shortest range, for which the claim fails
(`LeastOf`, from `NatLessThanWellFounded`). The same lemma gives the loops "first
entry such that" that the models write as `CHOOSE` of a minimum.

### Only model-checked

- Liveness (`OutWaitServed`, `AlarmRuns`, `EveryRequestConfirmed`, `EveryQueuedAcked`):
  TLAPS does not reason about fairness and `ENABLED`.

## 5. Disagreements found

One is a run of its own (`keys_index`, quoted under `findings` in
`PROJECT.json`): `secur_nwk_key_switch()` leaves its loop at the first slot whose
label differs from the wanted one and stores the number of turns. After the second
switch `active_secur_material_i` names another key than the active one, and
`secur_authenticate_child()` hands that key to a joining device under the
active label.

The others can be reproduced with `tlc -config X.cfg M`; each configuration checks the
one property named, and TLC prints the steps that violate it.

| Configuration `X`, module `M` | Property | What the code does |
|---|---|---|
| `MCBufPool_inwait`, `MCBufPool` | `InWaitOnlyWhenFull` | `zb_free_buf()` does not serve callbacks that wait for an IN buffer while `rx_need_buf` is set, and that flag outlives its cause: they wait with free buffers and an idle radio until the next frame (`common/zb_bufpool.c:229`) |
| `MCAlarmQueue_jump` with `INVARIANT SleepEndsAtHead`, `MCAlarmQueue` | `SleepEndsAtHead` | `zb_timer_start()` keeps a stop time that equals the current time; the process sleeps for the default second although an alarm is due earlier. Alarms are late, not lost: `AlarmRuns` holds (`common/zb_time.c:67`) |
| `MCAlarmQueue_jump`, `MCAlarmQueue` | `TimerKeepsTime` | "track time we spent sleepint inside select()" (`osif/unix/zb_mac_transport_linux_pipes.c:506`): `time_delta_rest_us` collects microseconds that `delta` has counted already, and the whole second less the wait when the wait crosses the end of a second; it is added to the timer (line 553) again and again until a longer wait drops it, with what was left over (line 561). After a short wait across the end of a second the timer is a second ahead, and alarms run that much early |
| `MCApsRetrans_full`, `MCApsRetrans` | `RefusedTakesNoEntry` | `save_ack_data()` refuses a request for which it has just filled the last entry of the table, and accepts one for which there was none (`aps/aps_main.c:1017`) |
| `MCApsRetrans_early`, `MCApsRetrans` | `ConfirmFindsEntry` | a second ACK that comes during a retransmission ends the entry while the network layer has the buffer (`aps/aps_main.c:1054`) |
| `MCApsRetrans_drop`, `MCApsRetrans` | `EveryRequestConfirmed` | a packet without a route is freed without a confirm; its entry stays with the reference of a freed buffer (`nwk/nwk_main.c:792`) |
| `MCApsReceive_refused`, `MCApsReceive` | `RequestPerPacket` | `zb_nlde_data_indication()` puts a packet into `ack_q` and then ignores that `zb_get_out_buf_delayed()` found no entry to wait in: from then on the queue holds a packet no buffer is on its way for, and each later buffer acknowledges the packet before its own (`aps/aps_main.c:607`, `common/zb_bufpool.c:184`) |
| `MCAddrMap_index`, `MCAddrMap` | `IndexExact` | `del_short_sorted()` may count one deletion twice and take another device out of the index; in a fresh table when the entry in slot 0 goes and is not the last one of the index (`common/zb_address.c:711`) |
| `MCNwkBroadcast_early`, `MCNwkBroadcast` | `EndsServed` | the passive ACK of the last router frees the entry of a broadcast before its sleeping children were served, against the rule stated in `nwk_broadcast_transmition()` (`nwk/nwk_main.c:1060`) |
| `MCNwkBroadcast_leave`, `MCNwkBroadcast` | `EntryFound` | `zb_nwk_do_leave()` sets the counters of the tables to 0 and leaves the entries used: `zb_nwk_forward()` then finds no entry where the counter promises one, and the counter wraps below 0 when an old entry ends (`nwk/nwk_main.c:1633`) |
| `MCMeshRouting_assert`, `MCMeshRouting` | `InitiateFindsPending` | the packet that asked for a discovery may be gone (sent by a route found meanwhile, or expired) when the buffer for the request comes: `ZB_ASSERT(0)` (`nwk/nwk_cr_mesh_routing.c:288`) |
| `MCMeshRouting_aged`, `MCMeshRouting` | `UnderwayIsAged` | "free corresponding route record if it's state is not active" (`nwk/nwk_cr_mesh_routing.c:752`): the `i` in the condition is the one that `NWK_ARRAY_FIND_ENT` declares (`nwk/nwk_internal.h:132`), not the index of the expired entry. The route of another discovery is given up, and the one that expired stays underway with no entry that would ever free it |
| `MCMeshRouting_loop`, `MCMeshRouting` | `RepliesAlwaysGetBack` | a router that finds the route of a reply given up frees its discovery entry (`nwk/nwk_cr_mesh_routing.c:562`); a copy of the request that comes late enters it again, by way of a router that is itself behind this one, and the two send later replies to each other |
| `MCTreeJoin_unique`, `MCTreeJoin` | `UniqueAddresses` | end devices may take every place `max_children` leaves, their addresses run into the block of the next router ("TODO: count # of ZR and ZE separately", `nwk/nwk_cr_formation.c:419`; `nwk/nwk_cr_join.c:314`). Counts never go down, so one device that moves often enough does it |
| `MCTreeJoin_move`, `MCTreeJoin` | `BlocksNested` | `zb_nwk_accept_child()` gives a device it knows the address it knows it by, also when that was the address another parent gave and an announcement brought; the router takes its depth from the new parent, and its block overlaps its neighbors' (`nwk/nwk_cr_join.c:272`) |
| `MCTreeJoin_answers`, `MCTreeJoin` | `BlocksNested` | a parent's queue finds a response by the child alone: a device that asked as an end device, gave up and asks as a router takes the address of an end device for its block (`mac/mac_cr_data.c:102`) |
| `MCMacIndirect_context`, `MCMacIndirect` | `ContextSafe` | "Make sure, that there will be no races and context parameters are safe!" (`mac/mac_cr_data.c:413`): a received frame or a timeout between the halves of a poll changes `pending_buf` or the slot; the second half then frees or reports another buffer, or uses a null one |
| `MCMacIndirect_confirm`, `MCMacIndirect` | `ConfirmMeansSent` | a polled frame that `zb_mac_check_security()` refuses is not sent (`mac/mac_cr_data.c:296`), but `tx_wait_cb` is set all the same and the acknowledgement of the poll counts as the transmission it waits for (`mac/mac.c:251`): the frame is confirmed (`mac/mac_cr_data.c:445`) and its slot cleared |

Seen while modelling, without a configuration:

- `delta` has 16 bits of milliseconds: of a wait longer than 65.5 seconds the timer
  counts the rest of the division by 65 536 only, and the alarm it was for is late
  (`osif/unix/zb_mac_transport_linux_pipes.c:546`).
- A request without a bound destination is confirmed with the zero status of its
  fresh buffer, which is success (`aps/aps_main.c:209`).
- A packet is remembered for two to three seconds; a retransmission comes after
  ten (`ZB_N_APS_ACK_WAIT_DURATION`), and only the last counter of a peer is
  remembered, so the order first, second, copy of the first is delivered twice.
- `zb_address_delete()` leaves the duplicate memory and the lock count in the
  slot: the first packet of the next device in that slot may be rejected, and the
  slot is locked by nobody (`common/zb_address.c:688`).
- A lock count of four bits is incremented by every device announcement
  (`zdo/zdo_rx.c:423`) and overflows into a failed assertion.
- `new_buffer_allocated()` asks for one IN buffer more than there are packets to
  duplicate; the buffer that comes when none waits is never freed (state
  `lost` of `NwkBroadcast`, `nwk/nwk_main.c:956`).
- The transaction entry of a broadcast is made before the frame is decrypted, so
  a copy that does not decrypt hides the good ones that follow (`nwk/nwk_main.c:1090`).
- `status_ind` and `status_addr` are single globals: the next failed transmission
  overwrites them before the indication of the last one was made
  (`nwk/nwk_main.c:899`).
- After a discovery failed, nothing expires until the status indication has got
  an OUT buffer (`nwk/nwk_cr_mesh_routing.c:769`).
- A device that rejoins starts its frame counter again while its neighbors keep
  the old one: its frames are refused until it has caught up
  (`secur/zdo_secur.c:142`); an empty key slot has label 0 and is found by that label.
- An indirect data frame that expires is reported as a comm status, which
  deletes the child it was for and leaks the buffer (`mac/mac_routines.c:350`,
  `nwk/nwk_join.c:985`).
- An indirect request that finds the queue full goes to the ring
  `MAC_CTX().out`, which nothing reads (`mac/mac_routines.c:422`).

## 6. Not modelled, and the plan

Left out for good: AES-CCM, header packing and parsing, trace, transports and the
kernel driver (arithmetic on bytes and I/O), the test programs, simulator and
tools. They are most of the lines of the repository. Not modelled so far:

- **Binding table and groups** (`aps/aps_bind.c`), and the pass-up queue of group
  packets: every endpoint takes an IN buffer while the packets that wait hold IN
  buffers themselves (`aps/aps_main.c:803`).
- **ZDO requests**: start-up, the table of outstanding client requests with
  their callbacks and timeouts. What other components see of ZDO is in
  `ApsRetrans`, `TreeJoin` and `NwkKeys`.
- Of the joins: orphan scan, NWK rejoin of a sleeping device, permit-join timing;
  of the MAC: the child's side of a poll, scans and beacons; of the neighbor table:
  the extended table of PANs and the balance of locks with `AddrMap`.
- The composition of `NwkBroadcast` with `NwkKeys` (a broadcast that
  fails to decrypt), and of `ApsRetrans` with `ApsReceive` over a lossy channel,
  with an abstract end-to-end specification.
