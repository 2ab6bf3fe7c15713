# TLA+ specifications of the SDV drowsiness gateway

This directory holds TLA+ models of the MCU firmware (`MCU/src`, C++ on Zephyr)
and of the MPU application (`mpu`, Python), the TLC configurations that check
them, and TLAPS proofs of the properties that matter most. Paths below are
relative to the root of the repository.

## 1. The system

The MPU watches the driver and sends SOME/IP events to the MCU: a heartbeat
every 50 ms and a Notify with a drowsiness level. The MCU turns levels into
CAN-FD frames and supervises the heartbeat: 100 ms of silence lead to a SAFE
state that warns on CAN until the MPU is heard again. On the board the events
travel over a UART; on a PC they travel over UDP, where SOME/IP service
discovery (SD) runs as well.

| Component | Code | State it keeps | Operations |
|---|---|---|---|
| Supervision | `MCU/src/safety.cpp`, loop of `main` in `main.cpp` | `safe_state`, safety timer, hardware watchdog, LED | timer expiry, kick, boot, reset, LED toggle |
| CAN gateway | `MCU/src/can_gateway.cpp`, `can_thread` | `drowsiness_level`, `alive_counter` | take a level, build a frame, send, clear; the warning of the callback |
| UART receiver | `someip_uart_receive` | `rx_buf`, `rx_len`, `last_rx_tick` | poll a byte, resynchronise, return a frame |
| UDP and SD consumer | `someip_thread`, `someip_service.cpp` | socket, `last_find`, two session counters | init, FindService, receive, Subscribe |
| SD wire format | `someip_sd.cpp`, `mpu/someip/sd.py` | none | builders, `sd_parse`, `parse_sd` |
| SD server | `SdServer` in `sd.py` | `_first`, `_session`, `_stop`, `_thread` | start, stop, `offer_once`, advertiser thread |
| SD client | `SdClient` in `sd.py` | results of one `discover` | FindService, receive until a deadline |
| Drowsiness application | `mpu/ai/drowsiness.py`, and its older copy in the Yocto image | `counter`, heartbeat counter | detection loop, simulation loop, heartbeat thread, exit and restart |
| Event format, transports | `protocol.py`, `transport.py`, `client.py` | serial port; `_buf` of `StreamParser` | build, send; `feed` |
| Scripts, containers, Yocto image, vsomeip files, CI, documents | `scripts`, `docker`, `yocto`, `config`, `docs`, `wireshark` | none of the running system | - |

How they interact:

- Docker (`restart: unless-stopped`) or systemd (`Restart=on-failure`) starts
  the MPU process again when it ends.
- Heartbeat thread and detection loop share one transport; a packet reaches
  `someip_thread` on the MCU (lowest priority), which writes
  `drowsiness_level` and calls `safety_kick_watchdog`.
- `can_thread` polls `drowsiness_level` every 10 ms. The safety callback sends
  its warnings through the same `can_send_frame` and `alive_counter`.
- The callback, `main` and `someip_thread` share `safe_state` without a lock;
  the priorities of the scheduler order them.
- SD messages go to one multicast group. The MCU hears its own. `SdServer` has
  no socket that receives: it advertises on its own and answers nobody.

What is hard: preemption between statements that read and write shared
variables; two timers (100 ms and 150 ms) that race; a byte stream that must be
cut into packets again after a loss or a restart; threads that share a counter
in Python; deadlines and 32-bit clocks; sends that fail. `PROJECT.json` lists
these hazards one by one with the line where each bites and the properties
that cover it.

What makes each component correct:

- Supervision: SAFE exactly after a silence, NORMAL again at the next packet,
  warnings for as long as SAFE lasts, no reset in SAFE (false, see section 5).
- CAN gateway: no level goes out twice, the alive counter advances, and every
  level goes out (false, see section 5).
- UART receiver: no invented event, no overflow, resynchronisation; every
  packet received (false, see section 5).
- SD: parsers stay inside the datagram and agree; one advertiser; sessions
  advance; FindService leaves periodically; offers are answered and nothing else
  is; `discover` ends at its deadline with everything it heard.
- Application: an alarm comes in bounded time, heartbeats survive failing
  sends, and after the end of `main` detection and heartbeats come back, as far
  as the supervisor's policy reaches.
- End to end: a dead MPU is noticed in bounded time, a living one is not taken
  for dead unless a heartbeat was lost, and after any crash NORMAL returns.

## 2. Modules

| Module | Models | Notes |
|---|---|---|
| `SafetyMonitor` | supervision, with kick, callback and LED loop statement by statement | time in ticks of any unit |
| `HeartbeatContract` | what supervision promises, with atomic steps | abstract specification of `SafetyMonitor`; the MCU in `HeartbeatLink` |
| `HeartbeatLink` | heartbeat thread, lossy link and supervision composed | crashes and restarts of both sides |
| `CanGateway` | `can_thread`, `someip_thread`'s Notify, the warning path | `alive_counter++` is a load and a store |
| `UartReceiver` | sender and receiver of the tunnel, byte by byte | real packet, real header layout |
| `StreamParser` | `StreamParser` of `protocol.py` on the same line | extends `UartReceiver` |
| `SdMessages` | SD messages as records | used by the SD modules |
| `SdParser` | `sd_parse` iteration by iteration, `parse_sd` as a function | sizes modulo the word size |
| `SdServer` | start, stop and `offer_once` statement by statement | threads and an owner |
| `SdClient` | `discover` | lossy, flooding network |
| `SdNetwork`, `MCSdNetwork` | `SdClient` and `SdServer` on one group | extends the first, instantiates the second |
| `SdConsumer`, `MCSdConsumer` | `someip_thread` over UDP | lossy, reordering, echoing network |
| `MpuApp` | `drowsiness.py` of the container and of the image | ticks of 50 ms |
| `ZoneControllerProofs` (of `SafetyMonitor` and `CanGateway`), `HeartbeatLinkProofs`, `UartReceiverProofs` (of `StreamParser` too), `SdParserProofs`, `SdServerProofs`, `SdConsumerProofs`, `SdNetworkProofs` (of `SdClient` too), `MpuAppProofs` | theorems | |

### State and actions against the code

*SafetyMonitor.* `timer`, `wdt`: ticks left of `safety_timer` and of the
watchdog window. `cb`: where `safety_timeout` is (it can lose the processor
only inside `can_send`). `rx`: the next statement of `safety_kick_watchdog`
(`KickFeed`, `KickRestart`, `KickRecover`). `mainPc`: between the check and the
toggle of `main`. `SafetyTimeout` and `WarnReturn` are the two halves of the
callback around `can_send`; `enter_safe_state` is inlined. `WdtReset` puts
everything back to power-on values. `lag` bounds by `MAX_LAG` how long a ready
thread can be kept waiting; that bound is an assumption about the scheduler.
The comment in the code places the callback on the system work queue, where it
may block; the model follows it.

*HeartbeatLink.* `gap` is the time since the heartbeat thread last sent; `Beat`
is one round of the thread (send, whose exception is caught, then sleep).
`wire` holds the ages of the packets on the way: `Deliver` takes one off,
`DeliverOne` leaves a copy, and a lost one never gets on it. The MCU is the
contract, whose `Heartbeat`, `Enter`, `Fail` and `Start` are the kick, the
expiry, the watchdog reset and the boot; that the statements of `safety.cpp`
implement these steps is the refinement proved for `SafetyMonitor`. Every
packet counts as a sign of life, a Notify too, as in `main.cpp:82`.

*CanGateway.* One action per statement of `can_thread` that touches shared
state. `someip_thread` has a lower priority and runs only while `can_thread`
is blocked; the callback may run anywhere. The safety timer is reduced to
`fresh`: no expiry within a period of a kick, and (proved in `SafetyMonitor`)
no second callback while one is in `can_send`. One expiry at most falls into
the few instructions between load and store. `owed` is the level that
`can_send` must still be given: one that arrives while `can_thread` sleeps.
While another level is in `can_send` nothing is owed, because `CanClear` drops
what arrives there (section 5).

*UartReceiver.* A tick is the `k_sleep(10 ms)` of the receiver. `line` is what
waits in the UART; `LoseByte` drops its first byte (overrun or noise), at most
`LOSSES` times. `Abort` ends the sender in the middle of a packet; it writes
again no earlier than `RESTART` ticks later (systemd `RestartSec=3`, Docker's
restart delay). At exactly 50 ms both outcomes of the timeout test are allowed,
because sleeps last at least as long as asked. The packet is a heartbeat whose
counter `PAYLOAD` is the same in all of them; the runs give it the value 18
(0x12), which is also the first byte of the service id, and the theorems hold
for every value.

*StreamParser.* `feed` gets every byte that `uart_poll_in` returns, at the same
instant; `pyLate` is what the clock says at the next call. The MCU reads the
clock before each poll and the Python code at each byte, which makes no
difference for bytes of one poll. `feed` and the validation in `parse_event`
are one step, because their caller makes them one after the other.

*SdParser.* The datagram is what the parsers branch on. The four checks of
`sd_parse` are one step, its loops one step per iteration; `reach` records the
last byte read. Sums are taken modulo `SIZE_MOD`. `PyParse` is what `parse_sd`
makes of the same datagram, trailing bytes included; only blocks behind the
fourth, which `sd_parse` never looks at, count as sound.

*SdServer.* One owner calls `start` and `stop`, and may call `offer_once`
itself; threads run `_run`. `_session += 1` is a load and a store. `quad` says
whether `inet_aton` accepts the address.

*SdClient.* One call of `discover`. Datagrams are SD messages of any number of
entries and options, packets that `parse_sd` refuses, and the bare header on
which it raises `IndexError`. As in the code every matching entry of a message
gets the message's first endpoint (`FirstEndpoint`).

*SdNetwork.* The steps of `SdServer` next to those of `SdClient`. `OfferSent`
puts the offer into the socket of the search, if it is open and has room;
`sleep` is the wait of `_run` for the period or the stop event, and `late` how
far the advertiser thread is behind in this round. FindService has no effect on
the server, as in the code. A search is excused if the server did not run all
the time, or if the socket had no room for an offer; `failed` counts the sends
that failed in a search that is not excused.

*SdConsumer.* Anything the peers ever send may arrive at any time, several
times or never; the thread's own FindService and Subscribe may come back.
Nothing tells where a datagram comes from, as `someip_udp_receive` looks at no
address: whoever sends an event of the service kicks the watchdog. `FindLeaves`
and `FindFails` are the two outcomes of `sendto`, of which only the first
resets `sinceFind`; without a socket there is only the second. A tick is the
50 ms receive timeout; `Delay` stands for threads of higher priority.

*MpuApp.* The main thread and the heartbeat thread of one process. `app` says
which of the two programs it is: the one of the container has a transport, a
heartbeat thread and `restart: unless-stopped`; the one of the Yocto image has
no heartbeat, logs a failed `sendto`, and is restarted on failure only.
`ProcessExits` is the end of the interpreter, which kills the daemon thread;
`Restart` begins anew with the initial values. Frames, faces and closed eyes are
inputs; threads run as soon as their sleep is over, so detection is modelled at
its fastest. Sends succeed or raise.

A definition whose comment begins with "A fault" is a plausible bug of the
definition after it. It is used by no action; it exists to show that a property
notices the bug (`mutants` in `PROJECT.json`).

## 3. Runs

`tlc -config <run>.cfg <module>.tla`; the module of each run is in
`PROJECT.json`. Real values are used where the state space allows it.

| Run | Module | Properties | Shows |
|---|---|---|---|
| `safety_code` | SafetyMonitor | `SilenceDetected`, `NoFalseAlarm`, `ResetOnlyFromSafe`, `ExpiryNeverOverlaps`, `LedGlitchBounded`, `WarningsNeverStop`, `KickRecovers`, `ImplementsContract` | SAFE after every long silence and after nothing else, whichever statement an expiry interrupts |
| `link_code` | HeartbeatLink | `DeadMpuNoticed`, `NoFalseSafe`, `Heals` | the same from end to end, over a link that loses, repeats and delays |
| `can_code` | CanGateway | `AtMostOnce`, `CounterAdvances`, `LevelIsTaken` | no level is sent twice, and none that arrives while `can_thread` sleeps is lost |
| `uart_code` | StreamParser | `BufferBounded`, `NoPhantom`, `CalmFrameReturned`, `ParsersAgree` | what the tunnel guarantees on a stream that is cut, delayed and deprived of bytes |
| `sd_server_code` | SdServer | `OneAdvertiser`, `KeepsOffering`, `StopReturns`; `RebootAtMostOnce` and `SessionsAdvance` while only the thread offers | the advertiser under start, stop and a second caller |
| `sd_parser` | SdParser | `ReadsInBounds`, `PeersAgree` | any datagram, and where exactly the two parsers differ |
| `sd_consumer` | MCSdConsumer | `FindPeriodic`, `SdTakenAsBuilt` | FindServices that leave across wraps of the clock and failing sends, and the SD messages of the repository taken for what they are, the own echoes too |
| `sd_network` | MCSdNetwork | `NothingMissed`, `EndpointIsOffered`, `RunningServerFound`, `DiscoverReturns` | what a search reports, and how long it must last to find a server that never answers |
| `mpu_code` | MpuApp | `CounterIsExcess`, `DetectsInTime`, `HeartbeatsComeBack`, `DetectionComesBack` | detection within a process, and across its exits and restarts |

`safety_code`, `link_code`, `can_code`, `sd_server_code` and `mpu_code` also
check their module's `TypeOK` (`CanTypeOK` in `CanGateway`). The three runs of section 5 check one property
each, which the code violates.

Bounds, and why they are enough:

- `safety_*`: a tick is 5 ms, so 100, 150 and 5 ms are 20, 30 and 1 ticks. The
  watchdog device is there or not (`wdtReady`, chosen at power-on): without it
  SAFE lasts, with it the SoC is reset. `silence` saturates past the timeout,
  where nothing depends on it any more. The safety properties and the
  refinement are proved for all values.
- `link_code`: a tick is 10 ms; period 50 ms, timeout 100 ms. Jitter (1 tick)
  and delay (2 ticks) leave the slack that `LinkAssumption` asks for, so that a
  late packet is harmless and a lost one is not. Ages are bounded by `DELAY`
  and packets of one age are one element of `wire`, so the set needs no further
  bound; the safety properties are proved for all values.
- `can_*`: two levels besides zero, one of them the 0xFF of a warning, and two
  notifications of each; a double send and a lost level need two. The counter
  wraps at 3.
- `uart_*`: real packet and buffer. `LINE_BOUND` is three bytes, more than
  arrive between two steps of the receiver; a packet may straddle any tick.
  Two lost bytes reach both ways to damage a frame: one inside it, and one in
  each of two neighbours.
- `sd_server_code`: two thread identities suffice, as a dead one is used again;
  sessions wrap at 3; the owner makes at most one call of `offer_once`.
- `sd_network`: the search lasts 5 ticks, a round of the server at most 2
  (`PERIOD + JITTER`): with no or one failing send a search is `LongEnough`, and
  both of its rounds can be needed; with two it is not. With the code's own
  ratio, `TIMEOUT = PERIOD`, no search is `LongEnough`, and TLC finds one that
  misses a running server as soon as the conjunct is taken out. One datagram
  waits in the socket; what else arrives is an offer of the same service from
  another server, a Subscribe, a message with two offers whose option runs
  differ behind an option that is no endpoint, a message with a StopOffer and an
  offer, a packet that is refused, or the bare header.
- `sd_parser`: sizes and length fields at the boundaries of every check, with
  a 12-bit word, so that sums wrap; the theorem covers all of them.
- `sd_consumer`: a period of 5 receive timeouts, a clock that wraps at 16, up
  to two ticks of delay per iteration, one waiting datagram (every order of
  arrivals is still possible), sessions wrapping at 3, real buffer size, up to
  two refused sends in a row, and among the offers one of vsomeip that is longer
  than the buffer.
- `mpu_code`: the real 15 frames of 100 ms, at most 2 faces in a frame. Faces
  beyond a counter of 27 are not counted, as the level is 100 from 25 on. The
  closed form of the counter is compared over every sequence of up to 7 faces.
  `HB_MAX` is 1: only the wrap of the heartbeat counter matters.

Deadlock is checked except where the program ends or halts: the parser and
`discover` return, the application of the image exits for good, and `main` of
the MCU may return before it has started anything.

Fairness:

- `SafetyMonitor`: time passes, the boot goes on, the callback and the kick
  finish once they have begun (a preemptive scheduler and a bounded
  `can_send`). Packets and the wake-ups of `main` are not promised.
- `HeartbeatLink`: time passes, the heartbeat thread is scheduled, the MCU
  boots and its timer expires, and a packet that has reached its greatest age
  arrives (or was lost when it was sent). No restart of the MPU and no delivery
  of a particular packet is promised: `Heals` has them as its premise.
- `CanGateway`: `can_thread` runs on: nothing above it keeps the processor.
- `SdServer`, `SdNetwork`: started threads are scheduled, a method that was
  entered runs on, and time passes. Nobody is obliged to call a method, and the
  network owes nothing.
- `MpuApp`: ready threads are scheduled, time passes, an interpreter whose main
  thread is over exits, and the supervisor restarts what its policy covers. The
  camera is not fair.

## 4. What is proved

All proofs are checked by TLAPS for every value of the constants that satisfies
the named assumptions of the modules.

- `ZoneControllerProofs`, supervision. The inductive invariant (`IndInv`) relates `timer`,
  `silence`, `wdt` and `lag`: until the first expiry `timer` and `silence` add
  up to the period; NORMAL lasts only while the silence is not longer than the
  period; a kick past `k_timer_start` began at most `lag` ticks ago; in NORMAL
  the watchdog was fed at most `MAX_LAG` ticks before the timer was restarted; a
  callback in `can_send` leaves before the next expiry. Without the first of
  these neither `SilenceDetected` nor `NoFalseAlarm` is inductive, because
  `silence` is only a history variable; without the watchdog's,
  `ResetOnlyFromSafe` is not. The refinement (`ImplementsContract`) uses the
  same invariant: each step of the code is a step of the contract or a stutter.
- `HeartbeatLinkProofs`. `NoFalseSafe` needs `SteadyInv`: since nothing was lost,
  the silence of the MCU is no longer than the gap since the last heartbeat, or
  than the longest gap plus the age of a packet that is still coming; with
  `PERIOD + JITTER + DELAY < TIMEOUT` both are below the timeout.
  `DeadMpuNoticed` needs `AloneInv`: packets of a dead MPU are as old as its
  death, so the silence lags behind it by the delay of the link at most.
- `ZoneControllerProofs`, CAN. The invariant adds to `AtMostOnce` that a level that is
  pending or in a frame has one notification to spare, and that between load
  and store the counter is the loaded one or its successor (the callback runs
  there at most once). `CounterAdvances` follows from the latter. For the types
  one needs as well that `can_thread` sends a frame only after its store.
  `NoOwedLevelIsLost` is the safety half of `LevelIsTaken`: a level that is owed
  is the shared one, or in the frame that `can_thread` is building.
- `UartReceiverProofs`. A buffer of at least 16 bytes holds a valid length field
  and is shorter than the frame it announces, so it is shorter than 40 bytes,
  whatever bytes were lost. `ListenerIsPassive`: the receiver of `StreamParser`
  adds nothing to the line and the MCU, so what is proved of `UartReceiver`
  carries over to it. `ParsersAgree` needs that both buffers hold the same bytes
  whenever they are looked at (`SameBytes`), although one drops what is late
  before a poll and the other at the next byte. `NoPhantom` needs `PieceInv`: as
  long as no byte was lost the buffer is one contiguous piece of the stream of
  packets, `line` continues it, and a sender that was cut short writes again only
  after the receiver has seen the silence (`RESYNC < RESTART`). A frame that is
  returned begins with the service id, whose two bytes follow each other in one
  place of a packet only, whatever its payload (`ServiceOnlyThere`), so it ends
  where its length field says. `CalmFrameReturned` adds `CalmInv`: the bytes of a
  packet after a silence are together in buffer and line, from the first on.
- `SdParserProofs`. The checks before the loops bound the sums so that none of
    them wraps; each loop keeps its offset within its length field and its index
  within its array. `PeersAgree` needs no induction over the datagram: `blocks` is
  what the loop has walked over, and `slots` are always the endpoints that
  `parse_sd` finds in it (`AgreeInv`), by the effect of one more block. That
  `sd_parse` is more lenient only about message type and options follows from
  the checks it has passed (`ChecksSuffice`).
- `SdServerProofs`. `OneAdvertiser`: a live thread is the one `_thread` names,
  and between `start`'s two statements no thread is alive. `RebootAtMostOnce`
  and `SessionsAdvance` need a second invariant (`OfferInv`): as long as the
  owner has made no call of its own, whoever is inside `offer_once` is alone
  there (`Undisturbed`, from the first invariant), and `_session`, the number
  loaded and the last number built are in step at every statement (`InStep`).
  `TypeOK` bounds `_session` also when the owner interferes (`Bounded`): only a
  caller between its += 1 and its wrap can leave it above `MAX_SESSION`, and
  each call of the owner can push it at most two further.
- `SdConsumerProofs`. `Elapsed` is the time since `last_find`; because lag and
  period stay below the width of the clock, the 32-bit subtraction of the code
  equals it across a wrap (`DueMeansElapsed`). `ElapsedBounded` says how large
  it can be at each point of the loop, `StampClose` that the second reading of
  the clock lies at most one lag after the send. From these follow the bounds on
  `sinceFind`, a period for each send that failed (`FindIsPeriodic`); they speak
  of an MCU that has a socket, because without one nothing leaves.
  `BuiltMessagesTaken` compares the receiver with the builders, not with itself:
  an offer as `build_offer_service` builds it is understood, since one entry and
  one option fit into 64 bytes; whatever the other builders build has no live
  offer in it; and an SD message never reaches the kick. So the MCU's own echoes
  do not keep it in NORMAL, and its Subscribe causes no other.
- `SdNetworkProofs`. For `SdClient` alone and next to a server: `ClientInv` says
  that `recvfrom` is given exactly what is left of the timeout, that the inbox
  holds messages of the group, and that every service heard has an endpoint,
  which later messages replace by an endpoint only. From it follows
  `NothingMissed`. `EndpointIsOffered` says of the endpoint of a service no more
  than that it came in a message which offers that service: with several entries
  the code may give a service another one's endpoint, so no more is true.
  `RunningServerFound` needs `OnTime`: as
  long as nothing was found, the time that the search has taken and the time
  until the server sends (rest of its wait and lateness its thread may still
  have) are together no more than a period and a lateness for each failed send
  and one more; an offer that waits in the socket replaces the second summand.
  A tick moves time from the second to the first, and a failing send adds a
  round. A search that is `LongEnough` is longer than the sum, so it has found
  something. No assumption makes it so, and the default search of 2.0 s next to
  a period of 2000 ms is not: of that one the theorem says nothing.
  `ServerInv` says that the thread of a running server is alive until stop.
  `NetworkImplementsServer`: the server of `SdNetwork` is the one of `SdServer`.
- `MpuAppProofs`. `DetectsInTime` needs `DetectInv`: while eyes stay closed each
  frame adds at least one to `counter`, so the counter bounds the time that has
  passed, counted in frames, with a case for the position in the frame; once it
  reaches `CONSEC` a Notify is at hand or was sent (`Pending`).
  `CounterIsExcess` needs that `counter` is the largest excess of all stretches
  (`ExcessInv`): a closed face makes every excess larger by one, an open one
  smaller by two, and the empty stretch starts at zero.

Assumptions: the scheduling bound `MAX_LAG` and a callback that ends before the
next expiry (`WARN_TIMEOUT < HEARTBEAT_TIMEOUT`), a watchdog window longer than
the timeout plus the lag, one expiry at most between load and store of the
alive counter, a UART that delivers the bytes it does not lose in order, a
resynchronisation timeout of more than one poll (50 ms and 10 ms in the code)
and shorter than the pause before a restart, the slack of `LinkAssumption`, a
clock wider than a period and its delays and a receive buffer with room for an
entry and an option but not for two entries and an option (56 and 72 bytes; 64
in the code; `ConsumerAssumption`), messages that have the fields of
`SdMessages` (`MulticastAssumption`), and a server whose own offers reach the
group (`NetworkAssumption`).

Only model-checked: the liveness properties `WarningsNeverStop`, `KickRecovers`,
`LevelIsTaken`, `KeepsOffering`, `StopReturns`, `DiscoverReturns`,
`HeartbeatsComeBack`, `DetectionComesBack` and `Heals`, which depend on fairness
and are outside the prover's reach (of `LevelIsTaken`, the part without
fairness is `NoOwedLevelIsLost`). Every other property of the passing runs is a
theorem.

## 5. Where the code and its documents disagree

Each of these has a run whose single property is violated
(`expect: violation`). `PROJECT.json`, "findings", quotes the statements.

| Run | Property | What happens |
|---|---|---|
| `safety_wdt_reset` | `SafeStateHeld` | SAFE is entered without feeding the watchdog, which resets the SoC 50 ms later; without an MPU the MCU reboots for ever |
| `uart_heartbeat` | `HeartbeatsKeepNormal` | the padding of a packet can swallow the next packet, so heartbeats every 50 ms do not keep the MCU out of SAFE |
| `can_lost_level` | `EveryLevelIsSent` | a level that arrives while another one is in `can_send` is cleared with it (`CanClear`) and never sent |

Smaller ones were noticed while the models were written and have no run of
their own. The models show the behaviour; no property states the document's
claim.

| Where | Document or comment | Code |
|---|---|---|
| `MCU/src/main.cpp:53` | `README.md:65`: what was received is sent as a CAN frame | a level whose frame fails is cleared like one that was sent |
| `MCU/src/main.cpp:61` | `main.cpp:66`: FindService is sent again every 2 seconds | the result of `someip_init` is ignored: without a socket nothing is ever sent, and `FindPeriodic` speaks of an MCU that has one |
| `MCU/src/main.cpp:82` | `docs/hardware_verify_guide_kr.html:246`: the heartbeat of the MPU keeps the MCU in NORMAL | so does an event from any other host, because no address is looked at (`FromOthers`) |
| `mpu/someip/sd.py:180` | `sd.py:162`: an invalid packet raises ValueError | 16 bytes raise `IndexError`, which ends `discover` (`PyParse`, `ReceiveHeader`) |
| `MCU/src/main.cpp:132` | `main.cpp:130`: in SAFE the LED is owned by safety | check and toggle are two steps, so `main` may toggle it once in SAFE (`LedGlitchBounded` proves "at most once") |
| `MCU/src/can_gateway.cpp:33` | `can_gateway.h:7`: an alive counter protects the frames | the increment is not atomic: two frames in a row can carry the same value (`CounterAdvances` is what remains) |
| `MCU/src/can_gateway.cpp:33` | `docs/hardware_verify_guide_kr.html:224`: 0 to 15 | 0 to 255 |
| `MCU/src/someip_service.cpp:104` | `mpu/someip/protocol.py:100-102`: padding is discarded, on the MCU too | the 7 padding bytes arrive after the reset of `rx_len` and begin the next frame |
| `mpu/someip/sd.py:264` | `sd.py:242`: the first advertisement is 0xC0 | `_first` is cleared before the send; a first send that fails loses the flag |
| `mpu/someip/sd.py:267` | `sd.py:243-244`: thread-safe | concurrent calls of `offer_once` repeat a session, hence the condition `calls = 0` in `SessionsAdvance` |
| `MCU/src/someip_service.cpp:279` | `MCU/src/someip_sd.h:40`: four options | the offer of vsomeip with `config/vsomeip.json` has 68 bytes, the buffer 64: it is not answered |
| `MCU/src/someip_service.cpp:266` | `someip_service.cpp:248`: a unicast to the provider | it goes to 127.0.0.1:30490, the MCU's own port, and `SdServer` never receives anything |
| `mpu/someip/sd.py:311` | `sd.py:303`: a FindService and the offers that answer it | nobody answers, and `discover` waits 2.0 s, exactly the period of the server: one late offer, and a running server is not found (`LongEnough` is false of the defaults) |
| `mpu/someip/sd.py:360` | `sd.py:307-308`: offers that have an endpoint option | every offer of a message gets the message's first endpoint, whatever its option run; `EndpointIsOffered` is what remains |
| `mpu/ai/drowsiness.py:163` | `drowsiness.py:48`: closed for one second | 15 frames take 1.4 s at best (`DetectsInTime`) |
| `mpu/ai/drowsiness.py:165` | `drowsiness.py:127`: the heartbeat always runs | one Notify that raises ends `main` and the heartbeats, until the container is restarted |
| `mpu/ai/drowsiness.py:136` | `drowsiness.py:130`: a test mode for machines without a camera | a process that starts before its camera sends random levels for ever and never looks for it again; `DetectionComesBack` excludes it |
| `mpu/ai/drowsiness.py:82` | `docs/user_guide_kr.html:144`: the MCU reacts when the MPU stops | heartbeats go on while the camera hangs |
| `yocto/.../sdv-mpu.service:13` | restart of a service that ends | a failed camera read leaves `main()` with exit code 0, which `on-failure` takes for success (`Restarted`; `DetectionComesBack` speaks of the container, and of failing sends of the image) |
| `yocto/.../drowsiness.py:49` | `mpu/someip/protocol.py:8`: the length field counts 8 bytes and the payload | 17 for a payload of 1: `parse_event` would refuse the packets of the image |

## 6. Not modelled

- Build files, CI, container images, Yocto recipes, scripts, tests and
  captures: they run nothing of the system or hold no state. The restart
  policies and delays they configure appear in `MpuApp`, `HeartbeatLink` and
  `UartReceiver`.
- `crc8` and `e2e_crc8`: pure functions of the frame bytes whose result nothing
  in the repository checks, so no behaviour depends on it.
- `eye_aspect_ratio`: never called.
- `generate_demos.py`, `trigger_test.py`, `pc_sim_test.py`: command line tools
  that print or send a fixed sequence.
- The bytes the SD builders pack: messages are records of the fields that a
  receiver looks at. Logging, and the bytes of a packet that nobody reads.
- vsomeip itself; its offer for `config/vsomeip.json` is an input of
  `sd_consumer`.
- OpenCV, the camera, the IP stack, the UART driver and the CAN controller:
  their results are inputs.
- Two threads writing to one serial port: pyserial is external, and a packet of
  24 bytes goes out in one system call, so packets do not mix in the model.

## 7. Plan

Done: the modules of section 2, and a theorem for every safety property that a
run checks.

Next, in this order:

1. The safety half of the liveness properties: bounded versions (how many ticks
   until `LevelIsTaken`, `StopReturns`) that a theorem can state.
2. `SdServer` with a second owner thread, as its docstring allows, and what
   remains of the sessions then.
3. Supervision and CAN gateway composed, with the real safety timer in place of
   `fresh`; `ZoneControllerProofs` has the theorems of both sides.
