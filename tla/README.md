# A verification project for EC_SDK

EC_SDK is the firmware of a WiFi socket: an ESP8266 with Espressif's non-OS SDK that
is told its network by an app, registers with a server over HTTP, keeps an XMPP session
with it, and switches a relay by a plan of alarms and delays. The SDK is binary; what
this repository adds is the logic above its callbacks. This directory holds TLA+ models
of that logic, TLC configurations that check them on small instances, and TLAPS proofs
of what holds for every instance.

All of the firmware runs on one thread. Callbacks of espconn, software timers, the two
tasks and the calls between them never interrupt one another; only the interrupts of
GPIO, UART and SDIO do, and they belong to the drivers. So one handler is one action
of a model, with everything it calls, and the hard behaviour is the *order* in which
handlers come: between a post and its task, between a send and its report, between two
ticks of a timer, and over power losses. In the parsers it is the *cut* of a stream into
segments, and in the drivers what an interrupt finds half done.

## 1. Inventory

| Component (source) | State it keeps | Operations | Module |
|---|---|---|---|
| Connection and send queue (`ec/user/ec_io.c`) | `queue_list`, `queue_count/head/font`, `ec_send_flag`, `ec_espconn`, `ec_ip`, the notify and receive handles | `ec_io_connet`, `ec_io_send`, `ec_io_close`, `ec_io_reconnect`, `ec_io_regist_notifycb`; callbacks for connected, sent, reconnect, disconnected, name found | `EcIo`, over `FrameSender` |
| Life cycle (`ec/user/user_main.c`) | `ec_task_queue[1]` | boot, `ec_task` for `SIG_CG/ST/RG/LG`, `wifiConnectCb`, `server_recv_data` | `Provision` |
| Configuration in flash (`ec/user/user_config.c`) | three sectors, `user_isRegisrer`, `j_config`, `w_config` | `CFG_Save`, `CFG_Load` | `Provision` |
| Registration (`ec/user/user_regiset.c`) | the request under way | request, success, refusal | `Provision` |
| HTTP client (`ec/http/http.c`, `http_io.c`) | the URL's parts, the text that waits for the connection, the parser of the answer | `http_request`, connected, received, the callbacks of the parser | `HttpClient`, with `HttpUrl`, over `HttpParser` |
| HTTP parser (`ec/http/http_parser.c`) | `http_parser`: state, header state, index, content length, flags | `http_parser_execute`, `http_parser_parse_url`, `http_should_keep_alive` | `HttpParser`, `HttpUrl`, `HttpChars` |
| WiFi (`ec/wifi/wifi.c`) | mode, `lastWifiStatus`, the timer `WiFiLinker` | `wifi_connect`, `wifi_check_ip`, `wifi_ap_set` | `Provision` |
| Configuration server (`ec/server/server.c`, `ec/user/user_json.c`) | a parser for each segment; `http_register_url` and the configuration | a segment, its answer | `HttpServer` (segments), `Provision` (what a request does) |
| Plan and relay (`ec/user/user_switch.c`, `user_json.c`, `user_muc.c`) | `user_alarm`, the list of delays and their timers | replace the plan, check, fire, command | `SwitchSchedule` |
| Clock (`ec/user/user_time.c`) | `system_timestamp`, `system_time_timer`, `time_task_queue[1]` | `on_time`, the tick of the minute, its task | `SwitchSchedule` |
| Calendar (`ec/user/user_time.c`) | none | `ec_gmtime`, `ec_mktime` | `CalendarTime` |
| Packet filter (`ec/jabber/filter.c`) | a doubly linked list of rules with scores | add, remove rule, remove hook, packet | `FilterRules`, `IksFilter` |
| XMPP session (`ec/user/user_xmpp.c`, `ec/jabber/stream.c`, `io-posix.c`) | `j_sess`, the stream's parser and filter | login, SASL, bind, session, requests, retry | `XmppSession` |
| SAX parser (`ec/jabber/sax.c`) | context, stack of words, attributes, entity, the character under way | a segment (`iks_parse`) | `SaxParser` |
| XML trees (`ec/jabber/iks.c`, `dom.c`) | nodes with parent, child, sibling and attribute links | making, inserting, hiding, copying, searching and writing; the hooks that build a tree | `IksTree`, `IksDom`, over `XmlTree` |
| Memory of the trees (`ec/jabber/ikstack.c`) | two chains of chunks | `iks_stack_new`, `_alloc`, `_strdup`, `_strcat`, `_stat`, `_delete` | `IksStack` |
| Keys (`driver_lib/driver/key.c`) | level, two timers and the interrupt of each key | the interrupt, the timers of 50 ms and 5 s | `KeyDebounce` |
| UART (`driver_lib/driver/uart.c`) | two ring buffers, the interrupt's masks, the queue of `uart_recvTask` | the interrupt, the task, reading, sending blocks and characters, `UART_CheckOutputFinished` | `UartRx`, `UartTx` |
| SDIO slave (`driver_lib/driver/sdio_slv.c`) | two lists of buffers, the host's status register | `sdio_load_data` step by step, the interrupt and its callback, the end of a transfer | `SdioSlave` |
| I2C master (`driver_lib/driver/i2c_master.c`) | the last levels of both wires | init, start, stop, write, read, acknowledge | `I2cMaster` |
| AT commands, SPI, hardware timer, GPIO16, base64, digests, cJSON | | | not modelled, section 8 |

How they interact:

- `system_on_done_cb` loads the flash and posts `SIG_CG` (no registration) or `SIG_ST`.
  Four callbacks post the rest; the queue has room for one signal and nobody reads the
  result of `system_os_post`.
- The HTTP client and the XMPP transport share the one connection of `ec_io`;
  `ec_io_connet` by the one takes it from the other.
- `ec_io` hands received data to the transport, which feeds the parser; `on_stream`
  gets whole elements, and packets go through the filter to their hooks, which answer
  through `ec_io_send`.
- The hooks `on_time` and `on_message` set the clock and replace the plan; the tick of
  the minute posts to a task of its own, which compares the alarms.
- `http.c` and `server.c` each run `http_parser.c` on the segments they get; the client
  goes on with one parser, the server begins anew with each segment.
- `sax.c` reports tags and text to the hooks of `stream.c` and `dom.c`, which build trees
  on the object stack.
- The drivers stand beside all this: no file under `ec/` calls the keys, the ring buffers
  of the UART, SDIO or I2C. They meet their hardware through interrupts and registers, and
  the interrupt of the SDIO slave may come in the middle of `sdio_load_data`.
- A power loss ends all of it except the three sectors.

What makes each part correct, and what is hard about it, is in `PROJECT.json` under
`hazards`, line by line, with the properties that watch over it. In short:

- *Connection*: frames go out one at a time and in the order they were offered, over a
  direct way and a queue that are chosen by a flag; a refused frame stays; something is
  always under way while frames wait.
- *Life cycle*: nobody logs in with an account that was not registered, a registered
  device finds its configuration, an unregistered one can be told; the device ends up
  with a session over lost associations, lost signals and lost power.
- *Plan*: no timer outlives the node it lies in, a replaced plan does nothing more, a
  delay acts once and not early, an alarm acts in its minute.
- *Calendar*: two conversions written apart agree with each other and with the calendar.
- *Filter*: the list is sound after any sequence of calls; the best rule is asked first
  and every rule that matches is asked.
- *SAX parser*: the cut of the stream into segments makes no difference to what the hooks
  hear.
- *HTTP parser*: the cut makes no difference here either; what is well formed is heard, and
  what is not is refused at the byte where that shows.
- *Client and server*: the request asks for what the URL says, the body of the answer is
  handed over once and whole; a request that comes in one segment is taken once.
- *Trees*: after any calls the links agree with one another and with the tree that the
  calls describe; the hooks build the tree of what was reported.
- *Object stack*: no two blocks share a byte, and no string loses what it holds by growing.
- *Keys*: no order of bounces and timers leaves a key that nothing is going to look at.
- *UART, SDIO*: bytes go through rings and lists in order and once, and what waits in them
  moves on; the SDIO slave has ways to stop for good, and they are these and no others.
- *I2C*: the slave understands what the master means, from whatever state it is found in.
- *Session*: the server gets nothing out of turn, every request is answered once and in
  order, and a login that fails is tried again for as long as there is a connection.

## 2. Modules

| Module | What it is |
|---|---|
| `FrameSender` | abstract: a sender of frames, one unacknowledged at a time, with a waiting line of bounded length |
| `EcIo` | `ec_io.c`: one action for each function and callback; espconn is external |
| `ModArith` | lemmas on `%`, places in a ring, sums that wrap and least numbers |
| `EcIoProofs` | the inductive invariant of `EcIo`, the proof that it implements `FrameSender`, and what follows about the order of the frames |
| `Provision` | boot, task, flash, WiFi, configuration server, registration, and power losses |
| `ProvisionProofs` | the inductive invariant of `Provision` |
| `SwitchSchedule` | plan, alarms, delays, relay, clock and its task, in milliseconds |
| `SwitchProofs` | the types and the inductive invariant of `SwitchSchedule` |
| `CalendarTime` | the calendar's two conversions, on a walk from day to day |
| `FilterRules` | rules of the filter and their scores; shared by the next two |
| `IksFilter` | the list of rules and the packet's way through it, one hook a step |
| `XmppSession` | session, SASL, requests and answers, with a server that follows XMPP |
| `XmppProofs` | the inductive invariants of `XmppSession`: the stages of a stream, the line of answers |
| `SaxParser` | the XML parser, byte by byte, with a server that writes documents |
| `HttpChars`, `HttpUrl` | the characters of `http_parser.c` and its machine for URLs; what `http_parser_parse_url` makes of one |
| `HttpParser` | `http_parser_execute`, one turn of its loop an action, with a peer that writes messages |
| `HttpClient` | `http.c` and `http_io.c`: one request and its answer |
| `HttpServer` | `server.c`: segments, their parsers and their answers |
| `XmlTree` | abstract: trees as nodes with attributes and sequences of children |
| `IksTree` | `iks.c`: nodes and their links, the calls that change them, walk them and write them |
| `IksDom` | `dom.c`: the hooks that build a tree |
| `IksStack` | `ikstack.c`: chunks and blocks, byte by byte |
| `LibraryProofs` | both conversions of `CalendarTime` in closed form, and that they are inverse; the inductive invariants of `IksFilter` and `IksStack` |
| `KeyDebounce` | `key.c`: interrupt and timers of the keys |
| `UartRx`, `UartTx` | `uart.c`: what is received, what is sent |
| `Numbering` | the numbers of bytes, which start again after the last |
| `SdioSlave` | `sdio_slv.c`: the buffers between the firmware and an SDIO host |
| `I2cMaster` | `i2c_master.c`: every change of the wires, and a slave that sees only these |
| `Drivers` | the drivers side by side |
| `BusProofs` | the inductive invariants of `SdioSlave` and `I2cMaster` |
| `DriverProofs` | the inductive invariants of `KeyDebounce`, `UartRx` and `UartTx`; what follows for `Drivers` |
| `MC*` | the instances for TLC: constants that are not plain values in a `.cfg` |

`MCLibrary`, `MCParsers` and `Drivers` put parts together that do not meet in the
program: a variable `part` says which of them a behaviour walks, the others rest. So the
run is the sum of the runs of its parts, and each property names what it says of which.

How state corresponds to code is written beside each variable; `PROJECT.json` maps each
definition to its lines. The conventions:

- *Pointers and payloads.* A frame is the number of the `ec_io_send` that offered it, a
  configuration a model value, an XML element a record of the fields the code looks at.
  `Null` is a `NULL` pointer; a node of a list is named by the order of allocation, so
  freed memory is a name outside the set of nodes.
- *espconn* answers a send with success, `ESPCONN_MAXNUM` or an error, and reports
  frames sent, connections made and broken whenever it likes.
- *Flash.* A write only clears bits: over erased flash it stores the data, over other
  data it leaves the conjunction of both, the value `Mixed`. `CFG_Save` is five
  operations and a power loss may come after any of them.
- *Unassigned variables* (`add_switch` and `add_scene` for a field of the wrong length,
  `json_parse_commamd`) are read as any value of their range.
- *Definitions that begin with "Slip:"* are what a definition would be with a plausible
  mistake in it. No specification uses them; put in the place of the definition they
  follow, they make the property named in `PROJECT.json` fail, which shows that the
  property depends on that code.

`IksFilter`, `EcIo` and `XmppSession` stand on top of one another by what they promise:
the session's channels are in order because `EcIo` implements `FrameSender`; it calls
the hook of the best rule because `AskedByScore` holds of `IksFilter`, and both use the
same `Score`.

## 3. Runs

| Run | Expect | What it shows |
|---|---|---|
| `ecio_safety` (`MCEcIo.cfg`) | pass | Sends, reports, breaks, closes, new connections in any order: frames one by one and in order, the queue's counters fit its nodes, none vanishes but to a full queue or a refusal, nothing but the unwrapped font strands waiting frames, those behind a frame that espconn holds are sent, and `EcIo` implements `FrameSender` |
| `ecio_circular` (`MCEcIoCircular.cfg`) | violation | `queue_font` never wraps (`ec_io.c:77`): from the eighth queued frame on the drained queue does not look empty, the last report sends `NULL` and leaves the flag FALSE, and the next frame waits for ever on a connection that nothing disturbed |
| `provision_safety` (`MCProvision.cfg`) | pass | Two configurations, failed and lost associations, refusals and power losses, one of them inside `CFG_Save`: a login needs a saved registration, and has the saved account while the app sent one; the access point, the saves; and a configured device comes to `xmpp_init` unless nobody ever answers its registration |
| `provision_cut` (`MCProvisionCut.cfg`) | violation | The flag is written before what it stands for: power lost in between leaves a device registered without a configuration |
| `switch_safety` (`MCSwitchSchedule.cfg`) | pass | Plans replaced between a tick and its check and while timers are armed: nothing stale acts, delays act once, every alarm in the table acts |
| `switch_early` (`MCSwitchScheduleEarly.cfg`) | violation | A delay computed in seconds is armed in milliseconds |
| `library` (`MCLibrary.cfg`) | pass | The days from the epoch on: the conversions are inverse and right. Rules come and go with packets between: the list is sound, hooks are asked by score, all that match are asked. Trees under every sequence of calls: the links agree, what is written reads back, each call is a step of `XmlTree`; the hooks build what was reported. Blocks keep their bytes |
| `xmpp_safety` (`MCXmppSession.cfg`) | pass | Refused passwords, resources and sessions, closed and broken streams, logins out of turn, attempts to connect that fail or are not made, servers without a mechanism or a nonce: nothing out of turn, everything answered in order, and a session with a connection ends with the device announced or in one of the ends that `LogsIn` lists |
| `xmpp_peer` (`MCXmppSessionPeer.cfg`) | violation | A dead connection is never noticed: `counter` is set and not read, `ec_keepalive` not called |
| `xmpp_receipt` (`MCXmppSessionReceipt.cfg`) | violation | The receipt of a `commamd_smart` carries no linkid |
| `parsers` (`MCParsers.cfg`) | pass | XML and HTTP, well formed or not, in every cut into segments: the hooks hear what was said, nothing well formed is refused, nothing malformed accepted; the client asks for what the URL says and hands over the body once; the server takes a request in one segment once |
| `drivers` (`MCDrivers.cfg`) | pass | Interrupts, timers and tasks of the drivers in any order with the other end of the line: keys are watched, bytes are in order, what waits moves on unless the SDIO slave stopped in one of the four ways of `SdioFlows` or a handler tore its lists (section 5) |

The violations are disagreements of the code with a line of the repository, quoted in
`PROJECT.json` under `findings`.

### Bounds, and why they are enough

- `MCEcIo`: a queue of three nodes has a first, a middle and a last one and holds two
  frames; six sends wrap both counters, fill the queue, and leave frames for a second
  connection (`MaxConnects = 2`). What depends on the size is proved for every size.
- `MCEcIoCircular`: the size of the code, 8, and ten sends: one direct, eight queued, and
  the one that is stranded.
- `MCProvision`: two configurations to be mixed in the third sector; two flaps so that
  a `SIG_RG` can wait while a registration succeeds; two losses so that a cut save is
  followed by another boot; one failure and one refusal, because they are handled
  without memory. The invariants are proved for all of them.
- `MCSwitchSchedule`: seconds, minutes and days of length two and a week of three days, so
  that each carry of the clock happens within 24 ms of model time and a list of two days
  leaves one out; an alarm table of two; plans with entries for two days, one day, every
  day, once, soon, unclear and unknown; two plans so that one replaces
  another at every point; the server tells the time once, see hazard `user_time.c:263`.
- `MCLibrary`: the calendar's walk begins at the epoch and ends with 2004, which has every
  pattern of weekdays and leap years and the century that is a leap year; the moments are
  the last second before midnight in Greenwich, that midnight, and the last second of the
  day in China. Every year up to 2037 and every moment are proved. Four rules give every place for a removal
  (alone, first, last, between two) twice; three different rules and four packets separate
  all the tests in use; the two hooks are only compared, so they are interchanged by symmetry.
  Four nodes in two trees give a first, a middle and a last child,
  children of children and a graft; one text has every character that is escaped.
  `IksStack` has an alignment of 2, for which sizes round up and do not, chunks that are
  too small, exact and large, and four calls: enough for a string to grow in place, to
  move, and for a second chunk of either chain to be used before and after that.
- `MCXmppSession`: two requests on a connection show their order; two faults give a
  failure in the repetition of a failed login.
- `MCParsers`: the XML items lead through every context and every way out of it; with two
  of them a segment holds the end of one and the beginning of the other; `EntityMax` is the
  code's. The HTTP messages (`MCHttpMessages`) lead through every state and header state
  of the parser and, one by one, through the places where it refuses; a second message
  follows where the first leaves the connection open. `LengthMax` = 1023 stands for the
  largest length, so that a length that does not fit is written with four digits. Segments
  end after any byte, so the number of cuts has no bound for the parsers; the server's
  requests come in up to three segments, a first, a middle and a last one.
- `MCDrivers`: bytes are numbered modulo `Count`, more than rings, FIFO and lists hold
  together, so the behaviours have no end though the states are finite. A FIFO of 3 and a
  ring of 4 wrap against one another; blocks of up to 3 fit, fit exactly and do not fit.
  Two SDIO buffers of 2 and loads of up to 3 bytes of the task and of the callback cut a load
  over both, leave one partly filled, fill one exactly and find none free; with three
  buffers TLC finds the same, in three times the time. `Bits` and
  `ClearClocks` of the I2C master are the code's, 8 and 28. Two keys share the interrupt.

Deadlock is not checked where the system comes to rest by itself when the bounds are
used up (connection, life cycle, session, parsers), the walk ends (calendar) or the SDIO
slave has stopped for good or its lists are torn (section 5); each `.cfg` says so.

### Fairness

- `EcIo`: espconn reports each frame it accepted as sent, or the connection as broken;
  it ends each attempt to connect, and the name server's answer or its absence is
  reported. Nothing is assumed of the two clients.
- `Provision`: the SDK boots, runs a posted task and an armed timer; the access point
  takes the station unless the attempt fails, which happens `MaxFails` times. Not assumed:
  that the registration is answered (`http.c:252` has no timeout, and a host name that is
  still cached is not even connected to, `ec_io.c:416`), that power stays, that the
  association lasts, that the app sends anything.
- `SwitchSchedule`: time goes on, timers fire when due, the posted task runs. `Advance`
  does not let time pass a timer that is due, and lets the task run before the next
  tick of the minute: 60 seconds is far beyond what the SDK's watchdog allows a task to
  wait.
- `XmppSession`: the task and the callbacks run, an attempt to connect ends somehow, and a
  server with an element to read reads it. That a login connects is not assumed: for a name
  in the cache `ec_io_connet` makes no attempt at all (`ec_io.c:416`), and the end of `LogsIn`
  that says so is one the code really comes to. Nobody has to ask for anything, and
  connections may die without a word.

- Drivers: raised interrupts are taken and handlers end; armed timers expire;
  `uart_recvTask` runs and the application goes on reading its ring; the line sends what is
  in the FIFO; the SDIO host reads what it is offered, a load goes on and the callback
  returns. Nothing is assumed of keys, of what comes over the line, of those who send or
  load, or of the I2C bus.

All of it is weak but three: each of these steps, once possible, stays so until it is taken
or something takes its reason away. Strong are the following. The handler of the UART
looks at framing errors first, and a line that is broken for ever could keep it from what
was received; a byte takes longer than the handler, so it does not. A load of the task
(`TaskLoads`) stands still while the handler runs, and a host that writes without a pause
calls the handler again and again; between two of them the task gets on, since a transfer
takes longer than a handler. The callback may load over and over before it returns
(`HandleDone`); it does return.

## 4. Proofs

`EcIoProofs` holds for every `QueueSize >= 2` and any number of calls
(`EcIoAssumption`). The properties are not inductive as they stand. `IndInv` adds

- `Aligned`: `queue_font`, which is never wrapped, agrees with `queue_head + queue_count`
  modulo the size, so a push lands on the first free node even when the two counters
  are rounds apart;
- `FlagMeansEmpty`: `ec_send_flag` is raised only with a queue seen as empty, so a
  direct send overtakes nothing (the converse fails, which is `ecio_circular`);
- `FlagOrFrame`: on an undisturbed connection the flag is up or espconn owes a report,
  until `queue_font` has passed the size. A queue that holds no frame and does not look
  empty has such a font (`DrainedAndNotEmpty`), and only there does `ec_send_cb` send a
  `NULL` and lose the wake-up.

`disturbed` is set by a frame that espconn refuses and by a break, by nothing else: the
`NULL` sent from a drained queue is not a refused frame, so what it strands is stranded on
an undisturbed connection, where the properties look.

From it follow `TypeOK`, `OneFrameAtATime`, `QueueHoldsFrames`, `OnlyTheWrapLosesWakeups`, and the
refinement `SendsFramesOneByOne`: the abstract waiting line is `Waiting`, the frames
from `queue_head` on; a push appends to it, a pop takes its head, and each function maps
to a step of `FrameSender` or to a stutter. The arithmetic is in `ModArith`, for simple
variables, because the solvers need each remainder to be brought to a case first.

The last part goes on from the refinement. `Ordered` says that `wire \o Waiting` rises
and stays below or at the number of calls; it is kept by each step of `FrameSender`, so
nothing in its proof looks at the queue again: an offered frame is appended with a higher
number, and handing one over moves the first of `Waiting` to the end of `wire`, which
changes nothing of the two together. `FramesInOrder` follows at once. `NoFrameVanishes` is
about one step of `ec_io_send`: directly sent it is the last of `wire`, queued it is the
last of `Waiting`, because a push lands on the first free node (`Aligned`).

`ProvisionProofs` holds for every set of configurations and all bounds
(`ProvisionAssumption` only keeps `None` and `Mixed` apart from the configurations).
`IndInv` adds

- `OffIsBlank`: a device without power has its flash only, so a boot starts from an
  empty queue and no old session;
- `RegisteredInFlash`: `user_isRegisrer` is never set where the first sector is not;
- `ToldBeforeAsking`: an address to register at, or a request under way, comes with
  both configurations, so what `CFG_Save` writes is something;
- `Account`: a device that was told nothing has nothing saved, the connection carries the
  registration or the session and not both, so `CFG_Save` never runs under a session, and a
  registered device that was told once has in `j_config` what it saved;
- `FirstSignal`: while `SIG_CG` waits nothing else has started, so none of the four
  places that post can have another opinion of the registration.

`FlashAfter` is a recursive function over the operations of `CFG_Save`; `Stages` unrolls
it and `FlashAfterType` and `WholeSave` say what a cut and a whole save leave. The
theorems are `TypeOK`, `LoginNeedsRegistration`, `WholeSavesConfigure` and the action
property `AccessPointOnlyUnregistered`.

`DriverProofs` holds of `KeyDebounce` for every set of keys. `NeverAlone` is inductive with the types;
`KnowsTheLevel` speaks of keys at rest only, and `KeyInv` adds to both what holds on the way
there (`Known`): a key whose edge is in the status register or being served is not where
the driver takes it to be, and after `key_50ms_cb` read the pin, it is as it was read, or
the change was `missed`. The theorems are `KeyTypes`, `LevelIsKnown` and `KeysAreWatched`.

`SwitchProofs` holds for every set of entries and moments. `SwitchInv` says, beside the three
properties, that each armed timer belongs to the plan in force and its node to the nodes
that plan has allocated (`TimerInv`), that only such nodes have fired, and that each alarm
in the table belongs to the plan in force (`AlarmInv`): a replacement frees nodes, disarms
timers and clears alarms in one handler, and nothing between two handlers can bring one
back. It needs of the clock only that time is a number (`ClockType`). `TypeOK` is
proved beside it: the
table, the timers and the nodes keep their ranges through every replacement of the plan.

`XmppProofs` holds for every set of requests, mechanisms and services and any number of
faults, provided the server offers `bind` after authentication, as XMPP asks of it
(`SessionAssumption`); a server that offers `session` alone would be sent one out of turn.
`StreamInTurn` looks at the head of one channel; the invariant `Stages` says for each phase
of the server what is under way in both directions and whether the device takes itself for
authorized: up to `bind` one side is always waiting for the other (or, in `mute`, the server
for an answer that is not given), in `bind` at most the two requests are under way, and from `bound` on the device only answers packets. After a
refused resource there are only errors, and `ErrorsUnanswered` goes through the filter's rules
to show that no hook answers one. `SessionTypes` gives the types of all that is on the
channels. `AnsweredInOrder` has an invariant of its own, `LineInv`: the answers the server
has, those on their way to it and the requests on their way to the device stand in one line
(`Line`) as they were asked, each request once, and every packet on its way to the device
is such a request or answers the device.

`DriverProofs` holds for every size of FIFO, ring and queue of `UartRx` (`UartRxAssumption`).
`RxInv` says of each byte in ring and FIFO what `ReceivedInOrder` says of the whole. No sum
exceeds two rounds of its ring, so `Wrap` takes the place of the remainder and the rest is
linear; a ring is never filled up (`rx_space` is at least 1), which is why `rx_buff_deq` may
tell from `pOutPos <= pInPos` (`rx_out` and `rx_in`) that what it copies does not wrap.

It does the same for every size of FIFO, ring and block of `UartTx`
(`UartTxAssumption`). Characters lie in the FIFO between the bytes of blocks, so a byte's number
is told from the bytes of blocks before it (`Numbered`); `CountTail` and `CountAll` say how
that count changes when the line takes a byte and when the ring fills the FIFO. `TxInv` also
holds what `FinishedIsFinished` needs: where `UART_CheckOutputFinished` saw an empty FIFO
the interrupt is masked, so nothing comes into it before the look at the ring.

`BusProofs` holds for every number and size of buffers and every load of `SdioSlave`, as long
as there are more numbers than bytes in all buffers (`SdioAssumption`). `LoadedInOrder`
speaks of the buffers put one behind the other and says nothing of how they are filled, so
it is not inductive. `SdioInv` says that each buffer is in one place of one list
(`Complete`), that the queue is full but for its head and the free buffers empty but for
the first (`Shape`), that what the host is offered is the head with the length it has
(`Links`), that no buffer is in two places (`Apart`), and that each byte in a buffer has the number
that follows from its buffer's place in the queue and its own in the buffer (`Bytes`).
`Loading` is what makes this hold between the steps of a load, with the handler and loads of
the callback there: a load of the callback runs only while the task's rests where it relies on
nothing (`Idle`), and one that has looked at a buffer or at the queue finds it as it was
(`Relies`). The steps of a load change the lists in two ways, each proved once: the first
free buffer goes to the end of the queue (`FirstTaken`), which leaves every buffer in its
place of both lists together, or it gets more bytes (`Grown`), the next ones loaded.
`FlattenIs` and the lemmas on `Stretch` turn the flattened buffers of the property into these
places. Where the handler meets a load within a step the model ends (`Tears`), and the
theorems claim nothing of what the code does from there on.

It holds for every width of a byte and every set of bytes of `I2cMaster`, and every number of
clocks that is more than those of two bytes and one more than a multiple of a byte with its
acknowledge (`I2cClocks`). `I2cUnderstood` speaks of the end of a call; `I2cInv` says
for every call what it has reached before it: the settings it has left
are those of its program from there on (`Runs`), the wires are as the last one left them, and the
slave has the bits of the rises so far (`Sending`, `Reading`), waits, or is on its way to
acknowledge (`Asking`, `Answering`). A lemma per call shows that its next setting brings it
to the next place, by the one change of a wire that it is, and one that the
call sets out on its program with the wires as the phase before it left them (`Rests`). During
`i2c_master_init` the slave may be anywhere: `Frees` says for each thing it may be doing
how many rises of SCL it still needs, or, if it takes bytes for ever, that it will not be
acknowledging when they are over. The last is why 28 clocks do, being more than
16 and one more than 27; with bytes of 3 bits TLC finds that among 5 to 13 clocks exactly
those of `I2cClocks`, 9 and 13, free the bus from every state but `cut`.

`DriversArePart` shows that `Drivers` implements each of the five specifications: a step of
one leaves the variables of the others alone. So what is proved of each of them is true of
`Drivers`: `DriversInOrder` and `DriversTypes` are the invariants of the run `drivers`.

`LibraryProofs` holds for every `LastYear` up to 2037 and every set of moments of a day of
`CalendarTime`. `CalInv` says that the walk's number of days is what `ec_mktime` computes
for its date, by its formula with three divisions, and that its weekday is that number's.
The other conversion adds up years and months in loops: `YearStarts` and `MonthStarts` show
that the sums have a closed form, each by the least year or month at which they would
differ; the rest is arithmetic with `\div` on a bounded range of years, centuries being the
hard part (`Centuries`). `RoundTrip` follows: the year and the month that `ec_gmtime` stops
at are the only ones whose days hold the timestamp.

It holds for every number of rules, hooks and packets of `IksFilter`
(`FilterAssumption`). `FilterInv` is the types, `ListSound` and `Scores`: between two hooks
each rule keeps the score that `Score` gives it for the packet, or 0 where its hook was
asked. `WithoutOne` takes a rule out of a sound list wherever it is, at the head, at the
end, between two or alone, and finds it sound again; `WithoutAHook` does so for the loop of
`iks_filter_remove_hook`, whose `Turns` are followed by their number; `MaxRuleIs` shows of the
loop of `iks_filter_packet` that it ends with the first of the rules with the highest score.

And it holds for every alignment the code allows, every size and any number of calls of
`IksStack` (`StackAssumption`). That blocks keep their bytes is not inductive: `StackInv` adds
that the blocks of a chunk lie apart (`Apart`), that nothing is used behind the string a chunk
takes for its last one (`LastInv`, which is why a string may grow where it is), that the
room behind structs is aligned (`AlignedInv`), and that `s->allocated` is the sum of what the
chunks and their headers take. `BlockWritten` and `GrownInPlace` are the two ways bytes get
into a chunk; sums over a chain are compared by the least place at which one would be
wrong (`TotalGrows`).

Only model-checked: everything under fairness (`QueueDrains`, `ConfiguredComesToLogin`,
`AlarmsAct`, `LogsIn`, `WaitingMovesOn`), since the prover has no rules for `ENABLED`; the
parsers (`SaxParser`, `HttpParser`, `HttpClient`, `HttpServer`) and the trees (`IksTree`,
`IksDom`), which are recursive over texts and nodes, so that what they compute needs
induction over data. `TypeOK` of the run `library` puts together what the parts say; it is
proved for the calendar, the filter and the stack.

## 5. Where code and repository disagree, without a run of its own

- After a break `ec_io` never connects again, though `word/EC_IO架构设计.md:5` says a
  connection nobody closed must be; no callback calls `ec_io_reconnect`. `EcIo` shows the
  break, `xmpp_peer` what it means for the session.
- A login that follows a failed one (`user_xmpp.c:207`) finds the server's name in the cache
  and then never connects (`ec_io.c:416`); a server that refuses to bind, offers no mechanism
  or gives no nonce is not answered and nothing ends the wait. `LogsIn` lists these ends.
- `CFG_Save` erases two sectors and writes three: the second registration leaves the
  conjunction of both WiFi configurations (`Mixed`).
- `SIG_LG` of a successful registration is lost when `SIG_RG` waits in the queue of one;
  the device then registers a second time, and a refusal of that ends everything.
- `wifi_connect` does not reset `lastWifiStatus` and the timer samples: a station told a
  new network while it has one may not report its new address. `ConfiguredComesToLogin`
  therefore speaks of the first configuration.
- `EC_ALARM_MAX` is used nowhere; the eleventh alarm is written past `user_alarm`. The
  model marks it (`overrun`).
- `ec_switch(1)` prints `OFF` under a comment that says on (`user_muc.c:9`).
- The first report to the server hangs on the answer to the session request, which is
  sent only if the server offers that feature (`user_xmpp.c:467`).
- A segment that ends inside a character of a tag's name, an attribute's name or its value
  loses the rest of that character (`sax.c:231`: the bytes pass without starting a word).
  `HearsTheDocument` has this exception, and fails without it.
- A name that begins with a character of several bytes loses its first byte, a single `]`
  before such a character in a section is lost, a processing instruction ends at its
  first `>`, and entities in values of attributes stay as they are. The server of the
  model does not write these.
- A registered device that is told a new account over its server logs in with it, though
  it was neither registered nor saved (`user_main.c:34`). `LoginNeedsRegistration` therefore
  compares the account of the session with the saved one while the app has sent one
  configuration.
- An entry of the plan for a single day (`times` of one character that is neither `8` nor
  `0`) ends in a branch with a `FIXME` (`user_json.c:70` to 98): it adds no alarm and is never
  heard of again. `Repeated` says so, and `AlarmsAct` speaks of the alarms in the table.
- `json_parse_switch` returns 0 always, and 0 makes the receipt say `error`.

Of the HTTP parser, the client and the server:

- Control characters are refused only at the first byte of the value of a header or of a
  segment; `LOWER` turns a tab into `)`, so the tab after a comma of `Connection` is not
  skipped; of two `@` in a URL only adjacent ones are refused. `nread` counts a byte twice
  where a segment ends. `assert` does nothing in this build.
- `on_message_begin` is called for each blank line before a response.
- Nobody calls the parser with a length of 0, the sign for the end of the connection: a
  response without a length is never complete, and its handler never called. The request
  says `Connection: Closed`, which is not `close`.
- `dump_url` leaves the query out, and a URL without a path gives a request line without
  path and version. A host of fewer than three characters is silently not contacted.
- An interim answer (`100`) is taken for the answer.
- A connection that breaks, or an answer that never comes, is not tried again.
- `server.c` answers each segment with `ok`, and begins each with a new parser: a request in
  two segments is answered twice and taken as malformed or not at all.

Of the trees:

- `iks_string` writes entities into the values of attributes, `sax.c` does not read them
  there: a tree that is written and read again has other values.
- `iks_hide` leaves the node's own links as they were, so a hidden node must not be asked
  for its neighbours; `iks_first_tag` and others, asked of a text, read a field of another
  struct. The callers in the repository do neither.
- Where memory runs out in `iks_insert_cdata` the text is `NULL` and its length is not 0.
- A text that is the root is written without entities.

Of the drivers:

- An edge between the reading of a key's pin, or the clearing of its interrupt, and the
  arming of the interrupt is not seen until the next one (`missed`).
- A block that does not fit the ring of the UART is dropped whole. When the ring is too full
  for the FIFO the receive interrupt stays disabled until the application reads.
- `UART_CheckOutputFinished` looks at the FIFO first and the ring second; it is right only
  because the interrupt moves the ring into an empty FIFO before the task goes on.
- `sdio_load_data` counts only the bytes that filled buffers (lines 357 to 358 add `len`
  after it was set to 0).
- The SDIO slave stops for good in four ways (`stopped`). A load that fills a buffer exactly
  while nothing is under way puts it into the queue, so the test at `sdio_slv.c:389` fails
  for this load and for every later one, and nothing is ever offered. A load of no bytes
  while nothing is under way takes `has_read` away without offering anything. The handler
  may free what was offered before line 408 sets `has_read` to `FALSE`, which nothing sets
  back. What the host reports during the handler is cleared at its end (line 251), so the
  buffer it read is never freed. `SdioFlows` says that there are no others.
- The masking of the interrupt around a load is commented out (lines 323 and 334). Between the
  steps of a load the handler does no harm to the order of what the host reads
  (`LoadedInOrder`). Within one it does (`torn`): between lines 372 and 377 it appends to a list
  whose head is half moved; it takes away the buffer that the load is filling; a load of the
  callback fills the same bytes of a buffer again; and a load that was interrupted may find no
  free buffer and reads through `NULL` (line 352).
- The 28 clocks of `i2c_master_init` do not end the transfer of a slave that had a whole
  byte when the reset came: the last of them is an acknowledge, and the stop after it is
  not seen (`cut`).

Kept here because no property is about them: `wifi_connect` and the samples of its timer
(`wifi.c:68`), a shorter registration address that keeps the tail of the longer one
(`user_json.c:189`), a time told in the middle of a minute (`user_time.c:263`), timestamps
after 2038 (`user_time.c:57`), the result of `iks_parse` that nobody reads
(`io-posix.c:76`), more alarms than the table holds (`user_switch.c:63`).

## 6. Abstractions a reader should know

- `XmppSession` has its own two channels instead of `EcIo`. `EcIo` promises order; it may
  also refuse a frame when its queue is full, which the session never notices. With the
  server answering, a session has at most a few frames under way, but nothing bounds
  them by 7: the composition of the two is in the plan.
- `Provision` has the registration server answer once for each request, or never:
  `ConfiguredComesToLogin` names the answer that never comes. Its end, `session # None`, is
  the call of `xmpp_init`; what becomes of the login is in `XmppSession`.
- After authentication `bind` is among the services a server offers
  (`SessionAssumption`).
- `SaxParser` keeps the stack as a sequence and its pointers as places in it: moving it in
  `stack_expand` changes no place. A server writes `Items` one after another; whether the
  tags balance is `stream.c`'s to judge.
- The plan's entries have string fields, as the protocol has.
- `HttpParser` leaves out the limit on the bytes of a header, callbacks that fail or ask to
  skip a body (none of the repository's does), and stops after an error or an upgrade.
  `HttpClient` has its own connection: `EcIo` promises that a frame arrives or the
  connection breaks, and that is all it uses.
- `IksTree` grafts only trees that were never part of another one; `IksDom`'s parser reports
  any tags and pieces of text, `SaxParser` shows that it reports those of the document.
  Allocations do not fail in either, nor in `IksStack`. A deleted tree stays in the heap of
  the model, where nothing reaches it.
- Drivers: an interrupt is raised as long as its condition holds and is taken before the
  task that it interrupts goes on. The steps of `sdio_load_data` are the look at a buffer, the
  copying into it, its way to the other list, the look at the queue, the offer and the end;
  handler and callback come between them. If they come within one (`Interrupts`, `Nested`)
  the model ends at `torn`, even where the code would be lucky and its lists survive. An offer
  reads the register of the host's status and writes it (`sdio_slv.c:327` to 333); a handler
  between the two, whose change would be lost, is left out. `UART_BUFF_EN` is 0 in this
  build, `UartRx` has both
  variants and `UartTx` the one with rings. A write to a full FIFO is lost. Wires that
  change at the same moment are `unclear` to the I2C slave, which `I2cUnderstood` would
  report.

## 7. Plan

What is left, in this order.

1. `SessionTransport`: `XmppSession` over a `FrameSender` of capacity 7: which bursts of
   the server lose an answer, and that what is sent is never reordered.
2. `HttpClient` composed with `EcIo` and the session that takes the connection over.
3. `SaxParser` with the memory of its stack (`stack_expand`: every pointer into it must
   move).
4. An abstract bounded channel that both ways of the UART and the SDIO slave implement.

## 8. Not modelled, and why

- Base64, MD5 and SHA, the string helpers of `utility.c`: functions of their inputs without
  a state, bit arithmetic over fixed tables; test vectors settle them better.
- `jabber_config.c`: two functions that return true.
- AT commands: they print and answer OK; the two that would change the configuration
  are empty.
- SPI, hardware timer, GPIO16: register writes without a state of their own; what they
  cause is in the hardware.
- The functions of `uart.c` that set baud rate, framing, flow control and masks: one
  register each.
- cJSON: vendored, a recursive descent over a text that is complete. What `user_json.c`
  makes of a message is modelled from the fields it reads.
- The SDK's headers, the linker scripts and the tools.
- Timestamps after 2038, which the code reads as negative; TLC's integers end there.
