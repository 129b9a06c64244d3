# Formal models of RoboticCarP3E

TLA+ models of the robot car's firmware, of its telemetry link and of the
network programs kept in the same repository, checked with TLC on small
instances and, where marked, proved with TLAPS for every value of the
constants. Paths below are those of the repository (`src/...`).

## 1. The system

The repository holds one firmware image, parts that the image does not link yet,
and stand-alone Pico W programs.

| Part | Source | State it keeps | Operations |
|---|---|---|---|
| Control loop | `main.c` | `current_state` (four states), counters it resets, motor outputs | one pass: check distance and buzz, measure, act on the state, sleep 1 ms |
| Motor control | `buddy2/buddy2.c` | duty cycles, direction pins, PID integral and last error, turn start time | `set_motor_direction`, `adjust_left_motor_speed`, `start_turning`, `turning_complete` |
| Ultrasonic sensor | `buddy5/buddy5.c` 100-147, 206-227 | `measurement_valid`, `pulse_width`, `start_time` | `getCm`, echo half of `gpio_interrupt_handler` |
| Obstacle flag, buzzer | `buddy5/buddy5.c` 150-178 | `obstacle_detected`, `buzzer_on`, two timestamps | `measureDistanceAndBuzz` |
| Wheel encoders | `buddy5/buddy5.c` 228-254 | per wheel: pulse count, incremental and total distance, speed | encoder half of `gpio_interrupt_handler` |
| Kalman filter | `buddy5/buddy5.c` 51-98 | estimate x, p, q, k in floating point | `kalman_init`, `kalman_update`, once per echo read |
| Speed control | `buddy2/buddy2.c` 40-142 | integral, last error, duty of the left motor | `adjust_left_motor_speed`, `compute_pid`, `estimate_speed_from_duty_cycle` |
| Barcode reader | `buddy3/buddy3.c` | bar counts, characters, direction, waiting flag | `read_ir_sensors`, `barcode_detector`, `convert_stay_counts`, `reset_barcode_detector` (button) |
| Telemetry server | `buddy1/buddy1.c` | one `client_pcb`, `telemetry_data` | lwIP callbacks: accept, recv, close; `send_data_to_target` |
| Dashboard | `interface.c` | `telemetry_data` under a critical section, the window | `receive_telemetry` thread, `WindowProc`, `WinMain` |
| buddy4 | `buddy4/buddy4.c` | none | prints a line |
| Temperature tasks | `wifi/freertos/ping/picow_freertos_ping.c` | two queues, a ring, two sums | four FreeRTOS tasks |
| DHCP server | `wifi/access_point/dhcpserver/` | table of leases | DISCOVER, REQUEST |
| NTP client | `wifi/ntp_client/` | request flag, alarm, deadline | loop, DNS and UDP callbacks, alarm |
| TCP echo client | `wifi/tcp_client/` | buffer, counts, `complete` | lwIP callbacks, loop |
| TCP sender (named a server) | `wifi/tcp_server/picow_tcp_server.c` | pcb, counts, `complete` | loop that writes about once a second, lwIP callbacks |
| TLS client | `wifi/tls_client/tls_common.c` | pcb, `complete`, `error` | DNS lookup, lwIP callbacks, loop |
| Access point's page server | `wifi/access_point/picow_access_point.c` | `complete`, a state for each connection, the led | start and end of `main`, key and worker, accept, recv, sent, poll, err |
| DNS server | `wifi/access_point/dnsserver/` | address to answer with | init, deinit, `dns_server_process` |
| Not modelled | buddy4, earlier sensor programs, Wi-Fi console, SDK examples | see section 8 | |

How they interact. The loop and the GPIO interrupt share the encoder counters and
the echo's three variables; nothing masks the interrupt. `getCm` hands each echo
to the filter, whose estimate `measureDistanceAndBuzz` compares with the threshold;
it leaves `obstacle_detected` for `adjust_left_motor_speed`, which reads the
speeds the encoder interrupt writes. The image links
`main.c`, `buddy2`, `buddy4` and `buddy5`; `buddy1` and `buddy3` are commented
out of the top `CMakeLists.txt`, and are modelled as the programs they are by
themselves. The dashboard is a Windows program at the other end of the telemetry
server's TCP stream: the format of the text is what they share. The access point's
`main` starts the DHCP, DNS and page servers one after the other and stops them
in the opposite order; lwIP calls them in between.

What is hard: interrupts between any two statements of the loop; an echo that
outlives the call that asked for it; blocking sleeps that starve timers; a reset
button that interrupts a conversion; callbacks about one connection acting on
another; TCP joining and cutting texts; two threads around one lock; bounded
queues between tasks of different priorities; a wrapping clock; answers racing
alarms; callbacks that run in `main`'s loop in one build and interrupt it anywhere
in the other; a connection's memory freed by whichever callback comes first; a
filter and an integral that remember what is over. `PROJECT.json` lists each at its line, under `hazards`.

What makes each part correct, in a sentence:
- loop: it carries out the mission (ahead, rest, spin, rest, leg, rest), halts no
  earlier than its target, and reverses no motor under power;
- sensor: what a call reads answers that call, or it can be said when not;
- filter: it neither invents an obstacle nor hides one, or its going away, for long;
- flag and buzzer: neither is older than the loop's own timing explains;
- speed control: an integral wound up is unwound again, with stale speeds too;
- barcode: a label is decoded from both ends, at any speed, whoever pressed the
  button before;
- server: the client answered is connected, answered in order, and freed at its end;
- dashboard: one state is painted at a time, and the last one in the end;
- tasks: the average is that of the last readings, no reading is lost, each is
  printed and then an average with it;
- DHCP: no address in use by two; NTP: no request without its alarm, no alarm
  without its request;
- the three TCP tests: each ends, and its verdict is what happened; the echo is exact;
- access point: a connection's memory is freed once, its answer gets out, the led
  obeys a request that comes whole, addresses told are its own, the key ends it.

## 2. The modules

| Module | Models | Correspondence |
|---|---|---|
| `CarMission` | what the car promises | `phase`, `motion`, `leg`: six actions, no sensor, timer or PWM |
| `Car` | loop, motors, flag and buzzer, encoder interrupt | `pc` is the place in the loop; one action per branch of the `switch`, per store of `reset_distance_counters`, and per `getCm` or sleep; `EncoderPulse` is the interrupt; `age` keeps the time since each timestamp |
| `Sonar` | `getCm` statement by statement, echo interrupt, sensor, clock | every statement of `getCm` is an action; `edges` are latched edges; `calls` is the history telling which trigger an edge answers |
| `Kalman` | `kalman_update` on whole units | `Estimates(x, m)`: every estimate that some gain between 2/3 and 1 (or the 0.7 of a jump) gives, rounded either way |
| `Ranging` | `Sonar` with `Kalman`, and the range test | each `Read` of `Sonar` is one `kalman_update`; extends both |
| `SpeedControl` | PID of the left wheel, speeds of both | `adjust_left_motor_speed` cut at its reads of what the encoders write; `Pulse` is the interrupt |
| `Code39` | tables and the conversion of nine counts | `Wide` says which bars the sort selects (fewer than three counts exceed theirs), which `MCBarcode` compares with the sort itself; both tables are functions |
| `Barcode` | detector, button, track | `barcode_detector` in six pieces, `Press` between any two; extends `Code39` |
| `TelemetryFormat` | commands, replies, `sscanf` | a command is its set of key words and its number; a reply is cut into tokens where TCP may cut it; `telemetry_data`, the struct that each end keeps one of |
| `Telemetry` | server with its clients and lwIP | one action per callback; `conn` is lwIP's pcb of each client |
| `Dashboard` | both threads of the window program | one action per statement that touches shared state |
| `TempTasks` | four tasks and the scheduler | one action per queue operation, enabled for the highest ready priority only |
| `DhcpServer` | lease table and clock | DISCOVER and REQUEST; the clock is the upper 16 bits and a carry |
| `NtpClient` | loop, callbacks, alarm | loop cut at each access to what callbacks write |
| `TcpClient` | callbacks, loop, free | one action per callback; bytes are numbered units |
| `TcpSender` | callbacks, loop cut at each statement a callback can come before | `arch` is the build: in `"poll"` callbacks come in the sleep only; one action per callback, each statement of `tcp_result` and `tcp_client_close` when the loop runs them; a pcb lwIP has freed is `"lost"` |
| `TlsClient` | callbacks, lookup, loop | one action per callback; `fate` is what ended the connection |
| `DnsServer` | one packet | lengths only: what is refused, where the answer is written |
| `AccessPoint` | `main` by statement, key, page callbacks, DNS queries | `arch` is the build: in `"poll"` callbacks run in the loop's poll only; a request is a path and a number, and `Found` says what the code reads when the segment cuts it; extends `DnsServer` |
| `Clients` | the three test programs, of which the board runs one | their variables are shared by name; `TcpClient` extended, the others instantiated |
| `AccessPoint_proofs` | theorems about `AccessPoint` and about `DhcpServer`, the access point's other server | section 6; `DhcpServer` names its specification `DhcpSpec` |
| `Telemetry_proofs` | theorems about `Telemetry` and about `Dashboard`, the other end of its connection | section 6; `Dashboard` names its specification `DashboardSpec` |
| `Clients_proofs` | theorems about `Clients` and about `NtpClient`, the fourth client program | section 6; `NtpClient` names its specification `NtpSpec` |
| `Ranging_proofs` | theorems about `Ranging` and the `Sonar` it extends | section 6 |
| other `*_proofs` | theorems about the module of that name | section 6 |
| `MC*` | values of the constants | one per checked module, with its `.cfg` |

`Car` implements `CarMission` under the mapping at the end of `Car`: `phase` is
`current_state`, `leg` is `rolled`, and `motion` is read off the duties and
direction pins of both motors; a state in which the motors do nothing sensible
together maps to `"astray"`, which the mission excludes.

Some definitions are marked *mutant* and are used by no action: each is a
plausible slip in one action, and substituting it makes the property named beside
it in `PROJECT.json` fail under that run's own configuration. Some variables are
marked *history*: no guard reads them and the code does not have them; the
properties do.

## 3. The runs

| Run | What it asks | Bounds |
|---|---|---|
| `car` | counters torn by the reset, halting short, buzzer, age of the flag, reversal under power; `Car` implements `CarMission`, fairness included; an obstacle that stays ends the drive | target 1 pulse, 1 pulse per reset; tick 100 ms, so 2 / 2 / 10 / 5 / 10 ticks; `getCm` 0 or 1 tick; distances 14, 15, 16; PID 0 or 99 |
| `ranging` | which call an echo answers; `getCm` returns; no phantom obstacle, none hidden | unit 5 ms: wait 3, limit 5, longest echo 8, rise 1, gap 6; 2 distance units to it, range 2 to 9, jump 5, threshold 4, start 6, `Settle` 2 |
| `speed` | an integral wound up is unwound within `MAX_INTEGRAL` passes | speeds 0, 1, 3, 99; integral to 3 |
| `barcode` | a label that finds the detector reset is decoded, whatever was read and pressed before | pairs of `*A*`, `*P*`, `***`; every character alone, at a changing speed; both ends, button anywhere |
| `barcode_next` | expected violation: the label after a printed one | 2 labels, 1 character |
| `telemetry` | who is answered, in which order, who is freed | 3 clients, 2 pcbs, 2 commands in all |
| `dashboard` | one reply on a screen, the last one in the end | 3 replies, cut and joined anywhere |
| `temp_tasks` | ring's sum, readings conserved, each printed and then an average with it | queues 2, ring 2, 4 readings |
| `dhcp` | no shared address, offers fit, only ended leases are taken | 3 clients, 2 addresses, clock 8, lease 2, symmetric clients |
| `ntp` | alarms owned, requests guarded, server asked for ever | 2 alarms, 2 lookups, 2 datagrams |
| `clients` | exact echo, what a verdict is worth and that it stands, no callback after the free, every test ends | 3 buffers of 3 units, 12 units sent; messages of 2, send buffer 5 |
| `access_point` | who frees a connection, that answered ones close, what the led obeys, whose address is told, replies fit, the key ends it | 2 connections, one with two segments, each cut or not; 1 abort; ten queries around each bound of the parser |

Why the bounds are enough for the cases that matter. *Car*: one pulse can fall
before, between or after any two stores of the reset, and with a target of one
the leg is met by a pulse or, wrongly, by what the reset left; more pulses and longer
legs are the theorems' business (section 6). The ticks keep the order interval = buzzer <
brake < turn = stop of the code. *Ranging*: the order wait < limit < longest echo is
what lets an echo arrive one or two calls late; the range is wide enough for
jumps to occur on both sides of the threshold, and echoes reach from below it to
beyond it. *SpeedControl*: three passes behind by 1 are just enough to bring the integral
from -3 to 0. *Barcode*: two labels show a detector that is fresh, used, and reset
between; P is * read backwards but for its middle, and each character has its own
widths; a wide bar is three readings, six when slow. *Telemetry*: three clients over two pcbs come in turn, overlap, and find no room;
two commands may be joined or come from two clients. *Dashboard*: three replies
are one shown, one in the receiver and one in the stream. *TempTasks*: four
readings fill both queues of two and wrap the ring twice. *DHCP*: the clock wraps several
times and half its circle is longer than a lease, as in the code. *NTP*: an old answer
or alarm meets a new request. *TCP*: a segment may end
in, at, or (as an acknowledgement) across a buffer's end, and the server has one
buffer more to send than the test takes.

What is assumed of time. In `Car` only sleeping and measuring take time;
statements take none. In `Sonar` (and `Ranging`) time passes only while `getCm` polls or is not
running, and a latched edge is served before. In `NtpClient` the 10 s of an alarm and
the 30 s between requests do not pass between two adjacent statements.

## 4. Fairness, and why the code justifies it

- `Car`: `WF(Loop)` - one processor, an endless loop, no wait without a time-out;
  `SF(Delay(1))` - each pass sleeps 1 ms, so ticks complete; `WF` of a powered
  right wheel's pulse - needed because the leg is measured by that wheel alone.
  A blocked right wheel would drive for ever: the code has no time-out there.
- `Sonar`: the loop, the interrupt, time, and the sensor's own end of an echo.
  `CallReturns` needs no echo.
- `Telemetry`: lwIP delivers what has arrived. Clients owe nothing.
- `Dashboard`: strong fairness of each thread, because both ask again and again
  for one critical section, which the system hands out fairly.
- `TempTasks`: the scheduler runs the highest ready task and shares time between
  the two averages, which have equal priority: strong fairness for them.
- `NtpClient`: the loop, time, and alarms. The network owes no answer.
- `Clients` (`ClientsFairness`): the three loops and lwIP's poll timer on a pcb
  that has a poll callback; a lookup ends, because lwIP itself gives it up; the
  sender's write is due again and again (strong fairness: its sleep comes
  between), and its connection is not alive for ever unless data moves, because
  lwIP's send buffer fills. No server owes an answer.
- `AccessPoint`: `main` runs on (every wait of it has a time-out), and a worker
  that is pending is served. Clients and lookups owe nothing.
- `Barcode`, `DhcpServer`, `SpeedControl`: none, only safety is asked.

## 5. Where the code and its comments part

The run `barcode_next` violates what `buddy3.c` 313 says ("Reset for next
detection"): after 27 bars everything is reset but `stay_count` and
`barcode_black_detected`, so the white between two labels is counted as the next
label's first bar and all its nine-count chunks are shifted. The reset button
clears both, which is why `FirstLabelDecodes` holds.

Others are conditions of properties that hold otherwise; each condition is
a history variable set by the event that leads there:

- `buddy5.c` 173, "Turn off buzzer after 200 ms": it is looked at once per pass,
  and the loop sleeps up to 1 s. `BuzzerBounded` gives the true bound.
- `buddy3.c` 353: the button pressed between the test of a chunk (290) and line
  297 leaves the direction determined; the next reset mends it, so
  `FirstLabelDecodes` is about labels that find the detector as a reset leaves it.
- `buddy1.c` 93, "Close server connection if client disconnects": the connection
  closed is the one accepted last. With overlapping clients the wrong one is
  closed (`overlapped` in `ConnectionFreed`, `AnsweredInOrder`).
- `buddy1.c` 179: no `tcp_err` callback, so a reset connection remains the target
  (`lost` in `TargetConnected`).
- `buddy1.c` 139: "Only show Stopped if both movement and turning are stopped";
  Stop Movement alone shows Stopped (`Parse` in `TelemetryFormat`).
- `interface.c` 70, 84: a reply that is joined or cut may never be shown (`whole`
  in `ShowsLatest`), and an empty direction leaves the old speed on the screen.
- `interface.c` 188: the critical section is deleted while the thread may be in it.
- `picow_freertos_ping.c` 74-75: "to the moving average and simple average
  tasks"; a reading reaches one of them (`ReadingsConserved`).
- `dhcpserver.c` 230: half the counter's circle (25 days) after its end a lease
  counts as running again; `ExpiredReused` is about the moment of the end.
- `picow_ntp_client.c` 144: in the background build a callback between 134 and
  144 leaves a request marked as sent without an alarm (`early` in
  `RequestGuarded`, `AsksForever`).
- `picow_tcp_client.c` 155: what a server sends before it has the echo is dropped
  or echoed twice (`uninvited`).
- `picow_tcp_server.c` 148-162: the loop tests `complete`, sleeps and writes; when a
  callback ended the test meanwhile the write fails and "test failed" follows
  "test success". In the background build the loop runs 158-165, and `tcp_result` with
  `tcp_client_close` at 161, without lwIP's lock. When the write is refused for want of
  memory, the last acknowledgement may still come before line 38, and "test success"
  follows "test failed". `SenderVerdictStands` allows these two windows and no other.
  Between lines 36 and 38 that callback gets NULL for the state: the processor
  faults, or goes on with what it reads near address 0 (`nulled` in
  `SuccessMeansAll`). A callback between 158 and 165 leaves `tcp_output` with
  NULL, which lwIP's assertion, where it is compiled in, stops (`"fault"`). There
  is no `tcp_err` callback: a pcb that lwIP has freed goes on being written to (`"lost"`).
- `tls_common.c` 170 passes the pcb where the state is meant when the lookup cannot
  start (`"fault"`), and a name that is not found, a connection refused at once and a
  request that could not be written all return true (`VerdictIsFate`).
- `picow_access_point.c` 94, "See if the user changed it": a segment is copied over the
  front of `headers` without an end (132), so the search for `?` (137) and `sscanf`
  (96) go on into what lies behind it, an earlier segment or the server's own
  answer. After a first page `headers` reads `HTTP/1.1 200 OK`, `Content-Length: 105`,
  with the digits from byte 32; a second segment of 32 bytes that is cut after
  `?led=` is read as `led=105`, and the led goes on though nobody asked for it. `Found`
  allows all of this. `LedAsAsked` says what the code does keep to: a request in the
  first segment of its connection, whose buffer is new, and one that ends within
  its segment (`sealed`), is obeyed as it stands.
- `picow_access_point.c` 339: `complete` is set to false after the key's callback is
  registered, so in the background build a 'd' pressed before that is lost
  (`KeyEnds` starts in the loop there).
- `picow_access_point.c` 207: the state of a connection that lwIP aborts is never
  freed (`aborts` in `StateOwned`).
- `dnsserver.c` 221-229: the server is bound before it has its address; a redirect to
  a client that came while the server was closing has an address near 0 (`early`
  and `server` in `AddressIsOurs`).

## 6. What is proved

With the assumptions the modules name, and nothing else:

| Theorem | Says | Inductive invariant |
|---|---|---|
| `Car_proofs!TypeCorrect` | `Spec => []TypeOK` | `TypeOK` itself |
| `Car_proofs!CountersAgreement` | `Spec => []CountersAgree` | `ResetInv` |
| `Car_proofs!StopsAtTarget` | `Spec => []NeverStopsShort` | `DistanceInv`, which needs `ResetInv` |
| `Car_proofs!DirectionSafety` | direction pins change at rest only | `MotorInv` |
| `Car_proofs!Refinement` | `Spec` implements `Mission!MissionSafety` | all of them |
| `Car_proofs!BuzzerEnds` | `Spec => []BuzzerBounded` | `BuzzInv`: the buzzer's age at each place of the loop |
| `Car_proofs!FlagFreshness` | `Spec => []FlagIsFresh` | `FreshInv`: the flag's age likewise |
| `Ranging_proofs!TypeCorrect` | `Spec => []TypeOK`, of `Sonar` | `TypeOK` |
| `Ranging_proofs!EchoRecency` | `Spec => []EchoIsRecent` | `Inv`: the ages of burst, edge and width against the time since their trigger |
| `Ranging_proofs!OwnEcho` | `Spec => []ReadsOwnEcho` | `EchoInv`: what of burst, edge and width is older than the running call |
| `Ranging_proofs!RangingIsSonar` | `RangingSpec => Spec` of `Sonar` | none |
| `Ranging_proofs!NoPhantomObstacle` | `RangingSpec => []NoPhantom` | the estimate is above the threshold or something was heard, and in range |
| `Ranging_proofs!FilterSettles` | `RangingSpec => []Settles` | the distance left to the near or far side, times 3 to the number of measurements there, is within the range |
| `SpeedControl_proofs!TypeCorrect` | `Spec => []TypeOK` | `TypeOK` |
| `SpeedControl_proofs!WindupBounded` | `Spec => []CatchesUp` | the integral is at least `behind - MAX_INTEGRAL`, and at most the mirror image |
| `Clients_proofs!NoOldAlarm` | `NtpSpec => []AlarmOwned` | `NoStrayAlarm` |
| `Clients_proofs!RequestsGuarded` | `NtpSpec => []RequestGuarded` | `Guarded` |
| `Clients_proofs!EchoArrives` | `ClientsSpec => []EchoesInOrder` | `ClientsInv`, of which `EchoInv` is the part |
| `Clients_proofs!StateOutlives` | `ClientsSpec => []StateOutlivesCallbacks` | `ClientsInv` |
| `Clients_proofs!SuccessBacked` | `ClientsSpec => []SuccessIsBacked` | `EchoInv` and `SenderInv` |
| `Clients_proofs!VerdictTold` | `ClientsSpec => []VerdictIsFate` | `TlsInv` |
| `Clients_proofs!VerdictKept` | `ClientsSpec => SenderVerdictStands`, an action property | `SenderInv` |
| `Barcode_proofs!TypeCorrect` | `Spec => []TypeOK` | `TypeInv`: `TypeOK`, and only whole chunks are converted |
| `Barcode_proofs!CharacterRead` | a chunk is read as its character, if each wide bar is longer than each narrow one | none: a fact about the operators |
| `Barcode_proofs!LabelDecodes` | `Spec => []FirstLabelDecodes` | `LabelInv`: what the detector holds at each reading of a label |
| `TempTasks_proofs!ReadingsKept` | `Spec => []ReadingsConserved` | `Conserving` |
| `TempTasks_proofs!MeanOfLast` | `Spec => []MovingIsMeanOfLast` | `Ring`, with `Conserving` |
| `AccessPoint_proofs!AddressesApart` | `DhcpSpec => []NoSharedAddress` | `LeaseInv` |
| `AccessPoint_proofs!OffersFit` | `DhcpSpec => []OfferFits` | `LeaseInv` |
| `AccessPoint_proofs!EndIsSeen` | `DhcpSpec => ExpiredReused` | `LeaseInv` |
| `Telemetry_proofs!TargetIsThere` | `Spec => []TargetConnected` | `ServerInv` |
| `Telemetry_proofs!OneByOne` | `Spec => []AnsweredInOrder` | `ServerInv`, of which `OneAtATime` is the part it needs |
| `AccessPoint_proofs!OwnedOnce` | `Spec => []StateOwned` | with `ConnectionsOK`: what a connection is made of |
| `AccessPoint_proofs!AddressTold` | `Spec => []AddressIsOurs` | `AddressInv`: where `main` is when its variables have their values |
| `AccessPoint_proofs!AnswersArrive` | `Spec => []AnsweredOrClosed` | `AllSound` |
| `AccessPoint_proofs!LedObeys` | `Spec => LedAsAsked`, an action property | `AllSound` |
| `AccessPoint_proofs!AnswersFit` | `Spec => []AnswerFits` | `AnswerFits`; what it needs is a lemma about the walk over labels |
| `Telemetry_proofs!ScanReadsFormat` | `sscanf` reads back what `sprintf` wrote of any reply | none: a fact about the operators |
| `Telemetry_proofs!OneReplyShown` | `DashboardSpec => []ShowsOneReply` | `WindowInv` |

*Car.* `CountersAgree` speaks of states outside the reset only, so it is not
inductive. `ResetInv` says, for each of the six stores, which counters have
already been zeroed, and bounds each counter by what came before it plus the
pulses taken amid the reset. `DistanceInv` ties the right wheel's incremental
distance, from its store on, to the history `rolled`: it never exceeds it, so
reaching the target implies having rolled it. `MotorInv` says what the motors do
at each place of the loop; from it follow both the direction property and that
every step maps to a step of the mission or a stutter. `BuzzInv` and `FreshInv`
bound the time since the buzzer and the flag were set at each place of the
loop; the second needs that `getCm`, which gives up after 15 ms, is no longer than the
200 ms check interval (`TimesAssumption`). The theorems are for any distances, any target, any number of pulses and any times that satisfy
`DistancesAssumption`, `CountsAssumption` and `TimesAssumption`.

*Sonar.* An echo that counts rises at most `RiseDelay` after its trigger and lasts
less than `MeasTimeout`. `SonarAssumption` says that this is at most two waits (26 ms
against 30 ms). Each call that gives up has waited its whole `Wait`, so
an echo that is three triggers old would have outlived two waits. The invariant
(`SensorInv`, `BurstInv`, `EdgeInv`, `WidthInv`) carries that age from burst to
edge to width: what answers a call of age `a` has been under way for `AtLeast(a)`.
`ReadsOwnEcho` needs the other side of it. What is older than the running call (`Old`)
has been under way for the whole pause before the call, and there is none after a
call that read its own echo (`PauseInv`); an edge or a width of the running call is
the last its sensor gives (`OwnInv`). So a width that a clean call finds valid
is its own (`ValidInv`): nothing older can have come between the trigger and the
read.

*Ranging.* A call of `Read` takes a measurement that some echo stands for, whatever
`Sonar` allows; so the two theorems need nothing of `Sonar` but its step, and
hold for every range, threshold and gain the assumptions admit. A measurement
leaves at most a third of the innovation, or three tenths of a jump, and rounding
never takes the estimate past the measurement: after n on one side the distance
to that side is at most the range divided by 3^n. With the code's numbers that is
`Settle` = 6, and the run checks the same with 2.

*SpeedControl.* A pass on which left is slower adds 1 or more to the integral, unless
it is at its limit; what the interrupt does between the reads changes whether the
target is measured or estimated, not the sign of what is added. The last step
multiplies out the gains, for which the code's own top of 99 cm/s (101 at most,
`SpeedAssumption`) is needed.

*Barcode.* A label is 30 runs of black or white, of any length. `LabelRuns` says
what each of them is, from either end: run `10 * k + i` is bar or gap `i` of character `k`, its
colour is the parity of `i`, and its width is three times the speed where the code
has a wide bar. `Position` says that the last reading was the `q`-th of that run, and
which runs are still ahead; `Place` says, for each place of `barcode_detector`, what its
variables then hold: the bars measured so far are the widths of the runs crossed
(`Measured`), the characters stored are those crossed, and the direction is the end
the label was entered from (`Converted`). There are three ways from one reading to the
next (`IdleReads`): within a run, to the next run, and over a gap, in which the detector
waits for black. At the first reading of a gap a conversion is due and at no other (`Checks`);
its window is then the chunk just crossed (`LastNine`), whose three wide bars the sort finds
(`WideBars`: two at most are longer than a wide bar, three are longer than a narrow one).
The rest is about the tables: no two of 44 rows are the same, each has three wide bars, a row
of the one is a row of the other read backwards, and `*` read backwards is `P`, so the first chunk tells the
direction (`CodesTold`). `FirstLabelDecodes` speaks of the end of a label only;
`Undisturbed` carries it there, from a detector that is clean (`CleanStart`) to the printed
label with white ahead (`Ending`). `Tracks` may be any set of sequences of labels of the 44
characters, with any speed for each character (`TracksAssumption`).

*NtpClient.* `NoStrayAlarm` says for each place of the loop which alarm may be
set and which variable holds it; `Guarded` says for each place what a marked
request has to show for itself: its alarm, or `early`.

*The three TCP tests.* For the echo test, `InStep` says where the counts stand
between any two callbacks: `sent_len` is what has been acknowledged of the buffer
that `run_count` stands for (`Counting`), and that buffer is either not full, and
then all before it has been echoed and acknowledged (`Filling`), or full, and then it
has been written (`Full`). `EchoesInOrder` alone is not inductive: an
acknowledgement that ends a buffer must find it written, and a segment
must find the buffer at the place of the stream that the counts give. A length taken
modulo the buffer's size is resolved in `Quotient` and `Multiples`. Of the sender less is
true: acknowledgements beyond a full buffer are forgotten, so `SenderInv` bounds what
has been acknowledged from below only, which is what success needs. It also says which
verdict a connection with callbacks can have at each place of the loop: none before
the loop has said "test failed", that one until `tcp_client_close` has taken the state
from the pcb, either after a callback without it. So a verdict that changes is told by the
loop at 161 or comes in the window there. `TlsInv` says
that while the loop waits, `complete`, a closed pcb and a known `fate` are one, and
that `error` is the one that belongs to the fate. The three hold for any buffer size,
number of rounds, message and send buffer.

*TempTasks.* `Conserving` is `ReadingsConserved` with the types its counts rest on. The
moving average is a matter of data. `FoldSeq` sums over the set of indices, taking
off any one after the other; that such a sum exists, does not depend on which is taken
off first, and grows by what is appended is proved once (`TotalExists`, `TotalAny`,
`SumAppend`, `SumTail`). The remainder of a count by the ring's size comes back after
exactly as many steps (`RingNext`, `RingBack`, `RingApart`). `Ring` then says where
each of the last readings lies and that `sum` is that of the window: the slot about to
be overwritten holds just what leaves the window (`OldestLeaves`, `WindowSum`).

*Dashboard.* `LockInv` says who is in the critical section; `TextInv` that what is in
the stream and in the receiver's buffer are texts of whole replies; `DataInv` that
`telemetry_data` is torn only between the clearing and `sscanf`, and the screen only
between its two lines, where it still agrees with `telemetry_data` on the direction.
As the lock keeps the two places apart, neither thread sees the other's. That the
scan of a reply's text gives the reply is `ScanReadsFormat`.

*DhcpServer.* The server knows the end of a lease only as a point on the counter's
circle. `LeaseInv` says that the way from the present to that point is the time the
lease has left, as long as it runs (`OnCircle`), that nothing runs longer than a lease
and the unit that a carry out of the clock's lower bits adds (`WithinLease`), and that an address a
client uses is its own in the table, for at least as long as it uses it
(`TableBacks`). A circle more than twice the longest lease then tells before from
after, so a running lease is never taken for an ended one.

*Telemetry.* While no two clients have overlapped there is at most one connection, and
while it is open it is the target and has been answered (`OneAtATime`). One lemma
serves the three callbacks that close the target (`CloseKeeps`), one the steps that
only end connections (`NothingNew`).

*AccessPoint.* Every callback either leaves a connection open in another state, or
closes it and frees its memory, or is lwIP's abort, which counts; the rest leaves
all three alone (`Untouched`, `GoesOn`, `CloseFrees`). `MainOK` says which places
of `main` a bound DNS server and a closing page server imply, from which the polled
build, whose callbacks come at the sleep only, never tells another address. The
theorems are for any set of connections that is finite, and any queries. `AllSound` is
about what is not yet acknowledged: what is missing of the last answer is at most what is in
flight, even when a second GET has set `sent_len` to 0, and nothing lies in `headers`
before the first segment, so that nothing can complete it. For `AnswerFits`, the walk over a name's labels is a
recursive function; that it has a value in the naturals after each label is proved with
a least label that has none (`AfterIsNat`), and the bound then follows from the tests
of the length (`ReplyFits`). The labels are sequences of bytes, 0 to 255
(`AccessPointAssumption`), as a length byte is unsigned.

Induction over data is done on a set: a set of naturals that holds 0 and the successor
of each of its members holds them all (`Successors`), or a set that is not empty has a
least member (`HasLeast`). Both come from the library's well-foundedness of <.

Only model-checked:
- liveness (`ObstacleEndsDrive`, `CallReturns`, `ConnectionFreed`, `ShowsLatest`,
  `AllPrinted`, `AsksForever`, `EveryTestEnds`, `KeyEnds`) and the fairness part of
  `MissionSpec`, which are out of the prover's reach;
- that `Wide` is what the exchange sort of `convert_stay_counts` selects: for all nine
  counts from three values, which are enough because a bar is only compared with the larger
  and the smaller ones (`WideIsSorted` in `MCBarcode`).

Every invariant and action property of the passing runs is a theorem.

## 7. Checking it

Each run is `tlc -config <cfg> <module>`; the largest takes about a minute. The
proofs are checked with `tlapm Car_proofs.tla`, and the same for the other seven `*_proofs` modules.
`CHECK_DEADLOCK FALSE` stands where the system may stop: the window is closed, the
test is over, all clients have left, all readings are taken, the access point has
ended.

## 8. What is not modelled, and why

- Floating point: in `Car` the PID may return any duty in its clamped range and the
  filter any distance, and 0 when it was never allocated; `SpeedControl` and
  `Ranging` say what each really does, on whole units. Of the filter's own p and q
  only the gain matters, which lies between 2/3 and 1; that q doubles without end, and
  is infinite after a thousand jumps in a row, is left out. In `SpeedControl` the
  left wheel that gives no pulse because its duty is 0 stays so until the target
  rises, in the model as in the code; nothing is said of it.
- `buddy4`: no state. `buddy5_ultrasonic.c`, `buddy5_ir.c` and the other earlier
  sensor programs: not built, and what is left of them is in `buddy5.c`, `buddy3.c`.
- Wi-Fi console (`picow_freertos_ping_j.c`): its `main` starts the scheduler with no
  task created, and nothing calls the rest of the file.
- SDK examples: straight-line loops. The TLS protocol, lwIP, FreeRTOS and the SDK:
  modelled by how this code uses them.
- In `AccessPoint` the layout of pages and which bytes lie where in `headers`: what is
  behind a cut request may be anything; in `DnsServer` the letters of a name.
- lwIP's own structures: the background build of `TcpSender` calls `tcp_write`,
  `tcp_output` and `tcp_close` without its lock, and what an interrupt within one of these
  leaves of lwIP's queues is not modelled; each is one step.
- The page server's `tcp_write` is told not to copy (flags 0) and the memory is freed
  with the connection, but lwIP, built with `LWIP_NETIF_TX_SINGLE_PBUF`, copies all
  the same: `AccessPoint` delivers what was written.

## 9. Plan

Done: the core (`Car`, `CarMission`, `Sonar`) with its proofs; the other stateful
programs; what the loop makes of echoes and pulses (`Kalman`, `Ranging`,
`SpeedControl`); the access point and the sender and TLS tests; proofs of every
invariant and action property.

Next, in this order:
1. A composition of `Ranging` with `Car`, so that the distances the loop acts on are
   those the filter gives, and of `SpeedControl` with both.
2. A composition of `Telemetry` and `Dashboard` over one TCP stream: what the
   operator sees against what was commanded.
