# Verification of esp32_scopeclock

The scope clock draws an analog clock on an oscilloscope: two 8 bit DACs move
the beam, a GPIO ("Z blanking") switches it off between lines. This directory
holds TLA+ models of the program, the TLC configurations that check them and
proofs that TLAPS checks. All paths below are relative to the repository, whose
Rust sources are in `src/`, `tool/src/`; the models quote them as `src/src/...`.

## 1. Inventory

| Component | Source | State it keeps | Operations |
|---|---|---|---|
| Display pipeline | `scopeclock.rs`, `high_level.S` | `DMA_DATA.canvas`, `next_display`, `z_blank`; `CURRENT_DISPLAY`, `TX`, `TRANSFER`, `CURRENT_TX_SLICE`; I2S interrupt enable and flag; software interrupt 3 | `scopeclock_init`, `scopeclock_task`, `update_frame`, `select_next_picture`, the level 7 handler, `FROM_CPU_INTR3` |
| I2S / DMA / DAC | hardware and esp-hal | running transfer, FIFO flag | start, run, drain |
| Picture builder | `picture.rs` | `tx_buffer`, `out_index`, `parts`, `current_part` | `add_point`, `add_raw_point`, `add_dot2`, `add_line`, polygons, circles, `draw_font` |
| Clock face | `analog_clock_face.rs` | `StaticPartMeta` | `prepare_static_part`, `draw_dynamic_part` |
| Font data | `font.rs` | a table | none |
| NTP client | `ntptime.rs` | `ntp_context.offset`, UDP socket, `PUBLIC_TIME` | coarse loop, four refinements, supervision loop |
| WiFi connection | `main.rs` | the driver's state and event flags | wait for disconnect, start, connect |
| Network stack | `main.rs` (`net_task`), embassy-net | link, lease | run |
| Start-up | `main.rs` | none after start | bring-up, waiting for link and address, spawning |
| MQTT client | `mqtt.rs` (not spawned) | TCP connection, `WAIT_*` atomics | connect, subscribe, receive or ping |
| HTTP test | `httptest.rs` (not spawned) | TCP connection | connect, request, read |
| Font generator | `tool/src/main.rs` | pen, lines, drawings | SVG path commands, center, sort |

How they interact:

- The task and `update_frame` exchange the two 50000 byte buffers through
  `canvas` and `next_display`, under a critical section (interrupt level 5).
- The I2S interrupt (level 7, not masked by the critical section) disarms
  itself, raises software interrupt 3 and blanks the beam. That interrupt
  (level 3) calls `update_frame`, which starts the next line and arms the I2S
  interrupt again: one loop over two handlers and the hardware.
- The clock face reads `PUBLIC_TIME`, which the NTP client sets.
- `connection` and `net_task` keep the network up for the NTP client, which `main`
  spawns when link and address are there.
- The font table was copied from what the generator printed for `numbers.svg`.

What is hard: the hand-off of buffers between a task and an interrupt, the race
of the interrupt flag with the end of a line, the order of blanking and moving
the beam, redrawing a buffer over its previous contents, late answers to
requests that timed out, events that come while nobody waits for them, a `select`
that drops what it has half read. `PROJECT.json` lists these hazards line by line.

What makes each component correct:

- **Display pipeline.** Each buffer has one owner; the DMA reads only a finished
  picture; the beam travels only while dark; each line is drawn once per pass, in
  order, lit; a lit beam has its blanking ahead; a DMA error leaves it dark; the chain
  of interrupts neither forks nor ends; a finished picture reaches the screen.
- **Picture builder and clock face.** After any number of redraws part `i` of a
  picture is stroke `i`, in either buffer; every part can be sliced as
  `update_frame` does it; the buffer never overflows if the largest picture fits;
  a stroke is continuous and complete. The largest picture of any day fits, and
  nothing of it leaves the screen.
- **Hands and label.** Who reads the clock reads the local time; no hand jumps, at
  twelve least of all; the label covers no hand.
- **NTP client.** An answer is used only with its own request; each correction
  makes up for all errors before; late answers do no lasting harm; the time is
  set when the network allows it.
- **Connection and start-up.** A station that is apart is connected again; a
  connected one is left alone; the time client starts.
- **MQTT client.** A setting goes to its own atomic and never back; the latest one
  arrives; the broker keeps hearing the client.
- **HTTP test.** No server keeps it from the next try, or the other tasks from the
  executor.
- **Font generator.** The drawings follow the paths and come out in order,
  centered; the table in the program is what it prints.

## 2. Modules

| Module | Models | State and actions |
|---|---|---|
| `ScopeDisplay` | what the display promises | abstract: the frame on the screen, its line, the back frame, the beam (dark, aimed, lit, traced, or dark for good after a failure) |
| `Scopeclock` | `scopeclock.rs`, `high_level.S` | see below |
| `Strokes` | the geometry of `picture.rs` | none: operators on points and samples |
| `Picture` | `picture.rs` as `analog_clock_face.rs` uses it | two buffers, the picture under construction, the finished ones |
| `ScopeclockSystem` | `Scopeclock` and `Picture` together | the buffers are shared: strokes are drawn while lines are sent |
| `ClockHands`, `ClockFace` | `analog_clock_face.rs` | the local time of the picture, the place of its label; one action per picture |
| `Font` | `font.rs` | none: the table |
| `Connection` | `connection`, `net_task`, the end of `main` | driver and its event flags, the place of each task, link, address |
| `Mqtt` | `mqtt.rs` | the place in the task, messages under way and where in them it reads, what the broker heard, the two settings |
| `Httptest` | `httptest.rs` | the place in the task, whether it is polled, the socket and its buffers |
| `FontTool`, `Numbers` | `tool/src/main.rs`, `numbers.svg` | pen, line, lines, drawings; one action per SVG command |
| `Ntptime` | `ntptime.rs` | loop, call, error of the offset, the socket's buffer, datagrams under way |
| `MC*` | constants for TLC | `MCPicture` builds a small face with `Strokes`, `MCFontTool` makes short documents |
| `*Proofs` | the proofs about the module of that name (section 4); `ClockFaceProofs` also those about `ClockHands` and `Strokes` | |

Operators named as mutants in a comment (`StaleSlice`, `AtTheFront`, ...) are
plausible bugs of the definition that follows them. No action uses them; putting
one in the place of its original must make TLC find the property violated that
`PROJECT.json` names with it.

### Scopeclock

The state is what the two handlers, the task and the peripheral share.
`canvas`, `next_display` and `current_display` are the three places of the
buffer hand-off. `mem[b]` is what buffer `b` shows, `None` while it is half
drawn, and `pen` the buffer the task holds between `take` and `replace`.
`uf` is the place where the running `update_frame` is:

| `uf` | between | next action |
|---|---|---|
| `enter` | call and `TRANSFER.take()` | `Enter` |
| `reclaim` | `clear_int` and the end of `wait()` | `AdvancePart`, `SwapPicture` or `RepeatPicture`, each with the `write_dma` of the first sample |
| `settle` | that `write_dma` and the end of its `wait()` | `StartLine` |
| `light` | `write_dma` of the line and the GPIO write | `LightBeam` |
| `clear` | GPIO write and the second `int_clr` | `ClearFlag` |
| `arm` | `int_clr` and the `int_ena` write | `Arm` |

The level 7 handler has two steps, `NmiEnter` (disarm, clear, raise
`FROM_CPU_INTR3`) and `NmiBlank` (the GPIO, 1 us later): it may interrupt
`update_frame` anywhere, and while it runs (`nmi = "blank"`) only the hardware
moves. `SwIsr` is `FROM_CPU_INTR3`. A task statement runs only while no handler is
active: `critical_section::with` masks level 3, so the task's accesses are atomic
to `update_frame`. The peripheral is external: `DmaActivate` (the first sample is
read, some time after `write_dma`), `DmaDrain` (the FIFO runs empty after the last
one), `FifoEmpty` (its flag comes back while it is empty). `dac` is what the beam
points at. `Panic` is any `unwrap` of a DMA result.

`transfer_line_for_line` is a constant `true` in the code; the branch for `false`
is not modelled.

Three constants say how the hardware's timing is restricted:
`DelayCoversStart` (the DMA is up when `delay_nanos(10)` is over),
`LineOutlastsArming` (no line ends before `int_ena` is written) and
`DmaMayFail`. Where a property does not need a restriction it is checked and
proved without.

### Picture and Strokes

`Picture` counts in samples (4 bytes of the buffer). A stroke is one call of
`add_dot2`, `add_line`, `add_closed_polygon` or `add_open_polygon`: it writes its
samples at `out_index` and pushes one part. `stage` runs through the calls of
`scopeclock_init`; from then on the task redraws any buffer with any frame.
`static_part` is the `StaticPartMeta` of the second call, which is used with both
buffers. `Strokes` gives what those calls write; their points (circles, glyphs,
hands) are those of `ClockFace`. The `bresenham` crate is external: its
iterator stops one step short of the end point.

### ScopeclockSystem

`Scopeclock` takes for granted that a taken buffer shows nothing until its picture
is finished, and that all else leaves `mem` alone. The composition instantiates it
with `mem` read off the builder's `pictures`, and `Parts` off the strokes, and lets
the builder add one stroke at a time (`DrawStroke`) between interrupts.
`BeginPicture` and `EndPicture` are joint steps; during start-up only the builder
moves. `ImplementsPipeline` states that the assumption is kept.

### ClockHands, ClockFace and Font

The angles of hands and marks are exact in 1/180000 of the circle, so they are
integers. Sines (external, libm) and font points have four digits. `ClockFace`
builds the strokes as the code does, with its three ways of rounding (`ceilf` for
radial points, `roundf` for circles and the label's glyphs, truncation for the
numerals and the label's place); `SamplesOf` makes `Strokes` samples of
them. `f32` puts a coordinate one pixel off where the exact one is an integer; no
property hangs on that. When the hands are exactly opposed, the label's place is
any of nine: the direction of rounding noise, or the center for a NaN.

### Connection

The driver preempts the tasks, so its actions (external) come between any two steps
of `connection`: reading the state, clearing an event's flag, seeing the flag.
`missed` records a disconnect between the first two, the one place where the event
does not count. `LinkIsUp` and `GotAddress` are `main`'s two polling loops. `Start`
may panic, on an error of `set_configuration` or `start`; then nothing goes on (`Alive`).

### Mqtt

`Handshake` lists the calls up to the receive loop. A call may fail as long as the
code tests its result, and panics where it unwraps it: a subscription may also be refused
over an open connection.

`wire` is what the broker has sent and the client has not read, and `frame` where in it the
next byte is. Each call of rust-mqtt begins with a header and its length and keeps what it
has read to itself, so when `TimesOut` drops one that is within a packet (`half`), the rest
stays (`torn`), and the next call takes it for a header: by the length that it reads it ends
within the packet (`Misread`), with the packet, or has more to come (`ReadRest`, `astray`),
in which case it takes the following packets too, or is dropped in its turn. `lost` names the
topics whose latest number went in one of these ways. A message longer than the buffer is an
error that leaves its rest, too (`TooLong`).

What is misread is an error or has another topic, so it stores nothing: a topic comes behind
two bytes with its length, and these are in no topic, number or text that was published. A
binary payload that holds a whole packet is left out.

`Ping` writes the ping, and `Pong` reads its answer from the same stream and without a
timeout: it takes whatever comes first. The answer may then be read by `receive_message`
as an error (`ReceiveFails`), or by the next ping, one behind, for ever; so nothing is
claimed of the client getting back into frame, only that it leaves nothing unread.

`unheard` counts the seconds since the client last wrote; `excuse` how many of them are due
to messages that need no answer and errors, two each, and to a ping that waits.

### Httptest

The executor is cooperative: while `polled` only the task moves, until it awaits
something that is not there. That makes a loop without a pause visible. `room` says whether
`tx_buffer` takes another request: the server may leave them unread.

### FontTool

One action per command of a path. `Trace` is the loop over its parameters, each of which
moves the pen for the next one; `Sorted` inserts the drawings one after the other,
behind those of equal height, as the stable `sort_by` leaves them. `Position` in the properties says where a point
is without following the pen: the last absolute coordinate of each axis plus all
distances since. A line is what is drawn between two moves; a move without
parameters ends one, too. Coordinates are integers; `numbers.svg` is given in millionths.

### Ntptime

`task` is where `time_stuff` is within a loop: about to call, inside `get_time`, or
asleep. A datagram in `rx` is the time at which the server saw the latest
request, or `None` if `get_time` will refuse it: the answer to an older request
(its originate timestamp does not match) or a bad one. `GetTime` turns all that is
in the socket or under way into the latter. `error` is the offset minus the true
distance of the two clocks, in half ticks: a coarse measurement leaves twice the
way back, a refinement the asymmetry of its round trip. `SuperviseError`
replaces the socket, and with its port everything under way is lost.

## 3. Runs

| Run | Question | Bounds |
|---|---|---|
| `scopeclock` | ownership, tearing, dark travel, the interrupt chain; is an interrupt ever lost, do frames reach the screen, does the task go on; is it the vector monitor of `ScopeDisplay` | 3 frames of 2, 1 and 2 lines; lines outlast the arming, DMA calls may fail |
| `system` | are the samples that the DMA reads those of the stroke that is due, while the other buffer is redrawn; is the beam dark after a DMA error; does a time that is drawn reach the screen | any timing, failing DMA calls, a face of 1 stroke, 4 times with 0 to 3, one of which overflows |
| `picture` | redrawing for ever; is only a picture that does not fit refused | a face of 2 strokes, 5 frames of different sizes, one that fills the buffer and one too large for it |
| `picture_rest` | finding: is the rest point sent | same |
| `clock_face` | do the hands show the time, without a jump; is the label clear of them; does every picture fit the buffer and the screen, and is each stroke continuous and complete | two dates, every 37.5 s of the day (steps of 187.5 s, through five days), the code's scale and buffer |
| `connection` | does the station get connected again, does the time client start | none |
| `connection_wait` | finding: does the wait end | none |
| `mqtt` | order of settings, dropped calls and the framing they lose, pings; does the handshake end, do the settings arrive | 2 numbers, 2 messages under way and the answer to a ping, keep alive 5 s |
| `httptest` | does the task come round again, does it let others run | 3 reads of data |
| `font_tool` | do the drawings follow the paths, in order and centered; is `font.rs` what is printed for `numbers.svg` | paths of up to 3 of 14 commands, pairs and triples of shorter ones, and the document itself |
| `ntptime` | accuracy, correction, recovery from late answers | ticks of 1 s, 4 refinements and 2 buffer slots as in the code, 2 late datagrams |
| `ntptime_coarse` | finding: does the first loop end | same |

Why these are enough. The display hands off two buffers whatever the frames are;
one, two and again two lines cover a first line, a middle step, a last line, and
part counts that grow and shrink at a swap; a third frame tells a skipped picture
from a repeated one. `scopeclock` restricts the timing, as its liveness and the
refinement need it; the same properties without a restriction are proved
(section 4), and `system` runs the same pipeline without one. The frames of
`MCPicture` are empty, shorter and longer than each other, and one is too large.

The strokes of `clock_face` are the real ones: about seventy polygons, dots and
lines of the face, whose bezel reaches coordinate 510, the largest one whose
halves fit a byte, and hands at 1152 places of twelve hours, with every full hour,
noon and midnight, and AM, PM and the date as labels. 8 October is the date whose
pictograms have the most samples, 26 December has others. The model's sines have
four digits, so within a degree of opposed hands, where the label's direction hangs
on the last of them, nothing is claimed of it (`Opposed`).

The NTP client only distinguishes answers in time from others; two late datagrams
and two slots fill the socket. Two numbers are an old setting and a new one, or one for
each topic; two messages and an answer under way are one that a dropped call tears, one
that the next call takes with it, and one behind it. A keep alive of 5 s is more than a ping and
one message that puts it off, so `PingsWhenIdle` is decided before `unheard` and `excuse` reach
it. A path needs three commands for a
position that depends on one before the last, and a document two paths for the pen
that must not be carried over and three for an order with equals.

`scopeclock`, `system`, `picture` and `httptest` do not check for deadlock: a panic, or an
interrupt lost under the unrestricted timing, does stop the program. `font_tool`
stops when it is done.

The types of `Picture`, `ScopeclockSystem`, `Ntptime`, `ClockHands` and `Connection`
are proved (`TypeCorrect`, `LocalTimeHolds`) and not checked again, as are
`PartsTransferable`, `PublicFollows` and `ConnectsWhenApart`, which the invariants of
those proofs contain.

**Fairness.** The display: the hardware outputs what it was given, the CPU
executes a handler to its end and serves an enabled interrupt (weak fairness). The
task gets the CPU only between two calls of `update_frame`, so weak fairness would
promise nothing; strong fairness is justified because the shortest part of the
real face is a dot of 14 points, 28 samples, 212 us at 132.3 kHz, of which a call takes
a few. The same number justifies `LineOutlastsArming`. The NTP client: the
executor polls the task, time passes, and a datagram that is not lost arrives.
That the network is ever calm is not assumed; properties that need it say so
(`[]calm`, `<>calm`). The same holds for the access point (`<>[]access_point`)
and the network of the MQTT client (`<>[]up`). In `Connection` timers expire, the
driver answers a `connect()` and reports an access point that is gone; strong fairness of
`Associate` says that one that stays in reach accepts some attempt. In `Mqtt` strong
fairness of each step of the handshake, of `Receive`, `ReceiveFails` and `ReadRest`
says that a network that lets them pass again and again does so some time: a packet, or the
rest of one, arrives before some deadline. `Httptest` has weak fairness only: of
the executor, the task and its timers; a server need not answer. One that keeps the
connection alive and takes no requests is excepted from `TriesAgain` (`Full`), since the
timeout does not end that.

`LineOutlastsArming` means that `scopeclock` cannot show what happens if a line ends before
its interrupt is armed (`scopeclock.rs:245` then erases its flag, and the chain of interrupts
ends); `system` has such lines, and `TimeReachesScreen` excepts them by name.

`NeverOverflows` says that only a picture that does not fit panics; that the real
ones fit 50,000 bytes is `PictureFits`, proved as `PictureAlwaysFits`.

### Findings

- `analog_clock_face.rs:239` adds a sample to "bring the beam to a position to
  rest until the next picture". It lies behind the last part, and only parts are
  sent: it never reaches the DAC (`RestPointSent`).
- `ntptime.rs:83` "get first coarse measurement": after one late answer every call
  reads the answer of the call before and is refused, for ever, even if nothing is
  late or lost any more (`CoarseMeasured`). The last loop avoids this by replacing
  its socket (`LateAnswersCleared`).
- `main.rs:165` "wait until we're no longer connected": a disconnect between reading
  the state (164) and waiting (166) is missed, and the task waits for ever
  (`WaitEnds`).

Seen while modelling, and named in the properties where they need it:

- `ntptime.rs:144` "we should be synced now": a refinement counts and publishes
  whether or not it got an answer. If all four fail, the coarse error, of up to the
  timeout, stays (`TimeAccurate` is as wide as that).
- `mqtt.rs:92` "keeping the connection alive as a ping is sent": each message puts the
  ping off by two seconds (`PingsWhenIdle` counts them), so messages that need no
  answer can put it off until the broker drops the client. The loop then goes on
  without reconnecting (`Deaf` in `SettingsArrive`).
- `analog_clock_face.rs:172` "move range from 1..12 to 0..11": from twelve to one the
  hour stays 12 and the angle is beyond the circle, without harm to the hand.
- `analog_clock_face.rs:194` "at exactly the opposite center": with opposed hands the
  sum of their directions is rounding noise, or zero and its quotient NaN, so the label
  goes anywhere on its circle, or to the center, over the hands.
- The HTTP test spins if it has no address (`Spinning`). It and the MQTT client are
  not spawned at this commit.

## 4. Proofs

The proofs hold for every set of frames, part count, buffer size, timeout, keep
alive and number of refinements, for every start, date and step of time, at
either scale, and for every SVG document, from the named assumptions on the constants (`ScopeclockAssumption`,
`PictureAssumption`, `SystemAssumption`, `ClockHandsAssumption`, `ScaleAssumption`,
`NtptimeAssumption`, `MqttAssumption`, `DocumentsAssumption`), which TLC evaluates in the runs.

- **`ScopeclockProofs`.** The safety properties of `scopeclock`, and
  `PanicIsDark`. `OneOwner` and the others are not inductive: that two slots
  are never filled with the same buffer depends on where the task is, and that the
  DAC moves in the dark on where `update_frame` is and on what the DMA was given.
  `IInv` adds `OwnerInv` (exactly one of canvas, pen and next picture is in use),
  `ContentInv` (what the buffers hold, and that the DMA's slice is the current
  picture), `ChainInv` (one link of the chain is active), `LightInv` (where a lit
  beam is possible) and `DacInv` (from where on the DAC is at the current line).
  No timing is assumed, except for `NeverStranded`: with `LineOutlastsArming`,
  `ArmInv` says that an armed interrupt has its flag set or its line running.
  `Refinement` is `Spec => Display!SafetySpec` with the timing assumptions, also
  when DMA calls fail. `LineInv` adds that a line runs, with its flag clear, when its
  interrupt is armed, so the handler fires once, after the last sample.
- **`PictureProofs`.** `PartsHoldStrokes` needs that the parts measured in one
  buffer fit the other: `StaticInv` (the face is in every prepared buffer, at the
  places `static_part` says), `DrawInv` (the picture under construction holds its
  first `drawn` strokes, its parts without a gap), `PicturesInv` (finished ones
  keep theirs while the other buffer is drawn). `OnlyTooLargeOverflows` follows:
  since the parts lie without a gap from 0 on, `out_index` is the sum of the strokes
  drawn so far (`Ends`), and the picture that overflows would overflow an empty
  buffer. The sums are compared by induction over the strokes.
- **`ScopeclockSystemProofs`.** The invariants of both components hold in the
  composition, as every joint step is a step or a stutter of each (`StepsMap`,
  with `mem` read off the builder), so their theorems are used here through
  their own step lemmas. `BeamDrawsStrokes` joins `ContentInv` of the one with
  `PicturesInv` of the other; `PipelineImplemented` is the refinement of what the
  pipeline assumes, `DisplayImplemented` that of `ScopeDisplay`, all the way from the
  strokes to the vector monitor.
- **`ClockFaceProofs`.** In four parts, from the time to the samples and their number.
  The hands: splitting a millisecond of the day into hour, minute, second and back
  (`DayTime`), the marks a hand has passed, and that an angle grows with the time from one
  picture to a later one, modulo the circle (`PhiOfMillis`, `TurnOfMillis`).
  The strokes: the halves of a coordinate add up to it for all of 0..510, and neighbours
  are at most one DAC step apart; so a Bresenham line is a `Walk` from its start to next
  to its end (`LineWalk`), a chain of walks is one (`TraceWalk`, by induction over the
  lines), and the samples of a walk never jump (`StrokesAreSmooth`, for all points of a
  screen) and visit every point of the stroke (`StrokesAreComplete`). The second is not
  clear where rounded points coincide, since a line without length draws nothing: a corner
  that no line begins at is equal to the next one, so to all that follow, which round a
  closed polygon are all its corners. An open one could lose a corner before a tail of
  equal points; no stroke of the clock does, as each line of a pictogram ends with
  two points that no scale of the clock puts on the same pixel, or where it began
  (`Whole`, read off the table of the font).
  The picture: what the sines, the three ways of rounding, the table of the font and the
  square root (`SqrtFacts`) bound, up to `FaceFacts`, `HandsFacts` and `LabelFacts`: every
  stroke of the face, the hands and the label at its place is one of `Parts`, with all its
  corners on the screen and two that differ. `InvFace` (a local time, and a place of its
  label) is the inductive invariant; `PartsDrawable`, `LitBeamNeverJumps`
  and `VerticesVisited` follow for every millisecond of any day, where the run looks at
  1152 of them.
  The length: a line has as many points as its longer side, of at most two samples each.
  The table of sines climbs by at most 175 per degree (`Steady`), which bounds how far two corners
  of a circle are apart; what the font has in lines is summed up drawing by drawing from
  its table. So the circles take at most 3460 samples, the marks 6420, the hands 1388 and the
  label 885; with the rest point that is 12154 samples, or 48,616 bytes. `PictureAlwaysFits`
  assumes of `TxBytes` only that it is at least the 50,000 of the code.
- **`ConnectionProofs`.** For every order of the driver's and the tasks' steps.
  `IInv` adds to the properties that the flag of a disconnect, once the task waits for
  it, means one that has been (it was cleared before), and that a task about to wait
  without a connection has missed its end.
- **`MqttProofs`.** For every keep alive and any number of messages sent and under way.
  `WireInv`: the numbers under way for a topic come in the order in which they were
  published, all newer than its setting. `LossInv`: a call takes the oldest packet, in frame
  or not, so the latest number of a topic is under way as long as any is (`LossesNamed`), and
  a setting that is behind has lost the latest one. `WireSteps` sorts the steps by what they do
  to the packets: nothing, drop the first, handle the first, add one, or lose all.
  `PingInv` says for each place in the loop how long the broker has not heard the client
  (`PingsInTime`).
- **`NtptimeProofs`.** `FreshInv` says that no answer claims to be from after now,
  and `LoopInv` what is known in which loop. Then a coarse measurement is wrong by
  at most the timeout, and a refinement leaves at most half its round trip.
- **`FontToolProofs`.** For documents of any number of paths, commands and parameters.
  `PathsFollowed` is not inductive: that a further command draws what the path says needs
  that the pen is where the elements read so far end (`PenAt`), and where its line begins
  needs the stroke of the last of them, which the line being drawn, once it has a point,
  belongs to (`DrawInv`). The lemmas say what one more element does to each side: a position
  is where its element takes the one before it (`PositionStep`), further elements add the points
  that are traced from the pen (`PointsConcat`), and begin a line if they are of another
  stroke (`StartsConcat`); a move without parameters begins one only with the next
  command that draws (`NewLine`). For `PrintedInOrder`: inserting one more drawing keeps them
  in order (`InsertedOrdered`), so the r-th has r - 1 drawings above it (`Rank`), and centering,
  which happens after sorting, is linear (`CenteredIs`).

Induction. The library's induction theorems take a predicate as a parameter, which the
provers cannot instantiate. `SetInduction`, which the modules about sequences begin with, takes
the set of the numbers for which the claim holds instead, and follows from the
well-foundedness of `<`. With it, what a recursive function returns is proved (`Ends`, `Sqrt`,
`FlattenSeq`); `RecursionDefined` says that there is such a function.

Only model-checked:

- liveness (`FrameReachesScreen`, `ClockKeepsDrawing`, `TimeReachesScreen`,
  `PromptNetworkSyncs`, `LateAnswersCleared`, `Reconnects`, `TimeClientStarts`, `GetsServed`,
  `SettingsArrive`, `LetsOthersRun`, `TriesAgain`), which is out of the prover's reach;
  fairness under the refinement mapping is not stated, so `ScopeDisplay` promises safety only;
- `LabelClearOfHands`: it bounds the scalar products of interpolated, rounded sines by two
  units. The bound that follows from how far each sine is rounded is far larger, so that
  only the values of the table at each time show it: a computation that TLC does;
- all of `Httptest`, whose properties are about liveness, and `FontGenerated`, which is about
  one document.

## 5. Not modelled

- Clock drift, and `Duration` below zero (a server whose clock is close to 1970).
- The rounding of `f32` (see `ClockFace`) and the rules of the time zone: the local
  time is any time that passes, without the two changes a year.
- `util.rs` (re-exports); the straight-line start-up in `main` (heap, clocks, pins,
  WiFi initialisation); what is inside embassy-net, esp-wifi, rust-mqtt, the `svg`
  parser: each is an external environment of the module that uses it.
- What rust-mqtt reads out of frame, except for where it stops (see `Mqtt`).
- Text: what is logged and printed, the characters of HTTP answers and payloads.
- The second half of `transfer_line_for_line`, which is a constant `true`.

## 6. Plan

1. `Ntptime` with drifting clocks: how far `PUBLIC_TIME` strays after the last
   refinement, as a function of time.
2. The display's time from `Ntptime`: `PUBLIC_TIME` changes while a picture is
   drawn, and an older time may be shown after a newer one.
3. Proofs: `LabelClearOfHands`, from a closer bound on the products of interpolated sines.
