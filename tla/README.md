# imgv in TLA+

Specifications of the image-plugin library imgv (`src/imgv`): threads called
*plugins* exchange recyclable images and messages through two-lane queues, a
registry called *qpmanager* connects, starts and stops them, images may travel
over the network to another process, and programs (`src/examples`) play, time,
record and show them. The modules are translated from the C++ code. TLC checks
small instances of them; their safety properties are also proved for all
sizes with TLAPS.

Check a module with `tlc -config MCRQueue.cfg MCRQueue`, the proofs with
`tlapm RQueueProofs.tla` (likewise `PluginsProofs`, `QPManagerProofs`,
`NetStreamProofs`, `MovieProofs`, `DripProofs`, `RecorderProofs`, `ViewerGLFWProofs`).

## 1. The system

| part | state | operations | interacts by |
|---|---|---|---|
| `rqueue` (rqueue.hpp) | deques `Q`, `Qctrl`; mutex `acces`; condition variable `not_empty` | 3 pushes, 5 pops that return at once, 4 pops that wait | shared memory, called by any plugin thread |
| `recyclable` (recyclable.cpp) | `Qrecycle` of each item | `recycle`: push to the front of the pool it came from, or delete | calls `rqueue` |
| `plugin<T>` (plugin.hpp) | thread id, `running`, ports `Qs`, message pool `Qmessage`, event bindings | `start`, `stop`, `mainthread` (init, loop…, uninit), pops that handle messages on the way, pushes that recycle at an unconnected port, `checkOutgoingMessages` | one thread each, `rqueue` on both sides |
| `qpmanager` (qpmanager.cpp) | static maps of queues and plugins, one mutex, counter of anonymous queues, listener threads | `addQueue`, `addPlugin`, `connect` (three forms), `reservePort`, `getQueue`, `start`, `stop`, `startNetListening…`, `stopNetListening` | called by the main program and by the listener |
| `pluginNet2` (qpmanager.cpp:270-560) | the image being received `i0`, its number `n0`, a pool of three images | runs registry commands that come from the network, routes messages, receives images | sockets, `qpmanager`, `rqueue` |
| `pluginStream`, `pluginNet` | counter `n`, `i0`/`n0`, mode, `realtime` | cut an image into a header and data packets; put it together again | sockets |
| `pluginFfmpeg` | the open film, `frameNum`, `frameLength`, `hasClosed`, `paused` | `/start`, `/stop`, `/pause`, `/rewind`, `/seek`, `/set/length`; event "end" | takes empty images, sends frames, messages |
| `pluginDrip` | start time, fps, `paused`, `n`, `count`, `flush`, `initializing` | `/start`, `/fps`, `/pause` with a time reference or now, `/flush`, `/reset`, `/count` | holds each image until its time |
| `pluginDripMulti` | the same, inputs, outputs, `sync` | one image of each input per group, same frame number | `rqueue`, messages |
| `pluginRead`, `pluginSync`, `pluginSave` | playback and numbering state, `togo`, `nbGo`, `count` | read numbered files; let images through and distribute them; write files | a chain of queues and one pool |
| `pluginViewerGLFW` with `GLFWViewer` | tables of windows, drawables and uniforms; the image kept for each uniform | gather, show; `/new-window`, `/new-quad`, `/del-quad`, …; two kinds of `stop` | takes images by view, OpenGL |
| movie programs (extractPattern, saveMovie, playMovie) | their main loops | start films, wait for "end", poll queue sizes | messages, queues |
| cameras, image processing, other viewers | drivers, OpenCV, OpenGL ES | – | not modelled (section 6) |
| udpcast, tcpcast, oscpack, video decoders | sockets, parsers | – | the network of `NetStream`, the files of `Ffmpeg`; otherwise not modelled |

What is hard here, and what should hold of each part:

* **Queue.** One condition variable serves four conditions (something, something
  in the control lane, …) and a push broadcasts only when *its* lane was empty;
  a thread may be cancelled in `pthread_cond_wait`. Should hold: no wakeup is
  lost, a cancelled thread never leaves the mutex locked, a control message
  overtakes images, an item is never in two places.
* **Plugin threads.** `stop()` is `pthread_cancel` and `pthread_join`, at any
  cancellation point, with an image in the thread's hands. Pools are the only
  memory, so a path that does not give an image back stops its source. Should
  hold: one owner per item, each pool keeps what belongs to it, items are lost
  only to a cancelled thread, `stop()` returns, images circulate, commands are
  processed while images stream.
* **Registry.** The main program and the listener call it at the same time; it
  locks some paths and not others. Should hold, as long as two of the unlocked paths
  have not met: a registered queue or plugin is never replaced, every call returns,
  every thread that was started can be stopped.
* **Image transfer.** No acknowledgement, UDP loses, repeats and reorders, the
  receiver has few buffers. Should hold: images are never mixed, an image whose
  packets were undisturbed arrives complete, no buffer gets lost.
* **Movie player.** A frame is decoded before the thread waits for an empty image,
  and commands are obeyed in that wait. Should hold: no frame of a film that was
  stopped or replaced goes out, programs that wait for "end" go on, what was
  passed on is saved before the program quits, a frame keeps its number.
* **Schedule.** Commands that carry a time are obeyed late. Should hold: the
  schedule is the one of their time; an image leaves when it is due.
* **Recording chain.** Commands come while the reader waits for an image; counts
  are tested for one value only. Should hold: a pause holds its frame, counts are
  kept, no image gets lost on the way.
* **Groups of movies.** Movies of different lengths start again at different
  moments. Should hold: a group has one frame number, no image is skipped in
  vain, the movies get in step again.
* **Viewer.** Indices into tables whose entries are used again are kept while
  messages delete what they stand for; there are two `stop()`s. Should hold: the
  tables agree, an image is shown where its view says, in order, `stop()` returns.

## 2. The modules

Modules that end in `Proofs` hold proofs, modules that begin with `MC` give the
constants of TLC's runs. `NetStream` needs no MC module: its constants are
numbers and model values.

| module | models | extends / instantiates |
|---|---|---|
| `TwoLane` | the two deques: what each push and pop does to them, and when a push signals | – |
| `RQueue` | one queue and the threads that call it, with mutex, condition variable, cancellation | `TwoLane`; instance of `Channel` |
| `Channel` | abstract specification of the queue: one sequence, control messages first, every operation atomic | `TwoLane` |
| `RQueueProofs` | inductive invariant and theorems of `RQueue`; `RQueue` implements `Channel` | `RQueue`, TLAPS |
| `Plugins` | plugin threads, queues, recycling, messages, events, start and stop | `TwoLane` |
| `PluginsProofs` | inductive invariant and theorems of `Plugins` | `Plugins`, TLAPS |
| `QPManager` | the registry, its lock, the life of plugin threads and of the listener | – |
| `QPManagerProofs` | inductive invariants and theorems of `QPManager` | `QPManager`, TLAPS |
| `NetStream` | an image sender, the network, the receiver and its consumer | – |
| `NetStreamProofs` | inductive invariant and theorems of `NetStream` | `NetStream`, TLAPS |
| `Ffmpeg` | the movie player: commands, decoding, the "end" event | – |
| `MoviePrograms` | four programs that drive it, with skipper, savers and viewer behind it | `Ffmpeg` |
| `MovieProofs` | inductive invariants and theorems of `MoviePrograms` | `MoviePrograms`, TLAPS |
| `Drip` | the schedule of pluginDrip | instance of `Playhead` |
| `Playhead` | abstract specification of a schedule: a position that moves at a rate | – |
| `DripMulti` | the groups of pluginDripMulti, its pause and reset | – |
| `DripProofs` | inductive invariants and theorems of `DripMulti` and of `Drip`; `Drip` implements `Playhead` | `DripMulti`, `Drip`, TLAPS |
| `Recorder` | pluginRead, pluginSync and pluginSave with their pool | – |
| `RecorderProofs` | inductive invariant and theorems of `Recorder` | `Recorder`, TLAPS |
| `ViewerGLFW` | the viewer's thread, its auto-skip and its tables | – |
| `ViewerGLFWProofs` | inductive invariants and theorems of `ViewerGLFW` | `ViewerGLFW`, TLAPS |

### TwoLane and RQueue

`q = [Q, Qctrl]` are the two deques, `acces` the mutex owner, `pc[t]` the place
of a thread (the header of the module lists them), `op[t]` the operation it
called and `p[t]` the pointer it passes by reference: a push sets it to NULL
while it holds the mutex, a pop sets it. One call is `Call`, `Lock`, then `Push`
or `Take`/`Pop`/`PopNothing`, or for a waiting pop `MustWait`/`CondWait`, the
broadcast of a push (`Woken`), `Relock`, the second test, and `LoopAgain` when
another thread was faster. The waiting pops differ from one another in the lanes they
look at (`Available`, `FromCtrl`, `FromReg`). A thread is cancelled in the wait
(`CancelWait`), takes the mutex back as POSIX prescribes (`DyingLock`) and runs
the handler of `pthread_cleanup_push` (`Cleanup`). Items are made and deleted by
their holder (`New`, `Delete`), a dead thread may be started again (`Respawn`).
`SpuriousWakeup` is the freedom POSIX gives `pthread_cond_wait`.

`Channel` says what a user of the queue may rely on: `chan` is one sequence of
items, control messages first; a call takes effect in one step (`Put`, `Get`,
`GetNothing`) between `Call` and `Return`; a wait may be abandoned by
cancellation. The refinement mapping (`Chan` in `RQueue`) concatenates the lanes
and calls an operation finished when it changed the deques. `ImplementsChannel`
includes the fairness of `Channel`: operations whose item stays available take
effect.

### Plugins

The queues are used through the atomic operations of `TwoLane`; that is what
`ImplementsChannel` allows. `phase[p]` follows `mainthread`: `init`, `loop`,
`pop`, `handle` (a message, in `localhandler`/`decode`), `work` (an image),
`uninit`, `ended`. `Loop[p]` is the sequence of pops in the plugin's `loop()`,
with the modes of the pops of `plugin<T>` as they handle messages: the plain ones process a
message they meet, the `noctrl` ones put a message they meet in the regular lane
into the control lane for later (`DeferMessage`), the `ctrl` ones recycle an
image they meet. `Finish` pushes the image to the output port or recycles it
when nothing is connected; `EmitReused`/`EmitNew` are `getMessage` with and
without a message in `Qmessage`, followed by the push to the event port.
`Stop`/`Joined` are the two halves of `stop()`. A thread is cancelled where it
waits, where it works and prints or sleeps (`CancelAtWork`, for the plugins in
`Printing`) or in `init()`, before the cleanup handler is installed.

### QPManager

`calls[c]` is the stack of calls a client (the main program or the listener) is
in and `pc[c]` the place in the top one. Compound operations are sequences of
simple ones as in the code (`Expanded`, `Report`, `TakeName`): `addPlugin` ends
with a `connect` of the log port, `connect` without a name adds a queue first,
`startNetListening` stops the old listener, looks the log queue up under the lock
and starts the new one.
`acces` is the mutex of the maps, taken and released where the code does: not in
`connect` by name before it looks the plugin up (`LookUp`), not in
`nextAnonymousQueue` (`ReadCounter`, `TakeName`). `start()` and `stop()` are
`TestRunning`, `Create`, `SetRunning`, and `CancelThread`, `Join`,
`ClearRunning`, without a lock, as in plugin.hpp:734-765; `orphans` counts the
threads whose id was overwritten. The listener may be cancelled at its prints
(`CancelPoint`), also with the mutex held: when a queue or a free port is not found
(`Complain`), and in the constructor of a plugin, which `addPlugin` runs under the
mutex (qpmanager.cpp:851, plugin.hpp:300). The model does not follow the entry with a
NULL plugin that `pmap[name]=` may have made before the constructor printed: the
mutex is gone then, and nobody reads the map under it again.

Three history variables record when the code's own gaps were met: `stray`, a
`connect` of a plugin that was not there unlocked the mutex while another held it;
`raced`, the plugins that both threads were starting or stopping at once; `leftLocked`,
a listener died with the mutex. The calls are not restricted; each property says what
holds until one of these happened.

### NetStream

The sender's `part` walks from looking for a newer image (`realtime`) through the
header to the last block; `n` is what it puts into packets and `NextN` is its
increment, which pluginNet does not have (`Counts`). `wire` is a sequence of at
most `MaxWire` packets; `Lose` and receiving with `again` or from the middle are
loss, repetition and reordering (`Datagrams`). The receiver keeps `i0`, `n0` and
may be stuck with a header that waits for an empty buffer (`pending`). Block
contents are the number of the image they come from, so that a mixture shows.
`hurt` and `arrived` are history variables. `TypeOK` includes that the sender passes
every image on in order, the skipped ones too (`PassedOn`), and that the receiver's
buffers are neither lost nor shared (`InOnePlace`).

### Ffmpeg and MoviePrograms

`pc` follows `loop()`: `top`, `wait` (no film or a pause), `poll` (commands before
a frame), `pop` (a frame is decoded and needs an image). A message is a bundle of
commands; in the last three places the first command of the first message is obeyed in
one step (`ObeyCommand`, `Decode`). A frame is its film and its position,
`n` is what the image carries as its number. The decoder is a file of numbered
frames (`Frames`, 0 for a file that does not open), which may or may not tell its
length (`Counted`). `hasClosed` is kept as the code keeps it: set by `StopMovie`,
also at the natural end of a film, reset only when an image is dropped. `triage` counts
the bindings of the event "end" for each port; `Becomes` sends one message for each.

`MoviePrograms` adds the main threads: `extractPattern` (two passes over a film),
`saveMovie` (skipper, two savers, quits when the pool is full again), `playMovie`
(a list of films, the viewer's key that shortens one), and `anyone`, who may send
any command at any time, as the network may. A program's first messages lie in
the queue when the player starts, in the order in which the code sends them. An
image is in the pool, in a queue or in a worker's hands (`TypeOK` counts them).
The schedule between player and viewer is left to `Drip`. `SeekAssumption` keeps
`anyone` from seeking past the end of a film, where the demuxer decides what comes: if a
film was opened and nothing was decoded yet, the player sends an image with a frame
that was never filled.

### Drip and Playhead

Time is counted in units, `1/fps` is `period`. `at` is the place in `loop()`;
commands are obeyed one by one in the wait of the initialization, in that of a
pause, and in the pop of an image whose time has come. `ResetFps`, `Hold` and
`GoOn` are the arithmetic of `/fps` and `/pause` from their time reference.
`Playhead` is what a schedule promises: a position that moves at a rate and does
not jump. `Obeying` lists the fields as the pending commands are obeyed one after the
other. The refinement mapping takes the fields *as they will be* when the
pending commands that carry a time are obeyed (`Schedule`: after the first
`TimedCount`); `FollowsPlayhead`
then says that a command has its effect when it is sent, however late it is
obeyed. `changed` and `inPause` are history variables.

Two conditions on the constants are named in the module: `WholeSteps` (the steps of the
clock are so coarse that no time must be rounded; the code reckons in seconds as
double) and `SettingsFirst` (a program sends its settings, then `/start` for now or
later, as playMovie and scanImages do). `FollowsPlayhead` needs both, the other properties
neither; `MCDrip` assumes them, so TLC checks that its instance keeps them.

### DripMulti

`pc` follows `loop()` and `skipAllUntil()`: waiting for commands (`init`,
`pause`, `batch`) or polling them (`poll`), `gather`, `skip`, `send`. Sources are
movies as pluginFfmpeg plays them, started again by the program at their end:
frames `0 .. Length-1`, again and again, into a bounded pool. `skipped` is a
history variable. When a group leaves is the schedule of `Drip`.

### Recorder

A reader, a sync and savers in a row that share one pool. The reader chooses the
number of its next file (`ReadTurn`), waits for an empty image and obeys commands
in that wait (`ReadObey`), then reads the file with the chosen number
(`ReadImage`). The sync obeys messages until it may let images through, and gives
each to the shortest queue (`Shortest`). A saver takes an image, counts it and
announces "done" (`SaveTake`) before it writes it (`SaveWrite`). `out` are the ports
of `/distribute` that exist and are connected: the sync chooses among these, and recycles
the image when there is none. `limit`, `frames`, `passed`, `gos` and `allowed` are
history variables: the last count that a command permits and how many frames a `/next`
does, and what the sync was told.

### ViewerGLFW

`windows`, `drawables` and `unifs` are the tables, sequences whose deleted entries
are used again (`Put`) and that refer to each other by index. A turn of `loop()`
gathers: it takes images, looks the uniform of their view up (`UniformOf`) and
keeps the newest image of each (`TakeImage`), and obeys the messages in between
(`Decode`), which may delete what an index stands for; when the queue is empty all is
shown (`ShowAll`). With `/manual` each image is shown as it comes. The thread ends
in two ways: `plugin::stop`, which the registry calls, cancels it
(`StopByManager`, `Cancelled…`), and `pluginViewerGLFW::stop` sets `kill`
(`StopByOwner`). A cancel in `init()` leaves the tables as they are, one in the
`uninit()` after a `/kill` cuts it off at a print: some drawables are deleted, and one
may have lost only some of its uniforms (`StopsShort`, viewerGLFW.cpp:502-529), and
neither `init()` nor `start()` clears what is left. The windows stay in the table too,
although GLFW has destroyed them; what OpenGL does with them is not modelled. `stale`,
`torn` and `shown` are history variables.


## 3. The runs

| run | instance | what it shows | states |
|---|---|---|---|
| `rqueue` | a thread with every operation that does not wait, two that wait on different conditions, 2 items | `MutexHeld`, `OnePlace`, `NoLostWakeup`, `WaitersServed`, the refinement `ImplementsChannel` | 90 112 |
| `plugins` | source and sink, a pool of two images, a third one from outside, a message, events in the control lane, any starts and stops | `SingleOwner`, `PoolsKept`, `LostOnlyByCancel`, `StopReturns`, `ImagesComeBack`, `CommandsHandled` | 357 681 |
| `plugins_uninit` | the same | *violated*: finding 1 | – |
| `registry` | main and listener on an empty registry: both add the log queue and start and stop one plugin, which the listener adds and the main program connects, maybe before it is there; a plugin of an unknown type; a port reserved twice; the listener is stopped and restarted | `LockRespected`, `NeverReplaced`, `ThreadsStoppable`, `CallsReturn` | 841 317 |
| `netstream_udp` | 3 images of 2 blocks, 2 buffers, 2 packets in flight, realtime | `NeverMixed`, `WholeUnlessHurt`, `Delivered` | 339 291 |
| `netstream_mixed` | pluginNet's constant number, 3 packets in flight | *violated*: finding 2 | – |
| `movie` | the four programs, films of 3, 2 and 0 frames, a pool of 2 | `NoStaleFilm`, `SavedBeforeQuit`, `ProgramsGoOn` | 306 726 |
| `movie_extract` | extractPattern | *violated*: finding 3 | – |
| `drip` | two rates, one twice the other, three ways to begin, 3 commands | `FollowsPlayhead`, `LeavesInTime` | 313 094 |
| `dripmulti_loop` | 3 movies of 4, 3 and 3 frames, pools of 2, one shown and two recycled | `InStepOrRestart`, `BackInStep` | 186 384 |
| `recorder` | 3 files, 2 savers, connected or not, a pool of 2, 4 commands | `PauseHolds`, `CountsKept` | 14 813 708 |
| `viewer` | a window, a quad with one sampler and one with two, 2 images | `TablesSound`, `ShownWhereAsked`, `NeverBackInTime`, `StopReturns` | 1 806 692 |

Every passing run also checks `TypeOK`. In `NetStream`, `MoviePrograms`, `Recorder`
and `ViewerGLFW` it includes the conservation of the images.

**Bounds, and why they are enough.** Two threads meet in every pair of operations
of the queue; three are needed for a waiter that is woken for an item which a
third thread takes, and for two waiters on different conditions. Two items fill
a lane and let both lanes be non-empty; a push to a lane with one item is the
one that does not signal. The pipeline has the two ends a pool has; a
third image tests an item that has no home in a full queue, and one message is enough to
be in any place (`MaxSends` bounds what the main program sends to one). The registry has one name
that both threads add, one plugin that both start and stop, one with a type that does
not exist, and one anonymous queue (only the main program asks for one, so that the
counter that `nextAnonymousQueue` reads without the lock is no part of the run). In `NetStream` two packets in flight are
enough to swap neighbours and to bring a late block into the next image; two
buffers are one less than the code has (qpmanager.cpp:302), so that exhaustion is
reached; three images let a number be late by two (`MaxImages` ends the run).
Films of 3 and 2 frames have a first, a last and one in between, one tells its
length and one does not; the third cannot be opened. `MaxCmds` lets one command of
anyone's wait at a time, so that it is obeyed at each of the three pops, and `MaxSeek` ends its
seeks after two images (numbers would grow for ever). In `Drip`
`MaxTime` is three steps and `MaxTells` three commands: two that are pending when a
third is sent, with time between any two of them; of the images only that there is
one matters (`MaxImages` = 1). In `DripMulti` three inputs allow one to
run ahead, one to restart and one to lag; lengths 4 and 3 let them restart at
different moments in every relative position, and the sources begin at any frame.
In `Recorder` two savers are needed for a choice and two images for one that waits
while another is written; a saver with a count of 1 and one without end, a
sequence that ends by `/max` and one that ends with the files; `MaxTells` = 4 lets a
pause be followed by three commands, one of them a `/pause -1`, which only takes back
what is pending. Either both ports of `/distribute` are connected or none. In `ViewerGLFW` the two quads have three
samplers, so that entries are used again in another order and with another number
of uniforms; `NbUid` = 2 makes the third index one that the auto-skip has no room
for; a second image lets one replace the other, and `MaxSent` counts the images.

`CHECK_DEADLOCK FALSE` is set where the model really stops: `movie` (programs
quit), `netstream_udp` (all images sent), `drip` (end of time), `recorder` (all
commands sent, savers and reader wait) and `registry` (a listener that dies with the
mutex leaves everybody waiting for it).

**Fairness.** Every thread that can take a step takes one in the end: weak
fairness of its own steps. Beyond that:

* acquiring a mutex is strongly fair (`RQueue`, `QPManager`): pthread mutexes do
  not starve a thread for ever on the platforms concerned, but the standard does
  not promise it; `NoLostWakeup` and the safety properties do not depend on it;
* `CancelAtWork` is strongly fair (`Plugins`): a cancelled thread that keeps coming to
  `cout` or `usleepSafe` is cancelled there. A deferred cancellation acts at the
  next cancellation point, so this is weaker than what pthreads promises;
* `FirstArrives` is strongly fair (`NetStream`): the network does not repeat and
  reorder for ever; loss stays possible without limit;
* `Proceeds` is strongly fair (`MoviePrograms`): the player's thread comes past the poll of
  its commands, that is, keys are not pressed faster than it obeys them;
* in `ViewerGLFW` the thread's turns, the taking of images and the acting upon a
  cancel are weakly fair: the queue is seen empty in the end, because messages are
  rarer than turns, and each turn polls and prints.

`drip` and `recorder` check safety only. No environment action (starting, stopping,
sending, loss, commands, spurious wakeups) is fair.

## 4. What is proved

`RQueueProofs`, for any set of threads, any items and any choice of the
operations each thread calls; the only assumption is `RQueueAssumption` (NULL is
not an item, "nobody" is not a thread):

* `TypeCorrect`, `MutualExclusion`, `NoWakeupIsLost`: `Spec => []P` for `TypeOK`,
  `MutexHeld` and `NoLostWakeup`;
* `Ownership`: `Spec => []OnePlace`.

None of the three first is inductive alone. `Inv` is their conjunction with
`PlaceInv`, which says which operation and which pointer go with each place:
that a waiting thread is in a waiting pop, that one between test and unlock has
what it says it has. The argument for wakeups: a thread goes to sleep in the step
that finds its pop impossible; a pop by another thread makes no pop possible
(`TakingEnablesNothing`); a push either broadcasts, so that nobody sleeps, or it
found its lane non-empty, and then it makes nothing possible that was not
possible before (`SilentPush`). The second lemma is what justifies the code's
`if( Q.size()==1 ) pthread_cond_broadcast` (rqueue.hpp:166). `Ownership` builds on `Inv`: a pushed item comes from
the hands of the one thread that holds the mutex, and was nowhere else.

Also there, under the same assumption:

* `Linearizable`: `Spec => Chan!SafeSpec`, the safety half of what the run
  `rqueue` checks as `ImplementsChannel` (its fairness stays with TLC).

The channel is one sequence, the code has two deques. `ChainElements` says which
entry of the one stands at which place of the other, `PositionTaken` that the lane
a pop chooses (`FromCtrl`) holds the entry the channel must hand out, that is that
no eligible control message is passed over. Then every action is mapped: `Push`,
`Pop` and `PopNothing` are the channel's operations, in the step made under the
mutex; call and return are its call and return; locking, sleeping, waking and the
loops are stutters. A cancelled wait must be the channel's `Abandon`, which
is allowed only while the channel has nothing for the thread (`CancelMaps`). That a
thread asleep has missed nothing is `NoLostWakeup`: the refinement holds only because
no wakeup is lost, and `Inv` supplies it.

`PluginsProofs`, for any plugins, queues, wiring of ports, loops and pools, from
`PluginsAssumption` alone:

* `TypeCorrect`, `Ownership`, `Pools`: `Spec => []P` for `TypeOK`, `SingleOwner` and
  `PoolsKept`;
* `LossOnlyByCancel`: `Spec => LostOnlyByCancel`, an action property.

A step of a plugin may move several items (a push to an unconnected port recycles,
`getMessage` takes one, an event sends another), so ownership is stated of the contents
of the queues, the hands and the allocated items as parameters (`OwnedIn`), each
elementary move is a lemma, and a step chains them. `StopInv` is what makes a cancellation
harmless: only the thread that is joined is cancelled, and a plugin that
is not running has no thread, so that nobody else holds what it held.
`PoolInv` adds that what has a plugin for its home is a message: this is why
`recycle` never puts an image into a `Qmessage`, whatever port it came through.

`QPManagerProofs`, for any names, ports, and calls of the main program and of the
listener and a listener cancelled anywhere, from `QPManagerAssumption` alone:

* `TypeCorrect`: `Spec => []TypeOK`;
* `Locked` and `Unreplaced`: `Spec => []P` for `LockRespected` and `NeverReplaced`, which
  promise something until a `connect` of an unknown plugin has unlocked the mutex of
  another (`stray`, qpmanager.cpp:1129);
* `Undisturbed`: `Spec /\ [][ConnectsKnown]_vars => []~stray`: if clients connect by name
  only what is there *at the call*, also what they have just added, that never happens;
* `Stoppable`: `Spec => []ThreadsStoppable`, for every plugin that the two threads were
  not starting or stopping at once (`raced`; `start` and `stop` take no lock).

`Inv` says which stack of calls a thread may have at which place (`IsAt`) and how the
listener's life goes with the place of the main program (`NetInv`: it is cancelled
only while somebody waits for it, and started only when there is none). `Held` and
`Free` add that whoever is in a critical section holds the mutex and that the name it
found free is free; the only step that can break them puts itself on record in
`stray`. `FoundInv`, for `Undisturbed`, says that what `connect` looks up without the lock is
there, because plugins are never removed: that `addPlugin`'s own `connect` keeps the
rule is part of the proof. `ThreadInv` says that what `start` and `stop` of a plugin found
out about the thread is still true when they act on it (`Sound`), also when a cancelled
listener leaves `stop` half done: two clients at one plugin are on record in `raced`.

`DripProofs`, first part, about `DripMulti`: for any inputs, outputs, lengths, offsets and
pool sizes:

* `TypeCorrect` and `FlowInvariance`: `Spec => []TypeOK`, and that the images of each movie
  stay in sequence;
* `InStep`: `Spec => []InStepOrRestart` under the named assumption `NonNegative` (no input
  has a negative offset; with one, the numbers of two inputs could never meet).

`InStepOrRestart` speaks of one moment, the sending of a group, and says nothing
of how the group came about, so it is far from inductive. `Inv` adds what the
loop keeps up on the way: the images that wait in a queue are in sequence, each
one number further than the last or 0 again (`InSequence`); the target of a
group is the greatest number that was gathered (`Gathering`); an input is skipped
no further than the target unless it comes upon frame 0 on the way (`Skipping`).

`DripProofs`, second part, about `Drip`: for any periods, first messages, steps of the
clock and bounds, from `DripAssumption` (periods are positive, messages are some that
`decode` understands, the first ones refer to the start of the program or to now):

* `DripTypeCorrect` and `LeavesWhenDue`: `DripSpec => []DripTypeOK` and
  `DripSpec => LeavesInTime`, an action property;
* `NoJump`, the law of the arithmetic: a command that refers to the time `r`, obeyed at any
  later time, leaves the film at `r` where it was (a change of the rate in a pause
  excepted, see section 5);
* `Follows`: `ASSUME WholeSteps, SettingsFirst PROVE DripSpec => FollowsPlayhead`, the
  refinement of `Playhead`.

`DripInv` adds to the types that no message refers to the future (`Referred`), and what
holds in the sleep and in the pop (`OnSchedule`): asleep, the thread waits for the time of
the next image with no command obeyed since; in the pop it is past that time or a command
was obeyed meanwhile.

`Follows` is about the fields as they will be after any number of pending commands, so it
takes an induction over the queue. It is made with the least counterexample of a set of
numbers (`LeastNatural`, `UpTo`), which the provers can do: so `Obeying` obeys what it says
(`ObeyingSteps`), obeying the head first changes nothing (`HeadFirst`), a command sent is
obeyed last (`OneMore`). `PlayInv` adds to `DripInv` that the pending commands are
`Orderly` (what means "now" will find a drip it is for, and behind it is nothing with a
reference time that changes the schedule), and that the position is a whole number of steps
(`OnGrid`), so that a new rate needs no rounding (`GridExact`). Then obeying a timed command
leaves the plan as it is (`PlanTimedHead`), as its effect was counted when it was
sent; sending one, or obeying one that means "now", is one turn of the playhead
(`PlanAppend`, `PlanNowHead`, `Turns`): it holds the position by `NoJump`'s lemmas, and
everything else the thread does leaves the playhead alone. That a pause which is pending never
begins later than now is what makes a tick a step of the playhead (`PauseBegan`).


`NetStreamProofs`, for any number of images, of blocks, of buffers and of packets
in flight, over TCP or UDP, with or without skipping; from `NetStreamAssumption`
alone:

* `TypeCorrect`: `Spec => []TypeOK`, that is also that every image is passed on once
  and in order (`PassedOn`) and that each buffer is in one place (`InOnePlace`);
* `Complete`: `Spec => []WholeUnlessHurt`;
* `Unmixed`: `Counts => (Spec => []NeverMixed)`. `netstream_mixed` shows that `Counts`
  is needed.

`Inv` says of the wire that it keeps the order of sending even when packets come
out early, and that behind a packet of an undisturbed image all that was sent of it
is still in flight (`WireInv`); of the receiver that an undisturbed image is
received up to some block and that the rest is what comes next (`ReceiverInv`,
`ReceivedTo`). So whatever else comes out must overtake it (`Overtaken`), which
hurts it, and the next packet that does not is its next block (`NextBlock`): that
is why the code need not count blocks. `Unmixed` adds that packets of different
images have different numbers, among them the one that is received (`DistinctNumbers`).

`MovieProofs`, for any films, with or without a known length, any pool, list of films,
choice of programs and commands, from `MovieAssumption` and `SeekAssumption`:

* `TypeCorrect`: `Spec => []TypeOK`, with the count of the images of the pool;
* `NeverStale`: `Spec => NoStaleFilm`, an action property;
* `NoneLeftBehind`: `Spec => []SavedBeforeQuit`.

`CountInv` (theorem `CountInvariance`) is what all three rest on. An "end" message in the queue of the images
is no image of the pool and must not be counted, so it says which of the bindings
lead where: saveMovie binds "end" to its own port, so that its skipper takes images only
(`NoMarks`). `FilmInv`: the decoded frame is of the film that is open, or nothing was
decoded yet and there is something to decode (`Sound`); in the wait for an image it stays
so *or* the film was closed meanwhile, which `hasClosed` remembers (`InHand`). This is the
test after the pop (pluginFfmpeg.cpp:277), and `StopMovie` is the only way to another film.
`SeekInside` carries `SeekAssumption` over the pending commands.

`SaveInv` follows the images of saveMovie from frame to file: they are numbered in order
from 0 (`InOrder`, with the first message's two commands: `Asked`); each that was sent is in
the queue, in the skipper's hands or judged (`Seen`); each that was passed on is in the queue,
in a saver's hands or written (`Kept`); "end" is heard only when all frames were sent
(`Told`). When the main thread then sees the full pool, `CountInv` says that
nobody holds an image (`AllBack`), so `Seen` and `Kept` have nothing left but `judged`
and `written`: that is why counting the pool is a sound test.

`RecorderProofs`, for any savers and their counts, any pool, number of files, `/max` and
any set of commands, also a pause at a negative count, from `RecorderAssumption`:

* `TypeCorrect`: `Spec => []TypeOK`, with the conservation of the pool's images (`PoolKept`);
* `CountsHold`: `Spec => []CountsKept`;
* `PauseKept`: `Spec => PauseHolds`, an action property.

`Inv` has a part for each plugin. `SyncInv`: `togo` is what is missing from the images
counted out, so the test for exactly 1 (pluginSync.cpp:139) does not miss its end,
and the `/go`'s left are among those received. `SaverInv`: a saver's count and what it
wrote make up its `/count`, the image in its hands included. `LimitInv`: the state of
the reader leads to no frame after `limit` (`Stops`), whichever command is pending and
whether the reader already waits for an image; applying the command leaves it so
(`ApplyStops`). `FramesInv`: the frames that a `/next` has still to read, the one that is
being waited for and the one to be chosen, are within `frames`. `Stops` is where the code's `read_one_frame` shows: a command to be
obeyed at a later count lets the frames before it go even in a pause.
That `Shortest` is a connected port of `/distribute` needs the least of a set of numbers,
`LeastNatural`.

`ViewerGLFWProofs`, for any windows, quads, shaders, views, images and size of the
auto-skip, from `ViewerAssumption` (the samplers of a shader have different names):

* `TypeCorrect` and `TablesAgree`: `Spec => []TypeOK` and `Spec => []TablesSound`;
* `NeverShownLate`: `Spec => NeverBackInTime`, an action property;
* `AskedFor`: `Spec => []ShownWhereAsked`;
* `UniformsOneByOne`: `WithUniforms`, a closed form, is the loop of `addUniforms`, in the
  two equations of a fold: no sampler leaves the table alone, and the last of some
  samplers is put where `findFreeUnif` finds room after the others. The run `viewer`
  compares it with the fold itself on small tables.

`TablesSound` follows from the tables alone. `Put` and `WithUniforms` change no live
entry (`LiveAfterPut`), and an entry that is used again has nobody who refers to it,
for whoever did was deleted with it: so `findFreeDrawable` may return an index that old
uniforms had, and this is why `delDrawable` must delete the uniforms. That a `stop()` cut off
in `uninit()` leaves such tables too is `HalfStoppedSound`: the deletions go from the lowest
index up and a drawable is deleted after its uniforms, so that what is left refers to
what is left, and only the names of the torn drawable are missing.
`NeverBackInTime` needs `ImagesInOrder` (theorem `InOrder`): what was shown is older than
what is kept, and that is older than what waits. It holds of what is kept only while
the thread gathers: a thread cancelled in `loop()` leaves its images kept, and the next
`loop()` forgets them before it takes another (`Turn`). `ShownWhereAsked` excepts the
indices in `stale`; that nothing else can be wrong is because an entry in use is
never given away, so the index an image is kept under means what it meant.


Every safety property of a passing run is so stated by a theorem. Only model-checked is
what is about liveness, as the prover has no rule for fairness or ENABLED:
`WaitersServed` and the live half of `ImplementsChannel` (queue), `StopReturns` (plugins
and viewer), `ImagesComeBack`, `CommandsHandled`, `CallsReturn`, `Delivered`, `BackInStep`,
`ProgramsGoOn`. Where a theorem needs more of the
constants than the assumptions of its module, the condition has a name and the run's instance
meets it: `NonNegative`, `Counts`, `WholeSteps`, `SettingsFirst`. No module
is RECURSIVE.

## 5. Findings

1. **plugin.hpp:967** (`plugins_uninit`) – `init()` runs before
   `pthread_cleanup_push`. A `stop()` that meets the thread in an `init()` that prints
   or sleeps ends it without `uninit()`; a later `start()` runs `init()` again on top
   of the old resources, against "init, then loop (multiple times), then uninit"
   (qpmanager.cpp:1237).
2. **pluginNet.cpp:391** (`netstream_mixed`) – pluginNet sends `n` in every packet and
   never increments it, so that the receiver's check "to identify the correct packets"
   (pluginNet.hpp:185) tells no two images apart: one lost header mixes two images.
3. **pluginFfmpeg.cpp:284** (`movie_extract`) – `hasClosed` is set at the natural end
   of a film too, so the first image after the next `/start` or `/rewind` is dropped and
   not counted: numbers and frames are one apart. extractPattern, which finds a frame
   by its number in a second pass, saves the one after it.

Other things met on the way, which the models show but no run is spent on:

* `connect` by name reads the plugin map without the mutex (qpmanager.cpp:1127), which
  line 870 calls necessary, and unlocks it although it has not locked it when there is no
  such plugin (1129); `start()` and `stop()` test and set `running` without a lock
  (plugin.hpp:735), so that a thread may live that no `stop()` ends; `getQ`,
  `reservePort` and the constructors of plugins print with the mutex held
  (719-742, 851), so that a listener that `stopNetListening()` cancels there locks the
  registry for ever. The run `registry` has all four; its properties hold until one has
  happened (`stray`, `raced`, `leftLocked`). Callers avoid the first by connecting only what
  is there (theorem `Undisturbed`) and the second by leaving each plugin to one thread;
  against the third nothing helps but not to stop a busy listener.
* `skipAllUntil(0)` never skips (pluginDripMulti.cpp:219), because frame numbers are
  not negative, although line 130 says "wait for all input to have n=0": when one movie
  starts again, a group leaves with different frame numbers. `BackInStep` shows that
  it mends itself, `InStepOrRestart` that this is the only case (no negative offsets,
  no frames left out by a source).
* `/fps` during a pause computes the position from its time reference and not from the
  start of the pause (pluginDrip.cpp:341, pluginDripMulti.cpp:372): the film jumps when
  it goes on. The run sends no `/fps` in a pause.
* `/rewind` of an open film while the player waits for an image sends the old frame as
  number 0 (pluginFfmpeg.cpp:277); `/seek` without a film passes NULL to the decoder.
  extractPattern and saveMovie bind "end" after `/start`, so that a film that cannot be
  opened keeps them waiting for ever.
* `/next` does not read "the next frame" (pluginRead.hpp:74): a pause reads frame k and
  leaves the count at k+1, `/next` adds 1 to it (pluginRead.cpp:58-71, 159, 214), and k+2
  is read: every other frame is skipped. `PauseHolds` says of `/next` that it reads one
  frame and no more, which holds; it says nothing of which.
* A `stop()` in the `uninit()` that follows a `/kill` leaves the viewer's tables half
  deleted for the next `start()` (viewerGLFW.cpp:502-529, 989): a quad of the same name is
  found, without all of its uniforms, until it is deleted (`torn`).
* `/reinit` in the reader's wait for an image is followed by the old file and its count
  (pluginRead.cpp:100), so that the next sequence starts at 1.
* The image shown by an index that was deleted and used again meanwhile goes to another
  quad (pluginViewerGLFW.cpp:407); `ShownWhereAsked` excepts exactly these. An image
  whose index is beyond NBUID is lost. `init()` resets `kill` (309), so that a `stop()` of the
  owner before `init()` is over joins for ever: programs call it later.

## 6. Assumptions and what is left out

* `Plugins` takes queue operations as atomic; `RQueue` shows why that is sound. The
  modules of single plugins do the same.
* A plugin's `loop()` comes to a cancellation point (`Printing`, or a wait). One
  that neither prints, sleeps nor waits would keep `stop()` from returning.
* `i0` of pluginNet and pluginStream is not initialised in the constructors
  (pluginNet.hpp:186); the model starts with NULL, as pluginNet2 does.
* A second `pthread_join` or `pthread_cancel` of an ended thread is taken to
  return at once, a data race on `running` to yield the old or the new value.
* `Drip` assumes that a `/start` comes only to a drip that waits for it or will, that
  a command with a time reference is not sent behind one that means "now", and that a
  count is not combined with either: the programs keep to that.
* `ViewerGLFW` takes every image to carry a view of an existing name form; an empty
  view, `/set`, `/redirect`, `/alias`, `/output`, the head-mounted display and all
  drawing are left out. `bindFbos`, `findUnif(did, name)` and `redirect` look at deleted
  entries (viewerGLFW.cpp:176, 1055, 1097) and are not modelled.
* Left out of the other modules: image data, formatting, OSC encoding, logging, dot
  output, sizes of queues as a statistic; `pop_back_noctrl_nowait`; event bindings as
  a list (an event goes to one port); `connect(vector)`; the deletion of a listener;
  TCP framing and modes of pluginNet; `/set/offset` and `/max-fps` of pluginFfmpeg; a
  `/distribute` at run time, `/send-events` and `/delay` of pluginSync; the smoothing of the drip's sleep; `/dup`,
  `/in/cancel` and `timestamp_id` of DripMulti; `/min` and `/offset` of pluginRead; the
  modes internal and video of pluginSave and its `/mapview`; codecs.

**Not modelled.** *Cameras*: what is correct depends on vendor libraries that are not
in the repository, such as whether `VmbCaptureEnd` waits for a callback that runs
(pluginProsilica.cpp); a model would have to invent the answer. *Syslog, Pattern,
Homog, Transform*: image processing on the loop that `Plugins` models. *GLES viewers,
blob, video decoders, parseShader, graphics*: drawing and file formats. *Other
applications, examples, tests*: users without a state that others wait for.
*`src/other`*: vendored GLFW and others, by far the largest share of the source lines.

## 7. Plan

Done: queue, channel and its theorems; plugin threads; registry; image transfer;
movie player and programs; schedule; DripMulti's groups; recording chain; viewer.
Next, in this order:

1. Event bindings (`/defevent`, `checkOutgoingMessages`) as a list with windows.
2. The listener's routing, its unknown queues, and its deletion while its images are
   away; pluginNet's modes.
3. `connect(vector)`, anonymous queues asked for by both threads,
   `pop_back_noctrl_nowait`.
4. Reconfiguration of DripMulti (`/in/cancel`, `/dup`).
5. The GLES viewers, and cameras once the behaviour of a vendor library is settled.
