# StarVisuals: a TLA+ model of its switching core

StarVisuals is a music visualisation for Android: a Java application on top of
a native layer (`StarVisuals/jni/src/starvisuals.c`) that drives libvisual
(`libvisual/libvisual`). Plugins ("actors") draw frames from audio ("input");
when the user changes the actor, a third kind of plugin ("morph") blends the
old picture into the new one. The hard part of the program is that change: a
pipeline object, `VisBin`, owns two actors, their videos and a morph for as
long as it takes, renegotiates pixel formats in three different functions, and
is driven by a user interface thread and a render thread at once.

Paths below are relative to the repository.

## Inventory

| Part | State | Operations | What is hard, and what makes it correct |
|---|---|---|---|
| **VisBin** (`lv_bin.c`) | actor, actmorph, actmorphvideo, privvid, morph; style, mode, morphing; depth, depthold, depthchanged, depthfromGL, depthforced(main) | switch_actor_by_name, sync, run, switch_finalize, set_morph_by_name, set_style, set_mode | Objects are allocated and released in four functions; depths are copied to seven places. No dangling pointer, no leak, no surface of the wrong depth, every switch ends, the last actor asked for is shown. |
| **VisActor** (`lv_actor.c`) | plugin, video, transform, fitting | realize, video_negotiate, run | Realized late, by whichever call comes first. The plugin gets a surface it can draw in. |
| **VisMorph** (`lv_morph.c`) | dest, rate, mode, timer, steps, stepsdone | set_*, run, is_done | Mode, timer and steps are set by different calls. A morph ends, and never reads what it writes. |
| **Depth flags** (`lv_video.c`) | none | is_supported, next, prev, lowest, highest, highest_nogl | Loops over bits with error codes as answers. |
| **Event queue** (`lv_event.c`) | events, eventcount, lastresize, resizenew, mouse | add (nine kinds), poll, poll_by_reference | A limit that drops, a slot that overtakes. Count is length; the plugin learns the mouse and the size. |
| **Native layer** (`starvisuals.c`) | struct `v`: bin, video, mutex, names | renderBitmap, finalizeSwitch, finalizeActor, cycleMorph, morphSetCurrent, finalizeInput, setMorphStyle, event injection, app_main, visualsQuit | Two threads, one mutex, and several calls that do not take it. |
| **Application** (`com/starlon/starvisuals/*.java`) | mIsActive and its preference, mView, render threads, mLock, mSynch, microphone threads | life cycle of the activity, initVisual, drawing, enableMic, disableMic, menu | Threads that outlive their view and their activity, stop requests that are overwritten by the thread's start, two lock orders. No frame during a restart of the library, the user interface comes back. |
| **List and cache** (`lv_list.c`, `lv_cache.c`, index of `lv_hashmap.c`) | head, tail, count, prev and next; list, index, size, reqreset | chain, unchain; put, get, remove, clear, set_limits | Pointer surgery, and one set of entries freed from two sides. The list is a list, answers are live, loops end. |
| Objects, plugins, registry (`lv_object.c`, `lv_plugin.c`, `lv_plugin_registry.c`) | reference counts, use counts, plugin lists | ref, unref, load, unload, next and previous by name | Ownership; the registry is read-only after start. |
| Ring buffer, hash list, time, song info | heap structures | container operations | Wrap-around, ageing. |
| Audio, Fourier, beat; colours, palettes, blits | buffers, floating point | signal and pixel processing | Numeric code without protocol. |
| lvclient, libscriptable, plugins, LuaJIT, boost, ... | | | Wrappers, other programs, third-party code. |

How they interact: the render thread calls `renderBitmap`, which takes the
mutex, answers a change of depth with `visual_bin_sync`, and calls
`visual_bin_run`; that runs the input, one or two actors and the morph, and may
finalize the switch. The user interface thread calls everything else. Events go
into the queue of the current actor's plugin and are polled by
`visual_actor_run`. All of this is plain calls on shared memory; the mutex
`v.mutex` is the only synchronisation in the native part. Above it the Java
code has its own two locks: `mSynch` of an activity, around each frame and
around `initApp`, and `mLock` of a view, around what touches its bitmap. The
native library with its mutex is one for the process, however many activities
and views there are.

`PROJECT.json` lists each part with its status, and under `hazards` each thing
that can go wrong, at its line, with the property that would show it.

## Modules

| Module | Models | Checked by |
|---|---|---|
| `VisDepth` | depths and flags as sets: is_supported, lowest, highest, highest_nogl in closed form | used by `VisBin` |
| `VisDepthLoops` | the same functions as the loops of `lv_video.c` on integers, with next, prev and is_sane | `depth_loops`, `depth_nogl` |
| `VisDepthLoopsProofs` | what the loops compute, for every flag and argument | TLAPS |
| `ActorSwitch` | abstract specification: an actor is shown, another one may be wanted | refined by `VisBin` |
| `VisBin` | the bin with what a switch needs of actors, morphs and objects | `bin_*` (through `MCVisBin`) |
| `MCVisBin` | plugin sets, depth flags and a view for TLC | |
| `VisBinProofs` | type correctness, ownership and the agreement of depths, for all constants and every client | TLAPS |
| `VisBinPromise` | `VisBin` implements `ActorSwitch`, for all constants | TLAPS |
| `VisBinSwitchProofs` | memory, surfaces and progress of a bin whose client lets switches end, for all constants | TLAPS |
| `EventQueue` | the event queue and a plugin that goes by it | `event_queue` |
| `EventQueueProofs` | all its safety properties, for all constants | TLAPS |
| `StarVisualsJni` | user interface calls and frames on two threads and one mutex, with the event queue they share without it | `jni`, `jni_bitmap` |
| `StarVisualsJniProofs` | all its safety properties, for all constants | TLAPS |
| `StarVisualsApp` | activities, views, render and microphone threads, `mSynch`, `mLock`, restart of the library | `app` |
| `StarVisualsAppProofs` | all its safety properties, for all constants | TLAPS |
| `VisList` | the doubly linked list as operators on prev, next, head, tail, count | used by `VisCache` |
| `VisCache` | the cache: list and index, loop by loop | `cache`, `cache_reset` (through `MCVisCache`) |
| `MCVisCache` | keys, their hashes, limits and entries for TLC | |
| `VisCacheProofs` | the list operators and all safety properties of the cache, for all constants | TLAPS |

`PROJECT.json` maps every definition to the lines it stands for. Definitions
marked `slip` are mutated forms of the one they stand beside. No specification
uses them: each is put in place of its original to see that a property notices.

### VisBin

One action is one call of the library, made under the client's lock. `bin` has
the fields of `struct _VisBin`; `actors`, `videos` and `morphs` are the contents
of memory blocks, and `live` the set of blocks that are not freed: the code
takes one reference on each object, so unref is free. `ub` collects undefined
behaviour. A freed video may read as any depth, so `SwitchActorByName` and the
run quantify over what the read returns.

- `SwitchActorByName` is `visual_bin_switch_actor_by_name` with
  `visual_bin_switch_actor`: release of a managed actmorph, the choice of the
  four depths (`SwitchDepths`), the new actor on its video, the private video
  for the main actor, the start of the morph. `SwitchUnknownActor` is its early
  return.
- `ClientSync` is the client's reaction to a changed depth with
  `visual_bin_sync`, including its early return for a missing private video
  (`SyncFails`).
- `Run` is `visual_bin_run` by its outcomes: no switch (`RunIdle`), finalize at
  once (`RunDirect`), no usable morph (`RunWithoutMorph`), morph goes on
  (`RunGoesOn`), morph done (`RunMorphDone`), undefined behaviour (`RunBroken`).
  `SwitchFinalize` is the part the last three share.
- A run requires that the depth has not changed: `renderBitmap` tests
  `visual_bin_depth_changed` before every run and syncs, and so do the other
  clients.
- The morph's rate counts in `Steps`; by time it is a choice between early and
  late (`RateAfter`).
- `Managed` tells a bin connected by names from one connected to an actor;
  `Eager` a client that calls the bin in the middle of a switch from one that
  waits for it to end.

Left out: pixels, sizes, pitches, palettes, the morphautomatic switch (every
client leaves it on), unmanaged morphs, and `visual_bin_switch_actor` with an
actor of the caller's (no client does that).

### EventQueue

One action is one add or one poll. `events` is the list, `eventcount` its
separate counter, `lastresize` and `resizenew` the slot that bypasses the list.
`plugin` is an observer: what a plugin knows that only adds up relative motions
and remembers buttons and sizes. `lost` remembers that an event was dropped.
Keyboard, newsong, param, quit, visibility and generic events differ in payload
only and are one action.

### StarVisualsJni

Calls that take the mutex do their work in one step between `UiLock` and
`UiUnlock`. Calls that do not go statement by statement, and so does a frame:
between any two of its reads of the style, the morph and the input another
thread may have written them. `old` is the local variable that `finalizeSwitch`
and `finalizeMorph` keep across steps. `raced` remembers what an unlocked statement
had to do with (the morph, the input or the events) while a frame was under way.
`ub` tells what kind of freed memory was used, or that a morph ran without a
destination; after it nothing is said any more (`ub = {}` guards every step).
A new input may get the block of the old one.

The module is about what the calls share with the frames. The actors and the
private video are not in it: they change under the mutex only, and what goes
wrong there without any race (finding 3) is in `VisBin`. `OnlyRacesUseFreed`
speaks of the morph, the input and the events accordingly.

The Java part calls `finalizeSwitch`, `actorSetCurrentByName` (finalizeActor),
`inputSetCurrentByName` (finalizeInput), `setMorphStyle` and
`morphSetCurrentByName`; `cycleMorph` and `morphSetCurrent` are exported and
included. Two user interface calls never overlap: Android calls listeners and
callbacks on one thread.

`MouseMotion` is `mouseMotion` with `visual_event_queue_add` and
`visual_list_chain`, in five steps: the queue of the actor on the screen
(`ui.queue`), the chaining of the entry, its link from the old tail, the count,
and the `mousex` it stores last. The frame runs the main actor's plugin in the
step `pump`, which polls until the count says the queue is dry. `queue.id` tells
whether the queue is still that of the actor on the screen: a switch replaces
it. An addition to a queue that was freed is a use of freed memory, and a
poll that finds the count ahead of the list, or the list ahead of the count,
shows as `QueueIsCounted` only after a race.

Left out: the restart (`StarVisualsApp` has it as a whole), the other three
kinds of injected events (the same addition with another payload), depths and
the actors' surfaces (in `VisBin`, under the mutex), morph plugins that do not
load.

### StarVisualsApp

The application on a device without OpenGL ES 2, where `StarVisualsView` has its
own render thread. One action is what a thread does between two points where it
may block or be seen by another one. `ui` is the handler on the user interface
thread with its locals; `render[v]` and `mic[m]` are the program counters of the
other threads; `synch` and `lock` the owners of the two kinds of locks.

- `Launch`, `Restart`, `Start`, `NewView`, `InitEnters`, `InitReturns` are
  `onCreate` or `onRestart` with `onStart`: getPrefs, enableMic, and `setUseGL`,
  which makes a view whose constructor locks `mLock`, then `mSynch`, and calls
  `initApp`; then `startThread`. The view before it keeps its thread: `stopThread`
  is only ever called on a view that has none yet.
- `Begin` to `FrameReturns` are the render thread's `run`: it sets `mIsActive`
  itself and tests it before each frame, which it renders under `mSynch` and
  `mLock`, in this order.
- `Leave` is `onPause` and `onStop`; `Close` and `Quit` the menu's
  `visualsQuit`; `InputChanged` the preference listener, which destroyed
  activities keep.
- `MicOn`, `MicOff`, `MicJoined` are `enableMic` and `disableMic`, `MicBegin` and
  `MicEnd` the microphone thread, all on the one `mMicActive` of the activity.
- `setIsActive(true)` puts the flag into an editor that `onPause` commits:
  `edited` and `stored`. A commit that changes the preference sets `mIsActive`
  of every activity that listens.

Objects are reused when their thread has ended and no field names them, so that
the model runs forever. Left out: what the gestures and menus do to the bin (the
calls of `StarVisualsJni`), statistics, text and album art, the OpenGL view.

### VisList and VisCache

`VisList` translates the pointer code of `lv_list.c` as it is, for any pointers:
`Unchain(l, e)` goes by what `e` names, sound or not. `Links(l, s)` says that
the pointers are those of a list that holds `s`.

In `VisCache` the loops of `visual_cache_put` and `visual_cache_clear` take one
step for each entry they destroy; every other call is one step. `order` is
what the list should hold: the entries in the order in which the calls put,
remove and reset them. `index[k]` is the chain of the entries that the hash
map has under `k`, `indexed` its count of entries, and `slots` the size of its
table, which is the limit at the time the index was made: `visual_cache_set_limits`
does not rehash. `raised` remembers that the limit has been above `slots` since.
`leftover` remembers that a clear ended before the list was empty: its loop
goes to the next entry while `visual_list_delete` has already moved on, so that
every other entry stays, without a place in the new index.

`ub` tells what the code has touched that is not there, and stops the cache:

- `"freed"`: an entry that is freed. Its pointers are forgotten with it
  (`Forget`).
- `"slot"`: a slot of the table that does not exist. `string_hash` is signed, so
  that a key may have a slot before the table (`Outside`), which every lookup
  then reads (`LookOutside`, and `Destroy` of such a key); and an index of size
  0 has no table to put a key in (`StoreNowhere`).
- `"table"`: `hashmap_destroy`, at the end of a clear, goes through as many
  slots as the index has *entries*. There may be more of these than slots
  (`DestroyPastTable`), `EndClear` is the other case.

`Hash` gives each key a hash; `Limits[r]` and `Blocks[r]` are the sizes and the
memory of a cache whose `reqreset` is `r`.

Left out: the data with its destroyer, the timers (`visual_cache_flush_outdated`
never flushes: `visual_timer_elapsed` answers `VISUAL_OK`, which is 0, where it
should say yes), which keys share a slot, the end of the cache (`cache_dtor`).

## Runs

| Run | Bounds | Shows |
|---|---|---|
| `depth_loops` | every flag of 5 bits, every argument to 33 | next and prev find the nearest depth; the loops compute the closed forms of `VisDepth` |
| `depth_nogl` | the same | finding 1 |
| `bin_managed` | an 8-bit, a 32-bit and an OpenGL actor, an unknown name; 2 steps; time and steps; a client that waits | types, no dangling pointer, no leak, ownership, no undefined behaviour, supported depths, agreement of depths, the OpenGL wait is not reached, a morph reads private videos, every switch ends |
| `bin_app` | the application's bin: unmanaged, 8- and 32-bit actors, a client that does not wait | ownership, and `VisBin` implements `ActorSwitch` |
| `bin_gl_unmanaged` | unmanaged, with OpenGL, a client that waits | finding 2 |
| `bin_reswitch` | managed, a client that does not wait | finding 3 |
| `event_queue` | limit 2, two positions, two sizes | count, which events are dropped, motions, sizes, and that a resize is looked at; finding 6 |
| `jni` | 3 morph, 1 input, 3 queue blocks, 2 events, limit 1 | mutual exclusion, which race it takes to reach freed memory, the queue's count, a leaked mutex stays locked, a switch keeps its morph, nobody waits forever |
| `jni_bitmap` | the same | finding 4 |
| `app` | 2 activities, 2 views, 2 microphone threads | who may render into a restart, the bitmap, no circular wait, the user interface comes back |
| `cache` | 3 keys, one with hash -5; without reset 4 entries and sizes 0, 1 and 4, with reset 3 entries and sizes 0, 1 and 3 | the index's answers, the list, the index stays in its table until the limit is raised, puts are found, the newest is evicted, every loop ends; finding 7 |
| `cache_reset` | the same | finding 5 |

Why the bounds are enough. *Depths*: all flags and all depths are covered, so
nothing is bounded. *Bin*: two actors, the client's video, the private one, the
new actor's and one more that a dangling pointer may name are all that a bin can
reach at once; a morph is replaced before another is made. The three plugins are
one of each kind the code distinguishes: below, at and above the client's depth,
and OpenGL. *Steps* = 2 has a frame that ends a morph and one that does not.
`bin_app` takes `Steps` = 1 and the view `InReach`, which drops the contents of
blocks that nothing reaches. *Events*: the code compares the count with the
limit only, so a limit of two has the empty, the filling, the full and the
overfull queue (three events). The length is bounded by the code itself. The
proofs are for every limit. *JNI*: the fields `morph` and `old` and a new block
need three morphs, a new input may be where the old one was; a queue that is
added to, the current one and a new one need three. The limit 1 of a queue has it empty,
filling and full. *App*: a race needs two activities or two views of one, and
each microphone thread one successor that shares its flag; with more views than
two each pair still shares the same locks (the proofs are for any number).
`Launch` and `InputChanged` need a free view and a free microphone thread, which
is a bound. *Cache*: the pointer code looks at an entry and its two neighbours.
A list of more entries than keys comes about by a clear that leaves some. For
`hashmap_destroy` to pass the end of its table a clear must leave two entries
that the index knows in a table of one slot, which takes four entries. The sizes
are no cache, one entry, and room for all; a limit may be lowered below what the
list holds. The hash of -5 has a slot before the tables of three and four slots,
and in that of one slot it is 0. Addresses are reused.

Deadlock is checked in every run but `depth_*`, which stop when every question
is answered, `jni*`, where undefined behaviour or a leaked mutex stops the
program, and `app`, where the user interface may wait for a microphone thread
whose stop was lost.

### Fairness

- `VisBin`: the render loop goes on (weak fairness of `Run` and of the answer
  to a changed depth: `renderBitmap` is called in a loop and tests the flag
  every time), and the clock goes on, so that a morph by time is late at some
  frame (weak fairness of `RunMorphDone` with `late`). `SwitchEnds` needs both.
  The client is under no obligation.
- `EventQueue`: a plugin polls as long as there is something (weak fairness of
  `Poll`; plugins poll in a loop in their events function).
- `StarVisualsJni`: each thread goes on with what it is in the middle of (weak
  fairness), and the mutex passes nobody over forever (strong fairness of the
  two locks). The latter is the platform's doing: a posix mutex does not promise
  order, but the render thread sleeps between two frames
  (`StarVisualsView.java`, `Thread.sleep` outside the locks), and a call is
  short. The poll loop of a plugin ends (strong fairness of the step after it):
  it takes events faster than a finger makes them.
- `StarVisualsApp`: each thread goes on where it is not blocked (weak fairness,
  one for each thread), except that nothing obliges a render thread to enter
  another frame or the user to do anything. The user interface is not passed
  over forever for `mSynch` (strong fairness of `UiEnters`): a render thread
  sleeps after each frame without it.
- `VisCache`: a call goes on (weak fairness of `Step`): one thread, no blocking.

## Proofs

TLAPS proves the following for every value of the constants that satisfies the
named assumptions, which every client of the code satisfies:
`VisBinAssumption` (a plugin has at least one depth, the bin supports the depths
of its plugins - the clients set `VISUAL_VIDEO_DEPTH_ALL` -, blocks of different
kinds differ, and there are enough of them that an allocation succeeds),
`EventQueueAssumption` (the limit is a number, positions are integers),
`StarVisualsJniAssumption` (blocks of different kinds differ, and there are
enough of them that an allocation succeeds), `StarVisualsAppAssumption` and
`VisListAssumption` (`Null` is none of the objects), `VisCacheAssumption` (hashes
are integers, sizes numbers) and `MaxDepthArgAssumption` (a bound for arguments).

- `VisBinProofs!Typed`, `Ownership`: `Spec => []TypeOK` and
  `Spec => []SwitchOwnsItsObjects`, for managed and unmanaged bins and for
  clients that wait or do not. Neither is inductive alone: the type of
  `actors'` after a finalize needs that a running switch has an actmorph, and
  ownership after a finalize needs that the video of a running switch is
  released, which only holds if it is managed. The invariant `Owned` is the
  conjunction of both with `bin.morphing => bin.actmorphmanaged`; one lemma per
  action shows that it is kept. The interesting lemma is `PreferredFits`: the
  depth `bin_get_depth_using_preferred` picks is one the bin supports, so
  `fix_depth_with_bin` never falls back to `visual_video_depth_get_highest_nogl`
  and its error code never becomes the depth of a bin.
- `VisBinProofs!DepthAgreement`, `NoWaiting`: `Spec => []DepthsAgree` and
  `Spec => []NeverWaitsForGL`, also for a client that starts a switch in the
  middle of another. `Depths` is what is added to `Owned`: `Agree` (the client's
  video has the depth of the bin; between switches the actor on screen draws on
  it and supports that depth) and `MovesToGL` (a switch
  to OpenGL has already asked for that depth, and once the client has answered,
  the actor on screen draws on the client's video). They only speak
  of the client's video and of the bin's own fields, which a second switch
  leaves sound; the pointers to the private video, which it does not, are in
  `VisBinSwitchProofs`.
- `VisBinPromise!Promised`: `Spec => KeepsPromise`, the refinement of
  `ActorSwitch`, also for a client that switches in the middle of a switch. It
  needs `Owned` only: `SwitchAsks` (a switch by name is an `Ask`),
  `FinalizeShows` (a finalize is the `Show`) and `Quiet` (everything else keeps
  the two actors and their plugins).
- `VisBinSwitchProofs`: what a client gets that lets a switch end
  (`Eager = FALSE`): `PointersKept`, `NothingLeaks`, `WellDefined`,
  `PrivateVideos`, `SwitchGetsOn`, and for a managed bin `DepthsDrawn`. The
  invariant `Fit` adds two things to `Owned` and `Depths`. `Memory` is what is
  live and reachable. `Paths` is the heart: the switch, the sync and the run
  each decide from *different* fields (the depth of a video, `depthfromGL`, the
  private video, the depth of the bin) whether this switch morphs, and they come
  to the same answer. `SwitchDepthsFit` shows why: the bin is asked for a depth
  other than OpenGL only when neither side of the switch is OpenGL, so
  `depthfromGL` is never set on the path that morphs. `Negotiations` adds, for a
  managed bin, that each actor that is realized has been negotiated to a depth
  it supports; what forces a depth of 0 on the main actor of an unmanaged bin is
  exactly where the proof needs `Managed` (finding 2). `SwitchGetsOn` proves
  `FramesGetOn`: every frame of a running switch ends it, takes a morph that
  counts steps one step on towards `Steps`, or waits for the clock in a morph
  that the clock ends. That is the measure which the fairness of the render
  loop turns into `SwitchEnds`.
- `EventQueueProofs!Typed`, `Counted`, `RefusedLate`, `Sized`, `Moved`: all
  safety properties of the queue. Types, count and sizes are inductive together
  (`Shape`), and `RefusedLate` follows from them.
  `MotionsAddUp` is inductive relative to `Shape`: the lemmas about `ChainAppend`
  and `ChainTail` say what adding behind and taking from the front does to a
  chain of relative motions.

- `StarVisualsJniProofs!Typed`, `Excluded`, `RacesOnly`, `QueueCounted`,
  `MorphKept`: all safety of the native layer, for every number of blocks and
  events, from `StarVisualsJniAssumption` (the kinds of blocks differ). The
  invariant adds to types and exclusion: `PcOfCall` (which call may be where),
  `RoomKept` (there is a block to allocate from), `OldIsMorph` (what a call has
  seen of the morph before the lock), and what holds as long as nothing raced,
  for the morph (`MorphSound`: it is live, and the call in progress has the right
  one) and for the events (`Counted`: the count is right up to the step the
  addition is in) separately; `InputLive` needs no such condition. `Noted` ties
  them together: a call that is halfway outside the mutex during a frame is on
  record, so that a frame of which nothing is on record meets a user interface
  between two calls. `LeakIsForGood` proves `LeakStays`: renderBitmap leaves with
  the mutex only where it has no bitmap (finding 4), and no thread enters a
  guarded area after that.
- `StarVisualsAppProofs!Typed`, `RacesAreOfTheDestroyed`, `BitmapIsGuarded`,
  `NobodyWaitsInACircle`: for any number of activities, views and microphone
  threads. The invariant ties each program counter to the locks it holds
  (`mSynch` is held by whoever is in a frame, in `initApp` or in `visualsQuit`
  for this activity), and says that a handler that restarts the library belongs
  to the activity on the screen, so that every other activity is destroyed or
  has not started. `Holders` adds the converse (whoever a lock names is where it
  has it) and that the view whose `mLock` the constructor holds has no render
  thread yet. So a thread that waits has at most two others ahead of it,
  although `initVisual` takes `mLock` before `mSynch` and a render thread the
  other way round.
- `VisCacheProofs!Typed`, `Answered`, `ListHolds`, `IndexBounded`, `Stored`: for
  every number of entries and keys, every hash and every limit. `AddLinks` and `UnchainLinks` are the
  lemmas about the pointer code: on the pointers of a list that holds `s` they
  leave those of a list that holds `s` with one entry more or less. The
  invariant for a cache without resets is `Sound`; the index needs no sound
  list (`DestroyKeepsIndex`), which is why `AnswersAreLive` holds with resets,
  too. `ListHolds` is about the list and freed entries and says nothing of the
  table of the index; `IndexBounded` is the theorem about that, by counting
  (`Counted`): the count of the list is the number of allocated entries, torn or
  not, the count of the index is the number of those that it knows, and a put
  lets the first get no larger than the limit, which is no larger than the table
  until it is raised. `LoopsEnd` proves `RoundsFree`: each round of a loop frees an allocated
  entry or touches freed memory, in a torn list too, which is the measure behind
  `CallsReturn`. `EvictsTheNewest` proves `NewestGoesFirst`: a full cache
  without resets removes the entry put last.
- `VisDepthLoopsProofs!Nearest`, `MeetClosedForms`: the loops of `lv_video.c`
  answer the nearest depth and compute the closed forms that the proofs about
  the bin rest on. There are six values a loop can stand at, so no induction is
  needed: each loop is a recursive function. A function that is written out
  solves its equation, so that the loop satisfies it, and the equation, applied
  once at each depth, gives what the loop computes.

`FramesGetOn` and `RoundsFree` are stated in the modules that prove them, and no
run checks them.

Only model-checked: liveness under fairness (`SwitchEnds`, `ResizeGetsLookedAt`,
`NobodyWaitsForever`, `UiReturns`, `CallsReturn`), which is out of the prover's
reach. `SwitchGetsOn` and `LoopsEnd` prove the part of it that is about single
steps. Every safety property of a passing run is proved; those that need a
client that waits, or a managed bin, say so in their theorem.

## Findings

1. `visual_video_depth_get_highest_nogl` returns an error for a flag with OpenGL
   and another depth (`depth_nogl`). The bin is safe from it as long as it
   supports the depths of its plugins (`PreferredFits`).
2. `visual_bin_sync` of an unmanaged bin that comes from OpenGL forces a depth of
   0 on the actor that has just taken over, and the plugin is run on it
   (`bin_gl_unmanaged`). The
   application's own plugins do not use OpenGL.
3. Two switches without a run or a sync in between read the freed private video
   (`bin_reswitch`). The application does it at start: `setPlugins` calls
   `actorSetCurrentByName` and then `finalizeSwitch`.
4. `renderBitmap` keeps the mutex when it cannot get its bitmap (`jni_bitmap`).
5. `visual_list_chain_at_begin` leaves the prev of the old head unset: in a cache
   with resets on request, two gets cut an entry off the list that the count and
   the index still have (`cache_reset`). Both caches of the Fourier transform ask
   for resets; `AnswersAreLive` and `CallsReturn` show what is still right then.
6. The event queue takes 257 events: `visual_event_queue_add` compares with `>`,
   where `lv_event.h:29` documents 256 as the "Number of events allowed in the
   queue". `DropsAreLate` (`event_queue`) says when the first event is dropped,
   `CountIsLength` what the bound is instead.
7. A full cache evicts its newest entry: `visual_cache_put` takes the tail, where
   `visual_list_add` has put it. `lv_cache.h:61-64` wants the sorted list to find
   the old ones. `NewestGoesFirst` (`cache`) says so of every eviction of a cache
   without resets.

Also met, and without a run: an unmanaged bin leaks each actor a switch created
when the next one replaces it; `finalizeSwitch` overwrites the morph name it has
just chosen with "checkers" (`starvisuals.c:1561`); a morph set while no switch
runs is in mode SET, is never done, and makes `finalizeSwitch` refuse until an
actor is switched in another way; `setPlugins` passes the input's name to
`morphSetCurrentByName`, which refuses it. The loops of `visual_cache_clear`
skip every other entry; `visual_cache_flush_outdated` never flushes and
overwrites `maxage`; the data of a key that is put again, the entries and their
keys are never freed. The index of a cache leaves its table in three ways: a
cache that is made or cleared with size 0 has none, and the first put after its
limit is raised divides by zero; a clear after a limit was raised may leave more
entries than slots, and `hashmap_destroy` (`lv_hashmap.c:70`) counts the ones
where it should count the others; and a key whose `string_hash` is negative has
a slot before the table. `IndexStaysInTable` says that there is no fourth. After
`visualsQuit` the render thread goes on with a library that is taken down. A
gesture on a device without OpenGL ES 2 synchronises on a `mViewGL` that is
null.

## Plan

Done: depths, the bin with its abstract specification, the event queue, the
native layer with the queue on two threads, the application with its restart,
lists and the cache; every safety property that a run checks is proved for all
constants.

Next, in this order:

1. The resize event whose video is freed by a second `app_main` before a plugin
   looks at it (the queue holds a pointer without a reference): `StarVisualsJni`
   with the restart of `StarVisualsApp`, which are separate now because their
   product is too large for one run.
2. Use counts of plugins, song info and the ring buffer, each a module of its own.
3. Sizes beside depths in `VisBin`: `visual_bin_sync` and the switch hand them
   round on the same paths.

## Not modelled

Audio, Fourier transform and beat detection (floating point without protocol);
colours, palettes, bitmaps, blending and blits (pixel arithmetic without state);
parameters and configuration files (type-tagged values and their text form);
plugin loading (directory scans and `dlopen`); ring buffer, hash list, time and
song info (sequential containers, which the application hardly uses: nothing in
it makes a ring buffer); the OpenGL view, whose render thread is Android's;
lvclient, libscriptable, the plugins themselves, LuaJIT and other third-party
code.
