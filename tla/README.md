# libdlna in TLA+

libdlna is a library for DLNA media servers and players: an embedded UPnP stack
(`src/upnp`, `src/threadutil`, `src/ixml`) and the media side on top of it
(`src/*.c`, `src/ffmpeg_profiler`).  This directory holds a model of the library in
TLA+, the configurations that check it with TLC, and proofs that the TLA+ proof
system checks.  Paths and line numbers below refer to the repository's `src`
directory; `PROJECT.json` maps each definition to the lines it models.

Contents: [the system](#the-system), [the modules](#the-modules),
[the runs](#the-runs), [disagreements found](#disagreements-found),
[the proofs](#the-proofs), [what is not modelled](#what-is-not-modelled),
[the plan](#the-plan).

## The system

### Components

| component | state | operations | what makes it correct |
|---|---|---|---|
| Thread pool (`threadutil/ThreadPool.c`) | three queues by priority, one slot for a persistent job, four thread counters, attributes | Init, Add, AddPersistent, Remove, SetAttr, Shutdown; `WorkerThread` | every job is run once, removed or discarded; thread limits; counters; no lost wakeup; shutdown ends with nothing left |
| Timer thread (`threadutil/TimerThread.c`) | events by time, next id, shutdown flag | Schedule, Remove, Shutdown; `TimerThreadWorker` | an event fires once, not late because of a sleeping worker; its argument has one owner |
| Eventing, device side (`upnp/gena_device.c`, `service_table.c`) | per service a list of subscriptions and their count; per subscription two event keys; data shared by notify jobs | subscribe, renew, unsubscribe, notify, accept, expire; `genaNotifyThread` | each subscriber gets its events in order, one at a time, initial state first; counts; data freed with the last job |
| Eventing, control point side (`upnp/gena_ctrlpt.c`, `client_table.c`) | the client's subscriptions with the timer event of each | subscribe, renew, unsubscribe, automatic renewal, NOTIFY, unregister | no renewal forgotten, no timer event leaked or freed twice, first event not refused |
| Life cycle and handle table (`upnp/upnpapi.c`) | `HandleTable`, `dlnaSdkInit`, the three pools, the timer, `GlobalHndRWLock` | Init, Finish, register and unregister, asynchronous calls | what is started is stopped; handles valid where used; no callback after unregistering |
| Discovery (`upnp/ssdp_*.c`) | the client's list of searches with their timer events | search, its time-out, results, announcements, byebyes and answers | a search ends; one that can be answered has its result before its time-out; nothing is sent about a device that is not registered |
| Control (`upnp/soap_*.c`, `service_table.c`) | the service table of the device | action, query, M-POST retry, faults | an action that is described is answered |
| Mini server (`upnp/miniserver.c`) | `gMServState`, sockets | start, stop, accept, a job per connection | every accepted connection is closed; stop ends |
| Web server (`upnp/webserver.c`, `urlconfig.c`) | the aliased description with a reference count, virtual directories, the root directory | set alias, grab, release, add and remove directory; GET, HEAD, POST, ranges, chunks | a job that counts itself in time keeps the document; what is promised in a header is sent |
| HTTP client (`upnp/httpreadwrite.c`) | handles of open requests | get, download, open, read, close, post | what is read is what was asked for; calls return |
| HTTP, URIs, XML (`upnp/http*.c`, `uri.c`, `ixml`) | buffers, DOM trees | parse, print, edit | text in, structure out |
| File handles (`http.c`) | position in a file or in memory | info, open, read, seek, close | position within the file; type and size as announced |
| Virtual file system (`vfs.c`) | items by id, parent and children | add container, add resource, remove by id or title | identifiers unique, tree consistent |
| Media database (`db_sqlite.c`) | tables of items, metadata and properties | open, insert, query | what is read back is what was stored |
| Services (`services.c`, `cds.c`, `cms.c`, `msr.c`, `rcs.c`) | none of their own; `UpdateID` of containers | Browse, Search, constants | counts and paging of answers; all that is described has code |
| Renderer (`avts.c`) | players by id with play list, state and a thread each | every AVTransport action; `avts_thread_play` | a player stays as it was asked to; requests end |
| Library facade (`dlna.c`, `upnp.c`, `upnp_dms.c`, `upnp_dmr.c`) | settings, list of services, device handle | init, set, start and stop a server or a renderer, dispatch of requests | a request finds the services that were described |
| Media profiles (`profiles.c`, `ffmpeg_profiler`) | list of registered families | register, guess, look up by id | one family per file; the id leads back to the profile |

### How they interact

Three pools run everything.  `gMiniServerThreadPool` runs the loop that accepts
connections and one job per request, `gRecvThreadPool` results of searches, and
`gSendThreadPool` notify jobs, the asynchronous calls, and, as a persistent job,
`TimerThreadWorker`, which hands its events back to the same pool.
The state of devices and clients hangs off the handle table under one
reader-writer lock, `GlobalHndRWLock`.  Requests to other machines are made with that
lock released (the description of a device in `dlnaRegisterRootDevice` is the
exception), and callbacks to the application too.

The media side sits on top.  `dms_init` and `dmr_init` describe the device, start the library
and register it; its callbacks come from jobs of the mini server, which look
into the services, the virtual file system and the players.  Items are announced
in DIDL with URLs that lead back to the web server, which reads them through `http.c`.  In the stack the recurring
shape is: look something up under the lock, let go, talk to somebody for seconds, lock
again and hope that what was found still means something.

### What is hard

- Interleavings inside the pool: `CreateWorker` sleeps in the middle of its callers.
- Jobs of one subscriber run by several threads, put back when they come too early.
- Read sections that write: two notify threads share the lock and change the same data.
- A pool that refuses a job whose caller has already booked it.
- Messages that overtake each other: the first NOTIFY against the answer to SUBSCRIBE.
- Timer events that fire while they are being cancelled.
- `dlnaFinish` while calls, requests and jobs are under way.
- Counters that wrap (`eventKey`), limits, and time-outs.
- A description that is replaced while connections read it, and ranges that are open, empty
  or longer than the file.
- A container that is read page by page while children are added to it.
- A process killed between the inserts that store one resource, and ids taken over from the data
  base by another file.
- A player's thread that looks at the state, then waits, and is signalled in between.
- A hundred tables of codecs and limits that together must name one profile per file.

`PROJECT.json` lists the hazards one by one, at the line where each bites, with the
properties that cover it or the reason why none does yet.

## The modules

| module | models | extends or instantiates |
|---|---|---|
| `JobPool` | what `ThreadPool.h` promises | |
| `ThreadPool` | `ThreadPool.c` | implements `JobPool` |
| `ThreadPoolProofs`, `ThreadPoolJobsProofs` | theorems about the threads, and about the jobs, the shutdown and the promise of `ThreadPool` | `ThreadPool`, and one the other |
| `EventFeed` | what a subscriber of a device is promised | |
| `GenaDevice` | `gena_device.c`, the subscription list of `service_table.c`, registration of the device | implements `EventFeed` |
| `TimerThread` | `TimerThread.c` | |
| `GenaControlPoint` | `gena_ctrlpt.c`, `client_table.c`, registration of the client, the end of `dlnaFinish` | `TimerThread` |
| `UpnpApi` | `upnpapi.c`, `miniserver.c`: life cycle, handle table, asynchronous calls, advertisements, accepting | |
| `Ssdp` | `ssdp_server.c`, `ssdp_device.c`, `ssdp_ctrlpt.c` | |
| `HttpFiles` | `http.c` | `Options` |
| `WebRequest` | what `webserver.c`, `uri.c` and `urlconfig.c` compute from one request | `HttpFiles` |
| `WebServer` | `webserver.c` against the client of `httpreadwrite.c`, and the calls that set it up | `WebRequest` |
| `Containers`, `AudioProfiles`, `VideoProfiles`, `Mpeg4Profiles`, `StreamProfiles` | `ffmpeg_profiler/*` | each the one before |
| `MediaProfiles` | `profiles.c`, the profiler by extension, items made of files | `StreamProfiles` |
| `MediaScan` | a profile guessed, stored and looked up again | `MediaProfiles` |
| `Vfs` | `vfs.c`, `db_sqlite.c` | `MediaProfiles` |
| `XmlTree` | `upnptools.c` and the parts of `ixml` it uses | `Options` |
| `ServiceTable` | `service_table.c` without subscriptions | `XmlTree` |
| `Soap` | `soap_ctrlpt.c`, `soap_device.c` | `ServiceTable` |
| `Services` | `services.c`, the tables of all services, arguments and answers (`upnp.c`) | `Soap` |
| `ContentDirectory` | `cds.c`, `cms.c`, `msr.c`, `didl.c` | `Services`, `Vfs` |
| `Renderer` | `avts.c` | `ContentDirectory` |
| `MediaDevice` | `dlna.c`, `upnp.c`, `upnp_dms.c`, `upnp_dmr.c`: everything of the media side together | `Renderer`, `HttpFiles` |
| `Options` | finding in a sequence | |
| `SsdpProofs`, `UpnpApiProofs`, `WebServerProofs`, `GenaControlPointProofs`, `GenaDeviceProofs`, `MediaDeviceProofs` | theorems about the module of that name | that module |
| `MC...` | instances for TLC: scenarios, files, attribute records, symmetry | the module |

Pure functions of the code are operators of modules without variables (`HttpFiles`, `WebRequest`,
the profile modules, `Vfs`, `XmlTree`, `Soap`, `Services`, `ContentDirectory`); those that keep state
are extended by them and checked through them.

Definitions named `A_Something` beside a definition `A` are variations of it with a
plausible mistake; `PROJECT.json` says which property notices
which of them.  They are used by nothing else.

### ThreadPool

One action is one critical section of `tp->mutex`: from the lock, or the return of a
condition wait, to the unlock or the next wait.  A condition wait is a state of its
own.  The variables carry the names of the fields of the C structure.

| in the model | in the code |
|---|---|
| `phase` | whether the pool exists; "shutdown" is `tp->shutdown = 1`, "destroyed" after the mutex is gone |
| `wpc`, `wjob`, `persistent` | where each `WorkerThread` is, and its local variables |
| `call`, `notified` | the operation each caller waits in with the locals that survive the wait, and whether a broadcast on `start_and_shutdown` has reached it |
| `fate`, `age`, `returned` | what became of a job, how long it has waited, which id its submitter got |
| `WorkerStart`, `WorkerReturn`, `WorkerWake`, `WorkerTimeout` | the ways into the loop of `WorkerThread` |
| `LookForWork` | from the top of that loop to the next wait, job or exit, with `BumpPriority` |
| `AddResume`, `FillResume`, `AddPersistentResume` | what follows the sleep in `CreateWorker` |

A worker that has been created is "starting" until it has locked the mutex for the
first time; the pool does not count it before.  `Tick` ages the queued jobs.
`BumpPriority` is a closed form on sequences of the loop in the code.  `JobPool` has the states
of a job and nothing of threads but their number.

### GenaDevice

A section under the write lock is one action.  A read section of `genaNotifyThread`
is several, one per access to data that another reader may change: the look-up,
the removal of an expired node, the load, the store and the test of the reference
count.  Where the code then uses a node that another reader has freed, or a count
that was read too early, the model takes either outcome.

| in the model | in the code |
|---|---|
| `writer` | who has left the lock locked (only line 1530 does) |
| `subscriptionList`, `TotalSubscriptions`, `sub` | the list of `service_info`, its counter, the fields of `subscription` |
| `expired`, `Expire` | `expireTime` has passed; the node goes when `GetSubscriptionSID` or `GetNextSubscription` meets it |
| `queue`, `wpc`, `wjob`, `wcount` | the notify jobs in the pool, and each thread in `genaNotifyThread` |
| `reference_count`, `frees` | `*in->reference_count` per event, and how often its data was freed |
| `accepted`, `sent`, `initial` | history: events queued for a subscription, those sent, and which of them is the initial state table |

There is one service; the code treats services one by one and never relates them.
The result of locking the lock again by its owner (`EDEADLK`) is ignored by the code
and is not modelled.

### TimerThread and GenaControlPoint

`TimerThread` is written to be extended: its users conjoin `TimerThreadSchedule`
and `TimerThreadRemove` to their own actions, as the code calls them under the handle lock.
Time is a clock in whole seconds, because `time()` is what the code compares.  `timer`
is "run" while the worker holds the mutex, and the calls need it free, so a
caller waits for a worker that is firing.

In `GenaControlPoint` what runs under `GlobalHndRWLock` is one action.  Every call is
split at its request: `subscribeSent` and `renewSent` are the times when the lock is
free and a device has yet to answer.  `GlobalClientSubscribeMutex` is held over a
whole SUBSCRIBE and is the variable `subscriber`.

| in the model | in the code |
|---|---|
| `client`, `subs` | the client in the handle table and its `ClientSubList`; SIDs grow, so the head of the list is the largest |
| `finite`, `RenewEventId` | whether a time-out was granted, and the timer event that will renew it |
| `jobs` | renewals handed to `gSendThreadPool` and not yet started |
| `freed` | how often `free_dlna_timeout` was called on each `dlna_timeout`; its number is the number of its event |
| `granted`, `notifies`, `rejected` | what devices accepted, their first NOTIFYs under way, and those answered with an error |
| `finTimer`...`finished` | `dlnaFinish` from `TimerThreadShutdown` to the end of `gSendThreadPool` |

`MaxClients`, `MaxSids`, `MaxEventId` and `MaxTime` are bounds; `Delays` are the values of
`TimeOut - AUTO_RENEW_TIME`, of which those below 0 are due at once like 0.

A call that comes back after the client was unregistered and registered again finds a
client under the same handle, as in the code (the handle table reuses the number).
`since` remembers for which registration a subscription was made.

### UpnpApi

A step is a stretch of code under `GlobalHndRWLock`, or between two points where a thread
waits; each thread's place is `at[t]` with its locals.  `dlnaInit` is a chain of steps
(`InitPools`, `InitTimer`, `StartMiniServer`, ...), each of which may fail where the code checks
for failure; `dlnaFinish` is another.  Pools are the promise of `JobPool`: a job taken runs once or is
discarded by a shutdown that waits for running jobs.

| in the model | in the code |
|---|---|
| `HandleTable`, `dlnaSdkInit`, `dlnaSdkDeviceRegistered`, `dlnaSdkClientRegistered` | the globals of those names |
| `at`, `work` | where each application thread and each pool thread is |
| `timer`, `ads` | the timer, and the advertisements waiting in it by handle |
| `server`, `sockets`, `connection` | `gMServState`, what is open, and each connection from accept to close |

`InOrder` says that the application calls nothing before `dlnaInit` or after the beginning of `dlnaFinish`, as
`upnp.h:1126` asks of it; `Main` alone initialises and finishes.

### Ssdp

One host is device and control point, so every datagram to the group comes back to it.
A name is a sequence of parts and a datagram a record; what `ssdp_server.c` reads out of a name with
`strstr` is a question about its parts.  `AdvertiseAndReply` sends one datagram per step under the read lock.
`SsdpSearchList` is the list of the code, each entry with the timer event of its time-out.
`owed` is history: searches a registered device can answer, `found` those with a result, `timedOut`
those reported as over.

### HttpFiles, WebRequest, WebServer

Each connection has two ends: `job[c]` is `handle_request` on the server's side, `client[c]` a
caller of `httpreadwrite.c`.  Between them are channels (`up`, `down`) of messages and a flag for a closed end.
A byte is its position in the resource and a message a head with pieces of content.

| in the model | in the code |
|---|---|
| `gAliasDoc`, `ct`, `freed`, `given` | the alias, the shared count of each document, whether its memory is gone, and how often its owner has released it |
| `Resolved`, `process_request` | `process_request`, from the path to the instruction |
| `CheckOtherHTTPHeaders`, `CreateHTTPRangeResponseHeader` | the functions of those names |
| `state` = "assertion", "heap" | `assert` in `webserver.c:397` has failed, or memory was freed twice |

A scenario (`Scenarios`) is what the owner calls and what two clients ask for.

### The media side

An item is its place in `v.mem` and is never given back, so that a use after it was freed can be
seen; `v.broken` says that the process has used freed memory or read through NULL and ended.
Adding a resource is several steps, one per insert into the data base (`StoreItem`,
`StoreMetadata`, `StoreProperties`) and then `PublishResource` and `LinkResource`; at any moment the process may end
(`Ends`), after which a next life of the owner starts over the same data base.  `Hash` is the code of a path: a parameter, so that
two files may collide.  A text that passes through an array of characters, as duration and resolution do, is the number of
blanks before it and what it says; `FitColumns` and `ReadColumns` are what storing and reading do to the two.

A request runs as a job: `Delivers` takes it in, finds the service and the action and calls
its code; Browse walks and counts in two steps, because the code does; a renderer's request may
wait for a player's thread.  `avts_thread_play(p)` is the thread of player `p`.

Profiles are functions from what libavformat has read of a file to a profile; each table of the
code is a table of the module, and each probe an operator with its name.

## The runs

Each passing run has no deadlock check, because the application may stop calling and
the pool may stay destroyed; waiting for ever is the subject of liveness properties,
of `EverySignalCounts` and of `CallsGoOn` instead.

| run | instance | states | properties |
|---|---|---|---|
| `ThreadPool_one` | 1 caller, 3 workers, 2 jobs, 1 to 2 threads, fair | 42 thousand | `OnePlacePerJob` `NothingOutlivesPool` `ImplementsJobPool` `JobsEnd` `ShutdownEnds` |
| `ThreadPool_many` | 1 client and 2 workers that add jobs, 3 jobs, at most 2 queued, changing attributes | 485 thousand | `TypeOK` `ThreadsCounted` `EverySignalCounts` `FifoWithinPriority` |
| `GenaDevice_requests` | 2 subscriptions, 1 sender, all requests, limits, 2 registrations, 3 events | 168 thousand | `SubscriptionsCounted` `DataFreedWithLastJob` |
| `GenaDevice_order` | 2 subscriptions, 2 senders, pool of 3 jobs, 4 events | 189 thousand | `TypeOK` `OneNotifyAtATime` `NodeStaysValid` `ImplementsEventFeed` |
| `GenaDevice_wrap` | 1 subscription, 2 senders, keys up to 5, 7 events, fair | 22 thousand | `EventsReachSubscribers` |
| `GenaDevice_v_lock` | a renewal without a device; expected to fail | | `CallsReturn` |
| `GenaControlPoint_calls` | 2 callers, 1 pool thread, 1 request handler, 1 SID, 2 timer events, 2 registrations, finish | 594 thousand | `RenewalPending` `EventOwnedOnce` `FirstEventNotLost` `QuietAfterShutdown` `WakesInTime` `CallsGoOn` |
| `UpnpApi_calls` | 2 life cycles, 2 application threads, 1 pool thread, 1 asynchronous call, 1 advertisement, 1 connection, fair | 305 thousand | `RegistrationMatchesTable` `TimerStaysEmpty` `QuietWhenDown` `MainReturns` |
| `Ssdp_discovery` | 1 application thread, 1 pool thread, 2 searches, 3 calls, clock to 3, lossy, fair | 262 thousand | `FoundInTime` `SilentWithoutDevice` `SearchEnds` |
| `Web_files` | 2 connections, 2 documents, buffers of 2 bytes, 88 scenarios, fair | 82 thousand | `CountedDocumentStays` `DownloadIsWhole` `EveryCallReturns` |
| `Media_device` | 2 control points, 5 files, 48 scenarios of owner and control points, 2 lives, fair | 46 thousand | `RestoredAsKept` `PagesCoverChildren` `AnnouncedIsServed` `DescribedAnswers` `StaysAsAsked` `EveryRequestEnds` |
| `Media_scan` | every family registered, 68 thousand kinds of content | 137 thousand | `KeepsItsProfile` `ClaimedOnce` |

What they show:

- `ThreadPool_one`: with one caller the pool keeps what its header says, as a
  refinement of `JobPool`, and under fairness every job and every shutdown ends.
- `ThreadPool_many`: the bookkeeping survives callers that interleave inside the
  pool.  `EverySignalCounts` is the argument why no wakeup is lost: while a thread
  sleeps, every queued job has a thread that was woken for it, or a caller that has still to
  signal.
- `GenaDevice_requests`: the subscription limit is checked against the right number,
  through expiries, failing NOTIFYs and a second registration, and with one sender the
  shared data is freed with the last job.
- `GenaDevice_order`: events go out in order, one at a time, beginning with the initial state
  table, although two threads take jobs in any order and the pool refuses some.
  No subscription expires here; with expiry and two senders `NodeStaysValid` fails, see below.
- `GenaDevice_wrap`: `eventKey` and `ToSendEventKey` wrap at different moments and meet
  again.
- `GenaControlPoint_calls`: calls of two threads overlap with each other, with an
  automatic renewal, a NOTIFY and the end of the library.  `EventOwnedOnce` says that
  the memory of a timer event has exactly one owner at any time and is freed once.
- `UpnpApi_calls`: registration and unregistration race with jobs, advertisements and
  connections, and `dlnaInit` may fail after its pools have started.  After `dlnaFinish` nothing of the library runs
  or is open, its timer stays empty, and `dlnaFinish` does return, whatever is under way: `StopMiniServer` goes on asking.  The one
  exception is named in `MainReturns` (`Unheard`): no socket opens to ask over, see below.
- `Ssdp_discovery`: the device's random delay is always shorter than the time the searcher
  waits; announcements, answers and byebyes stop with the registration, although several threads send under
  one read lock.
- `Web_files`: a job that counts itself in time keeps the description while it is replaced by a second registration,
  and no description is freed before its owner has given it up; what a client reads is what it asked for, however ranges and buffers cut it; no
  combination of lengths, chunks and closing leaves a client waiting.
- `Media_device`: a control point that pages through a container sees a prefix of its children
  while the owner adds others; what is announced with an entry is what the web server sends under its URL;
  whatever a process killed between two inserts has left, a later one reads the resource of the same file out of it (name, size,
  profile and tags as they were, duration and resolution as the columns keep them, see below), or reads
  the file anew; an action that is described is answered; a player stays paused or stopped.
- `Media_scan`: no two families of profiles claim one file, so that the order of registration does not
  matter, and a profile survives the data base, except for those that share their ids (`Ambiguous`).

### Bounds, and why they are enough

- `ThreadPool`: three workers are one more than `maxThreads`, so that a thread too
  many would exist.  Two jobs suffice for two places or two ids, three for an order in a queue
  with one that is bumped into it.  `JobsPerThread = 1` makes the pool grow with
  the second job.  Ages stop at the larger threshold, since the code only compares.
  The identifiers `lastJobId` and `jobId` are not capped: each job is submitted once.
- `GenaDevice`: two subscriptions and two senders give all pairs of a reader and another
  reader.  `MaxKey` stands for `INT_MAX` and must exceed the jobs that can be under way
  (`GenaAssumption`), as it does in the code with 100 jobs.  `MaxEvents`, `MaxDevices`
  and `MaxBacklog` bound what the application and control points do, not the library.
- `GenaControlPoint`: a renewal is due at once or one second later, so it can overtake the call
  that made it, or be cancelled before.  Two timer events are a subscription
  and its renewal, or two registrations.  When the events run out devices grant infinite
  time-outs (`Grants`).  Due times beyond `MaxTime` fall on it.  `MaxJobs` is as large as
  the number of events: the pool refuses nothing in this run.  With one caller and two SIDs
  (888 thousand states) and with two pool threads and three events (279 thousand)
  the same invariants hold.
- `UpnpApi`: `MaxInits = 2` lets a second life find what the first has left.  `NumHandle = 4` gives the table one
  slot for each kind and one that is never handed out.  `MaxQueued`, `MaxAds` bound a pool's queue and the
  renewals of an advertisement; one call and one connection each race with everything else.
- `Ssdp`: waiting times of 1 and 3 lie below and above `MIN_SEARCH_TIME` and the clamp of the device; two
  searches may overlap.  `MaxFlight` bounds datagrams and `MaxTime` the clock.  `Prompt` lets time pass only when nothing else
  can be done, because `FoundInTime` is about the delays the code chooses and not about slow machines; `Lossy` loses
  datagrams, and a search whose request or answers are lost is no longer `owed` one.
- `WebServer`: files of 3 and 4 bytes and a buffer of 2 need more than one piece and one that is not full.
  Scenarios pair requests that can meet (the description, a file that is posted to) and take the others one by one.
- `MediaDevice`: two of the files collide in `Hash`; `UINT32` and `INT32` are 64, above every length and id that is
  not meant to wrap.  Each scenario is what an owner and two control points do; all orders of their steps are
  tried.  `MaxPlayers` is the one player a control point of DLNA asks for.
- `MediaScan`: values lie on both sides of the limits in the tables: four sample rates, three bit
  rates, six sizes, three frame rates, and tracks for every sound a table names.
- Symmetry is used in runs without liveness properties; a property of those runs
  names no individual.

### Fairness

`FairSpec` of `ThreadPool`: created threads start, woken threads and callers get the mutex,
timed waits end and jobs return, each by weak fairness.  The mutex is always released in the
same action, so weak fairness suffices.  Nobody is obliged to call the pool.

`FairSpec` of `GenaDevice`: a NOTIFY ends, if only by the time-out of the HTTP
client, and whoever waits for the reader-writer lock gets it some day.  That is strong
fairness, because the lock is taken by others again and again.  pthreads do not promise it (glibc
prefers readers), but readers here are notify jobs, of which a pool has finitely
many.  Nobody has to subscribe or to publish.

`FairSpec` of `UpnpApi`, `Ssdp` and `WebServer`: what has been begun goes on, each thread by weak fairness;
nobody has to call, to connect or to search.  The clock of `Ssdp` goes on up to its bound.  A callback of the
application returns.

`FairSpec` of `MediaDevice`: the thread of a request and the thread of a player go on; owner and control points need
not.  For requests it is written out as "again and again not `Working(c)`, or again and again a step of the job", which
is weak fairness of `Works(c)`; TLC would otherwise enumerate the long action once more to see whether it is enabled.

`GenaControlPoint` is checked for safety only.  `CallsGoOn` says that in every state with a
call under way some thread of the library has a step to take.

### Disagreements found

`GenaDevice_v_lock` ends with a counterexample: a renewal without a device returns with the handle lock
held (`gena_device.c:1530`), though registration "is synchronous" (`upnp.h:1194`).

The others below have no run of their own.  Each is a step of the model; where it breaks a property, the constants that
show it are named.

**Thread pool and timer.**

- Two callers create a thread each for the same target; one too many first runs after the shutdown
  has destroyed the mutex (`ThreadPool.c:1219`; "Waits for all threads to finish", line 1147).
- A low job is bumped after `maxIdleTime`, not `starvationTime` (line 337, against `ThreadPool.h:127`).
- Two clients in `ThreadPool_one`: the thread limit fails (line 630, the count is read before the
  sleep), ids of concurrent callers collide (`lastJobId`, lines 927 and 957), `OnePlacePerJob` fails when two persistent
  jobs meet in the one slot (line 860).
- `JobsMayAdd = TRUE` in `ThreadPool_one`: `NothingOutlivesPool` and `ShutdownEnds` fail; a job that adds a job during
  the shutdown strands it, or waits for a thread that has gone (line 643).
- `ThreadPoolRemove` empties the persistent slot without a broadcast (line 1036).
- The timer ignores that the pool has refused a job (`TimerThread.c:123`): with `MaxJobs = 0` in `GenaControlPoint_calls`
  `RenewalPending` and `EventOwnedOnce` fail.

**Eventing.**

- A refused notify job leaves a gap in the event keys, and later jobs are put back for ever (`gena_device.c:1100`).  It stays
  counted, so the data of its event is never freed: with `MaxJobs = 1` in `GenaDevice_requests` `DataFreedWithLastJob` fails.
- A subscription may be reported after the device was unregistered, because the callback is made after
  `HandleUnlock` (`gena_device.c:1464`, against `upnp.h:1352`); on the other side the same for events
  (`gena_ctrlpt.c:877`).
- Two senders under the read lock lose a decrement of the shared count (`gena_device.c:162`).
- `Limits <- OneOrNoLimit` in `GenaDevice_order`: `NodeStaysValid` fails, a
  reader frees the expired node another reader has found (`service_table.c:163`, from `gena_device.c:380`).
- A subscription made after `genaUnregisterClient` found the list empty is freed with the handle and not cancelled at
  the device (`upnpapi.c:1415`).

**Life cycle.**

- With `DeviceThreads = {m, o}` `RegistrationMatchesTable` fails: two registrations at once, and `HInfo` is read after
  `HandleUnlock` (`upnpapi.c:830-862`).
- `dlnaInit` clears `dlnaSdkInit` before `dlnaFinish`, which then returns at once: pools stay (`upnpapi.c:256`).
- The last slot of the handle table is never handed out (`upnpapi.c:3486-3491`); the result of `ThreadPoolAdd` is ignored by
  the asynchronous calls.
- `web_server_destroy` may run while requests do: `StopMiniServer` waits for its own thread only.
- When `StopMiniServer` cannot open its socket it returns with the state at `MSERV_STOPPING` and has told nobody
  (`miniserver.c:819-824`, against "Stop and Shutdown the MiniServer and free socket resources", lines 797-798).  The server
  runs on with its sockets, and `dlnaFinish` waits for ever in the `ThreadPoolShutdown` that comes next (`upnpapi.c:439`).
- Removing the first of several virtual directories leaves the list's head dangling (`upnpapi.c:4040`).

**Discovery.**

- A result may be reported after the search's time-out (`ssdp_ctrlpt.c:341`, against `upnp.h:588-590`), and an announcement
  may follow a byebye (`upnp.h:1347-1349`).
- `Full = TRUE`: `SearchEnds` fails, the pool refuses the time-out's job (`ssdp_ctrlpt.c:540`).
- A device without a `serviceList` shifts the services of those after it (`ssdp_server.c:304`); "all" is recognised anywhere
  in a name, a type by a shorter prefix.

**Web server.**

- The document is grabbed after its validity was asked without the lock: the assertion of line 397 may fail (`webserver.c:1266`).
- A description is read after it was freed, with or without that race.  When its owner gives it up while a reader holds it
  (lines 467-472) the count falls and `gAliasDoc` goes on pointing to it; the last reader frees it (432-434), and nobody
  clears `gAliasDoc`.  A request that comes then passes `is_valid_alias` (1266) and the assertion of line 397, counts itself
  in freed memory (399-400) and serves from it, although "don't serve aliased doc anymore" (470).  One registration, one
  `dlnaUnRegisterRootDevice` and two GETs are enough, and `Web_files` reaches it: the job's `stale` is set, and the heap may
  find out when it counts itself or gives the copy back.  `CountedDocumentStays` says nothing of such a job.  It says what remains: a
  job that counted itself in time keeps the document, and one that comes too late found it given up.
- The property grants that the owner gives a document up once: a release made twice by the owner, as when it unregisters and
  registers again while readers hold the document, takes it away from them (467).
- A request that grabs the description and does not send it (HEAD, POST, an error) never releases it.
- A range on the description is ignored; the header of a suffix range is off by one (line 1020); a range that begins at the end gives 206 with
  no content, which the client cannot parse.
- A POST empties the file before its framing has been checked (lines 1576-1600, which also leak the file).
- Disabling the web server forgets the virtual directories and the root, and enabling it does not bring them back.

**Media.**

- An item that is removed stays among the children of its parent (`vfs.c:62`): a later browse or the freeing of the parent
  reads it; `v.broken` follows.  Its rows stay in the data base too.
- A row that another file left under the same id is taken for the file's own (`vfs.c:88`, `db_sqlite.c:128-144`).
- Profiles of the profiler by extension have no id: restored, they are no profile, and browse reads through NULL.
- Tags are the condition for properties to be stored at all; sizes are stored modulo 2^32.
- Duration and resolution do not come back as they were stored.  `'%64q'` puts blanks before them up to 64 characters
  (`db_sqlite.c:64-66`), and 63 of these are read (178-179, 188-189), so that "640x480" is 57 blanks and "640x48" in the
  next process, the duration loses its final ".", and no resolution becomes one of 63 blanks, which browse then announces because it
  is longer than one character (`didl.c:242`) - as `res@duration` and `res@resolution`, which `dlna_internals.h:223` and 228
  say the fields are.  `RestoredAsKept` grants just this and nothing else.
- An unknown file ends the stream profiler (`ffmpeg_profiler/profiles.c:466`); the AAC probe compares the
  wrong way round, and several entries of the tables can never be chosen (comments in the profile modules name them).
- `QueryStateVariable` compares with names of actions and reads an uninitialised pointer.
- Search: one clause fits everything, a second nothing; the starting index is ignored.
- Browse answers an unknown id with the root, and its error codes reach the control point as 501.
- Arguments named otherwise than described: `GetSystemUpdateID` (`cds.c:649` against 183); `RegisterDevice` answers none.
- M-POST is refused, and the retry swaps method and length, so a control point that retries gets nothing.
- A stop that comes between the player's look at the state and its wait is not heard, and its request joins a thread that
  sleeps (`avts.c:352`); a play after a stop lets the player go on while the stop waits; two `SetAVTransportURI` at once
  make two players of one id.

## The proofs

TLC shows the properties on the instances above; TLAPS proves these for every value of the constants
that the named assumptions of each module admit (`PoolAssumption`, `SsdpAssumption`, ...): any sets of threads, callers, jobs,
subscriptions, searches, documents, files, requests, connections, scenarios and players, and any bounds.  Only the standard library of
theorems about sets, functions, sequences and well-founded orders is used.

| module | theorem | what it states | granted |
|---|---|---|---|
| `ThreadPoolProofs` | `TypeCorrect` | `[]TypeOK`: no counter drops below zero | |
| | `CountersCorrect` | `[]ThreadsCounted` | |
| `ThreadPoolJobsProofs` | `NoSignalLost` | `[]EverySignalCounts` | |
| | `ServedInOrder` | `FifoWithinPriority` | |
| | `NoJobLost` | `[]OnePlacePerJob` | `OneSubmitter` |
| | `NothingLeft` | `[]NothingOutlivesPool` | `~JobsMayAdd`, `OneCreator` |
| | `PoolImplementsJobPool` | `ImplementsJobPool` | both, and `MaxIsKept` |
| `SsdpProofs` | `NothingSentWithoutDevice` | `SilentWithoutDevice` | |
| | `AnswersComeInTime` | `[]FoundInTime` | `Prompt`, `NamesAgree` |
| `UpnpApiProofs` | `TableHoldsWhatIsRegistered` | `[]RegistrationMatchesTable` | `InOrder`, `OneRegistrar` |
| | `NoEventForDeadTimer` | `[]TimerStaysEmpty` | the same |
| | `NothingRunsWhenDown` | `[]QuietWhenDown` | the same |
| `WebServerProofs` | `CountedReadersKeepTheirDocument` | `[]CountedDocumentStays` | jobs that count themselves before the document is freed (in the property) |
| | `DownloadsAreWhole` | `[]DownloadIsWhole` | |
| `GenaControlPointProofs` | `TimerWakesInTime` | `[]WakesInTime` | |
| | `FirstEventReported` | `[]FirstEventNotLost` | |
| | `NothingScheduledAfterShutdown` | `[]QuietAfterShutdown` | |
| | `RenewalEventFreedOnce` | `[]EventOwnedOnce` | `PoolHasRoom` |
| | `SubscriptionsAreRenewed` | `[]RenewalPending` | `PoolHasRoom` |
| | `NobodyWaitsForEver` | `[]CallsGoOn` | |
| `GenaDeviceProofs` | `TypesHold` | `[]TypeOK` | |
| | `SubscriptionsAreCounted` | `[]SubscriptionsCounted` | `RemovesAlone` |
| | `LookedUpNodeIsThere` | `[]NodeStaysValid` | `RemovesAlone` |
| | `NotifiedOneAtATime` | `[]OneNotifyAtATime` | `RemovesAlone`, `MaxEvents < MaxKey` |
| | `DeviceImplementsEventFeed` | `ImplementsEventFeed` | the same |
| | `DataFreedOnce` | `[]DataFreedWithLastJob` | `PoolTakesJobs`, `DropsApart` |
| | `DataNotFreedEarly` | `[]DataOutlivesJobs` | `TestsApart` |
| `MediaDeviceProofs` | `PlayersStayAsAsked` | `StaysAsAsked` | |
| | `ResourcesAreKept` | `[]RestoredAsKept` | `FilesLeadBack`, `CalledByPath`, `DatabasesAsMade`, `OwnRow` |
| | `TellingCodesKeep` | `[]RestoredAsKept` | the first three, `CodesTellApart`, `DatabasesKeyed`, `FewItems` |

### What is granted, and why

Each of these is a place where the code relies on something it does not ensure.  Without it the property fails in the
model, and [the disagreements](#disagreements-found) say at which line.  Those on states are hypotheses
`[]H` of the theorem: it speaks of the behaviours in which `H` holds all the time.  They are true of every behaviour of
the run that checks the property: one caller, one sender, no expiry, or a pool as large as the events.

- `OneSubmitter`: one caller at a time is inside `ThreadPoolAddPersistent`.  The slot for persistent jobs is written
  without looking whether it is empty (`ThreadPool.c:860`).  The library adds one, the timer's.
- `OneCreator`: one caller at a time waits in `CreateWorker`, or gives up because no thread could be created.  Its
  wait is for a number of threads, and two callers can wait for the same number (lines 640-643).
- `~JobsMayAdd`: jobs do not add to their own pool.  A job may do so while the pool is shut down.
- `MaxIsKept`: the pool has a maximum, and `ThreadPoolSetAttr` does not raise it: `JobPool` knows one maximum.
- `Prompt`: time passes only when nobody has anything to do; otherwise any machine may be too slow for any time-out.
  `NamesAgree`: what the device takes for one of its names the control point takes for an answer, a statement about the constants.
- `InOrder`: the application makes no call before `dlnaInit` has returned or after `dlnaFinish` has begun; `dlnaSdkInit` is set before
  the library is ready (`upnpapi.c:275`).  `OneRegistrar`: one thread registers and unregisters devices, and one
  clients, since unregistering lets go of the lock between the look-up and the end (line 840).
- `PoolHasRoom`: when an event is due the pool takes its job; the timer ignores a refusal (`TimerThread.c:123`).
- `RemovesAlone`: no notify thread removes an expired subscription that another reader has looked up
  (`service_table.c:153-166`, called under the read lock).
- `MaxEvents < MaxKey`: the keys do not wrap.  Around the wrap the run `GenaDevice_wrap` checks what subscribers get.
- `PoolTakesJobs`: a notification finds room for all of its jobs.  `DropsApart`: no two threads are at the same access
  to the shared count of one event, which is not locked among readers (`gena_device.c:157-165`).
- `TestsApart`: no two threads have both stored the count of one event and not tested it yet, which is less than `DropsApart`:
  both may load the same count, and a decrement be lost.  It is granted where the pool may refuse any job.
- `FilesLeadBack`, `CalledByPath`, `DatabasesAsMade`: statements about the constants.  A file's profile is found again by its
  id (the profiles of the profiler by extension have none, and some share theirs) and its size is less than 2^32; the
  scenarios call a resource by the path of its file, which is how the property recognises it; and the data bases there are at
  first hold no row that is not of such a file, with what is known of its streams as the columns keep it.  All three are true of the run.
- `OwnRow`: the row under the id that a resource is about to be given, if there is one, is of the same file.  The code takes
  the row for the file's own without comparing the paths (`vfs.c:227-236`, `db_sqlite.c:128-144`).  The run satisfies it although
  two of its files share a code: no life of a scenario meets the other's row.
- `CodesTellApart`, `DatabasesKeyed`, `FewItems`: instead of `OwnRow`, that two files have no code in common, not of all
  numbers (`crc32` has that for no two files) but of those a search comes to while there are at most so many
  items; that the rows of the first data bases are under such codes; and that there never are more items.  The run does
  not satisfy the first on purpose; on its instance with five different codes and at most eight items all of them, and the
  invariants below, hold in all 46 thousand states.

The assumptions on constants say what the values are, and TLC evaluates them on every run.  Those of `WebServer` are the
longest: `ContentAssumption` (files have a length, a buffer at least a byte), `RequestsAssumption` (who reads asks for a byte
at least, a range has natural numbers or leaves them out, a path without its dots is a sequence of names) and
`NullAssumption` (NULL is not one of the values it stands for the absence of).

### Along which argument

Hardly any of the invariants is inductive by itself.  The strengthenings are definitions of the proof modules:

- `ThreadsInv` (counters): that a decrement stays a natural number needs the equality of counters and
  threads, and that needs that the local variable `persistent` of a thread that is not busy has been taken
  back to -1.  Steps that wake, create or do nothing keep every role (`SameRolesCount`); the ways into the loop of
  a worker end in `LookForWork`, whose effect on the counts is one lemma (`LookForWorkCounts`).
- `LifeInv` (signals): before the pool runs it has no work, and once it is shut down nobody falls asleep.  With it a step
  either takes a signal along with the job (`LookForWorkSignals`), or wakes, or makes no sleeper.
- `PlacesInv` (jobs): the three queues one behind the other are one line (`LineOf`), which bumping does not
  change at all (`BumpedLine`).  So submission, service and removal put one job into a line or take one out (`Inserted`), what
  `FifoWithinPriority` and `OnePlacePerJob` ask is read off the line (`LineOrder`), and a
  job in the line, the slot or a thread is live and nowhere else.
- `EndInv` (shutdown): a thread that has not begun to run is waited for by its creator, whose target is above the
  number of threads; so no such thread is there when the pool is shut down.
- `BoundOK`, `NewWhileEarly` (`JobPool`): no more threads than the maximum, those that have not begun included, and no
  job before the pool runs.  Each action is then `Accept`, `Remove`, `Open`, `Close`, `Work` or unseen; that no more jobs run than
  threads exist is an injection (`RunningBound`).
- `SearchInv` (discovery): who sends holds the read lock, so the device is registered; every search still owed has either a
  request or an answer on its way whose delay fits into the time left, or its answer is about to be sent.
- `ApiInv` (life cycle): for each place of the main thread, what is up: pools, timer, server, sockets.
- `WebInv` (description): the count is at least the number of readers, and one more until the owner gives it up; what is freed was given up.
- `DownloadInv` (downloads): the bytes of an answer are a run of consecutive positions (`Run`) that begins at the offset
  the head promises; what is left to send, where the file handle stands and how many bytes are on their way always add
  up to the size promised; what the client has is a run from the same offset.  A piece is never empty while something is
  left (`PieceSize`), since the file is as long as when the request was resolved: only files that are posted to change
  (`FilesKept`).  That the server's reading of a range is the run that was asked for is one lemma about the operators (`RequestGranted`).
- `CPInv`, `OwnedOK`, `RenewsItself` (control point): the timer's list is in the order of time; an event waits in it, is handed to
  the pool or is run by a thread, and is freed in no other case; the event that a subscription names renews that
  subscription and no other one.
- `WaitsOK` (waiting): the mutex of SUBSCRIBE is held by a thread whose request is under way, which never needs it again; a timer
  that is told to stop has a worker that is about to notice; one caller at most finishes.  Who has taken a step gets to, and away
  from, the stages others wait for as `Walk` says.  If nobody could go on, the timer's mutex would be free, so that whoever schedules or
  removes an event could; then nobody holds the mutex of SUBSCRIBE, so that whoever waits for it could; what is left is `dlnaFinish` alone, with
  nobody to wait for (`SomebodyGoesOn`).  `CallsGoOn` says "has a step to take" with the guards of the
  steps (`CanGoOn`, `WorkerReady`); in every state of the run that is the same as `ENABLED`, which the prover does not know.
- `Types`, `ListInv`, `Apart`, `TurnsInv` (device): the keys of a subscription are the turns of its jobs.  Every job has a
  turn of its own, turns before `ToSendEventKey` have been had, and a thread that sends has the turn that is next: therefore
  one NOTIFY at a time, in order, and `sent` is a prefix of `accepted`, which is the refinement.
- `DataInv` (shared data): the count of an event is never below the number of its jobs that have not been uncounted, nor is
  what a thread has in its register between load and store; the data has been freed once if the count is 0 and nobody is
  about to test it, and not at all otherwise.  With the parameter `TRUE` both are exact, which refused jobs and
  lost decrements end: they leave the count too high, so that the data is freed late or never, but not early and not twice.
- `JobsOK`, `PlayersOK` (players): what jobs and players are made of.  Every step is one of the owner, of a request, of a
  control point or of a player's thread, and all but the last leave the players alone or come with a change of `job` (`Moves`).
- `RestoreInv` (file system and data base): a resource holds what its file makes or what a row of its file leads back to; every row
  is of a known file, with the size and the profile it was made with; tags and properties have an item's row and are of the same
  file, the properties as `FitColumns` leaves them (what it does to them the proofs never look into, so they hold for columns of any width); and a resource on its way into the data base, between two inserts, has a row exactly from the first insert on.  A kill
  forgets the file system and the owner's place and leaves the rows, so the next life begins with nothing but what the invariant says of them.
- `KeyedInv`: every row, and the row that is about to be inserted, is under a code of its own file's path.  With it two files
  under one id would have a code in common (`OnePath`), so `OwnRow` holds.

TLC has checked the strengthenings on the instances before they were proved.

### What is only model-checked

- Liveness (`JobsEnd`, `ShutdownEnds`, `EventsReachSubscribers`, `MainReturns`, `SearchEnds`, `EveryCallReturns`,
  `EveryRequestEnds`): it needs fairness.
- `PagesCoverChildren`, `AnnouncedIsServed`, `DescribedAnswers`: they are true of what owners and control points do in the
  scenarios, not of any calls in any order.  An owner that removes a container and makes another of the same id between two
  pages, that offers a file that is not there, initialises twice, or changes its identity while it is registered breaks them.  Their statements
  also pass through the messages of SOAP, built and read back by folds over trees, and for such definitions there is no induction in
  the prover.
- `KeepsItsProfile`, `ClaimedOnce`: they compare the rows of the profile tables with each other, one by one.  The tables have no
  parameters, ids are put together from strings, and the run evaluates all rows on values on both sides of every limit, which is the
  proof by cases.

## What is not modelled

- Allocation failures.  Many error paths are reached by them alone; the models follow
  error paths that requests, full pools and missing handles reach.
- Text: the scanner of HTTP (`httpparser.c`), the parser and printer of XML (`ixmlparser.c`, `ixml.c`), escapes in URLs,
  the layout of DIDL, logging.  A message is what its receiver reads out of it.  Attributes and the editing of
  trees are left out of `XmlTree`, since no component uses them on a tree it did not just make.
- Time-outs of the HTTP transport and proxies; on the side of `Ssdp` renewed announcements (they are in `UpnpApi`).
- The callbacks an application may give for files (`dlna->http_callback`); `HttpFiles` is `http.c` without them.
- Statistics of the pool that are averages, scheduling policies, spurious wakeups
  of the timer (its loop looks again whenever it wakes).
- Persistent timer events, which nothing in the library schedules.
- NOTIFYs with a key other than 0 on the control point side: they are matched and reported, and
  change nothing.
- Synchronous calls that are still on an application thread when the library ends: `FinishDone` of `GenaControlPoint` waits
  for callers as for pool threads, which is true of the asynchronous calls.
- On the device side of `GenaDevice`: `dlnaFinish`, registration while a device is registered; both are in `UpnpApi`.
- The data races on `pVirtualDirList` and `gDocumentRootDir`, and on the children of a container, which `realloc` moves
  while a browse reads them: their accesses are taken as atomic.
- The start of the mini server that takes longer than its callers wait (`miniserver.c:766-785`), and the search for a free
  port, which never ends when `bind` fails for another reason than a port in use (`miniserver.c:595-612`).
- The unfinished functions for streams in `profiles.c:659-757`, which nothing calls; the pointer structure of `LinkedList.c` and
  `FreeList.c`, whose lists are sequences in the models; `ffmpeg` itself, of which a file's record says what it reads;
  SQLite, which is taken to keep what it has committed.
- The command line tools: `dlna-dms` and `dlna-dmr` are among the scenarios of `Media_device`.

Requests of `MediaDevice` are taken in when they are sent, since what happens on their way could as well have happened
before; a process that ends loses those under way.

Two hazards of the code have no property because what they threaten was seen to happen (`gena_device.c:1464`,
`vfs.c:62`); one is excluded by the header's warning (`ThreadPool.c:643`).

## The plan

Done: the pool with its proofs; both sides of eventing; the timer under the control
point; the life cycle and the mini server; discovery; the web server against the HTTP client; control; the media
side from the profiles to the renderer; and the theorems above: every safety property of the modules below the media side,
and on the media side the resources and the players.

Next, in this order:

1. A theorem with less granted: `OneNotifyAtATime` around the wrap of the keys.
2. Control point: liveness of calls and of timer events, and every subscription at a device known or cancelled.
3. Composition: `Ssdp` and `GenaDevice` under one life cycle of `UpnpApi`.
