# A TLA+ verification project for DevTether

DevTether is a local development proxy. One `devtether up` process (the
daemon) binds a DNS server for `*.localhost`, a reverse proxy and an IPC server
on a Unix socket, and serves until a signal, a `/shutdown` request or an error.
Other invocations (`down`, `status`, `routes`, `logs -f`, a second `up`) are
processes of their own that meet it only in the files of the runtime directory.
This directory holds the TLA+ models of that code, the TLC runs that check
them, and proofs of their main safety properties.

## Inventory

| Component | Source | State | Operations | What makes it hard | What makes it correct |
|---|---|---|---|---|---|
| Instance lock and runtime files | `internal/daemon/lifecycle.go` | flock, PID file, nonce file, socket path | acquire, write, remove, probe, wait, sweep | unrelated processes, no atomicity across files, crashes | one owner; files never name a wrong daemon; unlinking hits only one's own socket |
| IPC server | `internal/daemon/daemon.go` | listener, lock file, nonce | `Listen`, `Serve`, `/shutdown`, `/routes`, `/status` | error paths, order of the deferred calls, the lock released in the middle | the lock covers all shared work; leftovers are taken over |
| IPC client, `down`, `status` | `client.go`, `cli/down.go`, `cli/status.go` | target, nonce read | request, PID fallback, wait, sweep | nonce and PID are stale when used | success means the daemon let go |
| Start sequence of `up` | `cli/up.go` | listeners | pre-flight, three binds | two starts at once, probes of other commands | a start is refused only for a reason |
| Serving goroutines and signals | `cli/up.go` | errgroup, contexts, channels, timer | launch, collect, arm, disarm, watch | select races, two receivers of one signal, a server that is told to stop before it starts | every shutdown ends the process; no signal is swallowed |
| DNS server | `dns/server.go` | packet conn, "started" | bind, serve, shutdown, answer | one shutdown call, its error dropped | answers exactly the routed names |
| Proxy server | `proxy/server.go` | listener | bind with fallback, serve, drain | privileged and occupied ports | bounded drain |
| Proxy request path | `proxy/handler.go`, `proxy/middleware.go` | response wrapper, throttle cache | lookup, forward, error page, abort, log | mid-stream failures, informational headers, concurrent errors | payloads intact, statuses honest, bounded logging |
| Routing table, configuration, host names | `router`, `config`, `netutil` | map of routes | load, validate, register, resolve | case, dots, brackets, ports | DNS and proxy agree |
| Health check | `cli/up.go` | the state last logged | dial all routes every 3 s, log changes | it dials under the context that a shutdown cancels, and its loop may prefer the ticker to it | a shutdown does not wait for it for ever |
| Detached start | `cli/up.go` (`daemonize`) | pipe, child, log, the environment of the child | spawn, wait for readiness, kill at the deadline, search the log | the deadline races the readiness message, a log that several runs append to | the report is true, and it is the child's |
| `logs` and its follower | `cli/logs.go` | offset, trigger channel, watcher, three goroutines | scan backwards, print, probe, follow, rewind, stop | writes between two of its steps, chunk boundaries, a coalescing trigger | exactly the last lines, then the log without a gap |
| Logger, wizard, doctor, flags, templates | `logger`, `cli/init.go`, ... | none shared | output and prompts | | |

They interact like this: `runUp` calls the three `Listen` functions one after the
other, then runs one goroutine per server in an errgroup; the IPC handler calls
back into `runUp`'s `cancel`; commands and daemon share only the runtime files;
proxy and DNS share the read-only routing table; proxy requests share the
throttle cache under its mutex; the parent and the child of a detached start share a pipe, and
with all other starts and `logs` the log file.

`PROJECT.json` lists the hazards at their lines.

## Modules

| Module | What it is |
|---|---|
| `SingleInstance` | the promise of ADR-003: one owner, only the owner has an endpoint |
| `DaemonLifecycle` | `up`, `down`, `status`, `logs -f` processes on the runtime directory |
| `DaemonLifecycle_proofs` | its inductive invariant, its refinement, and that nobody keeps the lock for ever, proved |
| `MCDaemonLifecycle` | small instances of it |
| `GracefulShutdown` | the promise about the end of a serving process: all workers return, or a shutdown is cut off |
| `ServeGroup`, `MCServeGroup` | the goroutines of one serving process, its health check, its signals and its watchdog |
| `ServeGroup_proofs` | the count of the workers, the state of the channels and the refinement, proved |
| `ServeGroup_progress` | how long a process may still run, and the one way in which it hangs, proved |
| `DetachedStart`, `MCDetachedStart` | `up -d`: parents, their children, the pipe and the shared log |
| `DetachedStart_proofs` | the truth of what a start reports, and its use of the runtime directory, proved |
| `LogFollow`, `MCLogFollow` | `logs` and `logs -f`: backward scan, backlog and follower |
| `LogFollow_proofs` | the scan, the absence of gaps and doubles, and that no wake-up is lost, proved |
| `ProxyRequest`, `MCProxyRequest` | requests through the reverse proxy, and the throttle cache |
| `ProxyRequest_proofs` | the responses and the throttle, proved |
| `RouteTable`, `MCRouteTable` | from the configuration file to the answers of proxy and DNS server |
| `HostNames_proofs` | what `NormalizeHost` makes of a name, a dot, a bracket and a port, proved |
| `RouteTable_proofs` | the order of the table, the agreement of both engines, and who is answered, proved |

### DaemonLifecycle

A daemon is one `up` process, so it stands for its PID and its nonce as well. `pc`
walks through `runUp` and `daemon.Server.Listen` in the code's order: pre-flight
(`CheckRunning`), DNS bind, proxy bind with its fallback, flock, PID file, nonce
file, stale socket, bind. Each system call on a shared file is a step of its
own. `os.WriteFile` of the nonce is two steps (truncate, fill; the second fills what the first has opened, and
changes no path when a predecessor has unlinked it in between), `WritePID` is one
(the rename). From `"serving"` on, three workers run side by side: `dns`, `proxy` and
`ipc`, the last one through its four deferred calls: unlink the socket, release
the lock, remove the nonce, remove the PID file. When the last of them has run, the errgroup sees that the worker is
gone, and with an error it cancels the others. `ListenFails` is a failure of any file
operation under the lock, with the error path that the code takes from there.
`Kill` is SIGKILL, a crash, a second interrupt or the watchdog, at any step; the kernel then drops
the flock and the sockets, and the files stay.

A client is one run of `down`, `status` or `logs -f`. `down` reads the nonce, dials,
gets 200, 403 or a broken connection, falls back to the PID file, and polls the
lock; a nonce read between truncate and fill is empty and goes out as none. `status` asks once; both sweep a
stale socket when the dial is refused: the PID is read, then probed, then the socket and the PID file go.
`logs -f` probes the lock and waits for it. A probe is two steps, because between
them the prober really holds the exclusive lock.

PIDs are not reused in the model. Another user's daemon, the lock file's own absence and the
checks of the directory are left out.

### ServeGroup

One process from the launch of its goroutines to its end. `worker[w]` follows
a goroutine of the errgroup from launch over serving and draining to its return,
the token it sends on `workerDone`, and the error it hands to the group. The
collector counts tokens; `handler` is the signal handler, with the second select
that contains the watchdog. A signal goes to every registered channel: that of
`NotifyContext` and `sigCh`. `dns` may be told to stop before `ActivateAndServe` has
marked it started: the call fails, the error is dropped, and it is then `"deaf"`. The IPC worker answers
`/shutdown` while it serves and while it drains, also when the shutdown has begun.
The health check is a worker when there are routes (`printStartupSummary` returns none without). A round
of it begins with all dials and ends when the last has returned; its `select` may begin the next one in spite of
a cancelled context. What a round reports is left out: it hangs on dials outside the program.

### DetachedStart

One element of `Starts` stands for an invocation of `up`, its parent process and the child it spawns.
`parent` walks through `daemonize`: the log, the pipe, the fork, the closing of the write end, the read of the
message against the 5 s timer, the kill and the wait, and the search of the log for the reason of a crash.
`child` walks through `runUp`: pre-flight, `Listen`, launch, readiness message, the end of the group, and
`main`, which prints the error. A foreground start is a child without a parent that waits. `writers` holds
who has the write end of the pipe, so that the end of file comes from the ends that are closed, by
their owner or by the kernel, and not from an assumption about it. The runtime directory is an instance of
`SingleInstance`: the abstract module that `DaemonLifecycle` implements is what this module uses.
`log` is the sequence of lines all starts appended, each of them a fatal error of a start, one of
a running daemon, or any other line; `LastStartupError` looks at the last `Window` of them. SIGKILL by the
parent is a request (`doomed`) and its effect a step of its own. The files a killed child leaves are the
business of `DaemonLifecycle`.

### LogFollow

A log is a sequence of numbered bytes, some of them newlines; a daemon appends, a rotation empties the
file in place, once the backlog is printed. `Scan` is one round of the loop of `printLastLines`, one
chunk; `Copy`, `Probe` and `Watch` follow in the order of `runLogs`, each may fail (`MainFails`), and all
may be interleaved with writes and exits. Then three goroutines run: the one that polls the lock, the one that
turns fsnotify's events into the token of a channel of capacity one, and the reader, whose
end of file and whose `select` are separate steps: an event in between is the classic lost wake-up. Other
commands probe the lock by taking it for a moment.

### ProxyRequest

A connection carries one request at a time. `resp[r]` holds the two fields of
`loggingResponseWriter` and what the client has been given. What `httputil.ReverseProxy`
and `net/http` do between the hooks is external: a backend may inform (1xx), answer, switch protocols,
stream, fail at any point, or stay silent; the client may leave. A request may have a body that is still being
written (`upload`); `ResponseHeaderTimeout` is armed only after that. `LoggedRecently` is two steps, since it
reads the time before it takes the mutex. `logged` is what it returned, so that a line shows as
one even when it has the time of the one before. The host of a request stands for the result of
`NormalizeHost`.

### RouteTable

`LoadConfig` applies the defaults and validates, `AddRoute` is one round of the
loop over the sorted domains, and `ServeHTTP` and `HandleRequest` answer one Host header or one
DNS question from the finished table. A string is a sequence of characters; its
case, dots, colons and brackets matter, so `NormalizeHost` is translated step by step, with
`net.SplitHostPort` (external) under it. "localhost" is one character, and the 63
characters of a label are a constant; a label that contains the word and more is therefore shorter than in the code,
and no property depends on it. YAML is reduced to whether the file parses; a
message has one question, since the DNS library passes no other.

### What the models found without being a run

* A question whose name carries a port, `app.localhost:80.`, is answered like `app.localhost.`, since
  `NormalizeHost` strips it, although `dns/server.go:7` has the server answer only for names in the
  table. `UnknownIsNxdomain` leaves these names open.
* A detached child that dies without an `Error:` line (a panic, SIGKILL) is reported with such a line of
  another run when the last 4096 bytes hold one (`up.go:577`). The code has nothing against it, so no property
  excludes it. `OwnErrorIsNotMasked` states what is kept: the child's own line, if there is one, is never passed
  over for an older one.
* An upload to a backend that accepts and does not read is held without a bound: `ResponseHeaderTimeout`
  (`proxy/handler.go:48`) starts when the request is written, and `proxy/server.go:45-49` sets no read or write timeout.
  `SilentBackendAnswered` is about requests that are written.
* A shutdown in the middle of a health check fails the dials of working backends, and the round logs their routes as
  offline (`up.go:441`, `461`).
* A command that probes the lock takes it. A `logs -f` that meets the probe of another command therefore finds
  a daemon where none is and reports its shutdown (help text at `logs.go:36-38`), and a start that meets
  a probe is refused (`lifecycle.go:147`). `ClaimIsTrueOfDaemon` is about followers that met a daemon.
* `sigCh` of the signal handler stays registered after its `gCtx` branch, and nobody reads it then.
* At the daemon's exit the reader may leave with the last lines unread, since its `select` may take
  `gCtx.Done` with a token in the channel (`logs.go:231`).
* A rotation, or any write, between the copy of the backlog and `watcher.Add` shows at the next event
  only; and a rotated log that has grown past the old offset by the time of the wake-up is read on from the middle.
  `RotationIsSeen` and `NothingTwice` state what is kept.
* The readiness message may go out after the IPC worker has already stopped, so "started" does not mean
  that the daemon still serves.

## Runs

| Run | Instance | Shows |
|---|---|---|
| `lifecycle` | 2 daemons, 1 client, own DNS addresses, one proxy address and the fallback | all safety properties, and the refinement of `SingleInstance` |
| `lifecycle_live` | 1 daemon, 2 clients | a cancelled daemon lets go, a `down` that was accepted or refused with a 403 returns, a crash's leftovers go |
| `serve_group` | 4 workers, 2 signals | safety and liveness of a shutdown, with rounds of the health check in its way, and the refinement of `GracefulShutdown` |
| `detached` | 2 starts, the last 2 lines of the log, 1 other line | a reported failure leaves nothing, a reported start was one, the child's own error is found, every parent returns |
| `log_follow` | every log of up to 4 bytes, chunks of 2, 1 or 2 lines, 1 exit, 1 rotation | the backlog, no gap and no double, true claims, no lost wake-up |
| `proxy` | 2 connections, 2 backends, 1 unknown host, cache limit 2, cooldown 2, clock 0..2 | the response and the throttle properties, and an answer for a request that a silent backend has got |
| `route_table` | files of 0 to 2 routes from 18 domains and with each kind of bad setting, 1,564 headers, 21 questions, labels of up to 3 characters | exactly the spellings of configured domains are served, by both engines, with one port for each |
| `stolen_files` | 2 daemons | violated: a serving daemon's nonce and PID file are removed by its predecessor |
| `down_early` | 2 daemons, 1 client | violated: `down` returns before the process has stopped |
| `sweep_race` | 2 daemons, 1 client | violated: a sweep removes a live socket |
| `serve_hang` | 4 workers | violated: a shutdown without a watchdog never ends |
| `early_hints` | 1 connection | violated: a 1xx takes the place of the final status |

The five violated runs are findings: each states what a comment or a document
of the repository says, and TLC shows a behaviour of the code that breaks it.
A sixth finding is a comment that the passing run `route_table` contradicts: `dns/server.go:84-86` says that all
queries but A queries for registered domains "receive NXDOMAIN (per ADR-002)", while the code
answers another type of a routed name with NOERROR and no data. ADR-002's table (`docs/adr/002-dns-design.md:39`)
and `TestNonARecordQuery` (`dns/server_test.go:265`) want what the code does, so `ConfiguredIsServed` states
that, and the comment is what is wrong.
`PROJECT.json` quotes the lines.

**Why the bounds are enough.** The hazards of the runtime directory are between
an old and a new daemon, or between a daemon and one command; a third daemon would
only repeat the part of the second, and the proofs cover any number. One DNS address each
is the wider case: with one shared address the second daemon cannot get to the lock while the
first still has its DNS socket. A signal is needed once to start the shutdown and once to
meet the window after it. Two connections are needed for a race in the throttle cache, two
backends and a limit of two for the eviction of a fresh entry. With a cooldown of two and three instants a second
line can come at the instant of the first, one instant later, one or two earlier, and when the cooldown has passed; the one backend status differs from `net/http`'s implicit 200. Two domains are
needed to collapse into one or to be added in the wrong order; the headers are all concatenations of up to four of two
spellings of a name, dot, colon and brackets, with longer ones for brackets within brackets; labels
reach the limit and pass it by one. Two starts are needed for one to read the other's error, or to be
refused by the other's lock, a window of two lines and one other line for an error to leave it. A log of
four bytes is two chunks, so that lines cross a chunk, end with it or fill it; bytes are appended to
shorter logs, before, during and after the scan; the proofs cover every length and every chunk. Runs end in states where the
processes have ended, hence `CHECK_DEADLOCK FALSE`.

**Fairness.** `DaemonLifecycle!FairSpec` runs starting daemons, IPC workers and commands
that were begun; every such process takes a bounded number of steps (proved: `ProcessesRunOut`), so one weak
fairness condition for all is as strong as one for each. Nothing makes a user start a
command, nothing makes a system call fail, and DNS and proxy workers may hang: the lock must
be released all the same. `ServeGroup!FairSpec` runs the goroutines, which have a bounded
number of steps as well (`StepsRunOut`); the timer of
the watchdog fires at some time, while signals, requests and server errors are
never due. A round of the health check ends, since its dials have a timeout of 200 ms, and the loop gets to
its `select` again and again, where a context that is cancelled wins in the end (strong fairness of `HealthStops`).
`DetachedStart!FairSpec` runs the parent, whose timer fires, and delivers SIGKILL; a child may hang anywhere.
`LogFollow!FairSpec` runs the command, its pump and its reader; nothing makes a daemon write or exit, or a poll
meet the free lock. `ProxyRequest!FairSpec` runs the handler and lets the transport's 30 s timeouts fire once
the request is written; nothing makes a backend read, answer or end, a client leave, or a dial fail.

## Proofs

### The daemon's files

`DaemonLifecycle_proofs` proves, for every set of daemons and clients, every address
configuration and from the assumption `ProcessesAreDistinct` alone (daemons, clients
and `None` are different things):

* `TypeCorrect`, `LockIsExclusive`, `FilesAreTrustworthy`, `BindNeverCollides` and
  `DownIsTruthful`: the safety invariants of the run `lifecycle`;
* `UnlinkIsOwners`: the action property `UnlinkSparesSuccessor`;
* `RefinesSingleInstance`: the initial states of `DaemonLifecycle` map to those of
  `SingleInstance`, and each step to a step or a stutter.

All rest on `IndInvHolds`. `FilesNeverMislead` is not inductive: that a daemon
finds no foreign name in the PID file when it begins to listen depends on what was there at each
step since it wrote the file. `IndInv` therefore says of each step under the lock
which files are already the holder's or gone (`HolderOwnsFiles`), ties the kernel's lock to
the daemon's step (`LockMatchesControl`), keeps the IPC worker inside a serving process
(`IpcNeedsServing`), and, for `down`, says that a daemon named by a file or a target was granted its lock
before, and is granted it only once (`NamedArePastLock`, `WaitersOutliveOwner`). The proof
that a step preserves it has a lemma for the start, one for the serving part and one for the
clients, each with one step per action.

Three more theorems are the safety half of the liveness that `lifecycle_live` checks, on any number of processes:

* `LockIsNeverStuck`: who holds the lock has a next step to take, or is a daemon that serves and has not been told
  to stop. It uses `LockMatchesControl`, `BindFindsPathFree` (a start that has to bind is never in front of a file) and
  `WaitInv`, that a command holds the lock only between its probe and the release.
* `DownIsNotStuck`: a waiting `down` gets the lock, or waits for a process with a next step, or a daemon other
  than its own has come in between two polls. The last case is real, and the reason why `DownReturns` is checked
  with one daemon.
* `ProcessesRunOut`: each step of a start, an IPC worker or a command lowers the number of steps that process has left
  (17 and 7 at most), and no step of anybody raises one.

A next step is stated by the guards of the actions (`StartCanMove`, `IpcCanMove`), as ENABLED cannot be used in a proof.

### The route table

`RouteTable_proofs` proves, for every alphabet, file, header, question and limit on
labels: `TypeCorrect`; `RoutesAreReachable`, that every key of the table is a name `NormalizeHost` returns unchanged,
under `.localhost`, with no label that is empty, too long, or has a hyphen at an end;
`ConfiguredAreServed`, that proxy and DNS server both serve every configured domain; `SpellingsAreServed`, that the proxy
serves it in any case, with a final dot, in brackets and with a port, and forwards no other Host header; `UnknownAreRefused`, that
the DNS server answers no name that means no configured domain; `TableIsSorted`, that the routes come in the order of the domains, so that of two domains which collapse into one
name the port of the last counts; and `LoopNeverSticks`, that the loop has a next domain until all are
added. The assumptions are `AlphabetIsSound` (lower-casing twice is lower-casing once and neither takes nor gives a dot, colon,
bracket or hyphen; `Rank` orders the characters) and `NamesAreStrings`, by which a file has finitely many routes.

A domain that passes the validation has no colon and no bracket and does not end in a dot (`RouteNameIsPlain`), so
`NormalizeHost` only lowers its case (`NormalizesToLower`). For the other spellings `HostNames_proofs` works out the
translation of `net.SplitHostPort` (`NormalizesSpellings`): the positions it looks for are least and greatest elements of
sets of indices, which exist by the well-founded order on the naturals; they do not move when the case is
lowered; and then `StripPort` is gone through for a bare name, one in brackets, and each of them
with a port. `IndInv` adds that the table holds every domain added so far, and nothing that is not in the
file; the loop's next domain exists because a finite set of domains has a first one, by counting those before it.

### The serving process

`ServeGroup_proofs` proves, for any number of signals and with or without a health check (`WorkersAreKnown`,
`SignalsAreBounded`): `TypeCorrect`; `CompleteIsComplete`, that `workersComplete` means that all workers have
returned; `NothingAbsorbsSignals`; and `EndsGracefully`, that the
process implements `GracefulShutdown`. The core is a count: tokens in the channel and tokens
collected together are the workers that have returned (`TokensAreWorkers`), so a collector that has counted
as many as were launched has met all of them. `LaunchInOrder` says that a worker not yet launched cannot have
returned; `HandlerDisarmed` that the handler's channel is out of the way before the watchdog starts.

In the refinement a worker works until it has returned to the errgroup, and the shutdown has begun when `GroupDone` holds, that is when
the root context is cancelled or a worker's error has reached the group. `EndsNeedShutdown` is the invariant it
needs beside `IndInv`: no worker is on its way out, and no signal can cut the process off, before that. A token, a
disarmed channel or a second cancellation is a stutter.

`ServeGroup_progress` proves what `HeardShutdownEnds` and `WatchedShutdownEnds` need beside fairness. `StepsRunOut`: a rank,
63 at most, that no step raises and each step of a goroutine lowers; a worker counts twice, as its last step gives the
collector one more token to take. `HangsInOneWay`: a process that has begun to shut down and has no goroutine with a step left waits
for a DNS server that was told to stop before it had started, with the signal handler gone and its watchdog with it. It is the
state in which the run `serve_hang` ends, and there is no other of its kind. The guards are those of `CanMove`.

### The detached start

`DetachedStart_proofs` proves, for any number of starts, any window and any log (`StartsAreProper`,
`BoundsAreNatural`): `FailureIsClean`, `StartedIsTrue`, `OwnErrorWins` and the types. `EofNeedsEnd` is the fact
everything else hangs on: an end of file without a message means that the child has ended, because it
held the write end while it ran. `ReportNeedsEnd` adds the wait after the kill, `OwnerRuns` that an ended child owns
nothing, and `ErrorsAreFinal` that a start's error is its child's last line and excludes a message. `NoParentHangs` says
that a parent which waits for the child it has killed will see it end. `StartsShareDirectory` says that all that the starts do to the
runtime directory is a behaviour of `SingleInstance`, the module that `DaemonLifecycle` implements: what one
module assumes of the directory is what the other one keeps.

### The log

`LogFollow_proofs` proves, for every log, chunk size, number of lines, and any number of exits and rotations:
`BacklogIsRight`, `PrintedWhole`, `PrintedOnce`, `ClaimHolds` and the types. For the scan the invariant is that the
lines counted so far are exactly those that begin behind the chunk's end, and fewer than asked for; each round adds
the chunk's by adding disjoint finite sets. For what is printed it is that the output ends where the offset stands, and
that all bytes printed are older than those ahead of the offset, which a rotation can only make fewer. `WakeupIsDue` is the
absence of a lost wake-up, the safety half of `CatchesUp`: a reader that has seen the end of the file or sleeps in its `select`, with bytes
it has not read, has a token in the channel, or an event that a running pump turns into one, or its group is ending.

### The proxy

`ProxyRequest_proofs` proves, for any number of connections, any table, cooldown and cache limit:
`PayloadsStayIntact`, `TruncationIsVisible`, `StatusesAreHonest`, the types, and the action property
`RepeatsNeedEvictions`, that a line within the cooldown of the one before about its target needs a full cache. The assumptions are `TableIsRouted`, `LimitsArePositive` and `BackendCodesAreFinal`: a final
status is neither 0 nor informational. The invariant says of each step of a handler what may have been sent by then
(`Served`): nothing but informational headers until the backend answers or fails, and in the end what the
properties ask for. Lemmas state what `WriteHeader`, `Write` and the error page make of a response. For the throttle
(`CacheIsRecent`) an entry is the time of the target's last line, and a target that had a line and has no entry was
evicted, after which the cache never has more than one place free.

Three theorems go beyond what the run checks. `CacheStaysBounded`: the cache keeps to its limit. `FailuresAreSeen`: a
failure that is not logged has a line about its target in its place, younger than the cooldown and written by then, though
the time is read before the lock; it needs that no recorded time is in the future. `ResponsesAreFinal`: a final status is the only
one of its response, nothing follows the end of a response, and an error page is neither followed by backend data nor
cut off.

### Only model-checked

The nine liveness properties, since the provers have no rule for fairness and ENABLED. What they rest on is proved where it is
an invariant or a rank (`LockIsNeverStuck`, `DownIsNotStuck`, `ProcessesRunOut`, `HangsInOneWay`, `StepsRunOut`,
`NoParentHangs`, `WakeupIsDue`). All other properties of the passing runs are theorems.

## Not modelled

The logger, the init wizard, the doctor, flag parsing, the `routes` command and the error page
template keep no state that others see. Symlink and ownership checks of the runtime
directory, and the messages for another user's daemon, are sequential checks of one system call. `RemoveRoute`
and `Domains` of the router have no caller in the program. The panic recovery of the DNS handler, header
rewriting and the contents of pages are not part of any property here.

In `DetachedStart` the end of a process is one step: its descriptors and its lock go together. In `LogFollow` no
rotation happens before the backlog is printed, and the log is always opened before it is followed by name, so a
log that is replaced instead of emptied is not seen, as in the code.

## Plan

1. `ProxyRequest` takes its lookups from `RouteTable`, and `DaemonLifecycle` its serving part from an
   abstraction of `ServeGroup`.
2. `DetachedStart` with `DaemonLifecycle` in the place of `SingleInstance`, for a kill at the deadline that
   leaves files to the next start.
