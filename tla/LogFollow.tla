------------------------------ MODULE LogFollow ------------------------------
(***************************************************************************)
(* `devtether logs -f` (internal/cli/logs.go): print the last lines of the *)
(* daemon's log, then follow it with three goroutines.  One polls the      *)
(* instance lock for the daemon's exit, one drains fsnotify into a channel *)
(* of capacity one, one reads the file to its end and sleeps until that    *)
(* channel wakes it.  Daemons append to the log and a rotation may empty   *)
(* it; the bytes are numbered in the order of their writing.               *)
(***************************************************************************)
EXTENDS Naturals, Sequences, FiniteSets

CONSTANTS
    MaxBacklog,    \* bound on the bytes of the log as the command starts
    MaxBytes,      \* bound on the bytes ever written
    Chunk,         \* the 4096 bytes of the backward scan and of a read
    MaxLines,      \* bound on --lines
    MaxExits,      \* bound on the daemons that exit
    MaxRotations   \* bound on the times the log is emptied

ASSUME ChunkIsPositive == Chunk \in Nat \ {0}
ASSUME BoundsAreNatural ==
    /\ MaxBytes \in Nat /\ MaxLines \in Nat /\ MaxExits \in Nat /\ MaxRotations \in Nat
    /\ MaxBacklog \in 0..MaxBytes

VARIABLES
    file,       \* the log: the numbers of the bytes it holds
    newlines,   \* which of the bytes are newlines
    written,    \* the bytes written so far
    rotations,  \* the times the log was emptied
    lock,       \* who holds the instance lock: "free", "daemon", or another command's "probe"
    exits,      \* the daemons that have released the lock
    lines,      \* --lines
    main,       \* where runLogs is
    size,       \* the size that printLastLines saw
    end, seen,  \* its scan: where the next chunk ends, and the lines found so far
    from,       \* where the backlog begins
    offset,     \* the follower's position in the file
    out,        \* the bytes printed
    saw,        \* what held the lock at the probe, and the exits before it
    events,     \* an fsnotify event is due
    trigger,    \* the trigger channel holds a token
    exitWatch, pump, reader,  \* the three goroutines
    done,       \* gCtx is cancelled
    exited,     \* the channel `exited` is closed
    said        \* "DevTether daemon shut down." was printed

logVars == <<file, newlines, written, rotations>>
daemonVars == <<lock, exits>>
startVars == <<lines, main, size, end, seen, from, saw>>
vars == <<logVars, daemonVars, startVars, offset, out, events, trigger,
          exitWatch, pump, reader, done, exited, said>>

TypeOK ==
    /\ file \in Seq(1..MaxBytes) /\ newlines \subseteq 1..MaxBytes
    /\ written \in 0..MaxBytes /\ rotations \in 0..MaxRotations
    /\ lock \in {"free", "daemon", "probe"} /\ exits \in 0..MaxExits
    /\ lines \in 1..MaxLines
    /\ main \in {"stat", "scan", "copy", "probe", "watch", "wait", "end", "failed"}
    /\ size \in 0..MaxBytes /\ end \in 0..size /\ seen \in 0..(lines - 1)
    /\ from \in 0..size /\ offset \in 0..MaxBytes
    /\ out \in Seq(1..MaxBytes)
    /\ saw \in [holder : {"free", "daemon", "probe"}, exits : 0..MaxExits]
    /\ events \in BOOLEAN /\ trigger \in BOOLEAN
    /\ done \in BOOLEAN /\ exited \in BOOLEAN /\ said \in BOOLEAN
    /\ exitWatch \in {"off", "poll", "done"}
    /\ pump \in {"off", "on", "done"}
    /\ reader \in {"off", "read", "eof", "select", "done"}

\* A log of any lines, and a daemon or none.  Only the scan looks for
\* newlines, so that none needs to be written later.
Init ==
    /\ written \in 0..MaxBacklog
    /\ file = [i \in 1..written |-> i]
    /\ newlines \in SUBSET (1..written)
    /\ rotations = 0
    /\ lock \in {"free", "daemon"} /\ exits = 0
    /\ lines \in 1..MaxLines
    /\ main = "stat"
    /\ size = 0 /\ end = 0 /\ seen = 0 /\ from = 0 /\ offset = 0
    /\ out = <<>>
    /\ saw = [holder |-> "free", exits |-> 0]
    /\ events = FALSE /\ trigger = FALSE /\ done = FALSE /\ exited = FALSE /\ said = FALSE
    /\ exitWatch = "off" /\ pump = "off" /\ reader = "off"

-----------------------------------------------------------------------------
(* The daemon and other commands *)

followVars == <<startVars, offset, out, trigger, exitWatch, pump, reader, done, exited, said>>

\* inotify reports what happens to the file once the watch is there.
Notify == events' = (events \/ pump # "off")

\* A byte is appended: by the daemon, by one that has released the lock and
\* still runs, or by the child of a start that failed.
Write ==
    /\ written < MaxBytes
    /\ written' = written + 1
    /\ file' = Append(file, written + 1)
    /\ Notify
    /\ UNCHANGED <<newlines, rotations, daemonVars, followVars>>

\* The log is emptied, as a rotation in place does, once the backlog is printed.
Rotate ==
    /\ main \in {"probe", "watch", "wait"}
    /\ rotations < MaxRotations
    /\ rotations' = rotations + 1
    /\ file' = <<>>
    /\ Notify
    /\ UNCHANGED <<newlines, written, daemonVars, followVars>>

DaemonStarts ==
    /\ lock = "free"
    /\ lock' = "daemon"
    /\ UNCHANGED <<logVars, exits, followVars, events>>

DaemonExits ==
    /\ lock = "daemon"
    /\ exits < MaxExits
    /\ lock' = "free"
    /\ exits' = exits + 1
    /\ UNCHANGED <<logVars, followVars, events>>

\* A `down` or another `logs -f` probes the lock by taking it for a moment.
OtherProbe ==
    /\ \/ lock = "free" /\ lock' = "probe"
       \/ lock = "probe" /\ lock' = "free"
    /\ UNCHANGED <<logVars, exits, followVars, events>>

Environment == Write \/ Rotate \/ DaemonStarts \/ DaemonExits \/ OtherProbe

-----------------------------------------------------------------------------
(* printLastLines *)

\* Defect: the last byte of every chunk is skipped, not only that of the file.
ChunkHitsSkippingEach(start) == {i \in (start + 1)..end : file[i] \in newlines /\ i # end}

\* Where a line begins in the chunk from start to end: after each newline but
\* the one that ends the file.
ChunkHits(start) == {i \in (start + 1)..end : file[i] \in newlines /\ i # size}

goroutines == <<events, trigger, exitWatch, pump, reader, done, exited, said>>

Step(a, b) == main = a /\ main' = b

\* f.Stat; an empty file has no backlog.
Stat ==
    /\ size' = Len(file) /\ end' = size'
    /\ IF size' = 0 THEN \E next \in {"probe", "end"} : Step("stat", next) ELSE Step("stat", "scan")
    /\ UNCHANGED <<logVars, daemonVars, lines, seen, from, offset, out, saw, goroutines>>

\* One round of the scan backwards: without the n-th line the next chunk is
\* due, with it or at the beginning of the file the seek.
Scan ==
    LET start == IF end > Chunk THEN end - Chunk ELSE 0
        hits == ChunkHits(start)
        after(i) == {j \in hits : j > i}
    IN  /\ main = "scan"
        /\ \/ /\ end > 0 /\ seen + Cardinality(hits) < lines
              /\ end' = start /\ seen' = seen + Cardinality(hits)
              /\ UNCHANGED <<main, from, offset>>
           \/ /\ \E i \in hits : seen + Cardinality(after(i)) = lines - 1 /\ from' = i
              /\ offset' = from' /\ main' = "copy"
              /\ UNCHANGED <<end, seen>>
           \/ /\ end = 0 /\ from' = 0 /\ offset' = 0 /\ main' = "copy"
              /\ UNCHANGED <<end, seen>>
        /\ UNCHANGED <<logVars, daemonVars, lines, size, out, saw, goroutines>>

\* Without -f that is all.
AfterCopy == \E next \in {"probe", "end"} : Step("copy", next)

\* Defect: what was written since the Stat is passed over.
CopyThenSeekEnd ==
    /\ AfterCopy
    /\ out' = SubSeq(file, offset + 1, size)
    /\ offset' = Len(file)
    /\ UNCHANGED <<logVars, daemonVars, lines, size, end, seen, from, saw, goroutines>>

\* io.Copy: to the end of the file as it is then.
Copy ==
    /\ AfterCopy
    /\ out' = SubSeq(file, offset + 1, Len(file))
    /\ offset' = Len(file)
    /\ UNCHANGED <<logVars, daemonVars, lines, size, end, seen, from, saw, goroutines>>

\* DaemonRunning: a lock held by anybody passes for a daemon.
Probe ==
    /\ IF lock = "free" THEN Step("probe", "end") ELSE Step("probe", "watch")
    /\ saw' = [holder |-> lock, exits |-> exits]
    /\ UNCHANGED <<logVars, daemonVars, lines, size, end, seen, from, offset, out, goroutines>>

\* watcher.Add, and the three goroutines.
Watch ==
    /\ Step("watch", "wait")
    /\ exitWatch' = "poll" /\ pump' = "on" /\ reader' = "read"
    /\ UNCHANGED <<logVars, daemonVars, lines, size, end, seen, from, saw, offset, out,
                   events, trigger, done, exited, said>>

\* g.Wait
Finish ==
    /\ Step("wait", "end")
    /\ exitWatch = "done" /\ pump = "done" /\ reader = "done"
    /\ UNCHANGED <<logVars, daemonVars, lines, size, end, seen, from, saw, offset, out, goroutines>>

\* Stat, a read, a seek, the probe or the watcher: an error ends the command.
MainFails ==
    /\ \E at \in {"stat", "scan", "copy", "probe", "watch"} : Step(at, "failed")
    /\ UNCHANGED <<logVars, daemonVars, lines, size, end, seen, from, saw, offset, out, goroutines>>

Main == Stat \/ Scan \/ Copy \/ Probe \/ Watch \/ Finish

-----------------------------------------------------------------------------
(* The three goroutines *)

\* WaitForExit polls the lock; a free lock is the daemon's exit.
PollFree ==
    /\ exitWatch = "poll"
    /\ lock = "free"
    /\ exitWatch' = "done"
    /\ exited' = TRUE
    /\ done' = TRUE
    /\ UNCHANGED <<logVars, daemonVars, startVars, offset, out, events, trigger, pump, reader, said>>

\* A lock that cannot be read ends all three, and is no exit.
PollFails ==
    /\ exitWatch = "poll"
    /\ exitWatch' = "done"
    /\ done' = TRUE
    /\ UNCHANGED <<logVars, daemonVars, startVars, offset, out, events, trigger,
                   pump, reader, exited, said>>

\* The poll ends with the context.
PollCancelled ==
    /\ exitWatch = "poll"
    /\ done
    /\ exitWatch' = "done"
    /\ UNCHANGED <<logVars, daemonVars, startVars, offset, out, events, trigger,
                   pump, reader, done, exited, said>>

\* Defect: the trigger channel has no buffer, and a send that nobody awaits
\* is dropped.
PumpEventUnbuffered ==
    /\ pump = "on" /\ events
    /\ events' = FALSE
    /\ trigger' = (reader = "select")
    /\ UNCHANGED <<logVars, daemonVars, startVars, offset, out, exitWatch, pump, reader,
                   done, exited, said>>

\* An event becomes a token, unless one is there already.
PumpEvent ==
    /\ pump = "on" /\ events
    /\ events' = FALSE
    /\ trigger' = TRUE
    /\ UNCHANGED <<logVars, daemonVars, startVars, offset, out, exitWatch, pump, reader,
                   done, exited, said>>

\* The pump ends with the context, or with an error of the watcher, which
\* cancels the context.
PumpEnds ==
    /\ pump = "on" /\ done
    /\ pump' = "done"
    /\ UNCHANGED <<logVars, daemonVars, startVars, offset, out, events, trigger,
                   exitWatch, reader, done, exited, said>>

WatcherFails ==
    /\ pump = "on"
    /\ pump' = "done"
    /\ done' = TRUE
    /\ UNCHANGED <<logVars, daemonVars, startVars, offset, out, events, trigger,
                   exitWatch, reader, exited, said>>

\* Defect: the position advances by the size of the buffer.
ReadWholeBuffer ==
    /\ reader = "read"
    /\ offset < Len(file)
    /\ offset' = offset + Chunk
    /\ out' = out \o SubSeq(file, offset + 1, Len(file))
    /\ UNCHANGED <<logVars, daemonVars, startVars, goroutines>>

\* One Read and one Write to the terminal.
ReadBytes ==
    /\ reader = "read"
    /\ offset < Len(file)
    /\ offset' = IF offset + Chunk < Len(file) THEN offset + Chunk ELSE Len(file)
    /\ out' = out \o SubSeq(file, offset + 1, offset')
    /\ UNCHANGED <<logVars, daemonVars, startVars, goroutines>>

ReadEof ==
    /\ reader = "read" /\ offset >= Len(file) /\ reader' = "eof"
    /\ UNCHANGED <<logVars, daemonVars, startVars, offset, out, events, trigger,
                   exitWatch, pump, done, exited, said>>

\* Any other read error cancels the group.
ReadFails ==
    /\ reader = "read" /\ reader' = "done" /\ done' = TRUE
    /\ UNCHANGED <<logVars, daemonVars, startVars, offset, out, events, trigger,
                   exitWatch, pump, exited, said>>

\* The reader gets from the read to its select.
Block ==
    /\ reader = "eof" /\ reader' = "select"
    /\ UNCHANGED <<logVars, daemonVars, startVars, offset, out, events, trigger,
                   exitWatch, pump, done, exited, said>>

\* Defect: every end is taken for a shutdown of the daemon.
LeaveClaiming ==
    /\ reader = "select" /\ done
    /\ reader' = "done"
    /\ said' = TRUE
    /\ UNCHANGED <<logVars, daemonVars, startVars, offset, out, events, trigger,
                   exitWatch, pump, done, exited>>

\* The select takes gCtx.Done, also when the trigger is ready.
Leave ==
    /\ reader = "select" /\ done
    /\ reader' = "done"
    /\ said' = exited
    /\ UNCHANGED <<logVars, daemonVars, startVars, offset, out, events, trigger,
                   exitWatch, pump, done, exited>>

\* Defect: the follower stays where it was.
RewoundNever(bytes, at) == at

\* Defect: a file that ends at the offset counts as truncated.
RewoundAtEnd(bytes, at) == IF Len(bytes) <= at THEN 0 ELSE at

\* A file shorter than the offset has been truncated: back to its beginning.
Rewound(bytes, at) == IF Len(bytes) < at THEN 0 ELSE at

Wake ==
    /\ reader = "select" /\ trigger
    /\ trigger' = FALSE
    /\ reader' = "read"
    /\ offset' = Rewound(file, offset)
    /\ UNCHANGED <<logVars, daemonVars, startVars, out, events, exitWatch, pump,
                   done, exited, said>>

Goroutines == PollFree \/ PollCancelled \/ PumpEvent \/ PumpEnds
              \/ ReadBytes \/ ReadEof \/ Block \/ Leave \/ Wake

Next == Environment \/ Main \/ MainFails \/ Goroutines \/ PollFails \/ WatcherFails \/ ReadFails

Spec == Init /\ [][Next]_vars

\* The command runs; its pump and its reader take turns with nobody.  Nothing
\* forces the daemon to write or to exit, or a poll to find the lock free.
FairSpec ==
    /\ Spec
    /\ WF_vars(Main)
    /\ WF_vars(PollCancelled)
    /\ WF_vars(PumpEvent \/ PumpEnds)
    /\ WF_vars(ReadBytes \/ ReadEof \/ Block \/ Leave \/ Wake)

-----------------------------------------------------------------------------
(* Properties *)

\* The offsets at which a line of the file begins, as the command saw its size.
LineBegins == {0} \cup {i \in 1..(size - 1) : file[i] \in newlines}

\* The backlog begins with a line and is the last n lines, or all there are,
\* wherever the chunks of the scan fall (logs.go:98-152).
BacklogIsLastLines ==
    main \in {"copy", "probe", "watch", "wait", "end"} /\ rotations = 0 =>
        LET later == Cardinality({i \in LineBegins : i > from})
        IN  from \in LineBegins /\ (later = lines - 1 \/ (from = 0 /\ later < lines))

\* What is printed is a piece of the log without a gap: nothing is lost or
\* doubled between the backlog and the follower (logs.go:76-90, 223-256).
NothingLost ==
    rotations = 0 /\ main \in {"probe", "watch", "wait", "end"} => out = SubSeq(file, from + 1, offset)

\* No byte is printed twice or before an older one, a rotation included
\* (logs.go:239-249).
NothingTwice == \A i, j \in DOMAIN out : i < j => out[i] < out[j]

\* A follower that found a daemon says that it shut down only when it has
\* (logs.go:183-203, 231-238).
ClaimIsTrueOfDaemon == said /\ saw.holder = "daemon" => exits > saw.exits

\* While the follower is there it gets to the end of the log: no wake-up is lost
\* between an event and the reader's select (logs.go:204-222).
CatchesUp == (reader # "off" /\ offset < Len(file)) ~> (offset >= Len(file) \/ done)

\* A follower that is told of a change does not stay beyond the end of a file
\* that has been emptied (logs.go:239-249).
RotationIsSeen == (events /\ offset > Len(file)) ~> (offset <= Len(file) \/ done)

=============================================================================
