-------------------------- MODULE LogFollow_proofs --------------------------
(***************************************************************************)
(* Proofs about `devtether logs`, for any log, any chunk size and any      *)
(* number of lines: the backlog is the last lines, what is printed is the  *)
(* log without a gap, and a shutdown that is announced has happened.       *)
(***************************************************************************)
EXTENDS LogFollow, FiniteSetTheorems, SequenceTheorems, TLAPS

-----------------------------------------------------------------------------
(* Where the command is, and what the log is *)

\* The goroutines run once the backlog is printed; before that nothing has
\* been printed, and no rotation has happened.
Control ==
    /\ main \in {"stat", "scan", "copy"} => rotations = 0 /\ out = <<>>
    /\ main \in {"stat", "scan"} => from = 0
    /\ main = "stat" => seen = 0 /\ offset = 0
    /\ main = "copy" => offset = from
    /\ main \in {"stat", "scan", "copy", "probe", "watch", "failed"} =>
           exitWatch = "off" /\ reader = "off"
    /\ exitWatch = "off" => ~exited
    /\ said => exited

\* The log holds older bytes before newer ones, and until it is emptied it
\* holds all of them.
LogIsOrdered ==
    /\ \A i \in DOMAIN file : file[i] <= written
    /\ \A i, j \in DOMAIN file : i < j => file[i] < file[j]
    /\ Len(file) <= written
    /\ rotations = 0 => Len(file) = written /\ \A i \in DOMAIN file : file[i] = i
    /\ rotations = 0 => size <= Len(file)

Shape == TypeOK /\ Control /\ LogIsOrdered

LEMMA InitShape == Init => Shape
  <1> SUFFICES ASSUME Init PROVE Shape
    OBVIOUS
  <1> USE BoundsAreNatural DEF Init
  <1>1. file \in [1..written -> 1..MaxBytes] /\ Len(file) = written /\ file \in Seq(1..MaxBytes)
    OBVIOUS
  <1>2. /\ newlines \subseteq 1..MaxBytes /\ written \in 0..MaxBytes /\ lines \in 1..MaxLines
        /\ rotations \in 0..MaxRotations /\ exits \in 0..MaxExits /\ lock \in {"free", "daemon", "probe"}
    OBVIOUS
  <1>3. /\ saw \in [holder : {"free", "daemon", "probe"}, exits : 0..MaxExits]
        /\ out \in Seq(1..MaxBytes)
    OBVIOUS
  <1>4. TypeOK
    <2>1. /\ size \in 0..MaxBytes /\ end \in 0..size /\ seen \in 0..(lines - 1)
          /\ from \in 0..size /\ offset \in 0..MaxBytes
      OBVIOUS
    <2>2. /\ main \in {"stat", "scan", "copy", "probe", "watch", "wait", "end", "failed"}
          /\ events \in BOOLEAN /\ trigger \in BOOLEAN
          /\ done \in BOOLEAN /\ exited \in BOOLEAN /\ said \in BOOLEAN
          /\ exitWatch \in {"off", "poll", "done"} /\ pump \in {"off", "on", "done"}
          /\ reader \in {"off", "read", "eof", "select", "done"}
      OBVIOUS
    <2> QED BY <1>1, <1>2, <1>3, <2>1, <2>2 DEF TypeOK
  <1>5. Control
    BY DEF Control
  <1>6. LogIsOrdered
    BY <1>1 DEF LogIsOrdered
  <1> QED BY <1>4, <1>5, <1>6 DEF Shape

\* The daemons and the other commands.
LEMMA EnvironmentShape ==
    ASSUME Shape, Environment
    PROVE  Shape'
  <1> USE BoundsAreNatural DEF Shape, TypeOK, Control, followVars, startVars, daemonVars, logVars
  <1>1. CASE Write
    <2>1. written' \in 1..MaxBytes /\ written' = written + 1 /\ file' = Append(file, written')
      BY <1>1 DEF Write
    <2>2. /\ file' \in Seq(1..MaxBytes) /\ Len(file') = Len(file) + 1 /\ Len(file) \in Nat
          /\ \A i \in 1..Len(file) : file'[i] = file[i]
          /\ file'[Len(file) + 1] = written + 1
      BY <2>1
    <2>3. LogIsOrdered'
      <3>1. \A i \in DOMAIN file' : i \in DOMAIN file \/ (i = Len(file) + 1 /\ file'[i] = written')
        BY <2>1, <2>2
      <3>2. UNCHANGED <<rotations, size>>
        BY <1>1 DEF Write
      <3>3. \A i \in DOMAIN file : i \in 1..Len(file) /\ file[i] <= written /\ file[i] \in Nat
        BY DEF LogIsOrdered
      <3>4. ASSUME NEW i \in DOMAIN file' PROVE file'[i] <= written'
        <4>1. CASE i \in DOMAIN file
          <5>1. file'[i] = file[i] /\ file[i] <= written /\ file[i] \in Nat /\ written \in Nat
            BY <2>2, <3>3, <4>1
          <5> HIDE DEF Shape, TypeOK, Control
          <5> QED BY <2>1, <5>1
        <4>2. CASE i = Len(file) + 1
          <5>1. file'[i] = written' /\ written' \in Nat
            BY <2>1, <2>2, <4>2
          <5> QED BY <5>1
        <4> QED BY <3>1, <3>4, <4>1, <4>2
      <3>5. ASSUME NEW i \in DOMAIN file', NEW j \in DOMAIN file', i < j
            PROVE  file'[i] < file'[j]
        <4>1. CASE i \in DOMAIN file /\ j \in DOMAIN file
          <5>1. file'[i] = file[i] /\ file'[j] = file[j]
            BY <2>2, <3>3, <4>1
          <5> QED BY <3>5, <4>1, <5>1 DEF LogIsOrdered
        <4>2. CASE j = Len(file) + 1
          <5>1. i \in DOMAIN file
            BY <2>2, <3>1, <3>5, <4>2
          <5>2. file'[i] = file[i] /\ file[i] <= written /\ file[i] \in Nat /\ written \in Nat
            BY <2>2, <3>3, <5>1
          <5>3. file'[j] = written + 1
            BY <2>2, <4>2
          <5> HIDE DEF Shape, TypeOK, Control
          <5> QED BY <5>2, <5>3
        <4>3. CASE i = Len(file) + 1 /\ j \in DOMAIN file
          BY <2>2, <3>3, <3>5, <4>3
        <4> QED BY <3>1, <4>1, <4>2, <4>3
      <3>6. Len(file') <= written' /\ (rotations' = 0 => Len(file') = written' /\ size' <= Len(file'))
        <4>1. /\ written \in Nat /\ Len(file) <= written
              /\ rotations = 0 => Len(file) = written /\ size <= Len(file)
          BY DEF LogIsOrdered
        <4>2. size \in Nat
          OBVIOUS
        <4> HIDE DEF Shape, TypeOK, Control
        <4> QED BY <2>1, <2>2, <3>2, <4>1, <4>2
      <3>7. rotations' = 0 => \A i \in DOMAIN file' : file'[i] = i
        BY <2>1, <2>2, <3>1, <3>2, <3>3 DEF LogIsOrdered
      <3> QED BY <3>4, <3>5, <3>6, <3>7 DEF LogIsOrdered
    <2> QED BY <1>1, <2>1, <2>2, <2>3 DEF Write, Notify
  <1>2. CASE Rotate
    BY <1>2 DEF Rotate, Notify, LogIsOrdered
  <1>3. CASE DaemonStarts
    BY <1>3 DEF DaemonStarts, LogIsOrdered
  <1>4. CASE DaemonExits
    BY <1>4 DEF DaemonExits, LogIsOrdered
  <1>5. CASE OtherProbe
    BY <1>5 DEF OtherProbe, LogIsOrdered
  <1> QED BY <1>1, <1>2, <1>3, <1>4, <1>5 DEF Environment

\* The numbers among the variables, and the bytes.
LEMMA Numbers ==
    ASSUME Shape
    PROVE  /\ file \in Seq(1..MaxBytes) /\ Len(file) \in Nat /\ DOMAIN file = 1..Len(file)
           /\ out \in Seq(1..MaxBytes) /\ Len(out) \in Nat /\ DOMAIN out = 1..Len(out)
           /\ \A i \in 1..Len(file) : file[i] \in Nat
           /\ \A j \in 1..Len(out) : out[j] \in Nat
           /\ offset \in Nat /\ from \in Nat /\ size \in Nat /\ from <= size
           /\ written \in Nat /\ rotations \in Nat
  <1>1. file \in Seq(1..MaxBytes) /\ out \in Seq(1..MaxBytes)
    BY DEF Shape, TypeOK
  <1>2. /\ Len(file) \in Nat /\ DOMAIN file = 1..Len(file)
        /\ Len(out) \in Nat /\ DOMAIN out = 1..Len(out)
    BY <1>1, LenProperties
  <1>3. /\ \A i \in 1..Len(file) : file[i] \in Nat
        /\ \A j \in 1..Len(out) : out[j] \in Nat
    BY <1>1, BoundsAreNatural, ElementOfSeq
  <1>4. /\ offset \in Nat /\ from \in Nat /\ size \in Nat /\ from <= size
        /\ written \in Nat /\ rotations \in Nat
    BY BoundsAreNatural DEF Shape, TypeOK
  <1> QED BY <1>1, <1>2, <1>3, <1>4

\* A piece of the log is a sequence of its bytes.
LEMMA PieceOfLog ==
    ASSUME Shape, NEW a \in Nat, NEW b \in 0..Len(file)
    PROVE  /\ SubSeq(file, a + 1, b) \in Seq(1..MaxBytes)
           /\ Len(SubSeq(file, a + 1, b)) = IF a < b THEN b - a ELSE 0
           /\ \A i \in 1..(b - a) : SubSeq(file, a + 1, b)[i] = file[a + i]
  <1>1. file \in Seq(1..MaxBytes)
    BY DEF Shape, TypeOK
  <1>2. b \in Nat /\ \A i \in (a + 1)..b : file[i] \in 1..MaxBytes
    <2>1. Len(file) \in Nat
      BY <1>1
    <2>2. \A i \in 1..Len(file) : file[i] \in 1..MaxBytes
      BY <1>1, ElementOfSeq
    <2> QED BY <2>1, <2>2
  <1>3. /\ SubSeq(file, a + 1, b) \in Seq(1..MaxBytes)
        /\ Len(SubSeq(file, a + 1, b)) = IF a + 1 <= b THEN b - (a + 1) + 1 ELSE 0
        /\ \A i \in 1..(b - (a + 1) + 1) : SubSeq(file, a + 1, b)[i] = file[a + 1 + i - 1]
    BY <1>2, SubSeqProperties
  <1> QED BY <1>2, <1>3

LEMMA MainShape ==
    ASSUME Shape, Main \/ MainFails
    PROVE  Shape'
  <1> USE BoundsAreNatural DEF Shape, TypeOK, Control, logVars, daemonVars, goroutines, Step
  <1>1. CASE Stat
    BY <1>1 DEF Stat, LogIsOrdered
  <1>2. CASE Scan
    <2> DEFINE start == IF end > Chunk THEN end - Chunk ELSE 0
               hits == ChunkHits(start)
    <2>0. /\ main = "scan" /\ main' \in {"scan", "copy"}
          /\ UNCHANGED <<logVars, daemonVars, lines, size, out, saw, goroutines>>
      BY <1>2 DEF Scan
    <2>a. ASSUME end' \in 0..size, seen' \in 0..(lines - 1), from' \in 0..size, offset' \in 0..MaxBytes,
                 main' = "scan" => from' = from, main' = "copy" => offset' = from'
          PROVE  Shape'
      <3>1. TypeOK'
        BY <2>0, <2>a
      <3>2. Control'
        BY <2>0, <2>a
      <3>3. LogIsOrdered'
        BY <2>0 DEF LogIsOrdered
      <3> QED BY <3>1, <3>2, <3>3 DEF Shape
    <2>1. CASE /\ end > 0 /\ seen + Cardinality(hits) < lines
               /\ end' = start /\ seen' = seen + Cardinality(hits)
               /\ UNCHANGED <<main, from, offset>>
      <3>1. start \in 0..end
        BY <2>1, ChunkIsPositive
      <3>2. hits \in SUBSET ((start + 1)..end)
        BY DEF ChunkHits
      <3>3. Cardinality(hits) \in Nat
        <4>0. start + 1 \in Int /\ end \in Int
          BY <3>1
        <4>1. IsFiniteSet((start + 1)..end)
          BY <4>0, FS_Interval
        <4> QED BY <3>2, <4>1, FS_Subset, FS_CardinalityType
      <3> HIDE DEF start, hits
      <3>4. end' \in 0..size
        BY <2>1, <3>1
      <3>5. seen' \in 0..(lines - 1)
        <4>1. seen \in Nat /\ lines \in Nat
          OBVIOUS
        <4> HIDE DEF Shape, TypeOK, Control
        <4> QED BY <2>1, <3>3, <4>1
      <3>6. from' \in 0..size /\ offset' \in 0..MaxBytes
        BY <2>1
      <3> QED BY <2>0, <2>1, <2>a, <3>4, <3>5, <3>6
    <2>2. CASE (\E i \in hits : from' = i) /\ offset' = from' /\ main' = "copy" /\ UNCHANGED <<end, seen>>
      <3>1. hits \in SUBSET (1..end)
        BY ChunkIsPositive DEF ChunkHits
      <3>2. from' \in 0..size /\ offset' \in 0..MaxBytes
        BY <2>2, <3>1
      <3> QED BY <2>2, <2>a, <3>2
    <2>3. CASE from' = 0 /\ offset' = 0 /\ main' = "copy" /\ UNCHANGED <<end, seen>>
      BY <2>3, <2>a
    <2> QED BY <1>2, <2>1, <2>2, <2>3 DEF Scan
  <1>3. CASE Copy
    <2>1. offset \in Nat /\ Len(file) \in Nat
      OBVIOUS
    <2>2. out' \in Seq(1..MaxBytes)
      <3>1. Len(file) \in 0..Len(file) /\ out' = SubSeq(file, offset + 1, Len(file))
        BY <1>3, <2>1 DEF Copy
      <3> HIDE DEF Shape
      <3> QED BY <2>1, <3>1, PieceOfLog
    <2> QED BY <1>3, <2>2 DEF Copy, AfterCopy, LogIsOrdered
  <1>4. CASE Probe
    BY <1>4 DEF Probe, LogIsOrdered
  <1>5. CASE Watch
    BY <1>5 DEF Watch, LogIsOrdered
  <1>6. CASE Finish
    BY <1>6 DEF Finish, LogIsOrdered
  <1>7. CASE MainFails
    BY <1>7 DEF MainFails, LogIsOrdered
  <1> QED BY <1>1, <1>2, <1>3, <1>4, <1>5, <1>6, <1>7 DEF Main

\* What the reader prints in one round, and where it gets.
LEMMA ReadIsPiece ==
    ASSUME Shape, ReadBytes
    PROVE  /\ offset' \in (offset + 1)..Len(file)
           /\ out' = out \o SubSeq(file, offset + 1, offset')
           /\ reader = "read" /\ UNCHANGED <<logVars, daemonVars, startVars, goroutines>>
  BY ChunkIsPositive DEF ReadBytes, Shape, TypeOK

Follow == Goroutines \/ PollFails \/ WatcherFails \/ ReadFails

LEMMA FollowShape ==
    ASSUME Shape, Follow
    PROVE  Shape'
  <1> USE BoundsAreNatural DEF Shape, TypeOK, Control, logVars, daemonVars, startVars
  <1>a. UNCHANGED <<logVars, daemonVars, startVars>>
    BY DEF Follow, Goroutines, PollFree, PollCancelled, PollFails, PumpEvent, PumpEnds, WatcherFails,
           ReadBytes, ReadEof, ReadFails, Block, Leave, Wake
  <1>b. LogIsOrdered'
    BY <1>a DEF LogIsOrdered
  <1>1. CASE PollFree
    BY <1>1, <1>b DEF PollFree
  <1>2. CASE PollCancelled
    BY <1>2, <1>b DEF PollCancelled
  <1>3. CASE PollFails
    BY <1>3, <1>b DEF PollFails
  <1>4. CASE PumpEvent
    <2>1. events' \in BOOLEAN /\ trigger' \in BOOLEAN
      BY <1>4 DEF PumpEvent
    <2>2. UNCHANGED <<offset, out, exitWatch, pump, reader, done, exited, said>>
      BY <1>4 DEF PumpEvent
    <2> QED BY <1>a, <1>b, <2>1, <2>2
  <1>5. CASE PumpEnds
    BY <1>5, <1>b DEF PumpEnds
  <1>6. CASE WatcherFails
    BY <1>6, <1>b DEF WatcherFails
  <1>7. CASE ReadBytes
    <2>1. /\ offset' \in (offset + 1)..Len(file)
          /\ out' = out \o SubSeq(file, offset + 1, offset')
          /\ reader = "read" /\ UNCHANGED <<logVars, daemonVars, startVars, goroutines>>
      BY <1>7, ReadIsPiece
    <2>2. /\ offset \in Nat /\ offset' \in 0..Len(file) /\ offset' \in 0..MaxBytes
          /\ out \in Seq(1..MaxBytes)
      BY <2>1 DEF LogIsOrdered
    <2>3. SubSeq(file, offset + 1, offset') \in Seq(1..MaxBytes)
      BY <2>2, PieceOfLog
    <2>4. out' \in Seq(1..MaxBytes)
      BY <2>1, <2>2, <2>3, ConcatProperties
    <2>5. UNCHANGED <<events, trigger, exitWatch, pump, reader, done, exited, said>>
      BY <2>1 DEF goroutines
    <2>6. TypeOK'
      BY <1>a, <2>2, <2>4, <2>5
    <2>7. Control'
      BY <1>a, <2>1, <2>5
    <2> QED BY <1>b, <2>6, <2>7
  <1>8. CASE ReadEof
    BY <1>8, <1>b DEF ReadEof
  <1>9. CASE ReadFails
    BY <1>9, <1>b DEF ReadFails
  <1>10. CASE Block
    BY <1>10, <1>b DEF Block
  <1>11. CASE Leave
    BY <1>11, <1>b DEF Leave
  <1>12. CASE Wake
    <2>1. /\ offset' \in {0, offset} /\ trigger' = FALSE
          /\ reader = "select" /\ reader' = "read"
      BY <1>12 DEF Wake, Rewound
    <2>2. UNCHANGED <<out, events, exitWatch, pump, done, exited, said>>
      BY <1>12 DEF Wake
    <2>3. TypeOK'
      <3>1. offset' \in 0..MaxBytes
        BY <2>1
      <3>2. trigger' \in BOOLEAN /\ reader' \in {"off", "read", "eof", "select", "done"}
        BY <2>1
      <3> QED BY <1>a, <2>2, <3>1, <3>2
    <2>4. Control'
      BY <1>a, <2>1, <2>2
    <2> QED BY <1>b, <2>3, <2>4
  <1> QED BY <1>1, <1>2, <1>3, <1>4, <1>5, <1>6, <1>7, <1>8, <1>9, <1>10, <1>11, <1>12
          DEF Follow, Goroutines

\* The shape of the state holds in every reachable state.
THEOREM ShapeHolds == Spec => []Shape
  <1>1. Shape /\ [Next]_vars => Shape'
    <2> SUFFICES ASSUME Shape, [Next]_vars PROVE Shape'
      OBVIOUS
    <2>1. CASE Next
      BY <2>1, EnvironmentShape, MainShape, FollowShape DEF Next, Follow
    <2>2. CASE UNCHANGED vars
      BY <2>2 DEF vars, logVars, daemonVars, startVars, Shape, TypeOK, Control, LogIsOrdered
    <2> QED BY <2>1, <2>2
  <1> QED BY <1>1, InitShape, PTL DEF Spec

\* The variables keep their types.
THEOREM TypeCorrect == Spec => []TypeOK
  <1>1. Shape => TypeOK
    BY DEF Shape
  <1> QED BY <1>1, ShapeHolds, PTL

-----------------------------------------------------------------------------
(* The claim of a shutdown *)

\* A daemon seen at the probe holds the lock until one has exited, and the
\* exit watcher has then seen that.
ExitSeen ==
    /\ saw.exits <= exits
    /\ saw.holder = "daemon" /\ exits = saw.exits => lock = "daemon"
    /\ exited /\ saw.holder = "daemon" => exits > saw.exits

\* A follower that found a daemon says that it shut down only when it has
\* (logs.go:183-203, 231-238).
THEOREM ClaimHolds == Spec => []ClaimIsTrueOfDaemon
  <1>1. Init => ExitSeen
    BY DEF Init, ExitSeen
  <1>2. ASSUME Shape, Shape', ExitSeen, [Next]_vars
        PROVE  ExitSeen'
    <2> USE <1>2 DEF ExitSeen
    <2>1. exits \in Nat /\ saw.exits \in Nat
      BY BoundsAreNatural DEF Shape, TypeOK
    <2>2. CASE UNCHANGED <<lock, exits, saw, exited>>
      BY <2>2
    <2>3. CASE DaemonStarts
      BY <2>1, <2>3 DEF DaemonStarts, followVars, startVars
    <2>4. CASE DaemonExits
      BY <2>1, <2>4 DEF DaemonExits, followVars, startVars
    <2>5. CASE OtherProbe
      BY <2>1, <2>5 DEF OtherProbe, followVars, startVars
    <2>6. CASE Probe
      <3>1. ~exited
        BY <2>6 DEF Probe, Step, Shape, Control
      <3> QED BY <2>1, <2>6, <3>1 DEF Probe, goroutines, daemonVars
    <2>7. CASE PollFree
      BY <2>1, <2>7 DEF PollFree, daemonVars, startVars
    <2>8. CASE Write \/ Rotate
      BY <2>2, <2>8 DEF Write, Rotate, daemonVars, followVars, startVars
    <2>9. CASE Stat \/ Scan \/ Copy \/ Watch \/ Finish \/ MainFails
      BY <2>2, <2>9 DEF Stat, Scan, Copy, Watch, Finish, MainFails, daemonVars, goroutines
    <2>10. CASE \/ PollCancelled \/ PollFails \/ PumpEvent \/ PumpEnds \/ WatcherFails \/ ReadBytes
                \/ ReadEof \/ ReadFails \/ Block \/ Leave \/ Wake
      BY <2>2, <2>10 DEF PollCancelled, PollFails, PumpEvent, PumpEnds, WatcherFails, ReadBytes,
                         ReadEof, ReadFails, Block, Leave, Wake, daemonVars, startVars, goroutines
    <2>11. CASE UNCHANGED vars
      BY <2>2, <2>11 DEF vars, daemonVars, startVars
    <2> QED BY <2>3, <2>4, <2>5, <2>6, <2>7, <2>8, <2>9, <2>10, <2>11
            DEF Next, Environment, Main, Goroutines
  <1>3. Shape /\ ExitSeen => ClaimIsTrueOfDaemon
    BY DEF Shape, Control, ExitSeen, ClaimIsTrueOfDaemon
  <1> QED BY <1>1, <1>2, <1>3, ShapeHolds, PTL DEF Spec

-----------------------------------------------------------------------------
(* The backward scan *)

\* The lines that begin after the next chunk to be read are counted.
ScanCounts == main = "scan" => seen = Cardinality({i \in LineBegins : i > end})

\* The lines of a file are finitely many.
LEMMA LinesAreFinite ==
    ASSUME Shape
    PROVE  /\ IsFiniteSet(LineBegins) /\ LineBegins \in SUBSET Nat
           /\ \A T \in SUBSET LineBegins : IsFiniteSet(T) /\ Cardinality(T) \in Nat
  <1>1. size \in Nat
    BY BoundsAreNatural DEF Shape, TypeOK
  <1>2. LineBegins \in SUBSET (0..size)
    BY <1>1 DEF LineBegins
  <1>3. IsFiniteSet(0..size)
    BY <1>1, FS_Interval
  <1>4. IsFiniteSet(LineBegins)
    BY <1>2, <1>3, FS_Subset
  <1>5. ASSUME NEW T \in SUBSET LineBegins
        PROVE  IsFiniteSet(T) /\ Cardinality(T) \in Nat
    <2>1. IsFiniteSet(T)
      BY <1>4, FS_Subset
    <2> QED BY <2>1, FS_CardinalityType
  <1> QED BY <1>2, <1>4, <1>5

\* A round counts what begins in its chunk: above a place in the chunk begin
\* the lines of the chunk that do, and those counted before.
LEMMA ChunkAdds ==
    ASSUME Shape, ScanCounts, main = "scan",
           NEW start \in 0..end, NEW i \in start..end
    PROVE  /\ Cardinality({j \in LineBegins : j > i}) =
                  seen + Cardinality({j \in ChunkHits(start) : j > i})
           /\ ChunkHits(start) \subseteq LineBegins
           /\ Cardinality({j \in ChunkHits(start) : j > i}) \in Nat
  <1> DEFINE low == {j \in ChunkHits(start) : j > i}
             high == {j \in LineBegins : j > end}
  <1>1. end \in Nat /\ size \in Nat /\ end <= size /\ start \in Nat /\ i \in Nat
    BY BoundsAreNatural DEF Shape, TypeOK
  <1>2. ChunkHits(start) = {j \in LineBegins : j > start /\ j <= end}
    BY <1>1 DEF ChunkHits, LineBegins
  <1>3. {j \in LineBegins : j > i} = low \cup high /\ low \cap high = {}
    BY <1>1, <1>2, LinesAreFinite
  <1>4. /\ IsFiniteSet(low) /\ IsFiniteSet(high)
        /\ Cardinality(low) \in Nat /\ Cardinality(high) \in Nat
    BY <1>2, LinesAreFinite
  <1>5. Cardinality(low \cup high) = Cardinality(low) + Cardinality(high)
    <2> HIDE DEF low, high
    <2>1. Cardinality(low \cup high) = Cardinality(low) + Cardinality(high) - Cardinality(low \cap high)
      BY <1>4, FS_Union
    <2>2. Cardinality(low \cap high) = 0
      BY <1>3, FS_EmptySet
    <2> QED BY <1>4, <2>1, <2>2
  <1> HIDE DEF low, high
  <1>6. Cardinality(high) = seen
    BY DEF ScanCounts, high
  <1>7. Cardinality(low) + Cardinality(high) = seen + Cardinality(low)
    BY <1>4, <1>6
  <1> QED BY <1>2, <1>3, <1>4, <1>5, <1>7 DEF low

\* Until the log is emptied the lines that the command has seen stay.
LEMMA LinesStay ==
    ASSUME Shape, UNCHANGED <<size, newlines>>, Write \/ Rotate \/ UNCHANGED <<file, rotations>>
    PROVE  rotations' = 0 => rotations = 0 /\ LineBegins' = LineBegins
  <1>1. CASE UNCHANGED <<file, rotations>>
    BY <1>1 DEF LineBegins
  <1>2. CASE Rotate
    BY <1>2, BoundsAreNatural DEF Rotate, Shape, TypeOK
  <1>3. CASE Write
    <2> SUFFICES ASSUME rotations = 0 PROVE LineBegins' = LineBegins
      BY <1>3 DEF Write
    <2>1. size <= Len(file) /\ size \in Nat /\ Len(file) \in Nat /\ file \in Seq(1..MaxBytes)
      BY BoundsAreNatural DEF Shape, TypeOK, LogIsOrdered
    <2>2. file' = Append(file, written + 1)
      BY <1>3 DEF Write
    <2>3. \A i \in 1..(size - 1) : file'[i] = file[i]
      BY <2>1, <2>2
    <2> QED BY <2>3 DEF LineBegins
  <1> QED BY <1>1, <1>2, <1>3

\* A round of the scan keeps the count, or finds the beginning of the backlog.
LEMMA ScanKeeps ==
    ASSUME Shape, ScanCounts, Scan
    PROVE  ScanCounts' /\ BacklogIsLastLines'
  <1> DEFINE start == IF end > Chunk THEN end - Chunk ELSE 0
             later(i) == Cardinality({j \in LineBegins : j > i})
  <1>1. /\ end \in Nat /\ seen \in 0..(lines - 1) /\ lines \in Nat /\ lines > 0
        /\ start \in 0..end
    BY BoundsAreNatural, ChunkIsPositive DEF Shape, TypeOK
  <1>2. /\ main = "scan" /\ UNCHANGED <<file, newlines, size, lines>>
        /\ LineBegins' = LineBegins
    BY DEF Scan, logVars, LineBegins
  <1>3. \A i \in start..end :
            /\ later(i) = seen + Cardinality({j \in ChunkHits(start) : j > i})
            /\ ChunkHits(start) \subseteq LineBegins
            /\ Cardinality({j \in ChunkHits(start) : j > i}) \in Nat
    BY <1>1, <1>2, ChunkAdds
  <1>4. \A i \in ChunkHits(start) : i \in start..end
    BY <1>1 DEF ChunkHits
  <1>5. CASE /\ end > 0 /\ seen + Cardinality(ChunkHits(start)) < lines
             /\ end' = start /\ seen' = seen + Cardinality(ChunkHits(start)) /\ main' = main
    <2>1. {j \in ChunkHits(start) : j > start} = ChunkHits(start)
      BY <1>1 DEF ChunkHits
    <2>2. later(start) = seen + Cardinality(ChunkHits(start))
      BY <1>1, <1>3, <2>1
    <2> QED BY <1>2, <1>5, <2>2 DEF ScanCounts, BacklogIsLastLines
  <1>6. CASE /\ \E i \in ChunkHits(start) :
                    /\ seen + Cardinality({j \in ChunkHits(start) : j > i}) = lines - 1
                    /\ from' = i
             /\ main' = "copy"
    <2>1. from' \in LineBegins /\ later(from') = lines - 1
      BY <1>3, <1>4, <1>6
    <2> QED BY <1>2, <1>6, <2>1 DEF ScanCounts, BacklogIsLastLines
  <1>7. CASE end = 0 /\ from' = 0 /\ main' = "copy"
    <2>1. later(0) = seen
      BY <1>2, <1>7 DEF ScanCounts
    <2>2. later(from') < lines /\ from' \in LineBegins
      BY <1>1, <1>7, <2>1 DEF LineBegins
    <2> QED BY <1>2, <1>7, <2>2 DEF ScanCounts, BacklogIsLastLines
  <1> QED BY <1>5, <1>6, <1>7 DEF Scan

\* The backlog is the last lines of the file as it was when the command looked
\* at its size, for every size of a chunk (logs.go:98-152).
THEOREM BacklogIsRight == Spec => []BacklogIsLastLines
  <1>1. Init => ScanCounts /\ BacklogIsLastLines
    BY DEF Init, ScanCounts, BacklogIsLastLines
  <1>2. ASSUME Shape, Shape', ScanCounts, BacklogIsLastLines, [Next]_vars
        PROVE  ScanCounts' /\ BacklogIsLastLines'
    <2>1. ASSUME UNCHANGED <<main, size, newlines, end, seen, from, lines>>,
                 Write \/ Rotate \/ UNCHANGED <<file, rotations>>
          PROVE  ScanCounts' /\ BacklogIsLastLines'
      <3>1. rotations' = 0 => rotations = 0 /\ LineBegins' = LineBegins
        BY <1>2, <2>1, LinesStay
      <3>2. main = "scan" => rotations' = 0
        BY <1>2, <2>1 DEF Shape, Control
      <3> QED BY <1>2, <2>1, <3>1, <3>2 DEF ScanCounts, BacklogIsLastLines
    <2>2. CASE Scan
      BY <1>2, <2>2, ScanKeeps
    <2>3. CASE Stat
      <3>1. /\ from = 0 /\ seen = 0 /\ lines \in Nat /\ lines > 0 /\ size' \in Nat
            /\ UNCHANGED <<from, seen, lines, file, newlines>>
        <4>1. main = "stat" /\ UNCHANGED <<from, seen, lines, file, newlines>>
          BY <2>3 DEF Stat, Step, logVars
        <4>2. from = 0 /\ seen = 0
          BY <1>2, <4>1 DEF Shape, Control
        <4>3. lines \in Nat /\ lines > 0
          BY <1>2, BoundsAreNatural DEF Shape, TypeOK
        <4>4. size' \in Nat
          BY <1>2, BoundsAreNatural DEF Shape, TypeOK
        <4> QED BY <4>1, <4>2, <4>3, <4>4
      <3>2. Cardinality({}) = 0
        BY FS_EmptySet
      <3>3. CASE size' = 0
        <4>1. LineBegins' = {0}
          BY <3>3 DEF LineBegins
        <4>2. {i \in {0} : i > 0} = {}
          OBVIOUS
        <4>3. main' \in {"probe", "end"}
          BY <2>3, <3>3 DEF Stat, Step
        <4> QED BY <3>1, <3>2, <4>1, <4>2, <4>3 DEF ScanCounts, BacklogIsLastLines
      <3>4. CASE size' # 0
        <4>1. main' = "scan" /\ end' = size'
          BY <2>3, <3>4 DEF Stat, Step
        <4>2. {i \in LineBegins' : i > end'} = {}
          BY <3>1, <4>1 DEF LineBegins
        <4> QED BY <3>1, <3>2, <4>1, <4>2 DEF ScanCounts, BacklogIsLastLines
      <3> QED BY <3>3, <3>4
    <2>4. CASE Copy \/ Probe \/ Watch \/ Finish \/ MainFails
      <3>1. /\ UNCHANGED <<logVars, size, end, seen, from, lines>>
            /\ main' # "scan"
            /\ main' \in {"copy", "probe", "watch", "wait", "end"} =>
                   main \in {"copy", "probe", "watch", "wait", "end"}
        BY <2>4 DEF Copy, AfterCopy, Probe, Watch, Finish, MainFails, Step
      <3>2. LineBegins' = LineBegins
        BY <3>1 DEF LineBegins, logVars
      <3> QED BY <1>2, <3>1, <3>2 DEF ScanCounts, BacklogIsLastLines, logVars
    <2>5. CASE Environment
      BY <2>1, <2>5 DEF Environment, Write, Rotate, DaemonStarts, DaemonExits, OtherProbe,
                        followVars, startVars, logVars
    <2>6. CASE Follow
      BY <2>1, <2>6 DEF Follow, Goroutines, PollFree, PollCancelled, PollFails, PumpEvent, PumpEnds,
                        WatcherFails, ReadBytes, ReadEof, ReadFails, Block, Leave, Wake,
                        startVars, logVars
    <2>7. CASE UNCHANGED vars
      BY <2>1, <2>7 DEF vars, startVars, logVars
    <2> QED BY <1>2, <2>2, <2>3, <2>4, <2>5, <2>6, <2>7 DEF Next, Main, Follow
  <1> QED BY <1>1, <1>2, ShapeHolds, PTL DEF Spec

-----------------------------------------------------------------------------
(* What is printed *)

\* Until the log is emptied the output is the log from the backlog's beginning
\* to the follower's position.
OutIsPiece ==
    rotations = 0 /\ main \in {"probe", "watch", "wait", "end"} =>
        /\ from <= offset /\ offset <= Len(file)
        /\ Len(out) = offset - from
        /\ \A i \in 1..(offset - from) : out[i] = from + i

\* Everything printed is older than what the follower may still read: what
\* lies beyond its position, or the whole of a file that is shorter.
AheadIsNewer ==
    /\ \A j \in DOMAIN out : out[j] <= written
    /\ \A i \in DOMAIN file, j \in DOMAIN out :
           (i > offset \/ Len(file) < offset) => out[j] < file[i]

Printed == OutIsPiece /\ AheadIsNewer /\ NothingTwice

\* A step that neither prints nor moves the position keeps all this, whatever
\* it does to the log.
LEMMA LogStepKeepsPrinted ==
    ASSUME Shape, Printed, Write \/ Rotate
    PROVE  Printed'
  <1>1. /\ file \in Seq(1..MaxBytes) /\ out \in Seq(1..MaxBytes) /\ Len(file) \in Nat
        /\ offset \in Nat /\ from \in Nat /\ written \in Nat /\ rotations \in Nat
    BY BoundsAreNatural DEF Shape, TypeOK
  <1>2. UNCHANGED <<main, out, offset, from>>
    BY DEF Write, Rotate, followVars, startVars
  <1>3. NothingTwice'
    BY <1>2 DEF Printed, NothingTwice
  <1>4. CASE Rotate
    <2>1. file' = <<>> /\ written' = written /\ rotations' # 0
      BY <1>1, <1>4 DEF Rotate
    <2> QED BY <1>2, <1>3, <2>1 DEF Printed, OutIsPiece, AheadIsNewer
  <1>5. CASE Write
    <2>1. /\ Len(file') = Len(file) + 1 /\ written' = written + 1 /\ rotations' = rotations
          /\ \A i \in DOMAIN file' : (i \in DOMAIN file /\ file'[i] = file[i]) \/ file'[i] = written + 1
      BY <1>1, <1>5 DEF Write
    <2>2. \A j \in DOMAIN out : out[j] \in Nat /\ out[j] <= written
      BY Numbers DEF Printed, AheadIsNewer
    <2>3. ASSUME NEW i \in DOMAIN file', NEW j \in DOMAIN out,
                 i > offset \/ Len(file') < offset
          PROVE  out[j] < file'[i]
      BY <1>1, <2>1, <2>2, <2>3 DEF Printed, AheadIsNewer
    <2>4. AheadIsNewer'
      BY <1>1, <1>2, <2>1, <2>2, <2>3 DEF AheadIsNewer
    <2>5. OutIsPiece'
      BY <1>1, <1>2, <2>1 DEF Printed, OutIsPiece
    <2> QED BY <1>3, <2>4, <2>5 DEF Printed
  <1> QED BY <1>4, <1>5

\* The backlog.
LEMMA CopyKeepsPrinted ==
    ASSUME Shape, Shape', Copy
    PROVE  Printed'
  <1>1. /\ main = "copy" /\ UNCHANGED <<file, written, rotations, from>>
        /\ offset' = Len(file) /\ out' = SubSeq(file, offset + 1, Len(file))
    BY DEF Copy, AfterCopy, Step, logVars
  <1>2. /\ rotations = 0 /\ offset = from /\ Len(file) \in Nat /\ from \in Nat /\ written \in Nat
        /\ from <= Len(file) /\ Len(file) = written /\ \A i \in 1..Len(file) : file[i] = i
    <2>1. rotations = 0 /\ offset = from
      BY <1>1 DEF Shape, Control
    <2> QED BY <2>1, Numbers DEF Shape, LogIsOrdered
  <1>3. /\ Len(out') = Len(file) - from /\ DOMAIN out' = 1..(Len(file) - from)
        /\ \A i \in 1..(Len(file) - from) : out'[i] = from + i
    <2>1. /\ out' \in Seq(1..MaxBytes)
          /\ Len(out') = IF from < Len(file) THEN Len(file) - from ELSE 0
          /\ \A i \in 1..(Len(file) - from) : out'[i] = file[from + i]
      <3>1. Len(file) \in 0..Len(file) /\ out' = SubSeq(file, from + 1, Len(file))
        BY <1>1, <1>2
      <3> QED BY <1>2, <3>1, PieceOfLog
    <2> QED BY <1>2, <2>1
  <1>4. OutIsPiece'
    BY <1>1, <1>2, <1>3 DEF OutIsPiece
  <1>5. NothingTwice'
    BY <1>2, <1>3 DEF NothingTwice
  <1>6. DOMAIN file' = 1..offset'
    BY <1>1 DEF Shape, TypeOK
  <1>7. AheadIsNewer'
    BY <1>1, <1>2, <1>3, <1>6 DEF AheadIsNewer
  <1> QED BY <1>4, <1>5, <1>7 DEF Printed

\* One round of the reader.
LEMMA ReadKeepsPrinted ==
    ASSUME Shape, Shape', Printed, ReadBytes
    PROVE  Printed'
  <1> DEFINE piece == SubSeq(file, offset + 1, offset')
             m == Len(out)
             k == offset' - offset
  <1> HIDE DEF piece, m, k
  <1>1. /\ offset' \in (offset + 1)..Len(file) /\ out' = out \o piece
        /\ UNCHANGED <<file, written, rotations, main, from>>
    BY ReadIsPiece DEF logVars, startVars, piece
  <1>2. /\ k \in Nat /\ m \in Nat /\ offset \in Nat /\ offset' \in Nat /\ Len(file) \in Nat
        /\ offset < offset' /\ offset' <= Len(file) /\ offset' = offset + k /\ m = Len(out)
    BY <1>1, Numbers DEF m, k
  <1>3. /\ piece \in Seq(1..MaxBytes) /\ Len(piece) = k
        /\ \A i \in 1..k : piece[i] = file[offset + i]
    <2>1. /\ piece \in Seq(1..MaxBytes)
          /\ Len(piece) = IF offset < offset' THEN offset' - offset ELSE 0
          /\ \A i \in 1..(offset' - offset) : piece[i] = file[offset + i]
      <3>1. offset' \in 0..Len(file)
        BY <1>2
      <3> QED BY <1>2, <3>1, PieceOfLog DEF piece
    <2> QED BY <1>2, <2>1 DEF k
  <1>4. /\ Len(out') = m + k
        /\ \A j \in 1..(m + k) : out'[j] = IF j <= m THEN out[j] ELSE piece[j - m]
    <2>1. out \in Seq(1..MaxBytes)
      BY Numbers
    <2>2. /\ Len(out \o piece) = Len(out) + Len(piece)
          /\ \A j \in 1..(Len(out) + Len(piece)) :
                 (out \o piece)[j] = IF j <= Len(out) THEN out[j] ELSE piece[j - Len(out)]
      BY <1>3, <2>1, ConcatProperties
    <2> QED BY <1>1, <1>2, <1>3, <2>2
  <1>5. /\ \A j \in 1..m : out'[j] = out[j]
        /\ \A j \in (m + 1)..(m + k) : out'[j] = file[offset + (j - m)]
    <2>1. ASSUME NEW j \in (m + 1)..(m + k)
          PROVE  out'[j] = file[offset + (j - m)]
      <3>1. j \in 1..(m + k) /\ ~(j <= m) /\ j - m \in 1..k
        BY <1>2
      <3> QED BY <1>3, <1>4, <3>1
    <2> QED BY <1>2, <1>4, <2>1
  <1>6. /\ \A i, j \in 1..Len(file) : i < j => file[i] < file[j]
        /\ \A i \in 1..Len(file) : file[i] <= written
        /\ \A i, j \in 1..m : i < j => out[i] < out[j]
        /\ \A i \in (offset + 1)..Len(file), j \in 1..m : out[j] < file[i]
        /\ \A j \in 1..m : out[j] <= written
    <2>1. /\ \A i, j \in DOMAIN file : i < j => file[i] < file[j]
          /\ \A i \in DOMAIN file : file[i] <= written
      BY DEF Shape, LogIsOrdered
    <2>2. \A i, j \in DOMAIN out : i < j => out[i] < out[j]
      BY DEF Printed, NothingTwice
    <2>3. /\ \A i \in DOMAIN file, j \in DOMAIN out : i > offset => out[j] < file[i]
          /\ \A j \in DOMAIN out : out[j] <= written
      BY DEF Printed, AheadIsNewer
    <2>4. \A i \in (offset + 1)..Len(file) : i \in 1..Len(file) /\ i > offset
      BY <1>2
    <2> QED BY <2>1, <2>2, <2>3, <2>4, <1>2, Numbers
  <1>7. /\ file \in [1..Len(file) -> Nat] /\ out \in [1..m -> Nat] /\ out' \in [1..(m + k) -> Nat]
        /\ DOMAIN out' = 1..(m + k)
    <2>1. /\ file \in Seq(1..MaxBytes) /\ out \in Seq(1..MaxBytes) /\ out' \in Seq(1..MaxBytes)
      BY DEF Shape, TypeOK
    <2>2. /\ file \in [1..Len(file) -> 1..MaxBytes] /\ out \in [1..Len(out) -> 1..MaxBytes]
          /\ out' \in [1..Len(out') -> 1..MaxBytes]
      BY <2>1, LenProperties
    <2>3. 1..MaxBytes \subseteq Nat
      BY BoundsAreNatural
    <2> QED BY <1>2, <1>4, <2>2, <2>3
  <1>8. /\ \A i, j \in 1..(m + k) : i < j => out'[i] < out'[j]
        /\ \A i \in (offset' + 1)..Len(file), j \in 1..(m + k) : out'[j] < file[i]
    <2>1. \A j \in (m + 1)..(m + k) :
              offset + (j - m) \in (offset + 1)..offset' /\ offset + (j - m) \in 1..Len(file)
      BY <1>2
    <2>2. ASSUME NEW i \in 1..(m + k), NEW j \in 1..(m + k), i < j
          PROVE  out'[i] < out'[j]
      <3>1. CASE j <= m
        <4>1. i \in 1..m /\ j \in 1..m
          BY <1>2, <2>2, <3>1
        <4> QED BY <1>5, <1>6, <2>2, <4>1
      <3>2. CASE j > m /\ i <= m
        <4>1. j \in (m + 1)..(m + k) /\ i \in 1..m /\ offset + (j - m) \in (offset + 1)..Len(file)
          BY <1>2, <2>2, <3>2
        <4> QED BY <1>2, <1>5, <1>6, <1>7, <4>1
      <3>3. CASE j > m /\ i > m
        <4>1. /\ j \in (m + 1)..(m + k) /\ i \in (m + 1)..(m + k)
              /\ offset + (i - m) < offset + (j - m)
          BY <1>2, <2>2, <3>3
        <4>2. offset + (i - m) \in 1..Len(file) /\ offset + (j - m) \in 1..Len(file)
          BY <2>1, <4>1
        <4> QED BY <1>2, <1>5, <1>6, <1>7, <4>1, <4>2
      <3> QED BY <1>2, <3>1, <3>2, <3>3
    <2>3. ASSUME NEW i \in (offset' + 1)..Len(file), NEW j \in 1..(m + k)
          PROVE  out'[j] < file[i]
      <3>1. CASE j <= m
        BY <1>2, <1>5, <1>6, <1>7, <2>3, <3>1
      <3>2. CASE j > m
        <4>1. j \in (m + 1)..(m + k) /\ offset + (j - m) < i /\ i \in 1..Len(file)
          BY <1>2, <2>3, <3>2
        <4>2. offset + (j - m) \in 1..Len(file)
          BY <2>1, <4>1
        <4> QED BY <1>2, <1>5, <1>6, <1>7, <4>1, <4>2
      <3> QED BY <1>2, <3>1, <3>2
    <2> QED BY <2>2, <2>3
  <1>9. NothingTwice'
    BY <1>7, <1>8 DEF NothingTwice
  <1>10. AheadIsNewer'
    <2>1. \A j \in 1..(m + k) : out'[j] <= written
      <3>1. ASSUME NEW j \in 1..(m + k)
            PROVE  out'[j] <= written
        <4>1. CASE j <= m
          BY <1>2, <1>5, <1>6, <4>1
        <4>2. CASE j > m
          <5>1. j \in (m + 1)..(m + k) /\ offset + (j - m) \in 1..Len(file)
            BY <1>2, <4>2
          <5> QED BY <1>5, <1>6, <5>1
        <4> QED BY <1>2, <4>1, <4>2
      <3> QED BY <3>1
    <2>2. \A i \in 1..Len(file) : ~(Len(file) < offset') /\ (i > offset' => i \in (offset' + 1)..Len(file))
      BY <1>2
    <2>3. DOMAIN file' = 1..Len(file) /\ file' = file /\ written' = written
      BY <1>1, Numbers
    <2>4. ~(Len(file) < offset')
      BY <1>1, <1>2
    <2> QED BY <1>7, <1>8, <2>1, <2>2, <2>3, <2>4 DEF AheadIsNewer
  <1>11. OutIsPiece'
    <2> SUFFICES ASSUME rotations = 0, main \in {"probe", "watch", "wait", "end"}
                 PROVE  /\ from <= offset' /\ offset' <= Len(file)
                        /\ Len(out') = offset' - from
                        /\ \A i \in 1..(offset' - from) : out'[i] = from + i
      BY <1>1 DEF OutIsPiece
    <2>1. /\ from <= offset /\ m = offset - from
          /\ \A i \in 1..(offset - from) : out[i] = from + i
      BY <1>2 DEF Printed, OutIsPiece
    <2>2. \A i \in 1..Len(file) : file[i] = i
      BY Numbers DEF Shape, LogIsOrdered
    <2>3. from \in Nat /\ from <= offset' /\ offset' <= Len(file) /\ m + k = offset' - from
      BY <1>1, <1>2, <2>1, Numbers
    <2>4. ASSUME NEW i \in 1..(offset' - from)
          PROVE  out'[i] = from + i
      <3>1. CASE i <= m
        BY <1>2, <1>5, <2>1, <2>3, <3>1
      <3>2. CASE i > m
        <4>1. i \in (m + 1)..(m + k) /\ offset + (i - m) = from + i /\ from + i \in 1..Len(file)
          BY <1>1, <1>2, <2>1, <2>3, <3>2
        <4> QED BY <1>5, <2>2, <4>1
      <3> QED BY <1>2, <3>1, <3>2
    <2> QED BY <1>4, <2>3, <2>4
  <1> QED BY <1>9, <1>10, <1>11 DEF Printed

\* What is printed is in order and without a gap in every reachable state.
THEOREM PrintedHolds == Spec => []Printed
  <1>1. Init => Printed
    BY DEF Init, Printed, OutIsPiece, AheadIsNewer, NothingTwice
  <1>2. ASSUME Shape, Shape', Printed, [Next]_vars
        PROVE  Printed'
    <2>1. CASE Write \/ Rotate
      BY <1>2, <2>1, LogStepKeepsPrinted
    <2>2. CASE Copy
      BY <1>2, <2>2, CopyKeepsPrinted
    <2>3. CASE ReadBytes
      BY <1>2, <2>3, ReadKeepsPrinted
    <2>4. ASSUME UNCHANGED <<file, written, rotations, out, from, offset>>,
                 main' \in {"probe", "watch", "wait", "end"} => main \in {"probe", "watch", "wait", "end"}
          PROVE  Printed'
      BY <1>2, <2>4 DEF Printed, OutIsPiece, AheadIsNewer, NothingTwice
    <2>5. CASE Stat
      <3>1. /\ main = "stat" /\ UNCHANGED <<file, written, rotations, out, from, offset>>
        BY <2>5 DEF Stat, Step, logVars
      <3>2. out = <<>> /\ from = 0 /\ offset = 0 /\ Len(file) \in Nat
        BY <1>2, <3>1 DEF Shape, TypeOK, Control
      <3> QED BY <3>1, <3>2 DEF Printed, OutIsPiece, AheadIsNewer, NothingTwice
    <2>6. CASE Scan
      <3>1. /\ main = "scan" /\ main' \in {"scan", "copy"} /\ UNCHANGED <<file, written, out>>
        BY <2>6 DEF Scan, logVars
      <3>2. out = <<>>
        BY <1>2, <3>1 DEF Shape, Control
      <3> QED BY <3>1, <3>2 DEF Printed, OutIsPiece, AheadIsNewer, NothingTwice
    <2>7. CASE Probe \/ Watch \/ Finish \/ MainFails
      BY <2>4, <2>7 DEF Probe, Watch, Finish, MainFails, Step, logVars
    <2>8. CASE DaemonStarts \/ DaemonExits \/ OtherProbe
      BY <2>4, <2>8 DEF DaemonStarts, DaemonExits, OtherProbe, logVars, followVars, startVars
    <2>9. CASE Wake
      <3>1. /\ UNCHANGED <<file, written, rotations, out, from, main>>
            /\ offset' = Rewound(file, offset)
        BY <2>9 DEF Wake, logVars, startVars
      <3>2. CASE Len(file) < offset
        <4>1. offset' = 0 /\ offset \in Nat /\ Len(file) \in Nat
          BY <1>2, <3>1, <3>2, BoundsAreNatural DEF Rewound, Shape, TypeOK
        <4> QED BY <1>2, <3>1, <3>2, <4>1 DEF Printed, OutIsPiece, AheadIsNewer, NothingTwice
      <3>3. CASE ~(Len(file) < offset)
        BY <2>4, <3>1, <3>3 DEF Rewound
      <3> QED BY <3>2, <3>3
    <2>10. CASE PollFree \/ PollCancelled \/ PollFails \/ PumpEvent \/ PumpEnds \/ WatcherFails
                \/ ReadEof \/ ReadFails \/ Block \/ Leave
      BY <2>4, <2>10 DEF PollFree, PollCancelled, PollFails, PumpEvent, PumpEnds, WatcherFails,
                         ReadEof, ReadFails, Block, Leave, logVars, startVars
    <2>11. CASE UNCHANGED vars
      BY <2>4, <2>11 DEF vars, logVars, startVars
    <2> QED BY <1>2, <2>1, <2>2, <2>3, <2>5, <2>6, <2>7, <2>8, <2>9, <2>10, <2>11
            DEF Next, Environment, Main, Goroutines
  <1> QED BY <1>1, <1>2, ShapeHolds, PTL DEF Spec

\* No byte is printed twice or before an older one, a rotation included
\* (logs.go:239-249).
THEOREM PrintedOnce == Spec => []NothingTwice
  <1>1. Printed => NothingTwice
    BY DEF Printed
  <1> QED BY <1>1, PrintedHolds, PTL

\* What is printed is a piece of the log without a gap (logs.go:76-90, 223-256).
THEOREM PrintedWhole == Spec => []NothingLost
  <1>1. ASSUME Shape, Printed
        PROVE  NothingLost
    <2> SUFFICES ASSUME rotations = 0, main \in {"probe", "watch", "wait", "end"}
                 PROVE  out = SubSeq(file, from + 1, offset)
      BY DEF NothingLost
    <2>1. /\ from \in Nat /\ offset \in Nat /\ Len(file) \in Nat /\ out \in Seq(1..MaxBytes)
          /\ DOMAIN file = 1..Len(file)
      BY <1>1, BoundsAreNatural DEF Shape, TypeOK
    <2>2. /\ from <= offset /\ offset <= Len(file) /\ Len(out) = offset - from
          /\ \A i \in 1..(offset - from) : out[i] = from + i
      BY <1>1 DEF Printed, OutIsPiece
    <2>3. \A i \in 1..Len(file) : file[i] = i
      BY <1>1, <2>1 DEF Shape, LogIsOrdered
    <2>4. /\ SubSeq(file, from + 1, offset) \in Seq(1..MaxBytes)
          /\ Len(SubSeq(file, from + 1, offset)) = IF from < offset THEN offset - from ELSE 0
          /\ \A i \in 1..(offset - from) : SubSeq(file, from + 1, offset)[i] = file[from + i]
      <3>1. offset \in 0..Len(file)
        BY <2>1, <2>2
      <3> QED BY <1>1, <2>1, <3>1, PieceOfLog
    <2>5. Len(out) = Len(SubSeq(file, from + 1, offset))
      BY <2>1, <2>2, <2>4
    <2>6. \A i \in 1..Len(out) : out[i] = SubSeq(file, from + 1, offset)[i]
      BY <2>1, <2>2, <2>3, <2>4
    <2> QED BY <2>1, <2>4, <2>5, <2>6, SeqEqual
  <1> QED BY <1>1, PrintedHolds, ShapeHolds, PTL

-----------------------------------------------------------------------------
(* No wake-up is lost *)

\* A reader on its way to sleep, or asleep, has read the file to its end, or a
\* token waits for it, or an event that a running pump will turn into one; or
\* the group is ending (logs.go:204-222, 231-249).  It is what CatchesUp needs
\* beside fairness, and what a channel without a buffer would break.
SleepsAtTheEnd ==
    reader \in {"eof", "select"} /\ offset < Len(file) =>
        trigger \/ (events /\ pump = "on") \/ done

\* A pump that has stopped, or was never there, leaves no reader waiting.
PumpServesReader ==
    /\ pump = "off" <=> reader = "off"
    /\ pump = "done" => done

\* Whatever is written and whenever, between any two steps of the follower,
\* there is something left to wake it.
THEOREM WakeupIsDue == Spec => []SleepsAtTheEnd
  <1> DEFINE Inv == SleepsAtTheEnd /\ PumpServesReader
  <1>1. Init => Inv
    BY DEF Init, SleepsAtTheEnd, PumpServesReader
  <1>2. ASSUME Shape, Inv, [Next]_vars
        PROVE  Inv'
    <2> USE <1>2 DEF SleepsAtTheEnd, PumpServesReader, logVars, daemonVars, startVars, goroutines
    <2>1. offset \in Nat /\ Len(file) \in Nat
      BY Numbers
    <2>2. CASE Write
      <3>1. pump \in {"off", "on", "done"} /\ UNCHANGED <<pump, reader, done, trigger>>
        BY <2>2 DEF Write, followVars, Shape, TypeOK
      <3>2. CASE pump = "on"
        <4>1. events' = TRUE
          BY <2>2, <3>2 DEF Write, Notify
        <4> QED BY <3>1, <3>2, <4>1
      <3> QED BY <3>1, <3>2
    <2>3. CASE Rotate
      <3>1. Len(file') = 0
        BY <2>3 DEF Rotate
      <3> QED BY <2>1, <2>3, <3>1 DEF Rotate, followVars
    <2>4. CASE DaemonStarts \/ DaemonExits \/ OtherProbe
      BY <2>4 DEF DaemonStarts, DaemonExits, OtherProbe, followVars
    <2>5. CASE Stat \/ Scan \/ Copy \/ Probe \/ Finish \/ MainFails
      <3>1. UNCHANGED <<file, goroutines>>
        BY <2>5 DEF Stat, Scan, Copy, Probe, Finish, MainFails
      <3>2. UNCHANGED offset \/ reader = "off"
        BY <2>5 DEF Stat, Scan, Copy, Probe, Finish, MainFails, AfterCopy, Step, Shape, Control
      <3> QED BY <3>1, <3>2
    <2>6. CASE Watch
      BY <2>6 DEF Watch
    <2>7. CASE PollFree \/ PollCancelled \/ PollFails
      BY <2>7 DEF PollFree, PollCancelled, PollFails
    <2>8. CASE PumpEvent \/ PumpEnds \/ WatcherFails
      BY <2>8 DEF PumpEvent, PumpEnds, WatcherFails
    <2>9. CASE ReadBytes
      BY <2>9 DEF ReadBytes
    <2>10. CASE ReadEof \/ ReadFails \/ Block \/ Leave \/ Wake
      BY <2>1, <2>10 DEF ReadEof, ReadFails, Block, Leave, Wake
    <2>11. CASE UNCHANGED vars
      BY <2>11 DEF vars
    <2> QED BY <2>2, <2>3, <2>4, <2>5, <2>6, <2>7, <2>8, <2>9, <2>10, <2>11
            DEF Next, Environment, Main, Goroutines
  <1>3. Inv => SleepsAtTheEnd
    OBVIOUS
  <1> QED BY <1>1, <1>2, <1>3, ShapeHolds, PTL DEF Spec
=============================================================================
