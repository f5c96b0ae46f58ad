------------------------------ MODULE FileSink ------------------------------
(***************************************************************************)
(* FileSink and JsonLinesSink: one log file, latest.log, shared by the     *)
(* successive runs of a program.  Constructing the sink compresses the     *)
(* file an earlier run left behind into an archive of its own and removes  *)
(* it; on_log gathers lines in a buffer that is written out when the next  *)
(* line does not fit and when the sink is destroyed.                       *)
(*                                                                         *)
(* A line is [id, size, at]: ids number the lines of all runs, at is the   *)
(* place in the buffer it is stored at.  A file is the sequence of the     *)
(* lines in it, each whole or cut.  Any system call may fail, a write may  *)
(* be cut short, and the program may die anywhere.                         *)
(***************************************************************************)
EXTENDS Integers, Sequences, FiniteSets

CONSTANTS kBufferCapacity, \* 0 where buffering is disabled (JsonLinesSink<false>)
          kMaxLineSize,  \* kMaxJsonLineSize; in FileSink no line is longer
          Sizes,         \* the lengths of the formatted lines
          Stamps,        \* the timestamps an archive's name may carry
          MaxLines,      \* bound: lines logged, over all runs
          MaxRuns        \* bound: sinks constructed

ASSUME SinkConstants ==
  /\ kBufferCapacity \in Nat /\ kMaxLineSize \in Nat /\ Sizes \subseteq Nat \ {0}
  /\ MaxLines \in Nat /\ MaxRuns \in Nat

VARIABLES present,    \* does file_path_ exist
          latest,     \* its contents
          archives,   \* <<stamp, counter>> -> contents of that .gz
          pc,         \* "down": no sink; then the steps of the constructor; "up"
          dest,       \* dest_path
          copied,     \* lines compress() has read so far
          fd_,        \* is the file open
          buffer_,    \* the lines in the buffer
          cursor_,
          lines,      \* ghost: lines logged so far
          runs,       \* ghost: sinks constructed so far
          first,      \* ghost: the first line of this run
          onDisk,     \* ghost: lines a write has put whole into the file
          faulty,     \* ghost: a call of this run has failed
          cut         \* ghost: compress() has once taken a failure for success

files  == <<present, latest, archives>>
sink   == <<fd_, buffer_, cursor_>>
ghosts == <<lines, runs, first, onDisk, faulty, cut>>
fileSinkVars == <<files, pc, dest, copied, sink, ghosts>>

NoName == <<0, 0>>

Whole(file) == {file[i].id : i \in {j \in DOMAIN file : file[j].whole}}

\* What a write of the lines ls that stops after n bytes leaves in the file.
\* Of a line longer than the array it was formatted in, the end is not there.
Landed(ls, n) ==
  LET begun == {i \in DOMAIN ls : ls[i].at < n}
  IN [i \in 1..Cardinality(begun) |->
        [id |-> ls[i].id, size |-> ls[i].size,
         whole |-> ls[i].at + ls[i].size <= n /\ ls[i].size <= kMaxLineSize]]

FileSinkInit ==
  /\ present = FALSE /\ latest = <<>> /\ archives = <<>>
  /\ pc = "down" /\ dest = NoName /\ copied = 0
  /\ fd_ = FALSE /\ buffer_ = <<>> /\ cursor_ = 0
  /\ lines = 0 /\ runs = 0 /\ first = 1 /\ onDisk = {} /\ faulty = FALSE
  /\ cut = FALSE
-----------------------------------------------------------------------------
(* The constructor *)

\* A slip: the counter is only tried once.
FreshNameOnce(stamp) == <<stamp, 0>>

\* The do-while over the counter: the first name not taken.
FreshName(stamp) ==
  <<stamp, CHOOSE n \in 0..Cardinality(DOMAIN archives) :
             /\ <<stamp, n>> \notin DOMAIN archives
             /\ \A m \in 0..(n - 1) : <<stamp, m>> \in DOMAIN archives>>

\* An earlier file is to be archived under a name of its own.
Construct(stamp) ==
  /\ pc = "down" /\ runs < MaxRuns
  /\ runs' = runs + 1 /\ first' = lines + 1 /\ faulty' = FALSE
  /\ IF present THEN pc' = "compress" /\ dest' = FreshName(stamp)
                ELSE pc' = "create" /\ UNCHANGED dest
  /\ UNCHANGED <<files, copied, sink, lines, onDisk, cut>>

\* compress(): fopen and gzopen, either of which may fail ...
CompressOpen(ok) ==
  /\ pc = "compress"
  /\ IF ok
     THEN /\ archives' = [a \in DOMAIN archives \cup {dest} |->
                            IF a = dest THEN <<>> ELSE archives[a]]
          /\ pc' = "copy" /\ UNCHANGED <<dest, faulty>>
     ELSE pc' = "create" /\ dest' = NoName /\ faulty' = TRUE /\ UNCHANGED archives
  /\ UNCHANGED <<present, latest, copied, sink, lines, runs, first, onDisk, cut>>

\* ... then a piece of the file at a time; a failure leaves what is there ...
CompressCopy(ok) ==
  /\ pc = "copy" /\ copied < Len(latest)
  /\ IF ok
     THEN /\ \E k \in (copied + 1)..Len(latest) :
               /\ copied' = k
               /\ archives' = [archives EXCEPT ![dest] = SubSeq(latest, 1, k)]
          /\ UNCHANGED <<pc, dest, faulty>>
     ELSE /\ pc' = "create" /\ dest' = NoName /\ copied' = 0 /\ faulty' = TRUE
          /\ UNCHANGED archives
  /\ UNCHANGED <<present, latest, sink, lines, runs, first, onDisk, cut>>

\* A slip: the file is kept.
CompressKeep(ok) ==
  /\ pc = "copy" /\ copied = Len(latest)
  /\ faulty' = ~ok
  /\ pc' = "create" /\ dest' = NoName /\ copied' = 0
  /\ UNCHANGED <<files, sink, lines, runs, first, onDisk, cut>>

\* ... and at its end the file is removed.  Whether that works is not asked.
CompressRemove(ok) ==
  /\ pc = "copy" /\ copied = Len(latest)
  /\ IF ok THEN present' = FALSE /\ latest' = <<>> ELSE UNCHANGED <<present, latest>>
  /\ faulty' = ~ok
  /\ pc' = "create" /\ dest' = NoName /\ copied' = 0
  /\ UNCHANGED <<archives, sink, lines, runs, first, onDisk, cut>>

\* An fread that fails looks like the end of the file, and the result of
\* gzclose, which writes what zlib still holds, is not looked at: the file is
\* removed although the archive has k of its lines only.
CompressCut(k) ==
  /\ pc = "copy" /\ k < Len(latest)
  /\ archives' = [archives EXCEPT ![dest] = SubSeq(latest, 1, k)]
  /\ present' = FALSE /\ latest' = <<>>
  /\ faulty' = TRUE /\ cut' = TRUE
  /\ pc' = "create" /\ dest' = NoName /\ copied' = 0
  /\ UNCHANGED <<sink, lines, runs, first, onDisk>>

\* create_file is exclusive: a file that is still there stays as it is.
CreateFile(ok) ==
  /\ pc = "create"
  /\ present' = (present \/ ok)
  /\ faulty' = (faulty \/ ~ok)
  /\ pc' = "open"
  /\ UNCHANGED <<latest, archives, dest, copied, sink, lines, runs, first, onDisk, cut>>

\* open(O_CREAT | O_APPEND); the buffer is allocated either way.
OpenFile(ok) ==
  /\ pc = "open"
  /\ fd_' = ok
  /\ present' = (present \/ ok)
  /\ faulty' = (faulty \/ ~ok)
  /\ pc' = "up"
  /\ UNCHANGED <<latest, archives, dest, copied, buffer_, cursor_, lines, runs, first, onDisk, cut>>
-----------------------------------------------------------------------------
\* write() of the buffer: n of the bytes asked for reach the file; the result
\* is not looked at.
WriteBuffer(n) ==
  /\ n <= cursor_
  /\ latest' = latest \o Landed(buffer_, n)
  /\ onDisk' = onDisk \cup Whole(Landed(buffer_, n))
  /\ faulty' = (faulty \/ n < cursor_)

NoWrite == UNCHANGED <<latest, onDisk, faulty>>

Line(size, at) == [id |-> lines + 1, size |-> size, at |-> at]

Fits(size) == cursor_ + size <= kBufferCapacity

\* on_log of a line that fits behind the others.
LogBuffered(size) ==
  /\ pc = "up" /\ lines < MaxLines /\ Fits(size)
  /\ buffer_' = Append(buffer_, Line(size, cursor_)) /\ cursor_' = cursor_ + size
  /\ lines' = lines + 1
  /\ NoWrite
  /\ UNCHANGED <<present, archives, pc, dest, copied, fd_, runs, first, cut>>

\* A slip: the buffer is not emptied.
LogFlushedTwice(size, n) ==
  /\ pc = "up" /\ lines < MaxLines /\ fd_ /\ ~Fits(size) /\ size <= kBufferCapacity
  /\ WriteBuffer(n)
  /\ buffer_' = Append(buffer_, Line(size, cursor_)) /\ cursor_' = size
  /\ lines' = lines + 1
  /\ UNCHANGED <<present, archives, pc, dest, copied, fd_, runs, first, cut>>

\* on_log of one that does not: the buffer goes out first.
LogFlushed(size, n) ==
  /\ pc = "up" /\ lines < MaxLines /\ fd_ /\ ~Fits(size) /\ size <= kBufferCapacity
  /\ WriteBuffer(n)
  /\ buffer_' = <<Line(size, 0)>> /\ cursor_' = size
  /\ lines' = lines + 1
  /\ UNCHANGED <<present, archives, pc, dest, copied, fd_, runs, first, cut>>

\* on_log of one longer than the buffer: after the buffer, on its own.  The
\* two writes may each be cut (m bytes of the first, n of the second).  The
\* POSIX write_direct stores four pieces into an iovec of three: the outcomes
\* are the write below and a Crash.
LogDirect(size, m, n) ==
  /\ pc = "up" /\ lines < MaxLines /\ fd_ /\ size > kBufferCapacity
  /\ m <= cursor_ /\ n <= size
  /\ latest' = latest \o Landed(buffer_, m) \o Landed(<<Line(size, 0)>>, n)
  /\ onDisk' = onDisk \cup Whole(Landed(buffer_, m)) \cup Whole(Landed(<<Line(size, 0)>>, n))
  /\ faulty' = (faulty \/ m < cursor_ \/ n < size)
  /\ buffer_' = <<>> /\ cursor_' = 0
  /\ lines' = lines + 1
  /\ UNCHANGED <<present, archives, pc, dest, copied, fd_, runs, first, cut>>

\* Where the file could not be opened flush() returns early and leaves the
\* buffer as it is: a line that does not fit is stored behind its end ...
LogOverrun(size) ==
  /\ pc = "up" /\ lines < MaxLines /\ ~fd_ /\ ~Fits(size) /\ size <= kBufferCapacity
  /\ buffer_' = Append(buffer_, Line(size, cursor_)) /\ cursor_' = cursor_ + size
  /\ lines' = lines + 1
  /\ NoWrite
  /\ UNCHANGED <<present, archives, pc, dest, copied, fd_, runs, first, cut>>

\* ... and a longer one is dropped.
LogDropped(size) ==
  /\ pc = "up" /\ lines < MaxLines /\ ~fd_ /\ size > kBufferCapacity
  /\ lines' = lines + 1
  /\ NoWrite
  /\ UNCHANGED <<present, archives, pc, dest, copied, sink, runs, first, cut>>

\* A slip: the destructor only closes the file.
DestroyUnflushed(n) ==
  /\ pc = "up" /\ pc' = "down"
  /\ NoWrite
  /\ fd_' = FALSE /\ buffer_' = <<>> /\ cursor_' = 0
  /\ UNCHANGED <<present, archives, dest, copied, lines, runs, first, cut>>

\* The destructor: flush() and close().
Destroy(n) ==
  /\ pc = "up" /\ pc' = "down"
  /\ IF fd_ THEN WriteBuffer(n) ELSE n = 0 /\ NoWrite
  /\ fd_' = FALSE /\ buffer_' = <<>> /\ cursor_' = 0
  /\ UNCHANGED <<present, archives, dest, copied, lines, runs, first, cut>>

\* The program dies: what was only in memory is gone.
Crash ==
  /\ pc # "down" /\ pc' = "down"
  /\ dest' = NoName /\ copied' = 0
  /\ fd_' = FALSE /\ buffer_' = <<>> /\ cursor_' = 0
  /\ faulty' = TRUE
  /\ UNCHANGED <<files, lines, runs, first, onDisk, cut>>

\* No more runs.
FileSinkOver == pc = "down" /\ runs = MaxRuns /\ UNCHANGED fileSinkVars

FileSinkNext ==
  \/ \E stamp \in Stamps : Construct(stamp)
  \/ \E ok \in BOOLEAN : \/ CompressOpen(ok) \/ CompressCopy(ok) \/ CompressRemove(ok)
                         \/ CreateFile(ok) \/ OpenFile(ok)
  \/ \E k \in 0..copied : CompressCut(k)
  \/ \E size \in Sizes :
       \/ LogBuffered(size) \/ LogOverrun(size) \/ LogDropped(size)
       \/ \E n \in 0..cursor_ : LogFlushed(size, n)
       \/ \E m \in 0..cursor_, n \in 0..size : LogDirect(size, m, n)
  \/ \E n \in 0..cursor_ : Destroy(n)
  \/ Crash
  \/ FileSinkOver

FileSinkSpec == FileSinkInit /\ [][FileSinkNext]_fileSinkVars
-----------------------------------------------------------------------------
Files == {latest} \cup {archives[a] : a \in DOMAIN archives}

\* What was once written is not lost: wherever else a rotation fails or the
\* program dies, every line that reached the disk is whole in latest.log or
\* in an archive, and no archive is overwritten by a later one of the same
\* second.  The exception is a failure compress() does not notice.
WrittenLinesSurvive == ~cut => onDisk \subseteq UNION {Whole(f) : f \in Files}

\* In every file the lines stand in the order they were logged, none twice,
\* also where a rotation failed and a run appended to its predecessor's file,
\* and where a line longer than the buffer goes around it.
LinesInOrder == \A f \in Files : \A i, j \in DOMAIN f : i < j => f[i].id < f[j].id

\* As long as no call has failed, every line of this run that fits the array
\* it is formatted in is whole in the file or still in the buffer; once the
\* sink is destroyed, in the file.
NothingLostUnlessFaulty ==
  ~faulty => \A l \in first..lines :
               \/ \E i \in DOMAIN latest :
                      latest[i].id = l /\ (latest[i].whole \/ latest[i].size > kMaxLineSize)
               \/ \E i \in DOMAIN buffer_ : buffer_[i].id = l

\* A constructor that met no failure leaves the lines of earlier runs, crashed
\* ones included, to the archives: latest.log has this run's only.
RotationSeparatesRuns ==
  pc = "up" /\ ~faulty => \A i \in DOMAIN latest : latest[i].id >= first
=============================================================================
