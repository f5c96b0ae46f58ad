--------------------------- MODULE UtilityProofs ----------------------------
(***************************************************************************)
(* What four parts of the library promise, proved for any number of        *)
(* processes, names, sizes and levels (FileOps), for any strings and any   *)
(* hash function (StringRegistry), for any stack, any sizes of the arrays  *)
(* and of the buffer (StackTrace), and for any calls with any number of    *)
(* arguments of any kinds and lengths (ArgsCodec).                         *)
(***************************************************************************)
EXTENDS TextProofs, ArgsCodec

-----------------------------------------------------------------------------
(* FileOps: contents *)

LEMMA ContentFacts ==
  ASSUME NEW p \in Procs, NEW n \in Nat, NEW k \in Nat
  PROVE  /\ Content(p, n) \in Seq(Procs) /\ Len(Content(p, n)) = n
         /\ SubSeq(Content(p, n), 1, n) = Content(p, n)
         /\ Content(p, n) \o Content(p, k) = Content(p, n + k)
         /\ SubSeq(Content(p, n + k), n + 1, n + k) = Content(p, k)
<1> DEFINE a == Content(p, n)
           b == Content(p, k)
           c == Content(p, n + k)
<1>1. /\ a \in Seq(Procs) /\ Len(a) = n /\ \A i \in 1..n : a[i] = p
      /\ b \in Seq(Procs) /\ Len(b) = k /\ \A i \in 1..k : b[i] = p
  BY DEF Content
<1>2. n + k \in Nat /\ c \in Seq(Procs) /\ Len(c) = n + k /\ \A i \in 1..(n + k) : c[i] = p
  BY DEF Content
<1> HIDE DEF a, b, c
<1>3. SubSeq(a, 1, n) = a
  BY <1>1
<1>4. a \o b = c
  <2>1. a \o b \in Seq(Procs) /\ Len(a \o b) = n + k
    BY <1>1
  <2>2. ASSUME NEW i \in 1..(n + k) PROVE (a \o b)[i] = p
    <3>1. CASE i <= n
      BY <1>1, <3>1
    <3>2. CASE ~(i <= n)
      <4>1. (a \o b)[i] = b[i - n] /\ i - n \in 1..k
        BY <1>1, <3>2
      <4>. QED
        BY <1>1, <4>1
    <3>. QED
      BY <3>1, <3>2
  <2> DEFINE d == a \o b
  <2>3. d \in Seq(Procs) /\ Len(d) = n + k /\ \A i \in 1..(n + k) : d[i] = p
    BY <2>1, <2>2
  <2> HIDE DEF d
  <2>4. d = c
    BY <1>2, <2>3
  <2>. QED
    BY <2>4 DEF d
<1>5. SubSeq(c, n + 1, n + k) = b
  <2> DEFINE d == SubSeq(c, n + 1, n + k)
  <2>1. d \in Seq(Procs) /\ Len(d) = k /\ \A i \in 1..k : d[i] = c[n + i]
    BY <1>2
  <2> HIDE DEF d
  <2>2. ASSUME NEW i \in 1..k PROVE d[i] = b[i]
    <3>1. n + i \in 1..(n + k)
      OBVIOUS
    <3>. QED
      BY <1>1, <1>2, <2>1, <3>1
  <2>3. d = b
    BY <1>1, <2>1, <2>2
  <2>. QED
    BY <2>3 DEF d
<1>. QED
  BY <1>1, <1>3, <1>4, <1>5 DEF a, b, c

LEMMA Contents ==
  \A p \in Procs, n, k \in Nat :
    /\ Content(p, n) \in Seq(Procs) /\ Len(Content(p, n)) = n
    /\ SubSeq(Content(p, n), 1, n) = Content(p, n)
    /\ Content(p, n) \o Content(p, k) = Content(p, n + k)
    /\ SubSeq(Content(p, n + k), n + 1, n + k) = Content(p, k)
BY ContentFacts, Zenon

\* Bytes from the middle of a file that has all of p's content.
LEMMA ContentPart ==
  ASSUME NEW p \in Procs, NEW n \in Nat, NEW k \in Nat, NEW m \in Nat, n + k <= m
  PROVE  SubSeq(Content(p, m), n + 1, n + k) = Content(p, k)
<1> DEFINE c == Content(p, m)
           b == Content(p, k)
           d == SubSeq(c, n + 1, n + k)
<1>1. c \in Seq(Procs) /\ Len(c) = m /\ \A i \in 1..m : c[i] = p
  BY DEF Content
<1>2. b \in Seq(Procs) /\ Len(b) = k /\ \A i \in 1..k : b[i] = p
  BY DEF Content
<1> HIDE DEF b, c
<1>3. d \in Seq(Procs) /\ Len(d) = k /\ \A i \in 1..k : d[i] = c[n + i]
  BY <1>1
<1> HIDE DEF d
<1>4. ASSUME NEW i \in 1..k PROVE d[i] = b[i]
  <2>1. n + i \in 1..m
    OBVIOUS
  <2>. QED
    BY <1>1, <1>2, <1>3, <2>1
<1>5. d = b
  BY <1>2, <1>3, <1>4
<1>. QED
  BY <1>5 DEF b, c, d
-----------------------------------------------------------------------------
(* FileOps: the inductive invariant *)

Working == {"idle", "create", "open", "write", "file", "read", "seen", "dir", "check", "mkdir", "made"}

Process == [pc : Working, path : TempNames \cup {""}, size : Nat, valid : BOOLEAN, done : Nat,
            st_size : Nat, seen : Seq(Procs), result : Nat, failed : BOOLEAN]

\* What there can be of the path, and how that can grow.
Path == {l \in [dirs : 0..Depth, file : BOOLEAN] : l.file = TRUE => l.dirs < Depth}
Grown(l, m) == l.dirs <= m.dirs /\ (l.file = TRUE => m = l)

FilesTypes == proc \in [Procs -> Process] /\ levels \in Path

\* The file at the path is the process's own.
Owns(me) == me.pc \in {"open", "write", "read", "seen"} \/ (me.pc = "file" /\ me.valid = TRUE)

\* No file has two owners: one that is there is not created, and only its
\* owner removes it.
OneOwner ==
  \A p \in Procs : Owns(proc[p]) =>
    /\ proc[p].path \in DOMAIN files
    /\ \A q \in Procs : q # p /\ Owns(proc[q]) => proc[q].path # proc[p].path

\* How far its owner has come with it.
Progress(p, me, bytes) ==
  /\ me.pc \in {"create", "open"} => me.done = 0
  /\ me.pc = "write" => bytes = Content(p, me.done)
  /\ me.pc = "file" /\ me.valid = TRUE => bytes = Content(p, me.size)
  /\ me.pc \in {"read", "seen"} => bytes = Content(p, me.size)
  /\ me.pc = "read" => /\ me.st_size = me.size /\ me.done <= me.size /\ me.failed = FALSE
                       /\ me.seen = Content(p, me.done)
  /\ me.pc = "seen" => /\ me.seen = Content(p, Len(me.seen))
                       /\ me.failed = FALSE => Len(me.seen) = me.size

\* How create_directories stands: where no call of its own failed, the levels
\* it has dealt with are there, or those below the file in the way are not and
\* have been counted.
Levels(me, l) ==
  me.pc \in {"check", "mkdir", "made"} =>
    /\ me.done <= Depth /\ (me.pc = "made" <=> me.done = Depth)
    /\ me.failed = TRUE => me.result > 0
    /\ me.failed = FALSE =>
         \/ me.done <= l.dirs /\ me.result = 0
         \/ l.file = TRUE /\ l.dirs < me.done /\ me.result = me.done - (l.dirs + 1)

FilesInvariant ==
  /\ FilesTypes /\ OneOwner
  /\ \A p \in Procs : Progress(p, proc[p], files[proc[p].path]) /\ Levels(proc[p], levels)

LEMMA PathNumbers ==
  /\ Depth \in Nat
  /\ \A l \in Path : l.dirs \in 0..Depth /\ l.dirs \in Nat /\ l.file \in BOOLEAN
<1>1. Depth \in Nat
  BY FileConstants
<1>2. ASSUME NEW l \in Path PROVE l.dirs \in 0..Depth /\ l.file \in BOOLEAN
  BY DEF Path
<1>3. \A n \in 0..Depth : n \in Nat
  BY <1>1
<1>. QED
  BY <1>1, <1>2, <1>3

LEMMA PathStays ==
  ASSUME NEW l \in Path
  PROVE  Grown(l, l)
<1>1. l.dirs \in Nat
  BY PathNumbers
<1>. QED
  BY <1>1 DEF Grown

LEMMA LevelsStay ==
  ASSUME NEW me \in Process, NEW l \in Path, NEW m \in Path, Grown(l, m), Levels(me, l)
  PROVE  Levels(me, m)
<1>1. me.done \in Nat /\ me.result \in Nat
  BY DEF Process
<1>2. l.dirs \in Nat /\ m.dirs \in Nat /\ l.file \in BOOLEAN
  BY PathNumbers
<1>3. CASE l.file = TRUE
  BY <1>3 DEF Grown
<1>4. CASE l.file = FALSE
  <2>1. me.done <= l.dirs => me.done <= m.dirs
    BY <1>1, <1>2 DEF Grown
  <2>. QED
    BY <1>4, <2>1, Zenon DEF Levels
<1>. QED
  BY <1>2, <1>3, <1>4

\* A step of p: it changes its own file, or makes one, and no other.
LEMMA OwnStep ==
  ASSUME FilesInvariant, NEW p \in Procs, NEW r \in Process, proc' = [proc EXCEPT ![p] = r],
         levels' \in Path, Grown(levels, levels'),
         \A n \in DOMAIN files : (n \in DOMAIN files' /\ files'[n] = files[n])
                                 \/ (n = proc[p].path /\ Owns(proc[p])),
         Owns(r) => r.path \in DOMAIN files',
         Owns(r) => r.path \notin DOMAIN files \/ (Owns(proc[p]) /\ r.path = proc[p].path),
         Progress(p, r, files'[r.path]), Levels(r, levels')
  PROVE  FilesInvariant'
<1>1. proc \in [Procs -> Process]
  BY DEF FilesInvariant, FilesTypes
<1>2. proc' \in [Procs -> Process] /\ proc'[p] = r /\ \A q \in Procs : q # p => proc'[q] = proc[q]
  BY <1>1
<1>3. ASSUME NEW q \in Procs, q # p, Owns(proc[q])
      PROVE  /\ proc[q].path \in DOMAIN files /\ proc[q].path \in DOMAIN files'
             /\ files'[proc[q].path] = files[proc[q].path]
  BY <1>3, Zenon DEF FilesInvariant, OneOwner
<1>4. OneOwner'
  <2>1. ASSUME NEW q \in Procs, Owns(proc'[q]) PROVE proc'[q].path \in DOMAIN files'
    BY <1>2, <1>3, <2>1, Zenon
  <2>2. ASSUME NEW q \in Procs, NEW u \in Procs, u # q, Owns(proc'[q]), Owns(proc'[u])
        PROVE  proc'[u].path # proc'[q].path
    <3>1. CASE q # p /\ u # p
      BY <1>2, <2>2, <3>1, Zenon DEF FilesInvariant, OneOwner
    <3>2. CASE q = p
      BY <1>2, <1>3, <2>2, <3>2, Zenon DEF FilesInvariant, OneOwner
    <3>3. CASE u = p
      BY <1>2, <1>3, <2>2, <3>3, ZenonT(40) DEF FilesInvariant, OneOwner
    <3>. QED
      BY <3>1, <3>2, <3>3
  <2>. QED
    BY <2>1, <2>2, Zenon DEF OneOwner
<1>5. ASSUME NEW q \in Procs, q # p
      PROVE  Progress(q, proc'[q], files'[proc'[q].path]) /\ Levels(proc'[q], levels')
  <2>1. proc'[q] = proc[q] /\ Progress(q, proc[q], files[proc[q].path]) /\ Levels(proc[q], levels)
    BY <1>2, <1>5, Zenon DEF FilesInvariant
  <2>2. Levels(proc[q], levels')
    BY <1>1, <2>1, LevelsStay, Zenon DEF FilesInvariant, FilesTypes
  <2>3. Progress(q, proc[q], files'[proc[q].path])
    <3>1. CASE Owns(proc[q])
      BY <1>3, <1>5, <2>1, <3>1, Zenon
    <3>2. CASE ~Owns(proc[q])
      BY <2>1, <3>2, Zenon DEF Progress, Owns
    <3>. QED
      BY <3>1, <3>2
  <2>. QED
    BY <2>1, <2>2, <2>3, Zenon
<1>6. \A q \in Procs : Progress(q, proc'[q], files'[proc'[q].path]) /\ Levels(proc'[q], levels')
  BY <1>2, <1>5, Zenon
<1>. QED
  BY <1>2, <1>4, <1>6, Zenon DEF FilesInvariant, FilesTypes

\* A step of p that leaves the files alone.
LEMMA QuietStep ==
  ASSUME FilesInvariant, NEW p \in Procs, NEW r \in Process, proc' = [proc EXCEPT ![p] = r],
         files' = files, levels' = levels, Owns(r) => Owns(proc[p]) /\ r.path = proc[p].path,
         Progress(p, r, files[r.path]), Levels(r, levels)
  PROVE  FilesInvariant'
<1>1. levels' \in Path /\ Grown(levels, levels')
  BY PathStays, Zenon DEF FilesInvariant, FilesTypes
<1>2. Owns(r) => r.path \in DOMAIN files'
  BY Zenon DEF FilesInvariant, OneOwner
<1>3. \A n \in DOMAIN files : n \in DOMAIN files' /\ files'[n] = files[n]
  BY Zenon
<1>4. Progress(p, r, files'[r.path]) /\ Levels(r, levels')
  BY Zenon
<1>. QED
  BY <1>1, <1>2, <1>3, <1>4, OwnStep

\* A step of p that puts bytes into its file, or into one that it makes.
LEMMA PutStep ==
  ASSUME FilesInvariant, NEW p \in Procs, NEW r \in Process, proc' = [proc EXCEPT ![p] = r],
         NEW bytes, files' = Put(files, r.path, bytes), levels' = levels, r.path = proc[p].path,
         Owns(proc[p]) \/ r.path \notin DOMAIN files, Progress(p, r, bytes), Levels(r, levels)
  PROVE  FilesInvariant'
<1>1. levels' \in Path /\ Grown(levels, levels') /\ Levels(r, levels')
  BY PathStays, Zenon DEF FilesInvariant, FilesTypes
<1>2. /\ DOMAIN files' = DOMAIN files \cup {r.path} /\ files'[r.path] = bytes
      /\ \A n \in DOMAIN files : n # r.path => files'[n] = files[n]
  <2> DEFINE name == r.path
  <2>1. files' = Put(files, name, bytes)
    BY Zenon
  <2> HIDE DEF name
  <2>2. /\ DOMAIN files' = DOMAIN files \cup {name} /\ files'[name] = bytes
        /\ \A n \in DOMAIN files : n # name => files'[n] = files[n]
    BY <2>1 DEF Put
  <2>. QED
    BY <2>2, Zenon DEF name
<1>3. ASSUME NEW n \in DOMAIN files
      PROVE  (n \in DOMAIN files' /\ files'[n] = files[n]) \/ (n = proc[p].path /\ Owns(proc[p]))
  <2>1. CASE n = r.path
    BY <2>1, Zenon
  <2>2. CASE n # r.path
    BY <1>2, <2>2, Zenon
  <2>. QED
    BY <2>1, <2>2
<1>4. Progress(p, r, files'[r.path]) /\ r.path \in DOMAIN files'
  BY <1>2
<1>. QED
  BY <1>1, <1>3, <1>4, OwnStep

LEMMA IdleFacts ==
  /\ Idle \in Process /\ Idle.pc = "idle" /\ ~Owns(Idle)
  /\ Idle.done = 0 /\ Idle.result = 0 /\ Idle.failed = FALSE
  /\ \A p, bytes, l : Progress(p, Idle, bytes) /\ Levels(Idle, l)
<1>1. Idle \in Process
  BY DEF Idle, Process, Working
<1>2. Idle.pc = "idle" /\ Idle.done = 0 /\ Idle.result = 0 /\ Idle.failed = FALSE
  BY DEF Idle
<1>3. \A p, bytes, l : Progress(p, Idle, bytes) /\ Levels(Idle, l)
  BY <1>2 DEF Progress, Levels
<1>4. ~Owns(Idle)
  BY <1>2 DEF Owns
<1>. QED
  BY <1>1, <1>2, <1>3, <1>4

LEMMA TempFileStep ==
  ASSUME FilesInvariant, NEW p \in Procs, NEW name \in TempNames, NEW size \in Sizes, TempFile(p, name, size)
  PROVE  FilesInvariant'
<1> DEFINE r == [Idle EXCEPT !.pc = "create", !.path = name, !.size = size]
<1>1. proc' = [proc EXCEPT ![p] = r] /\ files' = files /\ levels' = levels
  BY Zenon DEF TempFile, Step
<1>2. r \in Process /\ r.pc = "create" /\ r.done = 0
  <2>1. size \in Nat
    BY FileConstants
  <2>2. Idle \in Process /\ Idle.done = 0
    BY IdleFacts
  <2>. QED
    BY <2>1, <2>2 DEF Process, Working
<1> HIDE DEF r
<1>3. ~Owns(r) /\ Progress(p, r, files[r.path]) /\ Levels(r, levels)
  BY <1>2 DEF Owns, Progress, Levels
<1>. QED
  BY <1>1, <1>2, <1>3, QuietStep, Zenon

LEMMA CreateFileStep ==
  ASSUME FilesInvariant, NEW p \in Procs, NEW ok \in BOOLEAN, CreateFile(p, ok)
  PROVE  FilesInvariant'
<1> DEFINE me == proc[p]
<1>1. me \in Process /\ me.pc = "create" /\ levels' = levels
  BY DEF CreateFile, At, FilesInvariant, FilesTypes
<1>2. Progress(p, me, files[me.path])
  BY Zenon DEF FilesInvariant
<1>3. CASE ok /\ Exclusive(me.path)
  <2> DEFINE r == [me EXCEPT !.pc = IF me.size = 0 THEN "file" ELSE "open"]
  <2>1. proc' = [proc EXCEPT ![p] = r] /\ files' = Put(files, me.path, <<>>)
    BY <1>3, Zenon DEF CreateFile, Step
  <2>2. /\ r \in Process /\ r.pc = (IF me.size = 0 THEN "file" ELSE "open")
        /\ r.path = me.path /\ r.size = me.size /\ r.done = me.done
    BY <1>1 DEF Process, Working
  <2>3. me.path \notin DOMAIN files
    BY <1>3 DEF Exclusive
  <2>4. me.done = 0
    BY <1>1, <1>2 DEF Progress
  <2>5. <<>> = Content(p, 0)
    BY DEF Content
  <2> HIDE DEF r
  <2>6. Progress(p, r, <<>>) /\ Levels(r, levels)
    BY <2>2, <2>4, <2>5 DEF Progress, Levels
  <2>. QED
    BY <1>1, <2>1, <2>2, <2>3, <2>6, PutStep, Zenon
<1>4. CASE ~(ok /\ Exclusive(me.path))
  <2> DEFINE r == [me EXCEPT !.pc = "file", !.valid = FALSE]
  <2>1. proc' = [proc EXCEPT ![p] = r] /\ files' = files
    BY <1>4, Zenon DEF CreateFile, Step
  <2>2. r \in Process /\ r.pc = "file" /\ r.valid = FALSE
    BY <1>1 DEF Process, Working
  <2> HIDE DEF r
  <2>3. ~Owns(r) /\ Progress(p, r, files[r.path]) /\ Levels(r, levels)
    BY <2>2 DEF Owns, Progress, Levels
  <2>. QED
    BY <1>1, <2>1, <2>2, <2>3, QuietStep, Zenon
<1>. QED
  BY <1>3, <1>4

LEMMA WriteOpenStep ==
  ASSUME FilesInvariant, NEW p \in Procs, NEW ok \in BOOLEAN, WriteOpen(p, ok)
  PROVE  FilesInvariant'
<1> DEFINE me == proc[p]
<1>1. me \in Process /\ me.pc = "open" /\ levels' = levels
  BY DEF WriteOpen, At, FilesInvariant, FilesTypes
<1>2. Progress(p, me, files[me.path])
  BY Zenon DEF FilesInvariant
<1>3. CASE ok
  <2> DEFINE r == [me EXCEPT !.pc = "write"]
  <2>1. proc' = [proc EXCEPT ![p] = r] /\ files' = Put(files, me.path, <<>>)
    BY <1>3, Zenon DEF WriteOpen, Step
  <2>2. /\ r \in Process /\ r.pc = "write" /\ r.path = me.path /\ r.done = me.done
    BY <1>1 DEF Process, Working
  <2>3. Owns(me)
    BY <1>1 DEF Owns
  <2>4. me.done = 0
    BY <1>1, <1>2 DEF Progress
  <2>5. <<>> = Content(p, 0)
    BY DEF Content
  <2> HIDE DEF r
  <2>6. Progress(p, r, <<>>) /\ Levels(r, levels)
    BY <2>2, <2>4, <2>5 DEF Progress, Levels
  <2>. QED
    BY <1>1, <2>1, <2>2, <2>3, <2>6, PutStep, Zenon
<1>4. CASE ~ok
  <2> DEFINE r == [me EXCEPT !.pc = "file", !.valid = FALSE]
  <2>1. proc' = [proc EXCEPT ![p] = r] /\ files' = files
    BY <1>4, Zenon DEF WriteOpen, Step
  <2>2. r \in Process /\ r.pc = "file" /\ r.valid = FALSE
    BY <1>1 DEF Process, Working
  <2> HIDE DEF r
  <2>3. ~Owns(r) /\ Progress(p, r, files[r.path]) /\ Levels(r, levels)
    BY <2>2 DEF Owns, Progress, Levels
  <2>. QED
    BY <1>1, <2>1, <2>2, <2>3, QuietStep, Zenon
<1>. QED
  BY <1>3, <1>4

LEMMA WriteSomeStep ==
  ASSUME FilesInvariant, NEW p \in Procs, NEW k \in Nat, WriteSome(p, k)
  PROVE  FilesInvariant'
<1> DEFINE me == proc[p]
           bytes == SubSeq(files[me.path], 1, me.done) \o Content(p, k)
<1>1. me \in Process /\ me.pc = "write" /\ levels' = levels /\ k <= me.size - me.done
  BY DEF WriteSome, At, FilesInvariant, FilesTypes
<1>2. Owns(me)
  BY <1>1 DEF Owns
<1>3. me.path \in DOMAIN files /\ files[me.path] = Content(p, me.done)
  <2>1. Progress(p, me, files[me.path])
    BY Zenon DEF FilesInvariant
  <2>2. me.path \in DOMAIN files
    BY <1>2, Zenon DEF FilesInvariant, OneOwner
  <2>. QED
    BY <1>1, <2>1, <2>2, Zenon DEF Progress
<1>4. me.done \in Nat /\ me.size \in Nat
  BY <1>1 DEF Process
<1>5. bytes = Content(p, me.done + k)
  <2> DEFINE n == me.done
  <2>1. n \in Nat /\ files[me.path] = Content(p, n)
    BY <1>3, <1>4
  <2> HIDE DEF n
  <2>2. /\ SubSeq(Content(p, n), 1, n) = Content(p, n)
        /\ Content(p, n) \o Content(p, k) = Content(p, n + k)
    BY <2>1, Contents, Zenon
  <2>. QED
    BY <2>1, <2>2, Zenon DEF n
<1>6. files' = Put(files, me.path, bytes)
  BY <1>3, Zenon DEF WriteSome
<1> HIDE DEF bytes
<1>7. CASE me.done + k = me.size
  <2> DEFINE r == [me EXCEPT !.pc = "file", !.done = 0]
  <2>1. proc' = [proc EXCEPT ![p] = r]
    BY <1>7, Zenon DEF WriteSome, Step, Written
  <2>2. r \in Process /\ r.pc = "file" /\ r.path = me.path /\ r.size = me.size
    BY <1>1 DEF Process, Working
  <2> HIDE DEF r
  <2>3. Progress(p, r, bytes) /\ Levels(r, levels)
    BY <1>5, <1>7, <2>2 DEF Progress, Levels
  <2>. QED
    BY <1>1, <1>2, <1>6, <2>1, <2>2, <2>3, PutStep, Zenon
<1>8. CASE me.done + k # me.size
  <2> DEFINE r == [me EXCEPT !.done = me.done + k]
  <2>1. proc' = [proc EXCEPT ![p] = r]
    BY <1>8, Zenon DEF WriteSome, Step, Written
  <2>2. r \in Process /\ r.pc = "write" /\ r.path = me.path /\ r.done = me.done + k
    <3> DEFINE v == me.done + k
    <3>1. v \in Nat
      BY <1>4
    <3> HIDE DEF v
    <3>2. [me EXCEPT !.done = v] \in Process /\ [me EXCEPT !.done = v].done = v
      BY <1>1, <3>1 DEF Process
    <3>3. [me EXCEPT !.done = v].pc = me.pc /\ [me EXCEPT !.done = v].path = me.path
      BY <1>1 DEF Process
    <3>. QED
      BY <1>1, <3>2, <3>3 DEF v
  <2> HIDE DEF r
  <2>3. Progress(p, r, bytes) /\ Levels(r, levels)
    BY <1>5, <2>2 DEF Progress, Levels
  <2>. QED
    BY <1>1, <1>2, <1>6, <2>1, <2>2, <2>3, PutStep, Zenon
<1>. QED
  BY <1>7, <1>8

LEMMA ReadOpenStep ==
  ASSUME FilesInvariant, NEW p \in Procs, NEW ok \in BOOLEAN, ReadOpen(p, ok)
  PROVE  FilesInvariant'
<1> DEFINE me == proc[p]
<1>1. me \in Process /\ me.pc = "file" /\ me.valid = TRUE /\ levels' = levels /\ files' = files
  <2>1. me \in Process /\ me.valid \in BOOLEAN
    BY DEF FilesInvariant, FilesTypes, Process
  <2>. QED
    BY <2>1, Zenon DEF ReadOpen, At
<1>2. Owns(me)
  BY <1>1 DEF Owns
<1>3. files[me.path] = Content(p, me.size) /\ me.size \in Nat
  <2>1. Progress(p, me, files[me.path])
    BY Zenon DEF FilesInvariant
  <2>2. me.size \in Nat
    BY <1>1 DEF Process
  <2>. QED
    BY <1>1, <2>1, <2>2, Zenon DEF Progress
<1>4. Len(files[me.path]) = me.size /\ <<>> = Content(p, 0)
  <2>1. <<>> = Content(p, 0)
    BY DEF Content
  <2> DEFINE n == me.size
  <2>2. n \in Nat /\ files[me.path] = Content(p, n)
    BY <1>3
  <2> HIDE DEF n
  <2>3. Len(Content(p, n)) = n
    BY <2>2, Contents
  <2>. QED
    BY <2>1, <2>2, <2>3 DEF n
<1>5. CASE ok
  <2> DEFINE r == [me EXCEPT !.pc = "read", !.st_size = Len(files[me.path]),
                             !.done = 0, !.seen = <<>>, !.failed = FALSE]
  <2>1. proc' = [proc EXCEPT ![p] = r]
    BY <1>5, Zenon DEF ReadOpen, Step
  <2>2. /\ r \in Process /\ r.pc = "read" /\ r.path = me.path /\ r.size = me.size
        /\ r.st_size = me.size /\ r.done = 0 /\ r.seen = <<>> /\ r.failed = FALSE
    <3> DEFINE v == Len(files[me.path])
               e == <<>>
    <3>1. v \in Nat /\ v = me.size /\ e \in Seq(Procs)
      BY <1>3, <1>4
    <3> HIDE DEF v, e
    <3>2. [me EXCEPT !.pc = "read", !.st_size = v, !.done = 0, !.seen = e, !.failed = FALSE] \in Process
      BY <1>1, <3>1 DEF Process, Working
    <3>3. /\ r.pc = "read" /\ r.path = me.path /\ r.size = me.size
          /\ r.st_size = v /\ r.done = 0 /\ r.seen = e /\ r.failed = FALSE
      BY <1>1 DEF Process, v, e
    <3>. QED
      BY <3>1, <3>2, <3>3 DEF v, e
  <2> HIDE DEF r
  <2>3. Progress(p, r, files[r.path]) /\ Levels(r, levels)
    BY <1>3, <1>4, <2>2 DEF Progress, Levels
  <2>. QED
    BY <1>1, <1>2, <2>1, <2>2, <2>3, QuietStep, Zenon
<1>6. CASE ~ok
  <2> DEFINE r == [me EXCEPT !.seen = <<>>, !.failed = TRUE]
  <2>1. proc' = [proc EXCEPT ![p] = r]
    BY <1>6, Zenon DEF ReadOpen, Step
  <2>2. r \in Process /\ r.pc = "file" /\ r.path = me.path /\ r.size = me.size
    <3> DEFINE e == <<>>
    <3>1. e \in Seq(Procs)
      OBVIOUS
    <3> HIDE DEF e
    <3>2. [me EXCEPT !.seen = e, !.failed = TRUE] \in Process
      BY <1>1, <3>1 DEF Process
    <3>3. r.pc = me.pc /\ r.path = me.path /\ r.size = me.size
      BY <1>1 DEF Process
    <3>. QED
      BY <1>1, <3>2, <3>3 DEF e
  <2> HIDE DEF r
  <2>3. Progress(p, r, files[r.path]) /\ Levels(r, levels)
    BY <1>3, <2>2 DEF Progress, Levels
  <2>. QED
    BY <1>1, <1>2, <2>1, <2>2, <2>3, QuietStep, Zenon
<1>. QED
  BY <1>5, <1>6

LEMMA Reading ==
  ASSUME FilesInvariant, NEW p \in Procs, proc[p].pc = "read"
  PROVE  /\ proc[p] \in Process /\ Owns(proc[p])
         /\ proc[p].size \in Nat /\ proc[p].done \in Nat /\ proc[p].st_size = proc[p].size
         /\ proc[p].done <= proc[p].size /\ proc[p].failed = FALSE
         /\ files[proc[p].path] = Content(p, proc[p].size)
         /\ proc[p].seen = Content(p, proc[p].done)
<1>1. proc[p] \in Process /\ Progress(p, proc[p], files[proc[p].path])
  BY DEF FilesInvariant, FilesTypes
<1>2. proc[p].size \in Nat /\ proc[p].done \in Nat
  BY <1>1 DEF Process
<1>3. Owns(proc[p])
  BY DEF Owns
<1>. QED
  BY <1>1, <1>2, <1>3 DEF Progress

LEMMA ReadSomeStep ==
  ASSUME FilesInvariant, NEW p \in Procs, NEW k \in Nat, ReadSome(p, k)
  PROVE  FilesInvariant'
<1> DEFINE me == proc[p]
           d == me.done + k
           r == [me EXCEPT !.done = me.done + k,
                           !.seen = me.seen \o SubSeq(files[me.path], me.done + 1, me.done + k),
                           !.pc = IF me.done + k = me.st_size THEN "seen" ELSE "read"]
<1>1. me.pc = "read" /\ levels' = levels /\ files' = files /\ k <= me.st_size - me.done
  BY DEF ReadSome, At
<1>2. /\ me \in Process /\ Owns(me) /\ me.size \in Nat /\ me.done \in Nat /\ me.st_size = me.size
      /\ me.done <= me.size /\ me.failed = FALSE
      /\ files[me.path] = Content(p, me.size) /\ me.seen = Content(p, me.done)
  BY <1>1, Reading
<1>3. [me EXCEPT !.done = @ + k].done = me.done + k /\ [me EXCEPT !.done = @ + k].st_size = me.st_size
  BY <1>2 DEF Process
<1>4. proc' = [proc EXCEPT ![p] = r]
  BY <1>3 DEF ReadSome, Step, AllRead
<1>5. SubSeq(files[me.path], me.done + 1, me.done + k) = Content(p, k)
  <2> DEFINE n == me.done
             m == me.size
  <2>1. n \in Nat /\ m \in Nat /\ n + k <= m
    BY <1>1, <1>2
  <2> HIDE DEF n, m
  <2>2. SubSeq(Content(p, m), n + 1, n + k) = Content(p, k)
    BY <2>1, ContentPart
  <2>. QED
    BY <1>2, <2>2 DEF n, m
<1>6. me.seen \o Content(p, k) = Content(p, d) /\ Content(p, d) \in Seq(Procs) /\ Len(Content(p, d)) = d
  <2> DEFINE n == me.done
  <2>1. n \in Nat /\ n + k \in Nat
    BY <1>2
  <2> HIDE DEF n
  <2>2. /\ Content(p, n) \o Content(p, k) = Content(p, n + k)
        /\ Content(p, n + k) \in Seq(Procs) /\ Len(Content(p, n + k)) = n + k
    BY <2>1, Contents
  <2>. QED
    BY <1>2, <2>2 DEF n
<1>7. d \in Nat /\ d <= me.size
  BY <1>1, <1>2
<1>8. /\ r \in Process /\ r.pc = (IF d = me.size THEN "seen" ELSE "read") /\ r.path = me.path /\ r.size = me.size
      /\ r.st_size = me.size /\ r.done = d /\ r.seen = Content(p, d) /\ r.failed = FALSE
  BY <1>2, <1>5, <1>6, <1>7 DEF Process, Working
<1> HIDE DEF r, d
<1>9. Progress(p, r, files[r.path]) /\ Levels(r, levels) /\ Owns(r)
  BY <1>2, <1>6, <1>7, <1>8 DEF Progress, Levels, Owns
<1>. QED
  BY <1>1, <1>2, <1>4, <1>8, <1>9, QuietStep, Zenon

LEMMA ReadEndStep ==
  ASSUME FilesInvariant, NEW p \in Procs, NEW ok \in BOOLEAN, ReadEnd(p, ok)
  PROVE  FilesInvariant'
<1> DEFINE me == proc[p]
           r == [me EXCEPT !.pc = "seen", !.failed = ~ok]
<1>1. /\ me.pc = "read" /\ levels' = levels /\ files' = files /\ proc' = [proc EXCEPT ![p] = r]
      /\ ok = (me.done = me.st_size)
  BY Zenon DEF ReadEnd, At, Step
<1>2. /\ me \in Process /\ Owns(me) /\ me.size \in Nat /\ me.done \in Nat /\ me.st_size = me.size
      /\ files[me.path] = Content(p, me.size) /\ me.seen = Content(p, me.done)
  BY <1>1, Reading
<1>3. Len(me.seen) = me.done
  <2> DEFINE n == me.done
  <2>1. n \in Nat /\ me.seen = Content(p, n)
    BY <1>2
  <2> HIDE DEF n
  <2>2. Len(Content(p, n)) = n
    BY <2>1, Contents
  <2>. QED
    BY <2>1, <2>2 DEF n
<1>4. r \in Process /\ r.pc = "seen" /\ r.path = me.path /\ r.size = me.size /\ r.seen = me.seen /\ r.failed = ~ok
  BY <1>2 DEF Process, Working
<1>5. r.failed = FALSE => me.done = me.size
  BY <1>1, <1>2, <1>4, Zenon
<1> HIDE DEF r
<1>6. Progress(p, r, files[r.path]) /\ Levels(r, levels)
  BY <1>2, <1>3, <1>4, <1>5 DEF Progress, Levels
<1>. QED
  BY <1>1, <1>2, <1>4, <1>6, QuietStep, Zenon

LEMMA ReadDoneStep ==
  ASSUME FilesInvariant, NEW p \in Procs, ReadDone(p)
  PROVE  FilesInvariant'
<1> DEFINE me == proc[p]
           r == [me EXCEPT !.pc = "file", !.done = 0, !.seen = <<>>]
<1>1. me.pc = "seen" /\ levels' = levels /\ files' = files /\ proc' = [proc EXCEPT ![p] = r]
  BY Zenon DEF ReadDone, At, Step
<1>2. me \in Process /\ Progress(p, me, files[me.path])
  BY DEF FilesInvariant, FilesTypes
<1>3. files[me.path] = Content(p, me.size) /\ Owns(me)
  BY <1>1, <1>2 DEF Progress, Owns
<1>4. r \in Process /\ r.pc = "file" /\ r.path = me.path /\ r.size = me.size
  <2> DEFINE e == <<>>
  <2>1. e \in Seq(Procs)
    OBVIOUS
  <2> HIDE DEF e
  <2>2. [me EXCEPT !.pc = "file", !.done = 0, !.seen = e] \in Process
    BY <1>2, <2>1 DEF Process, Working
  <2>3. r.pc = "file" /\ r.path = me.path /\ r.size = me.size
    BY <1>2 DEF Process
  <2>. QED
    BY <2>2, <2>3 DEF e
<1> HIDE DEF r
<1>5. Progress(p, r, files[r.path]) /\ Levels(r, levels)
  BY <1>3, <1>4 DEF Progress, Levels
<1>. QED
  BY <1>1, <1>3, <1>4, <1>5, QuietStep, Zenon

\* A step after which p has no file any more, and which leaves the others'.
LEMMA DropStep ==
  ASSUME FilesInvariant, NEW p \in Procs, proc' = [proc EXCEPT ![p] = Idle], levels' = levels,
         \A n \in DOMAIN files : (n \in DOMAIN files' /\ files'[n] = files[n])
                                 \/ (n = proc[p].path /\ Owns(proc[p]))
  PROVE  FilesInvariant'
<1>1. levels' \in Path /\ Grown(levels, levels')
  BY PathStays, Zenon DEF FilesInvariant, FilesTypes
<1>2. Idle \in Process /\ ~Owns(Idle) /\ Progress(p, Idle, files'[Idle.path]) /\ Levels(Idle, levels')
  BY IdleFacts, Zenon
<1>. QED
  BY <1>1, <1>2, OwnStep, Zenon

LEMMA WriteFailStep ==
  ASSUME FilesInvariant, NEW p \in Procs, WriteFail(p)
  PROVE  FilesInvariant'
<1> DEFINE me == proc[p]
           r == [me EXCEPT !.pc = "file", !.valid = FALSE, !.done = 0]
<1>1. levels' = levels /\ files' = files /\ proc' = [proc EXCEPT ![p] = r]
  BY Zenon DEF WriteFail, Step
<1>2. me \in Process
  BY DEF FilesInvariant, FilesTypes
<1>3. r \in Process /\ r.pc = "file" /\ r.valid = FALSE
  BY <1>2 DEF Process, Working
<1> HIDE DEF r
<1>4. ~Owns(r) /\ Progress(p, r, files[r.path]) /\ Levels(r, levels)
  BY <1>3 DEF Owns, Progress, Levels
<1>. QED
  BY <1>1, <1>3, <1>4, QuietStep, Zenon

LEMMA DestroyFileStep ==
  ASSUME FilesInvariant, NEW p \in Procs, NEW ok \in BOOLEAN, DestroyFile(p, ok)
  PROVE  FilesInvariant'
<1> DEFINE me == proc[p]
<1>1. me.pc = "file" /\ levels' = levels /\ proc' = [proc EXCEPT ![p] = Idle]
  BY Zenon DEF DestroyFile, At, Step
<1>2. CASE ok /\ me.valid
  <2> DEFINE name == me.path
  <2>1. files' = Without(files, name)
    BY <1>2, Zenon DEF DestroyFile
  <2>2. me.valid \in BOOLEAN
    BY DEF FilesInvariant, FilesTypes, Process
  <2>3. Owns(me)
    BY <1>1, <1>2, <2>2, Zenon DEF Owns
  <2> HIDE DEF name
  <2>4. DOMAIN files' = DOMAIN files \ {name} /\ \A n \in DOMAIN files : n # name => files'[n] = files[n]
    BY <2>1 DEF Without
  <2>5. \A n \in DOMAIN files : n # name => n \in DOMAIN files' /\ files'[n] = files[n]
    BY <2>4, Zenon
  <2>. QED
    BY <1>1, <2>3, <2>5, DropStep, Zenon DEF name
<1>3. CASE ~(ok /\ me.valid)
  <2>1. files' = files
    BY <1>3, Zenon DEF DestroyFile
  <2>. QED
    BY <1>1, <2>1, DropStep, Zenon
<1>. QED
  BY <1>2, <1>3

LEMMA LeaveStep ==
  ASSUME FilesInvariant, NEW p \in Procs, proc' = [proc EXCEPT ![p] = Idle], files' = files, levels' = levels
  PROVE  FilesInvariant'
BY DropStep, Zenon

LEMMA TempDirStep ==
  ASSUME FilesInvariant, NEW p \in Procs, NEW name \in TempNames, NEW ok \in BOOLEAN, TempDir(p, name, ok)
  PROVE  FilesInvariant'
<1> DEFINE r == [Idle EXCEPT !.pc = "dir", !.path = name, !.valid = ok]
<1>1. proc' = [proc EXCEPT ![p] = r] /\ files' = files /\ levels' = levels
  BY Zenon DEF TempDir, Step
<1>2. r \in Process /\ r.pc = "dir"
  BY IdleFacts DEF Process, Working
<1> HIDE DEF r
<1>3. ~Owns(r) /\ Progress(p, r, files[r.path]) /\ Levels(r, levels)
  BY <1>2 DEF Owns, Progress, Levels
<1>. QED
  BY <1>1, <1>2, <1>3, QuietStep, Zenon

LEMMA PutFileStep ==
  ASSUME FilesInvariant, PutFile
  PROVE  FilesInvariant'
<1>1. /\ levels \in Path /\ levels.dirs < Depth /\ levels.file = FALSE
      /\ levels' = [levels EXCEPT !.file = TRUE] /\ proc' = proc /\ files' = files
  BY DEF FilesInvariant, FilesTypes, PutFile, Path
<1>2. levels' \in Path /\ Grown(levels, levels')
  <2>1. levels' \in [dirs : 0..Depth, file : BOOLEAN] /\ levels'.dirs = levels.dirs
    BY <1>1 DEF Path
  <2>2. levels.dirs \in Nat
    BY <1>1, PathNumbers
  <2>. QED
    BY <1>1, <2>1, <2>2 DEF Path, Grown
<1>3. ASSUME NEW p \in Procs PROVE Levels(proc[p], levels')
  <2>1. proc[p] \in Process /\ Levels(proc[p], levels)
    BY DEF FilesInvariant, FilesTypes
  <2>. QED
    BY <1>1, <1>2, <2>1, LevelsStay
<1>. QED
  BY <1>1, <1>2, <1>3, Zenon DEF FilesInvariant, FilesTypes, OneOwner

\* done calls of the loop are behind me: it goes on, or has come to its end.
LEMMA ReachedFacts ==
  ASSUME NEW me \in Process, me.done <= Depth
  PROVE  LET r == Reached(me) IN
         /\ r \in Process /\ r.pc \in {"check", "made"} /\ (r.pc = "made" <=> r.done = Depth)
         /\ r.done = me.done /\ r.result = me.result /\ r.failed = me.failed
<1> DEFINE at == IF me.done = Depth THEN "made" ELSE "check"
           r == [me EXCEPT !.pc = at]
<1>1. at \in Working /\ at \in {"check", "made"} /\ (at = "made" <=> me.done = Depth)
  BY DEF Working
<1>2. Reached(me) = r
  BY DEF Reached
<1> HIDE DEF at
<1>3. r \in Process
  BY <1>1 DEF Process
<1>4. r.pc = at /\ r.done = me.done /\ r.result = me.result /\ r.failed = me.failed
  BY DEF Process
<1> HIDE DEF r
<1>. QED
  BY <1>1, <1>2, <1>3, <1>4

LEMMA CreateDirectoriesStep ==
  ASSUME FilesInvariant, NEW p \in Procs, CreateDirectories(p)
  PROVE  FilesInvariant'
<1> DEFINE r == Reached(Idle)
<1>1. proc' = [proc EXCEPT ![p] = r] /\ files' = files /\ levels' = levels
  BY Zenon DEF CreateDirectories, Step
<1>2. Idle \in Process /\ Idle.done = 0 /\ Idle.result = 0 /\ Idle.failed = FALSE /\ 0 <= Depth
  BY IdleFacts, FileConstants
<1>3. /\ r \in Process /\ r.pc \in {"check", "made"} /\ (r.pc = "made" <=> r.done = Depth)
      /\ r.done = 0 /\ r.result = 0 /\ r.failed = FALSE
  BY <1>2, ReachedFacts
<1> HIDE DEF r
<1>4. 0 <= levels.dirs
  <2>1. levels.dirs \in Nat
    BY PathNumbers DEF FilesInvariant, FilesTypes
  <2>. QED
    BY <2>1
<1>5. ~Owns(r) /\ Progress(p, r, files[r.path])
  BY <1>3 DEF Owns, Progress
<1>6. Levels(r, levels)
  BY <1>2, <1>3, <1>4 DEF Levels
<1>. QED
  BY <1>1, <1>3, <1>5, <1>6, QuietStep, Zenon

LEMMA NextLevelFacts ==
  ASSUME NEW me \in Process, me.done < Depth
  PROVE  LET r == NextLevel(me) IN
         /\ r \in Process /\ r.pc \in {"check", "made"} /\ (r.pc = "made" <=> r.done = Depth)
         /\ r.done = me.done + 1 /\ r.result = me.result /\ r.failed = me.failed
<1> DEFINE v == me.done + 1
           m == [me EXCEPT !.done = v]
<1>1. v \in Nat /\ v <= Depth
  <2>1. me.done \in Nat /\ Depth \in Nat
    BY PathNumbers DEF Process
  <2>. QED
    BY <2>1
<1>2. NextLevel(me) = Reached(m)
  BY DEF NextLevel
<1> HIDE DEF v
<1>3. m \in Process /\ m.done = v /\ m.result = me.result /\ m.failed = me.failed
  BY <1>1 DEF Process
<1> HIDE DEF m
<1>4. LET r == Reached(m) IN
      /\ r \in Process /\ r.pc \in {"check", "made"} /\ (r.pc = "made" <=> r.done = Depth)
      /\ r.done = m.done /\ r.result = m.result /\ r.failed = m.failed
  BY <1>1, <1>3, ReachedFacts
<1>. QED
  BY <1>2, <1>3, <1>4 DEF v

LEMMA CheckLevelStep ==
  ASSUME FilesInvariant, NEW p \in Procs, CheckLevel(p)
  PROVE  FilesInvariant'
<1> DEFINE me == proc[p]
<1>1. me \in Process /\ Levels(me, levels) /\ levels \in Path
  BY DEF FilesInvariant, FilesTypes
<1>2. me.pc = "check" /\ files' = files /\ levels' = levels
  BY Zenon DEF CheckLevel, At
<1>3. /\ me.done \in Nat /\ me.result \in Nat /\ me.failed \in BOOLEAN
      /\ levels.dirs \in Nat /\ Depth \in Nat
  <2>1. me.done \in Nat /\ me.result \in Nat /\ me.failed \in BOOLEAN
    BY <1>1 DEF Process
  <2>. QED
    BY <1>1, <2>1, PathNumbers
<1>4. me.done < Depth
  BY <1>1, <1>2, <1>3 DEF Levels
<1>5. CASE me.done < levels.dirs
  <2> DEFINE r == NextLevel(me)
  <2>1. proc' = [proc EXCEPT ![p] = r]
    BY <1>5, Zenon DEF CheckLevel, Step
  <2>2. /\ r \in Process /\ r.pc \in {"check", "made"} /\ (r.pc = "made" <=> r.done = Depth)
        /\ r.done = me.done + 1 /\ r.result = me.result /\ r.failed = me.failed
    BY <1>1, <1>4, NextLevelFacts
  <2> HIDE DEF r
  <2>3. ~Owns(r) /\ Progress(p, r, files[r.path])
    BY <2>2 DEF Owns, Progress
  <2>4. me.failed = FALSE => me.result = 0 /\ me.done + 1 <= levels.dirs
    BY <1>1, <1>2, <1>3, <1>5 DEF Levels
  <2>5. me.failed = TRUE => me.result > 0
    BY <1>1, <1>2 DEF Levels
  <2>6. me.done + 1 <= Depth
    BY <1>3, <1>4
  <2>7. Levels(r, levels)
    BY <2>2, <2>4, <2>5, <2>6, Zenon DEF Levels
  <2>. QED
    BY <1>2, <2>1, <2>2, <2>3, <2>7, QuietStep, Zenon
<1>6. CASE ~(me.done < levels.dirs)
  <2> DEFINE r == [me EXCEPT !.pc = "mkdir"]
  <2>1. proc' = [proc EXCEPT ![p] = r]
    BY <1>6, Zenon DEF CheckLevel, Step
  <2>2. r \in Process /\ r.pc = "mkdir" /\ r.done = me.done /\ r.result = me.result /\ r.failed = me.failed
    BY <1>1 DEF Process, Working
  <2> HIDE DEF r
  <2>3. ~Owns(r) /\ Progress(p, r, files[r.path])
    BY <2>2 DEF Owns, Progress
  <2>4. Levels(r, levels)
    BY <1>1, <1>2, <2>2 DEF Levels
  <2>. QED
    BY <1>2, <2>1, <2>2, <2>3, <2>4, QuietStep, Zenon
<1>. QED
  BY <1>5, <1>6

LEMMA MakeLevelStep ==
  ASSUME FilesInvariant, NEW p \in Procs, NEW ok \in BOOLEAN, MakeLevel(p, ok)
  PROVE  FilesInvariant'
<1> DEFINE me == proc[p]
           level == me.done + 1
           new == ok /\ level = levels.dirs + 1 /\ ~levels.file
           result == IF ok /\ Accepts(level) THEN me.result ELSE me.result + 1
           failed == me.failed \/ ~ok
           m == [me EXCEPT !.result = result, !.failed = failed]
           r == NextLevel(m)
<1>1. me \in Process /\ Levels(me, levels) /\ levels \in Path
  BY DEF FilesInvariant, FilesTypes
<1>2. /\ me.pc = "mkdir" /\ files' = files /\ proc' = [proc EXCEPT ![p] = r]
      /\ levels' = IF new THEN [levels EXCEPT !.dirs = level] ELSE levels
  BY Zenon DEF MakeLevel, At, Step
<1>3. /\ me.done \in Nat /\ me.result \in Nat /\ level \in Nat
      /\ levels.dirs \in Nat /\ levels.dirs \in 0..Depth /\ Depth \in Nat
  <2>1. me.done \in Nat /\ me.result \in Nat
    BY <1>1 DEF Process
  <2>2. levels.dirs \in Nat /\ levels.dirs \in 0..Depth /\ Depth \in Nat
    BY <1>1, PathNumbers
  <2>. QED
    BY <2>1, <2>2
<1>4. me.failed \in BOOLEAN /\ levels.file \in BOOLEAN
  <2>1. me.failed \in BOOLEAN
    BY <1>1 DEF Process
  <2>. QED
    BY <1>1, <2>1, PathNumbers
<1>5. me.done < Depth /\ level <= Depth
  BY <1>1, <1>2, <1>3 DEF Levels
<1>6. failed = FALSE => ok /\ me.failed = FALSE
  BY <1>4, Zenon
<1>7. me.failed = FALSE => \/ me.done <= levels.dirs /\ me.result = 0
                           \/ /\ levels.file = TRUE /\ levels.dirs < me.done
                              /\ me.result = me.done - (levels.dirs + 1)
  BY <1>1, <1>2, Zenon DEF Levels
<1>8. me.failed = TRUE => me.result > 0
  BY <1>1, <1>2, Zenon DEF Levels
<1>9. /\ levels' \in Path /\ Grown(levels, levels')
      /\ new => levels'.dirs = level /\ levels'.file = levels.file
      /\ ~new => levels' = levels
  <2>1. CASE new
    <3>1. levels' = [levels EXCEPT !.dirs = level] /\ levels.file = FALSE /\ level = levels.dirs + 1
      BY <1>2, <1>4, <2>1, Zenon
    <3>2. level \in 0..Depth
      BY <1>3, <1>5
    <3> HIDE DEF level
    <3>3. levels'.dirs = level /\ levels'.file = levels.file /\ levels' \in [dirs : 0..Depth, file : BOOLEAN]
      BY <1>1, <3>1, <3>2 DEF Path
    <3>. QED
      BY <1>3, <2>1, <3>1, <3>3 DEF Path, Grown
  <2>2. CASE ~new
    BY <1>1, <1>2, <2>2, PathStays, Zenon
  <2>. QED
    BY <2>1, <2>2
<1>10. result \in Nat /\ (~ok => result > 0) /\ (me.result > 0 => result > 0)
  BY <1>3
<1>11. failed \in BOOLEAN /\ (failed = TRUE => result > 0)
  BY <1>4, <1>8, <1>10, Zenon
<1>12. failed = FALSE => \/ level <= levels'.dirs /\ result = 0
                         \/ /\ levels'.file = TRUE /\ levels'.dirs < level
                            /\ result = level - (levels'.dirs + 1)
  <2>1. SUFFICES ASSUME ok, me.failed = FALSE
                 PROVE  \/ level <= levels'.dirs /\ result = 0
                        \/ /\ levels'.file = TRUE /\ levels'.dirs < level
                           /\ result = level - (levels'.dirs + 1)
    BY <1>6, Zenon
  <2>2. result = IF me.done <= levels.dirs THEN me.result ELSE me.result + 1
    BY <1>3, <2>1 DEF Accepts
  <2> HIDE DEF result
  <2>3. CASE new
    BY <1>3, <1>7, <1>9, <2>1, <2>2, <2>3
  <2>4. CASE ~new /\ me.done < levels.dirs
    BY <1>3, <1>7, <1>9, <2>1, <2>2, <2>4
  <2>5. CASE ~new /\ ~(me.done < levels.dirs)
    <3>1. levels.file = TRUE
      <4>1. me.done > levels.dirs => levels.file = TRUE
        BY <1>3, <1>7, <2>1
      <4>2. me.done = levels.dirs => level = levels.dirs + 1
        OBVIOUS
      <4>3. me.done > levels.dirs \/ me.done = levels.dirs
        BY <1>3, <2>5
      <4>. QED
        BY <1>4, <2>1, <2>5, <4>1, <4>2, <4>3, Zenon
    <3>. QED
      BY <1>3, <1>7, <1>9, <2>1, <2>2, <2>5, <3>1
  <2>. QED
    BY <2>3, <2>4, <2>5
<1> HIDE DEF result, failed, new
<1>13. m \in Process /\ m.done = me.done /\ m.result = result /\ m.failed = failed
  <2>1. m \in Process
    BY <1>1, <1>10, <1>11 DEF Process
  <2>2. m.done = me.done /\ m.result = result /\ m.failed = failed
    BY <1>1 DEF Process
  <2>. QED
    BY <2>1, <2>2
<1> HIDE DEF m
<1>14. /\ r \in Process /\ r.pc \in {"check", "made"} /\ (r.pc = "made" <=> r.done = Depth)
       /\ r.done = m.done + 1 /\ r.result = m.result /\ r.failed = m.failed
  BY <1>5, <1>13, NextLevelFacts
<1> HIDE DEF r
<1>15. r.done = level /\ r.result = result /\ r.failed = failed
  BY <1>13, <1>14
<1> HIDE DEF level
<1>16. ~Owns(r) /\ Progress(p, r, files'[r.path])
  BY <1>14 DEF Owns, Progress
<1>17. Levels(r, levels')
  BY <1>5, <1>11, <1>12, <1>14, <1>15, Zenon DEF Levels
<1>18. \A n \in DOMAIN files : n \in DOMAIN files' /\ files'[n] = files[n]
  BY <1>2, Zenon
<1>. QED
  BY <1>2, <1>9, <1>14, <1>16, <1>17, <1>18, OwnStep, Zenon

LEMMA FilesStep ==
  ASSUME FilesInvariant, [FilesNext]_fileVars
  PROVE  FilesInvariant'
<1>1. CASE UNCHANGED fileVars
  BY <1>1, Zenon DEF fileVars, FilesInvariant, FilesTypes, OneOwner
<1>2. CASE FilesNext
  <2>1. CASE FilesOver
    BY <1>1, <2>1, Zenon DEF FilesOver
  <2>9. CASE PutFile
    BY <2>9, PutFileStep
  <2>2. ASSUME NEW p \in Procs, NEW name \in TempNames, NEW size \in Sizes, TempFile(p, name, size)
        PROVE  FilesInvariant'
    BY <2>2, TempFileStep
  <2>3. ASSUME NEW p \in Procs, NEW ok \in BOOLEAN,
               \/ CreateFile(p, ok) \/ WriteOpen(p, ok) \/ ReadOpen(p, ok)
               \/ ReadEnd(p, ok) \/ DestroyFile(p, ok) \/ MakeLevel(p, ok)
        PROVE  FilesInvariant'
    BY <2>3, CreateFileStep, WriteOpenStep, ReadOpenStep, ReadEndStep, DestroyFileStep, MakeLevelStep, Zenon
  <2>4. ASSUME NEW p \in Procs, NEW ok \in BOOLEAN, DestroyDir(p, ok)
        PROVE  FilesInvariant'
    BY <2>4, LeaveStep, Zenon DEF DestroyDir, Step
  <2>5. ASSUME NEW p \in Procs, NEW ok \in BOOLEAN, NEW name \in TempNames, TempDir(p, name, ok)
        PROVE  FilesInvariant'
    BY <2>5, TempDirStep
  <2>6. ASSUME NEW p \in Procs, NEW size \in Sizes \ {0}, NEW k \in 1..size, WriteSome(p, k) \/ ReadSome(p, k)
        PROVE  FilesInvariant'
    <3>1. k \in Nat
      BY FileConstants
    <3>. QED
      BY <2>6, <3>1, WriteSomeStep, ReadSomeStep, Zenon
  <2>7. ASSUME NEW p \in Procs,
               WriteFail(p) \/ ReadDone(p) \/ CreateDirectories(p) \/ CheckLevel(p)
        PROVE  FilesInvariant'
    BY <2>7, WriteFailStep, ReadDoneStep, CreateDirectoriesStep, CheckLevelStep, Zenon
  <2>8. ASSUME NEW p \in Procs, Return(p) \/ Crash(p)
        PROVE  FilesInvariant'
    BY <2>8, LeaveStep, Zenon DEF Return, Crash, Step
  <2>. QED
    BY <1>2, <2>1, <2>2, <2>3, <2>4, <2>5, <2>6, <2>7, <2>8, <2>9, Zenon DEF FilesNext
<1>. QED
  BY <1>1, <1>2

LEMMA FilesStart == FilesInit => FilesInvariant
<1> SUFFICES ASSUME FilesInit PROVE FilesInvariant
  OBVIOUS
<1>1. proc \in [Procs -> Process] /\ (\A p \in Procs : proc[p] = Idle)
  BY IdleFacts DEF FilesInit
<1>2. levels \in Path
  BY FileConstants DEF FilesInit, Path
<1>. QED
  BY <1>1, <1>2, IdleFacts, Zenon DEF FilesInvariant, FilesTypes, OneOwner

\* The invariant that the two promises of file_util rest on.
THEOREM FilesInvariance == FilesSpec => []FilesInvariant
<1>1. FilesInit => FilesInvariant
  BY FilesStart
<1>2. FilesInvariant /\ [FilesNext]_fileVars => FilesInvariant'
  BY FilesStep
<1>. QED
  BY <1>1, <1>2, PTL DEF FilesSpec

\* However many processes construct TempFiles at once, with whatever names
\* the clock gives them: a valid one's file is there and has its content and
\* nobody else's byte, and read_file returns it (TempFile, create_file,
\* write_file, read_file, ~TempFile).
THEOREM TempFileStaysIntact == FilesSpec => []TempFileIntact
<1>1. FilesInvariant => TempFileIntact
  <2> SUFFICES ASSUME FilesInvariant, NEW p \in Procs
               PROVE  /\ At(p, "file") /\ proc[p].valid =>
                           proc[p].path \in DOMAIN files /\ files[proc[p].path] = Content(p, proc[p].size)
                      /\ At(p, "seen") =>
                           /\ proc[p].seen = Content(p, Len(proc[p].seen))
                           /\ (~proc[p].failed => Len(proc[p].seen) = proc[p].size)
    BY Zenon DEF TempFileIntact
  <2>1. proc[p].valid \in BOOLEAN /\ proc[p].failed \in BOOLEAN
    BY DEF FilesInvariant, FilesTypes, Process
  <2>2. Progress(p, proc[p], files[proc[p].path]) /\ (Owns(proc[p]) => proc[p].path \in DOMAIN files)
    BY Zenon DEF FilesInvariant, OneOwner
  <2>. QED
    BY <2>1, <2>2, Zenon DEF At, Owns, Progress
<1>2. FilesSpec => []FilesInvariant
  BY FilesInvariance
<1>. QED
  BY <1>1, <1>2, PTL

\* create_directories, however many processes make the same levels between its
\* dir_exists and its create_directory: a call of its own that failed makes its
\* result positive; without one the result is 0 and every level is there, or a
\* regular file has the name of one, and the result, the number of levels below
\* it, is 0 if that one is the last.
THEOREM DirectoriesAreMade == FilesSpec => []DirectoriesMade
<1>1. FilesInvariant => DirectoriesMade
  <2> SUFFICES ASSUME FilesInvariant, NEW p \in Procs, At(p, "made")
               PROVE  IF proc[p].failed THEN proc[p].result > 0
                      ELSE \/ levels.dirs = Depth /\ proc[p].result = 0
                           \/ levels.file /\ proc[p].result = Depth - (levels.dirs + 1)
    BY Zenon DEF DirectoriesMade
  <2>1. proc[p].failed \in BOOLEAN
    BY DEF FilesInvariant, FilesTypes, Process
  <2>2. Levels(proc[p], levels) /\ proc[p].pc = "made" /\ levels \in Path
    BY Zenon DEF FilesInvariant, FilesTypes, At
  <2>3. /\ proc[p].done = Depth
        /\ proc[p].failed = TRUE => proc[p].result > 0
        /\ proc[p].failed = FALSE =>
             \/ Depth <= levels.dirs /\ proc[p].result = 0
             \/ levels.file = TRUE /\ proc[p].result = Depth - (levels.dirs + 1)
    BY <2>2, Zenon DEF Levels
  <2>4. Depth <= levels.dirs => levels.dirs = Depth
    BY <2>2, PathNumbers
  <2>. QED
    BY <2>1, <2>3, <2>4, Zenon
<1>2. FilesSpec => []FilesInvariant
  BY FilesInvariance
<1>. QED
  BY <1>1, <1>2, PTL
-----------------------------------------------------------------------------
(* StringRegistry: the arena only grows *)

Texts == Seq(Characters)

LEMMA ArenaGrows ==
  ASSUME NEW a \in Texts, NEW c \in Texts
  PROVE  /\ a \o c \in Texts /\ Len(a \o c) = Len(a) + Len(c)
         /\ SubSeq(a, 1, Len(a)) = a
         /\ SubSeq(a \o c, Len(a) + 1, Len(a) + Len(c)) = c
         /\ \A at, len \in Nat : at + len <= Len(a) =>
              SubSeq(a \o c, at + 1, at + len) = SubSeq(a, at + 1, at + len)
<1> DEFINE b == a \o c
<1>1. /\ b \in Texts /\ Len(b) = Len(a) + Len(c) /\ Len(a) \in Nat /\ Len(c) \in Nat
      /\ \A i \in 1..Len(a) : b[i] = a[i]
      /\ \A i \in 1..Len(c) : b[Len(a) + i] = c[i]
  BY DEF Texts
<1>2. SubSeq(a, 1, Len(a)) = a
  BY DEF Texts
<1> HIDE DEF b
<1>3. SubSeq(b, Len(a) + 1, Len(a) + Len(c)) = c
  <2> DEFINE d == SubSeq(b, Len(a) + 1, Len(a) + Len(c))
  <2>1. d \in Texts /\ Len(d) = Len(c) /\ \A i \in 1..Len(c) : d[i] = b[Len(a) + i]
    BY <1>1 DEF Texts
  <2> HIDE DEF d
  <2>2. \A i \in 1..Len(c) : d[i] = c[i]
    BY <1>1, <2>1
  <2>3. d = c
    BY <2>1, <2>2 DEF Texts
  <2>. QED
    BY <2>3 DEF d
<1>4. ASSUME NEW at \in Nat, NEW len \in Nat, at + len <= Len(a)
      PROVE  SubSeq(b, at + 1, at + len) = SubSeq(a, at + 1, at + len)
  <2> DEFINE d == SubSeq(b, at + 1, at + len)
             e == SubSeq(a, at + 1, at + len)
  <2>1. d \in Texts /\ Len(d) = len /\ \A i \in 1..len : d[i] = b[at + i]
    BY <1>1, <1>4 DEF Texts
  <2>2. e \in Texts /\ Len(e) = len /\ \A i \in 1..len : e[i] = a[at + i]
    BY <1>1, <1>4 DEF Texts
  <2> HIDE DEF d, e
  <2>3. ASSUME NEW i \in 1..len PROVE d[i] = e[i]
    <3>1. at + i \in 1..Len(a)
      BY <1>1, <1>4
    <3>. QED
      BY <1>1, <2>1, <2>2, <3>1
  <2>4. d = e
    BY <2>1, <2>2, <2>3 DEF Texts
  <2>. QED
    BY <2>4 DEF d, e
<1>. QED
  BY <1>1, <1>2, <1>3, <1>4, Zenon DEF b
-----------------------------------------------------------------------------
(* StringRegistry: the inductive invariant *)

View == [of : {"literal", "caller", "arena"}, str : Texts, at : Nat, len : Nat]

Registration == [str : Texts, changes : Nat]

RegistryTypes ==
  /\ hash \in [Strings -> Ids] /\ table_ \in [Ids -> View] /\ last \in [Ids -> Registration]
  /\ callers \in Texts /\ arena \in Texts /\ arena_size_ = Len(arena) /\ changes \in Nat

\* What a view of the caller's memory c or of the arena a reads as.
TextOf(v, c, a) ==
  CASE v.of = "literal" -> v.str
    [] v.of = "caller"  -> [i \in 1..v.len |-> IF i \in DOMAIN c THEN c[i] ELSE "?"]
    [] v.of = "arena"   -> SubSeq(a, v.at + 1, v.at + v.len)

\* The view v reads as the string of the registration l, as long as the caller
\* has not changed what it views: a part of the arena is never written again.
Keeps(v, l, c, a, n) ==
  /\ l.changes <= n
  /\ v.of = "arena" => v.at + v.len <= Len(a)
  /\ TextOf(v, c, a) = l.str \/ (v.of = "caller" /\ l.changes < n)

RegistryInvariant ==
  /\ RegistryTypes
  /\ \A id \in Ids : Keeps(table_[id], last[id], callers, arena, changes)
  /\ table_[kLiteralLogStringId] = Literal(<<>>)

LEMMA RegistryKinds ==
  ASSUME NEW s \in Texts
  PROVE  Literal(s) \in View /\ Literal(s).of = "literal" /\ Literal(s).str = s
<1>1. Len(s) \in Nat
  BY DEF Texts
<1>. QED
  BY <1>1 DEF Literal, View

\* Only a view of the caller's memory reads what is there now, only a view of
\* the arena what is in the arena.
LEMMA TextFacts ==
  ASSUME NEW v \in View, NEW c, NEW a
  PROVE  /\ v.of = "literal" => TextOf(v, c, a) = v.str
         /\ v.of = "arena" => TextOf(v, c, a) = SubSeq(a, v.at + 1, v.at + v.len)
         /\ v.of \notin {"caller"} => \A d : TextOf(v, d, a) = TextOf(v, c, a)
         /\ v.of \notin {"arena"} => \A b : TextOf(v, c, b) = TextOf(v, c, a)
<1>1. v.of \in {"literal", "caller", "arena"}
  BY DEF View
<1>2. CASE v.of = "literal"
  BY <1>2 DEF TextOf
<1>3. CASE v.of = "caller"
  BY <1>3 DEF TextOf
<1>4. CASE v.of = "arena"
  BY <1>4 DEF TextOf
<1>. QED
  BY <1>1, <1>2, <1>3, <1>4

\* One id is registered, and more, perhaps nothing, is appended to the arena.
LEMMA SetStep ==
  ASSUME RegistryInvariant, NEW id \in Ids, id # kLiteralLogStringId,
         NEW v \in View, NEW str \in Texts, Set(id, v), Registered(id, str),
         hash' = hash, callers' = callers, changes' = changes, NEW more \in Texts,
         arena' = arena \o more, arena_size_' = arena_size_ + Len(more),
         v.of = "arena" => v.at + v.len <= Len(arena'), TextOf(v, callers, arena') = str
  PROVE  RegistryInvariant'
<1> DEFINE l == [str |-> str, changes |-> changes]
<1>1. changes \in Nat /\ l \in Registration /\ l.str = str /\ l.changes = changes
  BY DEF Registration, RegistryInvariant, RegistryTypes
<1>2. /\ table_ \in [Ids -> View] /\ last \in [Ids -> Registration]
      /\ callers \in Texts /\ arena \in Texts /\ arena_size_ = Len(arena)
  BY DEF RegistryInvariant, RegistryTypes
<1>3. table_' = [table_ EXCEPT ![id] = v] /\ last' = [last EXCEPT ![id] = l]
  BY Zenon DEF Set, Registered, l
<1> HIDE DEF l
<1>4. /\ table_' \in [Ids -> View] /\ last' \in [Ids -> Registration]
      /\ table_'[id] = v /\ last'[id] = l
      /\ \A i \in Ids : i # id => table_'[i] = table_[i] /\ last'[i] = last[i]
  BY <1>1, <1>2, <1>3
<1>5. /\ arena' \in Texts /\ arena_size_' = Len(arena')
      /\ \A at, len \in Nat : at + len <= Len(arena) =>
           SubSeq(arena', at + 1, at + len) = SubSeq(arena, at + 1, at + len)
      /\ Len(arena) \in Nat /\ Len(arena') = Len(arena) + Len(more) /\ Len(more) \in Nat
  <2>1. Len(arena) \in Nat /\ Len(more) \in Nat
    BY <1>2 DEF Texts
  <2>2. /\ arena \o more \in Texts /\ Len(arena \o more) = Len(arena) + Len(more)
        /\ \A at, len \in Nat : at + len <= Len(arena) =>
              SubSeq(arena \o more, at + 1, at + len) = SubSeq(arena, at + 1, at + len)
    BY <1>2, ArenaGrows
  <2>. QED
    BY <1>2, <2>1, <2>2, Zenon
<1>6. ASSUME NEW i \in Ids, i # id PROVE Keeps(table_[i], last[i], callers, arena', changes)
  <2> DEFINE w == table_[i]
  <2>1. Keeps(w, last[i], callers, arena, changes) /\ w \in View
    BY <1>2 DEF RegistryInvariant
  <2>2. w.at \in Nat /\ w.len \in Nat
    BY <2>1 DEF View
  <2> HIDE DEF w
  <2>3. w.of = "arena" => w.at + w.len <= Len(arena)
    BY <2>1, Zenon DEF Keeps
  <2>4. w.of = "arena" => w.at + w.len <= Len(arena')
    BY <1>5, <2>2, <2>3
  <2>5. TextOf(w, callers, arena') = TextOf(w, callers, arena)
    <3>1. CASE w.of = "arena"
      <4>1. SubSeq(arena', w.at + 1, w.at + w.len) = SubSeq(arena, w.at + 1, w.at + w.len)
        BY <1>5, <2>2, <2>3, <3>1, Zenon
      <4>2. /\ TextOf(w, callers, arena) = SubSeq(arena, w.at + 1, w.at + w.len)
            /\ TextOf(w, callers, arena') = SubSeq(arena', w.at + 1, w.at + w.len)
        BY <2>1, <3>1, TextFacts
      <4>. QED
        BY <4>1, <4>2
    <3>2. CASE w.of # "arena"
      <4>1. \A b : TextOf(w, callers, b) = TextOf(w, callers, arena)
        BY <2>1, <3>2, TextFacts
      <4>. QED
        BY <4>1, Zenon
    <3>. QED
      BY <3>1, <3>2
  <2>. QED
    BY <2>1, <2>4, <2>5, Zenon DEF Keeps, w
<1>7. Keeps(v, l, callers, arena', changes)
  BY <1>1 DEF Keeps
<1>8. \A i \in Ids : Keeps(table_'[i], last'[i], callers', arena', changes')
  BY <1>4, <1>6, <1>7, Zenon
<1>9. table_'[kLiteralLogStringId] = Literal(<<>>)
  <2>1. kLiteralLogStringId \in Ids
    BY RegistryConstants DEF Ids, kLiteralLogStringId
  <2>. QED
    BY <1>4, <2>1, Zenon DEF RegistryInvariant
<1>10. hash' \in [Strings -> Ids] /\ callers' \in Texts /\ changes' \in Nat
  BY <1>1, Zenon DEF RegistryInvariant, RegistryTypes
<1>. QED
  BY <1>4, <1>5, <1>8, <1>9, <1>10, Zenon DEF RegistryInvariant, RegistryTypes, Literal

\* A registration that leaves the arena alone.
LEMMA SameArena ==
  ASSUME RegistryInvariant, arena' = arena, arena_size_' = arena_size_
  PROVE  /\ <<>> \in Texts /\ arena' = arena \o <<>> /\ arena_size_' = arena_size_ + Len(<<>>)
<1>1. <<>> \in Texts /\ Len(<<>>) = 0
  BY DEF Texts
<1>2. arena \in Texts /\ arena_size_ \in Nat
  BY DEF RegistryInvariant, RegistryTypes, Texts
<1>. QED
  BY <1>1, <1>2 DEF Texts

LEMMA RegisterLiteralStep ==
  ASSUME RegistryInvariant, NEW s \in Strings, RegisterLiteral(s)
  PROVE  RegistryInvariant'
<1>1. s \in Texts
  BY RegistryConstants DEF Texts
<1> DEFINE id == get_string_id(s)
<1>2. id \in Ids /\ id # kLiteralLogStringId
  <2>1. hash[s] \in Ids
    BY DEF RegistryInvariant, RegistryTypes
  <2>. QED
    BY <2>1, RegistryConstants DEF get_string_id, Ids, kLiteralLogStringId
<1> HIDE DEF id
<1>3. Literal(s) \in View /\ Literal(s).of = "literal" /\ Literal(s).str = s
  BY <1>1, RegistryKinds
<1>4. TextOf(Literal(s), callers, arena') = s
  BY <1>3, TextFacts
<1>5. <<>> \in Texts /\ arena' = arena \o <<>> /\ arena_size_' = arena_size_ + Len(<<>>)
  BY SameArena, Zenon DEF RegisterLiteral
<1>6. /\ Set(id, Literal(s)) /\ Registered(id, s)
      /\ hash' = hash /\ callers' = callers /\ changes' = changes
  BY Zenon DEF RegisterLiteral, id
<1>. QED
  BY <1>1, <1>2, <1>3, <1>4, <1>5, <1>6, SetStep

LEMMA RegisterViewStep ==
  ASSUME RegistryInvariant, NEW id \in Ids, RegisterView(id)
  PROVE  RegistryInvariant'
<1>1. callers \in Texts /\ <<>> \in Texts /\ Len(callers) \in Nat
  BY DEF RegistryInvariant, RegistryTypes, Texts
<1>2. Callers \in View /\ Callers.of = "caller" /\ Callers.len = Len(callers)
  BY <1>1 DEF Callers, View
<1>3. TextOf(Callers, callers, arena') = callers
  <2> DEFINE t == [i \in 1..Len(callers) |-> IF i \in DOMAIN callers THEN callers[i] ELSE "?"]
  <2>1. TextOf(Callers, callers, arena') = t
    BY <1>2 DEF TextOf
  <2>2. DOMAIN callers = 1..Len(callers) /\ callers = [i \in DOMAIN callers |-> callers[i]]
    BY <1>1 DEF Texts
  <2>3. t = callers
    BY <2>2
  <2>. QED
    BY <2>1, <2>3
<1>4. <<>> \in Texts /\ arena' = arena \o <<>> /\ arena_size_' = arena_size_ + Len(<<>>)
  BY SameArena, Zenon DEF RegisterView
<1>5. /\ id # kLiteralLogStringId /\ Set(id, Callers) /\ Registered(id, callers)
      /\ hash' = hash /\ callers' = callers /\ changes' = changes
  BY Zenon DEF RegisterView
<1>. QED
  BY <1>1, <1>2, <1>3, <1>4, <1>5, SetStep

LEMMA RegisterArenaStep ==
  ASSUME RegistryInvariant, NEW id \in Ids, RegisterArena(id)
  PROVE  RegistryInvariant'
<1>1. /\ id # kLiteralLogStringId /\ Registered(id, callers)
      /\ hash' = hash /\ callers' = callers /\ changes' = changes
  BY Zenon DEF RegisterArena
<1>2. CASE get_string(id) # <<>> /\ get_string(id) = callers
  <2> DEFINE v == table_[id]
  <2>1. /\ v \in View /\ callers \in Texts /\ Keeps(v, last[id], callers, arena, changes)
        /\ table_ \in [Ids -> View]
    BY DEF RegistryInvariant, RegistryTypes
  <2>2. table_' = table_ /\ arena' = arena /\ arena_size_' = arena_size_
    BY <1>2, Zenon DEF RegisterArena
  <2>3. TextOf(v, callers, arena') = callers
    BY <1>2, <2>2 DEF get_string, TextOf
  <2>4. v.of = "arena" => v.at + v.len <= Len(arena')
    BY <2>1, <2>2, Zenon DEF Keeps
  <2>5. Set(id, v)
    BY <2>1, <2>2 DEF Set
  <2>6. <<>> \in Texts /\ arena' = arena \o <<>> /\ arena_size_' = arena_size_ + Len(<<>>)
    BY <2>2, SameArena, Zenon
  <2> HIDE DEF v
  <2>. QED
    BY <1>1, <2>1, <2>3, <2>4, <2>5, <2>6, SetStep
<1>3. CASE ~(get_string(id) # <<>> /\ get_string(id) = callers)
  <2> DEFINE v == InArena(Len(callers))
  <2>1. callers \in Texts /\ arena \in Texts /\ arena_size_ = Len(arena) /\ Len(callers) \in Nat /\ Len(arena) \in Nat
    BY DEF RegistryInvariant, RegistryTypes, Texts
  <2>2. /\ arena' = SubSeq(arena, 1, arena_size_) \o callers /\ Set(id, v)
        /\ arena_size_' = arena_size_ + Len(callers)
    BY <1>3, Zenon DEF RegisterArena, Advanced
  <2>3. /\ SubSeq(arena, 1, Len(arena)) = arena
        /\ SubSeq(arena \o callers, Len(arena) + 1, Len(arena) + Len(callers)) = callers
        /\ Len(arena \o callers) = Len(arena) + Len(callers)
    BY <2>1, ArenaGrows
  <2>4. arena' = arena \o callers
    BY <2>1, <2>2, <2>3, Zenon
  <2>5. v \in View /\ v.of = "arena" /\ v.at = Len(arena) /\ v.len = Len(callers)
    <3>1. <<>> \in Texts
      BY DEF Texts
    <3>. QED
      BY <2>1, <3>1 DEF InArena, View
  <2> HIDE DEF v
  <2>6. TextOf(v, callers, arena') = callers
    <3>1. SubSeq(arena', v.at + 1, v.at + v.len) = callers
      BY <2>3, <2>4, <2>5, Zenon
    <3>2. TextOf(v, callers, arena') = SubSeq(arena', v.at + 1, v.at + v.len)
      BY <2>5, TextFacts
    <3>. QED
      BY <3>1, <3>2
  <2>7. v.at + v.len <= Len(arena')
    <3>1. Len(arena') = Len(arena) + Len(callers)
      BY <2>3, <2>4, Zenon
    <3>. QED
      BY <2>1, <2>5, <3>1
  <2>. QED
    BY <1>1, <2>1, <2>2, <2>4, <2>5, <2>6, <2>7, SetStep
<1>. QED
  BY <1>2, <1>3

\* After a change, whatever views the caller's memory was registered before it.
LEMMA ChangeStep ==
  ASSUME RegistryInvariant, NEW s \in Strings, Change(s)
  PROVE  RegistryInvariant'
<1>1. s \in Texts
  BY RegistryConstants DEF Texts
<1>2. /\ changes \in Nat /\ changes' = changes + 1 /\ callers' = s
      /\ hash' = hash /\ table_' = table_ /\ arena' = arena /\ arena_size_' = arena_size_ /\ last' = last
  BY Zenon DEF Change, RegistryInvariant, RegistryTypes
<1>3. ASSUME NEW id \in Ids PROVE Keeps(table_[id], last[id], s, arena, changes + 1)
  <2> DEFINE v == table_[id]
             l == last[id]
  <2>1. v \in View /\ l \in Registration /\ Keeps(v, l, callers, arena, changes)
    BY DEF RegistryInvariant, RegistryTypes
  <2> HIDE DEF v, l
  <2>2. l.changes \in Nat /\ l.changes <= changes /\ (v.of = "arena" => v.at + v.len <= Len(arena))
    BY <2>1 DEF Keeps, Registration
  <2>3. l.changes <= changes + 1 /\ l.changes < changes + 1
    BY <1>2, <2>2
  <2>4. CASE v.of = "caller"
    BY <2>2, <2>3, <2>4, Zenon DEF Keeps, v, l
  <2>5. CASE v.of # "caller"
    <3>1. \A d : TextOf(v, d, arena) = TextOf(v, callers, arena)
      BY <2>1, <2>5, TextFacts
    <3>2. TextOf(v, s, arena) = l.str
      BY <2>1, <2>5, <3>1, Zenon DEF Keeps
    <3>. QED
      BY <2>2, <2>3, <3>2, Zenon DEF Keeps, v, l
  <2>. QED
    BY <2>4, <2>5
<1>4. changes' \in Nat
  BY <1>2
<1>5. /\ table_ \in [Ids -> View] /\ last \in [Ids -> Registration] /\ hash \in [Strings -> Ids]
      /\ arena \in Texts /\ arena_size_ = Len(arena) /\ table_[kLiteralLogStringId] = Literal(<<>>)
  BY Zenon DEF RegistryInvariant, RegistryTypes
<1>. QED
  BY <1>1, <1>2, <1>3, <1>4, <1>5, Zenon DEF RegistryInvariant, RegistryTypes, Literal

LEMMA RegistryHolds ==
  ASSUME RegistryInvariant, [RegistryNext]_registryVars
  PROVE  RegistryInvariant'
<1>1. CASE UNCHANGED registryVars
  BY <1>1, Zenon DEF registryVars, RegistryInvariant, RegistryTypes, Literal
<1>. QED
  BY <1>1, ChangeStep, RegisterLiteralStep, RegisterViewStep, RegisterArenaStep, Zenon DEF RegistryNext

LEMMA RegistryStart == RegistryInit => RegistryInvariant
<1> SUFFICES ASSUME RegistryInit PROVE RegistryInvariant
  OBVIOUS
<1> DEFINE e == <<>>
           l == [str |-> e, changes |-> 0]
<1>1. e \in Texts /\ Len(e) = 0
  BY DEF Texts
<1>2. /\ table_ = [id \in Ids |-> Literal(e)] /\ last = [id \in Ids |-> l] /\ hash \in [Strings -> Ids]
      /\ arena = e /\ arena_size_ = 0 /\ callers \in Strings /\ changes = 0
  BY Zenon DEF RegistryInit
<1> HIDE DEF e
<1>3. Literal(e) \in View /\ Literal(e).of = "literal" /\ Literal(e).str = e
  BY <1>1, RegistryKinds
<1>4. l \in Registration /\ l.str = e /\ l.changes = 0
  BY <1>1 DEF Registration
<1> HIDE DEF l
<1>5. kLiteralLogStringId \in Ids
  BY RegistryConstants DEF Ids, kLiteralLogStringId
<1>6. TextOf(Literal(e), callers, arena) = e
  BY <1>3, TextFacts
<1>7. Keeps(Literal(e), l, callers, arena, 0)
  BY <1>3, <1>4, <1>6 DEF Keeps
<1>8. /\ table_ \in [Ids -> View] /\ last \in [Ids -> Registration]
      /\ \A id \in Ids : table_[id] = Literal(e) /\ last[id] = l
  BY <1>2, <1>3, <1>4
<1>9. callers \in Texts /\ arena \in Texts /\ arena_size_ = Len(arena) /\ changes \in Nat
  BY <1>1, <1>2, RegistryConstants DEF Texts
<1>. QED
  BY <1>2, <1>5, <1>7, <1>8, <1>9, Zenon DEF RegistryInvariant, RegistryTypes, e

\* The invariant that reading back rests on.
THEOREM RegistryInvariance == RegistrySpec => []RegistryInvariant
<1>1. RegistryInit => RegistryInvariant
  BY RegistryStart
<1>2. RegistryInvariant /\ [RegistryNext]_registryVars => RegistryInvariant'
  BY RegistryHolds
<1>. QED
  BY <1>1, <1>2, PTL DEF RegistrySpec

\* Whatever hash_string computes and however the ids collide: get_string
\* returns what was registered last under an id, by register_string or by
\* register_string_arena, whether that copied the text or left what was there,
\* until the caller changes the memory that the table still views; and the id
\* of literal entries is never given away (get_string_id).
THEOREM RegistryReads == RegistrySpec => []RegistryReadsBack
<1>1. RegistryInvariant => RegistryReadsBack
  <2> SUFFICES ASSUME RegistryInvariant, NEW id \in Ids
               PROVE  get_string(id) = last[id].str \/ (table_[id].of = "caller" /\ changes > last[id].changes)
    BY Zenon DEF RegistryReadsBack, RegistryInvariant
  <2>1. last[id] \in Registration /\ changes \in Nat /\ Keeps(table_[id], last[id], callers, arena, changes)
    BY DEF RegistryInvariant, RegistryTypes
  <2>2. get_string(id) = TextOf(table_[id], callers, arena)
    BY DEF get_string, TextOf
  <2>3. last[id].changes < changes => changes > last[id].changes
    BY <2>1 DEF Registration
  <2>. QED
    BY <2>1, <2>2, <2>3, Zenon DEF Keeps
<1>. QED
  BY <1>1, RegistryInvariance, PTL
-----------------------------------------------------------------------------
(* StackTrace: least and greatest numbers *)

LEMMA LesserOfTwo ==
  ASSUME NEW a \in Nat, NEW b \in Nat
  PROVE  Min({a, b}) \in Nat /\ Min({a, b}) <= a /\ Min({a, b}) <= b
<1> DEFINE T == {a, b}
<1>1. T \in SUBSET Nat /\ T # {} /\ a \in T /\ b \in T
  OBVIOUS
<1> HIDE DEF T
<1>2. Min(T) \in T /\ \A m \in T : Min(T) <= m
  BY <1>1, LeastNumber, Zenon
<1>3. Min(T) \in Nat /\ Min(T) <= a /\ Min(T) <= b
  BY <1>1, <1>2
<1>. QED
  BY <1>3 DEF T

LEMMA GreaterOfTwo ==
  ASSUME NEW a \in Nat, NEW b \in Nat
  PROVE  Max({a, b}) \in Nat
<1>1. \E x \in {a, b} : \A y \in {a, b} : x >= y
  <2>1. CASE a >= b
    BY <2>1
  <2>2. CASE ~(a >= b)
    BY <2>2
  <2>. QED
    BY <2>1, <2>2
<1>2. Max({a, b}) \in {a, b}
  BY <1>1, Zenon DEF Max
<1>. QED
  BY <1>2
-----------------------------------------------------------------------------
(* StackTrace: a line *)

\* write_format and padding never move the cursor past the end, nor back.
LEMMA CursorStays ==
  ASSUME NEW end \in Nat, NEW c \in 0..end, NEW len \in Nat
  PROVE  /\ write_format(c, end, len) \in 0..end /\ write_format(c, end, len) >= c
         /\ padding(c, end, len) \in 0..end
<1> DEFINE w == write_format(c, end, len)
<1>1. w \in 0..end /\ w >= c
  <2>1. CASE c >= end
    BY <2>1 DEF write_format
  <2>2. CASE ~(c >= end)
    <3>1. end - c - 1 \in Nat
      BY <2>2
    <3>2. Min({len, end - c - 1}) \in Nat /\ Min({len, end - c - 1}) <= end - c - 1
      BY <3>1, LesserOfTwo
    <3>. QED
      BY <2>2, <3>2 DEF write_format
  <2>. QED
    BY <2>1, <2>2
<1>3. padding(c, end, len) \in 0..end
  <2> DEFINE fill == IF Align > len THEN Align - len ELSE 0
  <2>1. fill \in Nat /\ end - c \in Nat
    BY TraceConstants
  <2> HIDE DEF fill
  <2>2. Min({fill, end - c}) \in Nat /\ Min({fill, end - c}) <= end - c
    BY <2>1, LesserOfTwo
  <2>3. c + Min({fill, end - c}) \in 0..end
    BY <2>2
  <2>. QED
    BY <2>3 DEF padding, fill
<1>. QED
  BY <1>1, <1>3

\* The marks a byte of the arrays may have.
Marks == {"f", "g", "0", "?"}
Memory == [1..(kFunctionStrLength + kFileStrLength) -> Marks]

\* The text of an array: up to the first terminator, or to the end.
LEMMA TextLength ==
  ASSUME NEW e, e.mem \in Memory, NEW i \in 1..(kFunctionStrLength + kFileStrLength + 1)
  PROVE  Text(e, i) \in Seq(Marks) /\ Len(Text(e, i)) \in Nat
<1> DEFINE L == kFunctionStrLength + kFileStrLength
           T == {j \in i..Len(e.mem) : e.mem[j] = "0"} \cup {Len(e.mem) + 1}
<1>1. L \in Nat /\ Len(e.mem) = L /\ e.mem \in Seq(Marks)
  BY TraceConstants DEF Memory
<1> HIDE DEF L
<1>2. T \in SUBSET Nat /\ T # {} /\ \A t \in T : t <= L + 1
  BY <1>1 DEF L
<1> HIDE DEF T
<1>3. Min(T) \in T
  BY <1>2, LeastNumber, Zenon
<1>4. Min(T) \in Nat /\ Min(T) <= L + 1
  BY <1>2, <1>3
<1>5. SubSeq(e.mem, i, Min(T) - 1) \in Seq(Marks)
  BY <1>1, <1>4 DEF L
<1>. QED
  BY <1>5 DEF Text, T

\* StackTraceEntry::to_string terminates its line inside the line buffer,
\* whatever the arrays of the entry hold.
LEMMA LineInside ==
  ASSUME NEW e, e.mem \in Memory, e.address \in Nat, NEW end \in Nat \ {0}
  PROVE  to_string(e, end) \in 0..(end - 1)
<1> DEFINE w1 == write_format(0, end, 2)
           c1 == IF use_index THEN padding(w1, end, w1) ELSE 0
           w2 == write_format(c1, end, e.address)
           c2 == IF e.address = 0 THEN c1 ELSE padding(w2, end, w2 - c1)
           f  == Len(FunctionOf(e))
           c3 == write_format(c2, end, Max({1, f}))
           c4 == IF e.offset THEN write_format(c3, end, 4) ELSE c3
           c5 == padding(c4, end, c4 - c2)
           g  == Len(FileOf(e))
           c6 == IF FileOf(e) = <<>> THEN c5 ELSE write_format(c5, end, 4 + g)
<1>0. f \in Nat /\ g \in Nat
  <2>1. /\ 1 \in 1..(kFunctionStrLength + kFileStrLength + 1)
        /\ kFunctionStrLength + 1 \in 1..(kFunctionStrLength + kFileStrLength + 1)
    BY TraceConstants
  <2>. QED
    BY <2>1, TextLength DEF FunctionOf, FileOf
<1> HIDE DEF f, g
<1>A. /\ \A c \in 0..end, n \in Nat : /\ write_format(c, end, n) \in 0..end
                                      /\ write_format(c, end, n) >= c
      /\ \A c \in 0..end, n \in Nat : padding(c, end, n) \in 0..end
  BY CursorStays
<1>1. w1 \in 0..end
  <2>1. 0 \in 0..end /\ 2 \in Nat
    OBVIOUS
  <2>. QED
    BY <1>A, <2>1, Zenon
<1> HIDE DEF w1
<1>2. c1 \in 0..end
  <2>1. w1 \in Nat /\ 0 \in 0..end
    BY <1>1
  <2>2. padding(w1, end, w1) \in 0..end
    BY <1>A, <1>1, <2>1, Zenon
  <2>. QED
    BY <2>1, <2>2, Zenon
<1> HIDE DEF c1
<1>3. w2 \in 0..end /\ w2 >= c1
  BY <1>A, <1>2, Zenon
<1> HIDE DEF w2
<1>4. c2 \in 0..end
  <2>1. w2 - c1 \in Nat
    BY <1>2, <1>3
  <2>2. padding(w2, end, w2 - c1) \in 0..end
    BY <1>A, <1>3, <2>1, Zenon
  <2>. QED
    BY <1>2, <2>2, Zenon
<1> HIDE DEF c2
<1>5. c3 \in 0..end /\ c3 >= c2
  <2>1. Max({1, f}) \in Nat
    BY <1>0, GreaterOfTwo
  <2>. QED
    BY <1>A, <1>4, <2>1, Zenon
<1> HIDE DEF c3
<1>6. c4 \in 0..end /\ c4 >= c2
  <2>1. 4 \in Nat
    OBVIOUS
  <2>2. write_format(c3, end, 4) \in 0..end /\ write_format(c3, end, 4) >= c3
    BY <1>A, <1>5, <2>1, Zenon
  <2> DEFINE w == write_format(c3, end, 4)
  <2>3. w \in 0..end /\ w >= c2
    <3> HIDE DEF w
    <3>1. w \in 0..end /\ w >= c3
      BY <2>2 DEF w
    <3>. QED
      BY <1>4, <1>5, <3>1
  <2>. QED
    BY <1>5, <2>3, Zenon
<1> HIDE DEF c4
<1>7. c5 \in 0..end
  <2>1. c4 - c2 \in Nat
    BY <1>4, <1>6
  <2>. QED
    BY <1>A, <1>6, <2>1, Zenon
<1> HIDE DEF c5
<1>8. c6 \in 0..end
  <2>1. 4 + g \in Nat
    BY <1>0
  <2>2. write_format(c5, end, 4 + g) \in 0..end
    BY <1>A, <1>7, <2>1, ZenonT(40)
  <2>. QED
    BY <1>7, <2>2, Zenon
<1>9. to_string(e, end) = IF c6 < end THEN c6 ELSE end - 1
  BY DEF to_string, w1, c1, w2, c2, c3, c4, c5, c6, f, g
<1> HIDE DEF c6
<1>. QED
  BY <1>8, <1>9
-----------------------------------------------------------------------------
(* StackTrace: the names of an entry *)

LEMMA ArrayIsSequence ==
  ASSUME NEW S, NEW n \in Nat, NEW a \in [1..n -> S]
  PROVE  a \in Seq(S) /\ Len(a) = n
OBVIOUS

\* A text of n characters with a terminator behind it reads back.
LEMMA TextReads ==
  ASSUME NEW e, e.mem \in Memory, NEW i \in Nat \ {0}, NEW n \in Nat, NEW ch \in Marks,
         ch # "0", i + n <= kFunctionStrLength + kFileStrLength,
         \A j \in i..(i + n - 1) : e.mem[j] = ch, e.mem[i + n] = "0"
  PROVE  Text(e, i) = [j \in 1..n |-> ch]
<1> DEFINE L == kFunctionStrLength + kFileStrLength
           T == {j \in i..Len(e.mem) : e.mem[j] = "0"} \cup {Len(e.mem) + 1}
<1>1. L \in Nat /\ Len(e.mem) = L /\ e.mem \in Seq(Marks)
  <2>1. L \in Nat
    BY TraceConstants
  <2>2. e.mem \in [1..L -> Marks]
    BY DEF Memory
  <2> HIDE DEF L
  <2>. QED
    BY <2>1, <2>2, ArrayIsSequence, Zenon
<1>2. i + n \in T /\ T \in SUBSET Nat /\ T # {} /\ \A t \in T : t >= i
  <2>1. i + n \in i..L
    BY <1>1
  <2> HIDE DEF L
  <2>. QED
    BY <1>1, <2>1
<1>3. ASSUME NEW t \in T PROVE t >= i + n
  <2> SUFFICES ASSUME t < i + n PROVE FALSE
    BY <1>2
  <2>1. t \in i..(i + n - 1)
    BY <1>2
  <2>2. e.mem[t] = ch
    BY <2>1
  <2>3. t # Len(e.mem) + 1
    BY <1>1, <2>1
  <2>4. e.mem[t] = "0"
    BY <2>3
  <2>. QED
    BY <2>2, <2>4
<1> HIDE DEF T
<1>4. Min(T) \in T /\ Min(T) <= i + n
  BY <1>2, LeastNumber, Zenon
<1>5. Min(T) = i + n
  <2>1. Min(T) \in Nat
    BY <1>2, <1>4
  <2>2. Min(T) >= i + n
    BY <1>3, <1>4, Zenon
  <2>. QED
    BY <1>4, <2>1, <2>2
<1> DEFINE r == SubSeq(e.mem, i, Min(T) - 1)
           x == [j \in 1..n |-> ch]
<1>6. r \in Seq(Marks) /\ Len(r) = n /\ \A j \in 1..n : r[j] = e.mem[i + j - 1]
  <2>1. i \in Int /\ i + n - 1 \in Int /\ Min(T) - 1 = i + n - 1
    BY <1>5
  <2>2. \A j \in i..(i + n - 1) : e.mem[j] \in Marks
    OBVIOUS
  <2>3. /\ SubSeq(e.mem, i, i + n - 1) \in Seq(Marks)
        /\ Len(SubSeq(e.mem, i, i + n - 1)) = (IF i <= i + n - 1 THEN (i + n - 1) - i + 1 ELSE 0)
        /\ \A j \in 1..((i + n - 1) - i + 1) : SubSeq(e.mem, i, i + n - 1)[j] = e.mem[i + j - 1]
    BY <2>1, <2>2, SubSeqProperties
  <2>4. (i + n - 1) - i + 1 = n /\ (IF i <= i + n - 1 THEN (i + n - 1) - i + 1 ELSE 0) = n
    OBVIOUS
  <2>. QED
    BY <2>1, <2>3, <2>4, Zenon
<1>7. x \in Seq(Marks) /\ Len(x) = n /\ \A j \in 1..n : x[j] = ch
  OBVIOUS
<1> HIDE DEF r, x
<1>8. \A j \in 1..n : r[j] = x[j]
  <2>1. \A j \in 1..n : i + j - 1 \in i..(i + n - 1)
    OBVIOUS
  <2>. QED
    BY <1>6, <1>7, <2>1
<1>9. r = x
  <2>1. r \in [1..n -> Marks] /\ x \in [1..n -> Marks]
    BY <1>6, <1>7
  <2>. QED
    BY <1>8, <2>1
<1>. QED
  BY <1>9 DEF Text, T, r, x

\* What Entry puts into the arrays.
LEMMA EntryMemory ==
  ASSUME NEW i, NEW fr \in Frames, Llvm \in BOOLEAN
  PROVE  LET mem == Entry(i, fr).mem IN
         /\ mem \in Memory
         /\ \A j \in 1..kFunctionStrLength :
              mem[j] = IF j <= fr.function THEN "f" ELSE "0"
         /\ \A j \in 1..kFileStrLength :
              /\ j <= fr.file => mem[kFunctionStrLength + j] = "g"
              /\ j = fr.file + 1 /\ (Llvm \/ fr.function <= kFunctionStrLength) =>
                   mem[kFunctionStrLength + j] = "0"
<1> DEFINE F == kFunctionStrLength
           G == kFileStrLength
           n == fr.function
           m == fr.file
           ft == FunctionBytes(n)
           gt == FileBytes(m)
           gl == IF Llvm THEN G ELSE m
           one == Copied(Blank, 0, ft)
           two == Copied(one, F, gt)
<1>1. F \in Nat /\ G \in Nat /\ n \in Nat /\ m \in Nat
  BY TraceConstants DEF Frames
<1>2. Entry(i, fr).mem = two
  BY DEF Entry
<1> HIDE DEF F, G, n, m
<1>3. Len(ft) = n /\ \A j \in 1..n : ft[j] = "f"
  BY <1>1 DEF FunctionBytes
<1>4. /\ gl \in Nat /\ Len(gt) = gl
      /\ \A j \in 1..gl : gt[j] = IF j <= m THEN "g" ELSE IF j = m + 1 THEN "0" ELSE "?"
  BY <1>1 DEF FileBytes, G
<1> HIDE DEF ft, gt, gl
<1>5. /\ DOMAIN one = 1..(F + G)
      /\ \A j \in 1..(F + G) : one[j] = IF j <= n THEN "f" ELSE "0"
  <2>1. one = [j \in 1..(F + G) |-> IF j > 0 /\ j <= 0 + Len(ft) THEN ft[j - 0] ELSE Blank[j]]
    BY DEF Copied, Blank, F, G
  <2>2. \A j \in 1..(F + G) : Blank[j] = "0"
    BY DEF Blank, F, G
  <2> HIDE DEF one
  <2>3. ASSUME NEW j \in 1..(F + G) PROVE one[j] = IF j <= n THEN "f" ELSE "0"
    <3>1. j \in Nat /\ j > 0 /\ j - 0 = j /\ 0 + Len(ft) = n
      BY <1>1, <1>3
    <3>2. CASE j <= n
      <4>1. j \in 1..n
        BY <1>1, <3>1, <3>2
      <4>. QED
        BY <1>3, <2>1, <3>1, <3>2, <4>1
    <3>3. CASE ~(j <= n)
      BY <2>1, <2>2, <3>1, <3>3
    <3>. QED
      BY <3>2, <3>3
  <2>. QED
    BY <2>1, <2>3
<1> HIDE DEF one
<1>6. two = [j \in 1..(F + G) |-> IF j > F /\ j <= F + gl THEN gt[j - F] ELSE one[j]]
  BY <1>4, <1>5 DEF Copied
<1> HIDE DEF two
<1>7. two \in [1..(F + G) -> Marks]
  <2>1. \A j \in 1..(F + G) : one[j] \in Marks
    BY <1>5 DEF Marks
  <2>2. ASSUME NEW j \in 1..(F + G), j > F, j <= F + gl PROVE gt[j - F] \in Marks
    <3>1. j - F \in 1..gl
      BY <1>1, <1>4, <2>2
    <3>. QED
      BY <1>4, <3>1 DEF Marks
  <2>. QED
    BY <1>6, <2>1, <2>2
<1>8. ASSUME NEW j \in 1..F PROVE two[j] = IF j <= n THEN "f" ELSE "0"
  <2>1. j \in 1..(F + G) /\ ~(j > F)
    BY <1>1
  <2>. QED
    BY <1>5, <1>6, <2>1
<1>9. ASSUME NEW j \in 1..G
      PROVE  /\ j <= m => two[F + j] = "g"
             /\ j = m + 1 /\ (Llvm \/ n <= F) => two[F + j] = "0"
  <2>1. F + j \in 1..(F + G) /\ F + j > F /\ (F + j) - F = j
    BY <1>1
  <2>2. ASSUME j <= gl PROVE two[F + j] = gt[j] /\ j \in 1..gl
    <3>1. F + j <= F + gl /\ j \in 1..gl
      BY <1>1, <1>4, <2>2
    <3>. QED
      BY <1>6, <2>1, <3>1
  <2>3. ASSUME ~(j <= gl) PROVE two[F + j] = one[F + j]
    <3>1. ~(F + j <= F + gl)
      BY <1>1, <1>4, <2>3
    <3>. QED
      BY <1>6, <2>1, <3>1
  <2>4. ASSUME j <= m PROVE two[F + j] = "g"
    <3>1. j <= gl
      BY <1>1, <2>4 DEF gl
    <3>. QED
      BY <1>4, <2>2, <2>4, <3>1
  <2>5. ASSUME j = m + 1, Llvm PROVE two[F + j] = "0"
    <3>1. j <= gl
      BY <1>1, <2>5 DEF gl
    <3>2. ~(j <= m)
      BY <1>1, <2>5
    <3>. QED
      BY <1>4, <2>2, <2>5, <3>1, <3>2
  <2>6. ASSUME j = m + 1, ~Llvm, n <= F PROVE two[F + j] = "0"
    <3>1. ~(j <= gl) /\ ~(F + j <= n)
      BY <1>1, <2>6 DEF gl
    <3>. QED
      BY <1>5, <2>1, <2>3, <3>1
  <2>. QED
    BY <2>4, <2>5, <2>6
<1>. QED
  BY <1>2, <1>7, <1>8, <1>9 DEF Memory, F, G, n, m

\* A name that leaves room for its terminator is read back; with libunwind the
\* file's is even behind a function's name that has run into its array.
LEMMA EntryNames ==
  ASSUME NEW i, NEW fr \in Frames, Llvm \in BOOLEAN
  PROVE  /\ fr.function < kFunctionStrLength =>
              FunctionOf(Entry(i, fr)) = FunctionBytes(fr.function)
         /\ fr.file < kFileStrLength /\ (Llvm \/ fr.function <= kFunctionStrLength) =>
              FileOf(Entry(i, fr)) = [j \in 1..fr.file |-> "g"]
<1> DEFINE e == Entry(i, fr)
           F == kFunctionStrLength
           G == kFileStrLength
           n == fr.function
           m == fr.file
<1>1. F \in Nat /\ G \in Nat /\ n \in Nat /\ m \in Nat
  BY TraceConstants DEF Frames
<1>2. /\ e.mem \in Memory
      /\ \A j \in 1..F : e.mem[j] = IF j <= n THEN "f" ELSE "0"
      /\ \A j \in 1..G : /\ j <= m => e.mem[F + j] = "g"
                         /\ j = m + 1 /\ (Llvm \/ n <= F) => e.mem[F + j] = "0"
  BY EntryMemory
<1>3. "f" \in Marks /\ "g" \in Marks /\ "f" # "0" /\ "g" # "0"
  BY DEF Marks
<1> HIDE DEF e
<1>4. ASSUME n < F PROVE FunctionOf(e) = FunctionBytes(n)
  <2>1. 1 \in Nat \ {0} /\ 1 + n <= F + G /\ 1 + n \in 1..F /\ ~(1 + n <= n)
    BY <1>1, <1>4
  <2>2. ASSUME NEW j \in 1..(1 + n - 1) PROVE e.mem[j] = "f"
    <3>1. j \in 1..F /\ j <= n
      BY <1>1, <1>4
    <3>. QED
      BY <1>2, <3>1
  <2>3. e.mem[1 + n] = "0"
    BY <1>2, <2>1
  <2>4. Text(e, 1) = [j \in 1..n |-> "f"]
    BY <1>1, <1>2, <1>3, <2>1, <2>2, <2>3, TextReads
  <2>. QED
    BY <2>4 DEF FunctionOf, FunctionBytes
<1>5. ASSUME m < G, Llvm \/ n <= F PROVE FileOf(e) = [j \in 1..m |-> "g"]
  <2>1. F + 1 \in Nat \ {0} /\ (F + 1) + m <= F + G /\ m + 1 \in 1..G /\ (F + 1) + m = F + (m + 1)
    BY <1>1, <1>5
  <2>2. ASSUME NEW j \in (F + 1)..((F + 1) + m - 1) PROVE e.mem[j] = "g"
    <3> DEFINE k == j - F
    <3>1. k \in 1..G /\ k <= m /\ F + k = j
      BY <1>1, <1>5
    <3> HIDE DEF k
    <3>. QED
      BY <1>2, <3>1
  <2>3. e.mem[(F + 1) + m] = "0"
    BY <1>2, <1>5, <2>1, Zenon
  <2>4. Text(e, F + 1) = [j \in 1..m |-> "g"]
    <3> DEFINE p == F + 1
    <3>1. /\ p \in Nat \ {0} /\ p + m <= F + G /\ e.mem[p + m] = "0"
          /\ \A j \in p..(p + m - 1) : e.mem[j] = "g"
      BY <2>1, <2>2, <2>3
    <3> HIDE DEF p
    <3>2. Text(e, p) = [j \in 1..m |-> "g"]
      BY <1>1, <1>2, <1>3, <3>1, TextReads
    <3>. QED
      BY <3>2 DEF p
  <2>. QED
    BY <2>4 DEF FileOf
<1>. QED
  BY <1>4, <1>5 DEF e
-----------------------------------------------------------------------------
(* StackTrace: the inductive invariant *)

Listed(i) == i > first_frame /\ is_valid_address(stack[i].address)

TraceEntry == [from : Nat, index : Int, address : Nat, offset : BOOLEAN, mem : Memory]

TraceTypes ==
  /\ Llvm \in BOOLEAN /\ use_index \in BOOLEAN /\ first_frame \in Nat /\ buffer_size \in Nat
  /\ stack \in Seq(Frames) /\ out \in Seq(TraceEntry)
  /\ lines \in Seq([at : Nat, len : Nat]) /\ written \in Nat

\* An entry is what Entry makes of the frame it is from.
EntriesAreFrames ==
  \A k \in DOMAIN out :
    /\ out[k].from \in 1..Len(stack)
    /\ \A i \in 1..Len(stack), fr \in Frames :
         i = out[k].from /\ fr = stack[i] => Listed(i) /\ out[k] = Entry(i - 1, fr)
    /\ k > 1 => out[k - 1].from < out[k].from

EveryFrameListed ==
  \A i \in 1..Len(stack) : Listed(i) => \E k \in DOMAIN out : out[k].from = i

TraceInvariant == TraceTypes /\ EntriesAreFrames /\ EveryFrameListed /\ TraceFits

LEMMA EntryType ==
  ASSUME TraceTypes, NEW i \in Nat, NEW fr \in Frames
  PROVE  Entry(i, fr) \in TraceEntry /\ Entry(i, fr).from = i + 1
<1>1. Entry(i, fr).mem \in Memory
  <2>1. Llvm \in BOOLEAN
    BY DEF TraceTypes
  <2>. QED
    BY <2>1, EntryMemory, Zenon
<1>2. Entry(i, fr).from = i + 1 /\ i + 1 \in Nat
  BY DEF Entry
<1>3. Entry(i, fr).index \in Int
  <2>1. first_frame \in Nat
    BY DEF TraceTypes
  <2>. QED
    BY <2>1 DEF Entry
<1>4. Entry(i, fr).address \in Nat
  BY TraceConstants DEF Entry, format_address_safe
<1>5. Entry(i, fr).offset \in BOOLEAN
  BY Zenon DEF Entry, Frames
<1>6. Entry(i, fr) = [from |-> Entry(i, fr).from, index |-> Entry(i, fr).index,
                      address |-> Entry(i, fr).address, offset |-> Entry(i, fr).offset,
                      mem |-> Entry(i, fr).mem]
  BY DEF Entry
<1>. QED
  BY <1>1, <1>2, <1>3, <1>4, <1>5, <1>6, Zenon DEF TraceEntry

LEMMA TraceStart == TraceInit => TraceInvariant
<1> SUFFICES ASSUME TraceInit PROVE TraceInvariant
  OBVIOUS
<1>1. /\ first_frame \in Nat /\ buffer_size \in Nat
      /\ Llvm \in BOOLEAN /\ use_index \in BOOLEAN
  BY TraceConstants DEF TraceInit
<1>2. stack = <<>> /\ out = <<>> /\ lines = <<>> /\ written = 0
  BY DEF TraceInit
<1>3. TraceTypes
  BY <1>1, <1>2 DEF TraceTypes
<1>4. EntriesAreFrames /\ EveryFrameListed /\ TraceFits
  BY <1>1, <1>2 DEF EntriesAreFrames, EveryFrameListed, TraceFits
<1>. QED
  BY <1>3, <1>4 DEF TraceInvariant

LEMMA WalkStep ==
  ASSUME TraceInvariant, NEW fr \in Frames, Walk(fr)
  PROVE  TraceInvariant'
<1>1. TraceTypes /\ EntriesAreFrames /\ EveryFrameListed /\ TraceFits
  BY DEF TraceInvariant
<1>2. PICK s \in Nat : s = Len(stack)
  BY <1>1 DEF TraceTypes
<1>3. PICK new \in TraceEntry : new = Entry(s, fr) /\ new.from = s + 1
  BY <1>1, EntryType
<1> DEFINE taken == s >= first_frame /\ is_valid_address(fr.address)
<1>4. /\ Llvm' = Llvm /\ use_index' = use_index /\ first_frame' = first_frame
      /\ buffer_size' = buffer_size /\ lines' = lines /\ written' = written
      /\ stack' = Append(stack, fr) /\ out' = IF taken THEN Append(out, new) ELSE out
  BY <1>2, <1>3 DEF Walk, params
<1>5. stack \in Seq(Frames) /\ out \in Seq(TraceEntry) /\ first_frame \in Nat
  BY <1>1 DEF TraceTypes
<1>6. /\ stack' \in Seq(Frames) /\ Len(stack') = s + 1 /\ stack'[s + 1] = fr
      /\ \A i \in 1..s : stack'[i] = stack[i]
  BY <1>2, <1>4, <1>5
<1>7. /\ out' \in Seq(TraceEntry) /\ Len(out) \in Nat
      /\ \A k \in 1..Len(out) : out'[k] = out[k]
      /\ taken => Len(out') = Len(out) + 1 /\ out'[Len(out) + 1] = new
      /\ ~taken => out' = out
  <2> HIDE DEF taken
  <2>. QED
    BY <1>4, <1>5
<1>8. TraceTypes'
  BY <1>1, <1>4, <1>6, <1>7, Zenon DEF TraceTypes
<1>9. TraceFits'
  BY <1>1, <1>4, Zenon DEF TraceFits
<1>10. \A i \in 1..s : Listed(i)' <=> Listed(i)
  BY <1>4, <1>6, Zenon DEF Listed, is_valid_address
<1>11. Listed(s + 1)' <=> taken
  <2>1. s + 1 > first_frame <=> s >= first_frame
    BY <1>5
  <2>. QED
    BY <1>4, <1>6, <2>1, Zenon DEF Listed, is_valid_address
<1>12. \A i, f : Entry(i, f)' = Entry(i, f)
  BY <1>4, Zenon DEF Entry, FileBytes
<1>13. ASSUME NEW k \in 1..Len(out)
       PROVE  /\ out'[k] = out[k] /\ out[k].from \in 1..s
              /\ \A i \in 1..s, f \in Frames :
                   i = out[k].from /\ f = stack[i] => Listed(i) /\ out[k] = Entry(i - 1, f)
              /\ k > 1 => out[k - 1].from < out[k].from
  <2>1. k \in DOMAIN out
    BY <1>5
  <2>. QED
    BY <1>1, <1>2, <1>7, <2>1, Zenon DEF EntriesAreFrames
<1> HIDE DEF taken
\* What the invariant says of an entry that was there.
<1>14. ASSUME NEW k \in 1..Len(out)
       PROVE  /\ out'[k].from \in 1..(s + 1)
              /\ \A i \in 1..(s + 1), f \in Frames :
                   i = out'[k].from /\ f = stack'[i] => Listed(i)' /\ out'[k] = Entry(i - 1, f)'
              /\ k > 1 => out'[k - 1].from < out'[k].from
  <2>1. out'[k] = out[k] /\ out[k].from \in 1..s
    BY <1>13
  <2>2. out'[k].from \in 1..(s + 1)
    BY <2>1
  <2>3. ASSUME NEW i \in 1..(s + 1), NEW f \in Frames, i = out'[k].from, f = stack'[i]
        PROVE  Listed(i)' /\ out'[k] = Entry(i - 1, f)'
    <3>1. i \in 1..s /\ i = out[k].from
      BY <2>1, <2>3, Zenon
    <3>2. f = stack[i]
      BY <1>6, <2>3, <3>1, Zenon
    <3>3. Listed(i) /\ out[k] = Entry(i - 1, f)
      BY <1>13, <3>1, <3>2, Zenon
    <3>. QED
      BY <1>10, <1>12, <2>1, <3>1, <3>3, Zenon
  <2>4. ASSUME k > 1 PROVE out'[k - 1].from < out'[k].from
    <3>1. k - 1 \in 1..Len(out)
      BY <1>7, <2>4
    <3>2. out'[k - 1] = out[k - 1]
      BY <1>7, <3>1, Zenon
    <3>. QED
      BY <1>13, <2>1, <2>4, <3>2, Zenon
  <2>. QED
    BY <2>2, <2>3, <2>4, Zenon
\* And of the new one.
<1>15. ASSUME taken, NEW k, k = Len(out) + 1
       PROVE  /\ out'[k].from \in 1..(s + 1)
              /\ \A i \in 1..(s + 1), f \in Frames :
                   i = out'[k].from /\ f = stack'[i] => Listed(i)' /\ out'[k] = Entry(i - 1, f)'
              /\ k > 1 => out'[k - 1].from < out'[k].from
  <2>1. out'[k] = new /\ new.from = s + 1 /\ s + 1 \in 1..(s + 1) /\ (s + 1) - 1 = s
    BY <1>3, <1>7, <1>15
  <2>2. ASSUME NEW i \in 1..(s + 1), NEW f \in Frames, i = out'[k].from, f = stack'[i]
        PROVE  Listed(i)' /\ out'[k] = Entry(i - 1, f)'
    <3>1. i = s + 1 /\ f = fr
      BY <1>6, <2>1, <2>2, Zenon
    <3>2. Listed(i)'
      BY <1>11, <1>15, <3>1, Zenon
    <3>3. Entry(i - 1, f)' = Entry(i - 1, f)
      BY <1>12, Zenon
    <3>4. Entry(i - 1, f) = new
      BY <1>3, <2>1, <3>1, Zenon
    <3>. QED
      BY <2>1, <3>2, <3>3, <3>4, Zenon
  <2>3. ASSUME k > 1 PROVE out'[k - 1].from < out'[k].from
    <3>1. k - 1 \in 1..Len(out)
      BY <1>7, <1>15, <2>3
    <3>2. out'[k - 1] = out[k - 1] /\ out[k - 1].from \in 1..s
      BY <1>13, <3>1, Zenon
    <3>3. out[k - 1].from < s + 1
      BY <3>2
    <3>. QED
      BY <2>1, <3>2, <3>3, Zenon
  <2>. QED
    BY <2>1, <2>2, <2>3, Zenon
<1>16. EntriesAreFrames'
  <2>1. \A k \in DOMAIN out' : k \in 1..Len(out) \/ (taken /\ k = Len(out) + 1)
    <3>1. DOMAIN out' = 1..Len(out')
      BY <1>7
    <3>2. CASE taken
      BY <1>7, <3>1, <3>2
    <3>3. CASE ~taken
      BY <1>7, <3>1, <3>3
    <3>. QED
      BY <3>2, <3>3
  <2>. QED
    BY <1>6, <1>14, <1>15, <2>1, ZenonT(40) DEF EntriesAreFrames
<1>17. EveryFrameListed'
  <2> SUFFICES ASSUME NEW i \in 1..(s + 1), Listed(i)'
               PROVE  \E k \in DOMAIN out' : out'[k].from = i
    BY <1>6, Zenon DEF EveryFrameListed
  <2>1. CASE i \in 1..s
    <3>1. PICK k \in DOMAIN out : out[k].from = i
      BY <1>1, <1>2, <1>10, <2>1, Zenon DEF EveryFrameListed
    <3>2. k \in 1..Len(out) /\ k \in DOMAIN out'
      BY <1>5, <1>7
    <3>. QED
      BY <1>7, <3>1, <3>2, Zenon
  <2>2. CASE i = s + 1
    <3>1. taken
      BY <1>11, <2>2, Zenon
    <3>2. Len(out) + 1 \in DOMAIN out'
      BY <1>7, <3>1
    <3>. QED
      BY <1>3, <1>7, <2>2, <3>1, <3>2, Zenon
  <2>. QED
    BY <2>1, <2>2
<1>. QED
  BY <1>8, <1>9, <1>16, <1>17 DEF TraceInvariant

\* The frames and the entries do not change once they are printed.
LEMMA WalkedUntouched ==
  ASSUME EntriesAreFrames, EveryFrameListed, UNCHANGED <<params, stack, out>>
  PROVE  EntriesAreFrames' /\ EveryFrameListed'
<1>1. /\ Llvm' = Llvm /\ use_index' = use_index /\ first_frame' = first_frame
      /\ stack' = stack /\ out' = out
  BY DEF params
<1>2. \A i : Listed(i)' <=> Listed(i)
  BY <1>1, Zenon DEF Listed, is_valid_address
<1>3. \A i, f : Entry(i, f)' = Entry(i, f)
  BY <1>1, Zenon DEF Entry, FileBytes
<1>4. EntriesAreFrames'
  <2>1. ASSUME NEW k \in DOMAIN out'
        PROVE  /\ out'[k].from \in 1..Len(stack')
               /\ \A i \in 1..Len(stack'), f \in Frames :
                    i = out'[k].from /\ f = stack'[i] => Listed(i)' /\ out'[k] = Entry(i - 1, f)'
               /\ k > 1 => out'[k - 1].from < out'[k].from
    <3>1. k \in DOMAIN out
      BY <1>1, <2>1, Zenon
    <3>2. out'[k].from \in 1..Len(stack') /\ (k > 1 => out'[k - 1].from < out'[k].from)
      BY <1>1, <3>1 DEF EntriesAreFrames
    <3>3. ASSUME NEW i \in 1..Len(stack'), NEW f \in Frames, i = out'[k].from, f = stack'[i]
          PROVE  Listed(i)' /\ out'[k] = Entry(i - 1, f)'
      <4>1. i \in 1..Len(stack) /\ i = out[k].from /\ f = stack[i] /\ out'[k] = out[k]
        BY <1>1, <3>3, Zenon
      <4>2. Listed(i) /\ out[k] = Entry(i - 1, f)
        BY <3>1, <4>1, Zenon DEF EntriesAreFrames
      <4>. QED
        BY <1>2, <1>3, <4>1, <4>2, Zenon
    <3>. QED
      BY <3>2, <3>3, Zenon
  <2>. QED
    BY <2>1, Zenon DEF EntriesAreFrames
<1>5. EveryFrameListed'
  BY <1>1, <1>2, Zenon DEF EveryFrameListed
<1>. QED
  BY <1>4, <1>5

LEMMA PrintLineStep ==
  ASSUME TraceInvariant, PrintLine
  PROVE  TraceInvariant'
<1>1. TraceTypes /\ EntriesAreFrames /\ EveryFrameListed /\ TraceFits
  BY DEF TraceInvariant
<1>2. /\ UNCHANGED <<params, stack, out>> /\ buffer_size' = buffer_size
      /\ Llvm' = Llvm /\ use_index' = use_index /\ first_frame' = first_frame
      /\ stack' = stack /\ out' = out
  BY DEF PrintLine, params
<1>3. EntriesAreFrames' /\ EveryFrameListed'
  BY <1>1, <1>2, WalkedUntouched
<1>4. /\ out \in Seq(TraceEntry) /\ lines \in Seq([at : Nat, len : Nat]) /\ written \in Nat
      /\ buffer_size \in Nat
  BY <1>1 DEF TraceTypes
<1>5. PICK n \in Nat : n = Len(lines)
  BY <1>4
<1>6. PICK len \in Nat : len = to_string(out[n + 1], kLineBufferSize) /\ len < kLineBufferSize
  <2> DEFINE e == out[n + 1]
  <2>1. n + 1 \in 1..Len(out)
    BY <1>4, <1>5 DEF PrintLine
  <2>2. e \in TraceEntry
    BY <1>4, <2>1
  <2> HIDE DEF e
  <2>3. e.mem \in Memory /\ e.address \in Nat
    BY <2>2, Zenon DEF TraceEntry
  <2>4. kLineBufferSize \in Nat \ {0}
    BY TraceConstants
  <2>5. to_string(e, kLineBufferSize) \in 0..(kLineBufferSize - 1)
    BY <2>3, <2>4, LineInside, Zenon
  <2>. QED
    BY <2>4, <2>5 DEF e
<1>7. CASE ~LineFits(len)
  <2>1. lines' = lines /\ written' = written
    BY <1>5, <1>6, <1>7, Zenon DEF PrintLine
  <2>2. TraceTypes' /\ TraceFits'
    BY <1>1, <1>2, <2>1, Zenon DEF TraceTypes, TraceFits
  <2>. QED
    BY <1>3, <2>2 DEF TraceInvariant
<1>8. CASE LineFits(len)
  <2>0. PICK w \in Nat : w = written
    BY <1>4
  <2> DEFINE new == [at |-> w, len |-> len]
  <2>1. lines' = Append(lines, new) /\ written' = w + len + 1 /\ w + len + 1 < buffer_size
    BY <1>5, <1>6, <1>8, <2>0, Zenon DEF PrintLine, LineFits
  <2>2. new \in [at : Nat, len : Nat] /\ new.at = w /\ new.len = len
    OBVIOUS
  <2> HIDE DEF new
  <2>3. /\ lines' \in Seq([at : Nat, len : Nat]) /\ Len(lines') = n + 1 /\ lines'[n + 1] = new
        /\ \A k \in 1..n : lines'[k] = lines[k]
        /\ DOMAIN lines' = 1..(n + 1) /\ DOMAIN lines = 1..n /\ lines' # <<>>
    <3>1. /\ lines' \in Seq([at : Nat, len : Nat]) /\ Len(lines') = Len(lines) + 1
          /\ lines'[Len(lines) + 1] = new /\ lines' # <<>>
          /\ \A k \in 1..Len(lines) : lines'[k] = lines[k]
      <4> DEFINE Line == [at : Nat, len : Nat]
      <4>1. lines \in Seq(Line) /\ new \in Line
        BY <1>4, <2>2
      <4> HIDE DEF Line
      <4>2. /\ Append(lines, new) \in Seq(Line) /\ Append(lines, new) # <<>>
            /\ Len(Append(lines, new)) = Len(lines) + 1
            /\ Append(lines, new)[Len(lines) + 1] = new
            /\ \A k \in 1..Len(lines) : Append(lines, new)[k] = lines[k]
        BY <4>1, AppendProperties
      <4>. QED
        BY <2>1, <4>2, Zenon DEF Line
    <3>2. Len(lines') = n + 1 /\ lines'[n + 1] = new /\ \A k \in 1..n : lines'[k] = lines[k]
      BY <1>5, <3>1, Zenon
    <3>3. DOMAIN lines' = 1..(n + 1) /\ DOMAIN lines = 1..n
      BY <1>4, <1>5, <3>1, <3>2
    <3>. QED
      BY <3>1, <3>2, <3>3, Zenon
  <2>4. written' \in Nat /\ written' < buffer_size
    BY <2>1
  <2>5. TraceTypes'
    BY <1>1, <1>2, <2>3, <2>4, Zenon DEF TraceTypes
  <2>6. ASSUME NEW k \in 1..n
        PROVE  /\ lines'[k].at = IF k = 1 THEN 0 ELSE lines'[k - 1].at + lines'[k - 1].len + 1
               /\ lines'[k].len < kLineBufferSize
    <3>1. /\ lines[k].at = IF k = 1 THEN 0 ELSE lines[k - 1].at + lines[k - 1].len + 1
          /\ lines[k].len < kLineBufferSize
      BY <1>1, <2>3, Zenon DEF TraceFits
    <3>2. k # 1 => k - 1 \in 1..n
      OBVIOUS
    <3>. QED
      BY <2>3, <3>1, <3>2, Zenon
  <2>7. /\ new.at = IF n + 1 = 1 THEN 0 ELSE lines'[n].at + lines'[n].len + 1
        /\ (n + 1) - 1 = n
    <3>1. w = IF lines = <<>> THEN 0 ELSE lines[n].at + lines[n].len + 1
      BY <1>1, <1>5, <2>0, Zenon DEF TraceFits
    <3>2. n + 1 = 1 <=> lines = <<>>
      BY <1>4, <1>5
    <3>3. n + 1 # 1 => n \in 1..n
      OBVIOUS
    <3>4. (n + 1) - 1 = n
      OBVIOUS
    <3>. QED
      BY <2>2, <2>3, <3>1, <3>2, <3>3, <3>4, Zenon
  <2>8. ASSUME NEW k \in 1..(n + 1)
        PROVE  /\ lines'[k].at = IF k = 1 THEN 0 ELSE lines'[k - 1].at + lines'[k - 1].len + 1
               /\ lines'[k].len < kLineBufferSize
    <3>1. k \in 1..n \/ k = n + 1
      OBVIOUS
    <3>2. CASE k = n + 1
      BY <1>6, <2>2, <2>3, <2>7, <3>2, Zenon
    <3>. QED
      BY <2>6, <3>1, <3>2, Zenon
  <2>9. written' = lines'[Len(lines')].at + lines'[Len(lines')].len + 1
    BY <2>1, <2>2, <2>3, Zenon
  <2>10. TraceFits'
    BY <1>2, <2>3, <2>4, <2>8, <2>9, Zenon DEF TraceFits
  <2>. QED
    BY <1>3, <2>5, <2>10 DEF TraceInvariant
<1>. QED
  BY <1>7, <1>8

LEMMA TraceHolds == TraceInvariant /\ [TraceNext]_traceVars => TraceInvariant'
<1> SUFFICES ASSUME TraceInvariant, [TraceNext]_traceVars PROVE TraceInvariant'
  OBVIOUS
<1>1. ASSUME UNCHANGED <<params, stack, out, lines, written>> PROVE TraceInvariant'
  <2>1. TraceTypes /\ EntriesAreFrames /\ EveryFrameListed /\ TraceFits
    BY DEF TraceInvariant
  <2>2. /\ UNCHANGED <<params, stack, out>> /\ buffer_size' = buffer_size /\ Llvm' = Llvm
        /\ use_index' = use_index /\ first_frame' = first_frame /\ stack' = stack
        /\ out' = out /\ lines' = lines /\ written' = written
    BY <1>1 DEF params
  <2>3. EntriesAreFrames' /\ EveryFrameListed'
    BY <2>1, <2>2, WalkedUntouched
  <2>4. TraceTypes' /\ TraceFits'
    BY <2>1, <2>2, Zenon DEF TraceTypes, TraceFits
  <2>. QED
    BY <2>3, <2>4 DEF TraceInvariant
<1>2. WalkEnds \/ PrintEnds \/ TraceOver \/ UNCHANGED traceVars =>
        UNCHANGED <<params, stack, out, lines, written>>
  BY DEF WalkEnds, PrintEnds, TraceOver, traceVars, params
<1>. QED
  BY <1>1, <1>2, WalkStep, PrintLineStep, Zenon DEF TraceNext

\* TraceInvariant is inductive.
THEOREM TraceInvariance == TraceSpec => []TraceInvariant
BY TraceStart, TraceHolds, PTL DEF TraceSpec

\* stack_trace_from_current_context writes whole lines, one behind the other,
\* and stays inside the line buffer and the caller's buffer: for buffers and
\* arrays of any size, names of any length and any number of frames.
THEOREM TraceStaysInside == TraceSpec => []TraceFits
<1>1. TraceInvariant => TraceFits
  BY DEF TraceInvariant
<1>. QED
  BY <1>1, TraceInvariance, PTL

\* collect_stack_trace lists exactly the frames from first_frame on whose
\* address is in user space, in order, and every name that leaves room for its
\* terminator reads back: for any frames and arrays of any size.
THEOREM TraceNamesReadBack == TraceSpec => []NamesReadBack
<1>1. ASSUME TraceInvariant PROVE NamesReadBack
  <2>1. TraceTypes /\ EntriesAreFrames /\ EveryFrameListed
    BY <1>1 DEF TraceInvariant
  <2>2. /\ stack \in Seq(Frames) /\ out \in Seq(TraceEntry) /\ Llvm \in BOOLEAN
        /\ DOMAIN stack = 1..Len(stack)
    BY <2>1 DEF TraceTypes
  <2>3. ASSUME NEW k \in DOMAIN out
        PROVE  /\ out[k].from \in DOMAIN stack /\ stack[out[k].from] \in Frames
               /\ Listed(out[k].from)
               /\ out[k] = Entry(out[k].from - 1, stack[out[k].from])
               /\ k > 1 => out[k - 1].from < out[k].from
    <3>1. out[k].from \in 1..Len(stack) /\ (k > 1 => out[k - 1].from < out[k].from)
      BY <2>1, Zenon DEF EntriesAreFrames
    <3>2. stack[out[k].from] \in Frames
      BY <2>2, <3>1
    <3>. QED
      BY <2>1, <2>2, <3>1, <3>2, Zenon DEF EntriesAreFrames
  <2>4. ASSUME NEW k \in DOMAIN out
        PROVE  LET fr == stack[out[k].from] IN
               /\ k > 1 => out[k - 1].from < out[k].from
               /\ fr.function < kFunctionStrLength => FunctionOf(out[k]) = FunctionBytes(fr.function)
               /\ fr.file < kFileStrLength /\ (Llvm \/ fr.function <= kFunctionStrLength) =>
                    FileOf(out[k]) = [i \in 1..fr.file |-> "g"]
    <3> DEFINE fr == stack[out[k].from]
               e == Entry(out[k].from - 1, fr)
    <3>1. fr \in Frames /\ out[k] = e /\ (k > 1 => out[k - 1].from < out[k].from)
      BY <2>3, Zenon
    <3>2. /\ fr.function < kFunctionStrLength => FunctionOf(e) = FunctionBytes(fr.function)
          /\ fr.file < kFileStrLength /\ (Llvm \/ fr.function <= kFunctionStrLength) =>
               FileOf(e) = [i \in 1..fr.file |-> "g"]
      <4> HIDE DEF fr
      <4>. QED
        BY <2>2, <3>1, EntryNames, Zenon
    <3> HIDE DEF fr, e
    <3>. QED
      BY <3>1, <3>2, Zenon DEF fr
  <2>5. \A i \in DOMAIN stack : Listed(i) <=> \E k \in DOMAIN out : out[k].from = i
    BY <2>1, <2>2, <2>3, Zenon DEF EveryFrameListed
  <2>. QED
    BY <2>4, <2>5, Zenon DEF NamesReadBack, Listed, is_valid_address
<1>. QED
  BY <1>1, TraceInvariance, PTL
-----------------------------------------------------------------------------
(* ArgsCodec: the fold expressions *)

Values == (KindLists \X BOOLEAN) \cup Nat
Tags == {"header", "num", "obj", "ptr", "len", "chars"}
Bytes == [tag : Tags, val : Values, k : Nat]

IsSums(sums, n, first, sizes) ==
  /\ sums \in [0..n -> Nat] /\ sums[0] = first
  /\ \A i \in 1..n : sums[i] = sums[i - 1] + sizes[i]

\* The fields laid behind first, and their sizes added up in two parts.
Counted(n, first, fields, bytes, s1, s2, a, b) ==
  /\ first \in Seq(Bytes) /\ fields \in [1..n -> Seq(Bytes)] /\ IsLaid(Bytes, bytes, n, first, fields)
  /\ s1 \in [1..n -> Nat] /\ s2 \in [1..n -> Nat]
  /\ IsSums(a, n, Len(first), s1) /\ IsSums(b, n, 0, s2)
  /\ \A i \in 1..n : s1[i] + s2[i] = Len(fields[i])

\* The sum before the first size and after each of them.
LEMMA SumsFacts ==
  ASSUME NEW N \in Nat, NEW first \in Nat, NEW sizes \in [1..N -> Nat]
  PROVE  IsSums(Sums(first, sizes), N, first, sizes)
<1>0. Len(sizes) = N /\ sizes \in Seq(Nat)
  OBVIOUS
<1> DEFINE Adds(g, n) == g[0] = first /\ \A i \in 1..n : g[i] = g[i - 1] + sizes[i]
           T == {n \in Nat : n <= N => \E g \in [0..n -> Nat] : Adds(g, n)}
<1>1. 0 \in T
  <2> DEFINE g == [i \in 0..0 |-> first]
  <2>1. g \in [0..0 -> Nat] /\ Adds(g, 0)
    OBVIOUS
  <2> HIDE DEF g, Adds
  <2>. QED
    BY <2>1
<1>2. ASSUME NEW n \in T, n + 1 <= N PROVE \E g \in [0..(n + 1) -> Nat] : Adds(g, n + 1)
  <2>1. n \in Nat /\ n <= N /\ n + 1 \in 1..N
    BY <1>2
  <2>2. PICK g \in [0..n -> Nat] : Adds(g, n)
    BY <2>1
  <2> DEFINE h == [i \in 0..(n + 1) |-> IF i = n + 1 THEN g[n] + sizes[n + 1] ELSE g[i]]
  <2>3. h \in [0..(n + 1) -> Nat]
    BY <2>1, <2>2, SMTT(30)
  <2>4. h[0] = first
    BY <2>1, <2>2
  <2>5. ASSUME NEW i \in 1..(n + 1) PROVE h[i] = h[i - 1] + sizes[i]
    <3>1. i \in 0..(n + 1) /\ i - 1 \in 0..(n + 1) /\ i - 1 # n + 1
      BY <2>1
    <3>2. CASE i = n + 1
      BY <2>1, <3>1, <3>2
    <3>3. CASE i # n + 1
      <4>1. i \in 1..n
        BY <2>1, <3>3
      <4>. QED
        BY <2>2, <3>1, <3>3, <4>1
    <3>. QED
      BY <3>2, <3>3
  <2> HIDE DEF h
  <2>. QED
    BY <2>3, <2>4, <2>5
<1>3. ASSUME NEW n \in T PROVE n + 1 \in T
  <2> HIDE DEF Adds
  <2>1. n + 1 \in Nat
    OBVIOUS
  <2>. QED
    BY <1>2, <2>1
<1>4. PICK g \in [0..N -> Nat] : Adds(g, N)
  <2> HIDE DEF Adds
  <2>1. T \in SUBSET Nat
    OBVIOUS
  <2>2. N \in T
    <3> HIDE DEF T
    <3>. QED
      BY <1>1, <1>3, <2>1, SetInduction
  <2>. QED
    BY <2>2
<1>5. g = [i \in 0..N |-> IF i = 0 THEN first ELSE g[i - 1] + sizes[i]]
  BY <1>4
<1> DEFINE f == Sums(first, sizes)
<1>6. f = [i \in 0..N |-> IF i = 0 THEN first ELSE f[i - 1] + sizes[i]]
  BY <1>0, <1>5 DEF Sums
<1> HIDE DEF f
<1>7. /\ f[0] = first /\ DOMAIN f = 0..N
      /\ \A i \in 1..N : f[i] = f[i - 1] + sizes[i]
  BY <1>6, SMTT(30)
<1> DEFINE R == {n \in Nat : n <= N => f[n] \in Nat}
<1>8. R \in SUBSET Nat /\ 0 \in R
  BY <1>7
<1>9. ASSUME NEW n \in R PROVE n + 1 \in R
  <2>1. n \in Nat /\ n + 1 \in Nat /\ (n + 1) - 1 = n
    OBVIOUS
  <2>2. ASSUME n + 1 <= N PROVE f[n + 1] \in Nat
    <3>1. n + 1 \in 1..N /\ f[n] \in Nat
      BY <2>1, <2>2
    <3>. QED
      BY <1>7, <2>1, <3>1
  <2>. QED
    BY <2>1, <2>2
<1>10. \A n \in 0..N : f[n] \in Nat
  <2>1. \A n \in Nat : n \in R
    <3> HIDE DEF R
    <3>. QED
      BY <1>8, <1>9, SetInduction
  <2>. QED
    BY <2>1
<1>11. f \in [0..N -> Nat]
  BY <1>6, <1>10
<1>. QED
  BY <1>7, <1>11, Zenon DEF f, IsSums

\* The bytes before the first field and after each of them.
LEMMA LaidFacts ==
  ASSUME NEW N \in Nat, NEW first \in Seq(Bytes), NEW fields \in [1..N -> Seq(Bytes)]
  PROVE  IsLaid(Bytes, Laid(first, fields), N, first, fields)
<1>0. Len(fields) = N /\ fields \in Seq(Seq(Bytes))
  OBVIOUS
<1> DEFINE Lays(g, n) == g[0] = first /\ \A i \in 1..n : g[i] = g[i - 1] \o fields[i]
           T == {n \in Nat : n <= N => \E g \in [0..n -> Seq(Bytes)] : Lays(g, n)}
<1>1. 0 \in T
  <2> DEFINE g == [i \in 0..0 |-> first]
  <2>1. g \in [0..0 -> Seq(Bytes)] /\ Lays(g, 0)
    OBVIOUS
  <2> HIDE DEF g, Lays
  <2>. QED
    BY <2>1
<1>2. ASSUME NEW n \in T, n + 1 <= N PROVE \E g \in [0..(n + 1) -> Seq(Bytes)] : Lays(g, n + 1)
  <2>1. n \in Nat /\ n <= N /\ n + 1 \in 1..N
    BY <1>2
  <2>2. PICK g \in [0..n -> Seq(Bytes)] : Lays(g, n)
    BY <2>1
  <2> DEFINE h == [i \in 0..(n + 1) |-> IF i = n + 1 THEN g[n] \o fields[n + 1] ELSE g[i]]
  <2>3. h \in [0..(n + 1) -> Seq(Bytes)]
    BY <2>1, <2>2
  <2>4. h[0] = first
    BY <2>1, <2>2, SMTT(30)
  <2>5. ASSUME NEW i \in 1..(n + 1) PROVE h[i] = h[i - 1] \o fields[i]
    <3>1. i \in 0..(n + 1) /\ i - 1 \in 0..(n + 1) /\ i - 1 # n + 1
      BY <2>1
    <3>2. CASE i = n + 1
      BY <2>1, <3>1, <3>2
    <3>3. CASE i # n + 1
      <4>1. i \in 1..n
        BY <2>1, <3>3
      <4>. QED
        BY <2>2, <3>1, <3>3, <4>1
    <3>. QED
      BY <3>2, <3>3
  <2> HIDE DEF h
  <2>. QED
    BY <2>3, <2>4, <2>5
<1>3. ASSUME NEW n \in T PROVE n + 1 \in T
  <2> HIDE DEF Lays
  <2>1. n + 1 \in Nat
    OBVIOUS
  <2>. QED
    BY <1>2, <2>1
<1>4. PICK g \in [0..N -> Seq(Bytes)] : Lays(g, N)
  <2> HIDE DEF Lays
  <2>1. T \in SUBSET Nat
    OBVIOUS
  <2>2. N \in T
    <3> HIDE DEF T
    <3>. QED
      BY <1>1, <1>3, <2>1, SetInduction
  <2>. QED
    BY <2>2
<1>5. g = [i \in 0..N |-> IF i = 0 THEN first ELSE g[i - 1] \o fields[i]]
  <2> DEFINE c == [i \in 1..N |-> g[i - 1] \o fields[i]]
  <2>1. \A i \in 1..N : g[i] = c[i]
    BY <1>4
  <2>2. g = [i \in 0..N |-> IF i = 0 THEN first ELSE c[i]]
    <3> HIDE DEF c
    <3>. QED
      BY <1>4, <2>1, SMTT(30)
  <2>3. \A i \in 0..N : i # 0 => c[i] = g[i - 1] \o fields[i]
    <3>1. \A i \in 0..N : i # 0 => i \in 1..N
      OBVIOUS
    <3>. QED
      BY <3>1, Zenon
  <2>. QED
    <3> HIDE DEF c
    <3>. QED
      BY <2>2, <2>3, Zenon
<1> DEFINE f == Laid(first, fields)
<1>6. f = [i \in 0..N |-> IF i = 0 THEN first ELSE f[i - 1] \o fields[i]]
  BY <1>0, <1>5, Zenon DEF Laid
<1> HIDE DEF f
<1>7. /\ f[0] = first /\ DOMAIN f = 0..N
      /\ \A i \in 1..N : f[i] = f[i - 1] \o fields[i]
  <2>1. 0 \in 0..N /\ \A i \in 1..N : i \in 0..N /\ i # 0
    OBVIOUS
  <2>2. f[0] = first /\ DOMAIN f = 0..N
    BY <1>6, <2>1
  <2>3. ASSUME NEW i \in 1..N PROVE f[i] = f[i - 1] \o fields[i]
    <3>1. f[i] = IF i = 0 THEN first ELSE f[i - 1] \o fields[i]
      BY <1>6, <2>1, Zenon
    <3>. QED
      BY <2>1, <3>1, Zenon
  <2>. QED
    BY <2>2, <2>3
<1> DEFINE R == {n \in Nat : n <= N => f[n] \in Seq(Bytes)}
<1>8. R \in SUBSET Nat /\ 0 \in R
  BY <1>7
<1>9. ASSUME NEW n \in R PROVE n + 1 \in R
  <2>1. n \in Nat /\ n + 1 \in Nat /\ (n + 1) - 1 = n
    OBVIOUS
  <2>2. ASSUME n + 1 <= N PROVE f[n + 1] \in Seq(Bytes)
    <3>1. n + 1 \in 1..N /\ f[n] \in Seq(Bytes)
      BY <2>1, <2>2
    <3>. QED
      <4>1. f[n + 1] = f[(n + 1) - 1] \o fields[n + 1]
        BY <1>7, <3>1, Zenon
      <4>2. f[n + 1] = f[n] \o fields[n + 1]
        BY <2>1, <4>1, Zenon
      <4>3. fields[n + 1] \in Seq(Bytes)
        BY <3>1, Zenon
      <4>. QED
        BY <3>1, <4>2, <4>3
  <2>. QED
    BY <2>1, <2>2
<1>10. \A n \in 0..N : f[n] \in Seq(Bytes)
  <2>1. \A n \in Nat : n \in R
    <3> HIDE DEF R
    <3>. QED
      BY <1>8, <1>9, SetInduction
  <2>. QED
    BY <2>1
<1>11. f \in [0..N -> Seq(Bytes)]
  BY <1>6, <1>10
<1>. QED
  BY <1>7, <1>11, Zenon DEF f, IsLaid

\* As many bytes are written as the sizes add up to.
LEMMA LaidLength ==
  ASSUME NEW N \in Nat, NEW first, NEW fields, NEW bytes, NEW s1, NEW s2, NEW a, NEW b,
         Counted(N, first, fields, bytes, s1, s2, a, b)
  PROVE  Len(bytes[N]) = a[N] + b[N]
<1>1. /\ bytes \in [0..N -> Seq(Bytes)] /\ bytes[0] = first
      /\ fields \in [1..N -> Seq(Bytes)] /\ \A i \in 1..N : bytes[i] = bytes[i - 1] \o fields[i]
  BY Zenon DEF Counted, IsLaid
<1>2. /\ a \in [0..N -> Nat] /\ b \in [0..N -> Nat] /\ a[0] = Len(first) /\ b[0] = 0
      /\ \A i \in 1..N : a[i] = a[i - 1] + s1[i] /\ b[i] = b[i - 1] + s2[i]
      /\ first \in Seq(Bytes) /\ s1 \in [1..N -> Nat] /\ s2 \in [1..N -> Nat]
  BY Zenon DEF Counted, IsSums
<1> DEFINE T == {n \in Nat : n <= N => Len(bytes[n]) = a[n] + b[n]}
<1>3. T \in SUBSET Nat /\ 0 \in T
  BY <1>1, <1>2
<1>4. ASSUME NEW n \in T PROVE n + 1 \in T
  <2>1. n \in Nat /\ n + 1 \in Nat /\ (n + 1) - 1 = n
    OBVIOUS
  <2>2. ASSUME n + 1 <= N PROVE Len(bytes[n + 1]) = a[n + 1] + b[n + 1]
    <3>1. n \in 0..N /\ n + 1 \in 1..N /\ Len(bytes[n]) = a[n] + b[n]
      BY <2>1, <2>2
    <3>2. bytes[n + 1] = bytes[n] \o fields[n + 1]
      BY <1>1, <2>1, <3>1, Zenon
    <3>3. bytes[n] \in Seq(Bytes) /\ fields[n + 1] \in Seq(Bytes)
      BY <1>1, <3>1, Zenon
    <3>4. Len(bytes[n] \o fields[n + 1]) = Len(bytes[n]) + Len(fields[n + 1])
      BY <3>3
    <3>5. a[n + 1] = a[n] + s1[n + 1] /\ b[n + 1] = b[n] + s2[n + 1]
      BY <1>2, <2>1, <3>1, Zenon
    <3>6. s1[n + 1] + s2[n + 1] = Len(fields[n + 1])
      BY <3>1, Zenon DEF Counted
    <3>7. a[n] \in Nat /\ b[n] \in Nat /\ s1[n + 1] \in Nat /\ s2[n + 1] \in Nat
      BY <1>2, <3>1, Zenon
    <3>8. PICK u \in Nat, v \in Nat, x \in Nat, y \in Nat :
            u = a[n] /\ v = b[n] /\ x = s1[n + 1] /\ y = s2[n + 1]
      BY <3>7, Zenon
    <3>9. (u + x) + (v + y) = (u + v) + (x + y)
      OBVIOUS
    <3>10. Len(bytes[n + 1]) = (u + v) + (x + y)
      BY <3>1, <3>2, <3>4, <3>6, <3>8, Zenon
    <3>11. a[n + 1] + b[n + 1] = (u + x) + (v + y)
      BY <3>5, <3>8, Zenon
    <3>. QED
      BY <3>9, <3>10, <3>11, Zenon
  <2>. QED
    BY <2>1, <2>2
<1>5. N \in T
  <2> HIDE DEF T
  <2>. QED
    BY <1>3, <1>4, SetInduction
<1>. QED
  BY <1>5
-----------------------------------------------------------------------------
(* ArgsCodec: the inductive invariant *)

\* The bytes from at on are a field, all of it.
HasField(data, at, tag, val, n) ==
  /\ at + n <= Len(data)
  /\ \A k \in 1..n : data[at + k] = [tag |-> tag, val |-> val, k |-> k]

\* What the i-th argument was is written from at on.
HasArg(data, at, i, kind, ref, said) ==
  /\ kind = "num" => HasField(data, at, "num", said.ver, NumSize)
  /\ kind = "str" /\ ref => /\ HasField(data, at, "ptr", i, SizeT)
                            /\ HasField(data, at + SizeT, "len", said.len, SizeT)
  /\ kind = "str" /\ ~ref => /\ HasField(data, at, "len", said.len, SizeT)
                             /\ HasField(data, at + SizeT, "chars", said.ver, said.len)

\* The payload of an entry: the arguments of the call its header names, each
\* where the one before it ends.
Layout(e, kinds, ref, ends) ==
  /\ ReadField(e.data, 0, "header", HeaderBytes) = <<kinds, ref>>
  /\ DOMAIN e.said = 1..Len(kinds) /\ ends[0] = HeaderBytes
  /\ \A i \in 1..Len(kinds) :
       /\ ends[i] = ends[i - 1] + ReadSize(kinds[i], ref, e.said[i].len)
       /\ HasArg(e.data, ends[i - 1], i, kinds[i], ref, e.said[i])
       /\ kinds[i] = "num" => e.said[i].len = NumSize

SizedRight(e) == e.size = Len(e.data) /\ e.size <= kCapacity /\ e.size < kMaxPayloadSize

\* A variable the caller has not changed since is what it was.
Remembered(them, e) == \A i \in DOMAIN e.said : i \in e.touched \/ them[i].ver = e.said[i].ver

LaidOut(e) ==
  \E kinds \in KindLists, ref \in BOOLEAN : \E ends \in [0..Len(kinds) -> Nat] :
    Layout(e, kinds, ref, ends)

EntryRight(them, e) == SizedRight(e) /\ Remembered(them, e) /\ LaidOut(e)

ArgRight(e, i, arg, kind, ref) ==
  kind = "obj" \/ (kind = "str" /\ ref /\ i \in e.touched) \/ Same(arg, e.said[i])

\* The first m arguments are read and are right, and at is where the next begins.
ReadSoFar(e, read, m, at, kinds, ref, ends) ==
  /\ Layout(e, kinds, ref, ends)
  /\ DOMAIN read = 1..m /\ m <= Len(kinds) /\ at = ends[m]
  /\ \A i \in 1..m : ArgRight(e, i, read[i], kinds[i], ref)

ReadingArgs(e, read, at) ==
  \E kinds \in KindLists, ref \in BOOLEAN : \E ends \in [0..Len(kinds) -> Nat], m \in Nat :
    ReadSoFar(e, read, m, at, kinds, ref, ends)

\* The call has more arguments than are read one by one.
AnyOrder(e) == Len(ReadField(e.data, 0, "header", HeaderBytes)[1]) > kInOrder

BeingRead(e, read, at, ordered) == IF ordered THEN ReadingArgs(e, read, at) ELSE AnyOrder(e)

Variable == [len : Nat, ver : Nat]
Queued == [data : Seq(Bytes), size : Nat, said : UNION {[1..n -> Variable] : n \in Index},
           touched : SUBSET Index]

CodecTypes ==
  /\ locals \in [Index -> Variable] /\ queue_ \in Seq(Queued)
  /\ rpc \in {"idle", "reading"} /\ inOrder \in BOOLEAN

CodecInvariant ==
  /\ CodecTypes
  /\ \A e \in 1..Len(queue_) : EntryRight(locals, queue_[e])
  /\ rpc = "idle" => args = <<>>
  /\ rpc = "reading" => queue_ # <<>> /\ BeingRead(queue_[1], args, offset, inOrder)
-----------------------------------------------------------------------------
(* ArgsCodec: fields *)

LEMMA FieldFacts ==
  ASSUME NEW tag \in Tags, NEW val \in Values, NEW n \in Nat
  PROVE  /\ Field(tag, val, n) \in Seq(Bytes) /\ Len(Field(tag, val, n)) = n
         /\ HasField(Field(tag, val, n), 0, tag, val, n)
<1> DEFINE f == Field(tag, val, n)
<1>1. \A k \in 1..n : f[k] = [tag |-> tag, val |-> val, k |-> k]
  BY DEF Field
<1>2. \A k \in 1..n : [tag |-> tag, val |-> val, k |-> k] \in Bytes
  BY DEF Bytes
<1>3. f \in [1..n -> Bytes]
  <2>1. f = [k \in 1..n |-> [tag |-> tag, val |-> val, k |-> k]]
    BY DEF Field
  <2> HIDE DEF f
  <2>. QED
    BY <1>2, <2>1, Zenon
<1> HIDE DEF f
<1>4. f \in Seq(Bytes) /\ Len(f) = n
  BY <1>3
<1>5. HasField(f, 0, tag, val, n)
  <2>1. \A k \in 1..n : 0 + k = k
    OBVIOUS
  <2>2. 0 + n <= n
    OBVIOUS
  <2>3. \A k \in 1..n : f[0 + k] = [tag |-> tag, val |-> val, k |-> k]
    BY <1>1, <2>1, Zenon
  <2>. QED
    BY <1>4, <2>2, <2>3, Zenon DEF HasField
<1>. QED
  BY <1>4, <1>5 DEF f

LEMMA FieldRead ==
  ASSUME NEW data, NEW at \in Nat, NEW tag, NEW val, NEW n \in Nat, n # 0,
         HasField(data, at, tag, val, n)
  PROVE  ReadField(data, at, tag, n) = val
<1>1. n > 0 /\ 1 \in 1..n
  OBVIOUS
<1>2. at + n <= Len(data) /\ \A k \in 1..n : data[at + k] = [tag |-> tag, val |-> val, k |-> k]
  BY DEF HasField
<1>3. \A k \in 1..n : data[at + k].tag = tag /\ data[at + k].k = k /\ data[at + k].val = val
  <2> TAKE k \in 1..n
  <2>1. data[at + k] = [tag |-> tag, val |-> val, k |-> k]
    BY <1>2, Zenon
  <2>. QED
    BY <2>1
<1>4. data[at + 1].val = val
  BY <1>1, <1>3, Zenon
<1>. QED
  BY <1>1, <1>2, <1>3, <1>4, Zenon DEF ReadField

\* A field is found wherever the bytes that hold it are copied to.
LEMMA FieldMoved ==
  ASSUME NEW data \in Seq(Bytes), NEW part \in Seq(Bytes), NEW at \in Nat, Carries(data, at, part),
         NEW o \in Nat, NEW tag, NEW val, NEW n \in Nat, HasField(part, o, tag, val, n)
  PROVE  HasField(data, at + o, tag, val, n)
<1>1. PICK len \in Nat, total \in Nat : Len(part) = len /\ Len(data) = total
  OBVIOUS
<1>2. o + n <= len /\ \A k \in 1..n : part[o + k] = [tag |-> tag, val |-> val, k |-> k]
  BY <1>1, Zenon DEF HasField
<1>3. at + len <= total /\ \A k \in 1..len : data[at + k] = part[k]
  BY <1>1, Zenon DEF Carries
<1>4. (at + o) + n <= total
  BY <1>2, <1>3
<1>5. ASSUME NEW k \in 1..n PROVE data[(at + o) + k] = [tag |-> tag, val |-> val, k |-> k]
  <2>1. o + k \in 1..len /\ at + (o + k) = (at + o) + k
    BY <1>2
  <2>2. data[at + (o + k)] = part[o + k]
    BY <1>3, <2>1, Zenon
  <2>. QED
    BY <1>2, <2>1, <2>2, Zenon
<1>. QED
  BY <1>1, <1>4, <1>5, Zenon DEF HasField

LEMMA ArgMoved ==
  ASSUME NEW data \in Seq(Bytes), NEW part \in Seq(Bytes), NEW at \in Nat, Carries(data, at, part),
         NEW i, NEW kind, NEW ref, NEW said, said.len \in Nat, HasArg(part, 0, i, kind, ref, said)
  PROVE  HasArg(data, at, i, kind, ref, said)
<1>0. SizeT \in Nat /\ NumSize \in Nat /\ 0 \in Nat /\ 0 + SizeT = SizeT /\ at + 0 = at
  BY CodecConstants
<1>1. \A o \in Nat, n \in Nat : \A tag, val :
        HasField(part, o, tag, val, n) => HasField(data, at + o, tag, val, n)
  BY FieldMoved
<1>2. ASSUME kind = "num" PROVE HasField(data, at, "num", said.ver, NumSize)
  BY <1>0, <1>1, <1>2, Zenon DEF HasArg
<1>3. ASSUME kind = "str", ref
      PROVE  HasField(data, at, "ptr", i, SizeT) /\ HasField(data, at + SizeT, "len", said.len, SizeT)
  BY <1>0, <1>1, <1>3, Zenon DEF HasArg
<1>4. ASSUME kind = "str", ~ref
      PROVE  /\ HasField(data, at, "len", said.len, SizeT)
             /\ HasField(data, at + SizeT, "chars", said.ver, said.len)
  BY <1>0, <1>1, <1>4, Zenon DEF HasArg
<1>. QED
  BY <1>2, <1>3, <1>4, Zenon DEF HasArg

\* Two fields behind one another.
LEMMA FieldsJoined ==
  ASSUME NEW t1 \in Tags, NEW v1 \in Values, NEW n1 \in Nat,
         NEW t2 \in Tags, NEW v2 \in Values, NEW n2 \in Nat
  PROVE  LET j == Field(t1, v1, n1) \o Field(t2, v2, n2)
         IN /\ j \in Seq(Bytes) /\ Len(j) = n1 + n2
            /\ HasField(j, 0, t1, v1, n1) /\ HasField(j, 0 + n1, t2, v2, n2)
<1> DEFINE a == Field(t1, v1, n1)
           b == Field(t2, v2, n2)
           j == a \o b
<1>1. a \in Seq(Bytes) /\ Len(a) = n1 /\ HasField(a, 0, t1, v1, n1)
  BY FieldFacts, Zenon
<1>2. b \in Seq(Bytes) /\ Len(b) = n2 /\ HasField(b, 0, t2, v2, n2)
  BY FieldFacts, Zenon
<1> HIDE DEF a, b
<1>3. /\ j \in Seq(Bytes) /\ Len(j) = n1 + n2
      /\ \A k \in 1..n1 : j[k] = a[k]
      /\ \A k \in 1..n2 : j[n1 + k] = b[k]
  BY <1>1, <1>2
<1> HIDE DEF j
<1>4. Carries(j, 0, a) /\ Carries(j, n1, b)
  BY <1>1, <1>2, <1>3 DEF Carries
<1>5. 0 \in Nat /\ 0 + 0 = 0 /\ n1 + 0 = 0 + n1
  OBVIOUS
<1>6. HasField(j, 0, t1, v1, n1)
  <2>1. HasField(j, 0 + 0, t1, v1, n1)
    BY <1>1, <1>3, <1>4, <1>5, FieldMoved, Zenon
  <2>. QED
    BY <1>5, <2>1, Zenon
<1>7. HasField(j, 0 + n1, t2, v2, n2)
  <2>1. HasField(j, n1 + 0, t2, v2, n2)
    BY <1>2, <1>3, <1>4, <1>5, FieldMoved, Zenon
  <2>. QED
    BY <1>5, <2>1, Zenon
<1>. QED
  BY <1>3, <1>6, <1>7 DEF a, b, j

-----------------------------------------------------------------------------
(* ArgsCodec: what is written *)

LEMMA ArgWritten ==
  ASSUME locals \in [Index -> Variable], NEW i \in Index, NEW kind \in Kinds, NEW ref \in BOOLEAN
  PROVE  /\ WriteArg(i, kind, ref) \in Seq(Bytes)
         /\ Len(WriteArg(i, kind, ref)) = ReadSize(kind, ref, Said(i, kind).len)
         /\ MinSize(kind, ref) \in Nat /\ AddDynamic(kind, ref, locals[i]) \in Nat
         /\ MinSize(kind, ref) + AddDynamic(kind, ref, locals[i]) = Len(WriteArg(i, kind, ref))
         /\ HasArg(WriteArg(i, kind, ref), 0, i, kind, ref, Said(i, kind))
         /\ Said(i, kind) \in Variable /\ Said(i, kind).ver = locals[i].ver
         /\ kind = "num" => Said(i, kind).len = NumSize
<1>1. SizeT \in Nat /\ NumSize \in Nat /\ Kinds \subseteq {"str", "num", "obj"} /\ MaxArgs \in Nat
  BY CodecConstants
<1>2. locals[i].len \in Nat /\ locals[i].ver \in Nat /\ i \in Nat
  BY <1>1 DEF Variable, Index
<1> DEFINE said == Said(i, kind)
<1>3. /\ said \in Variable /\ said.ver = locals[i].ver
      /\ said.len = IF kind = "str" THEN locals[i].len ELSE NumSize
  BY <1>1, <1>2 DEF Said, Variable
<1>4. \A x \in Nat : x \in Values
  BY DEF Values
<1>5. {"num", "obj", "ptr", "len", "chars"} \subseteq Tags
  BY DEF Tags
<1> HIDE DEF said
<1>6. CASE kind = "num"
  <2> DEFINE w == Field("num", locals[i].ver, NumSize)
  <2>1. w \in Seq(Bytes) /\ Len(w) = NumSize /\ HasField(w, 0, "num", locals[i].ver, NumSize)
    BY <1>1, <1>2, <1>4, <1>5, FieldFacts
  <2>2. WriteArg(i, kind, ref) = w
    BY <1>6 DEF WriteArg
  <2> HIDE DEF w
  <2>3. HasArg(w, 0, i, kind, ref, said)
    BY <1>3, <1>6, <2>1 DEF HasArg
  <2>4. /\ ReadSize(kind, ref, said.len) = NumSize
        /\ MinSize(kind, ref) = NumSize /\ AddDynamic(kind, ref, locals[i]) = 0
    BY <1>6 DEF ReadSize, MinSize, AddDynamic
  <2>. QED
    BY <1>1, <1>3, <1>6, <2>1, <2>2, <2>3, <2>4 DEF said
<1>7. CASE kind = "obj"
  <2> DEFINE w == Field("obj", locals[i].ver, SizeT)
  <2>1. w \in Seq(Bytes) /\ Len(w) = SizeT
    BY <1>1, <1>2, <1>4, <1>5, FieldFacts
  <2>2. WriteArg(i, kind, ref) = w
    BY <1>7 DEF WriteArg
  <2> HIDE DEF w
  <2>3. HasArg(w, 0, i, kind, ref, said)
    BY <1>7 DEF HasArg
  <2>4. /\ ReadSize(kind, ref, said.len) = SizeT
        /\ MinSize(kind, ref) = SizeT /\ AddDynamic(kind, ref, locals[i]) = 0
    BY <1>7 DEF ReadSize, MinSize, AddDynamic
  <2>. QED
    BY <1>1, <1>3, <1>7, <2>1, <2>2, <2>3, <2>4 DEF said
<1>8. CASE kind = "str" /\ ref
  <2> DEFINE w == Field("ptr", i, SizeT) \o Field("len", locals[i].len, SizeT)
  <2>1. /\ w \in Seq(Bytes) /\ Len(w) = SizeT + SizeT
        /\ HasField(w, 0, "ptr", i, SizeT) /\ HasField(w, 0 + SizeT, "len", locals[i].len, SizeT)
    <3>1. /\ "ptr" \in Tags /\ "len" \in Tags /\ i \in Values /\ locals[i].len \in Values
      BY <1>2, <1>4, <1>5
    <3>. QED
      BY <1>1, <3>1, FieldsJoined, Zenon
  <2>2. WriteArg(i, kind, ref) = w
    BY <1>8 DEF WriteArg
  <2> HIDE DEF w
  <2>3. HasArg(w, 0, i, kind, ref, said)
    BY <1>3, <1>8, <2>1 DEF HasArg
  <2>4. /\ ReadSize(kind, ref, said.len) = 2 * SizeT
        /\ MinSize(kind, ref) = 2 * SizeT /\ AddDynamic(kind, ref, locals[i]) = 0
    BY <1>8 DEF ReadSize, MinSize, AddDynamic
  <2>5. 2 * SizeT = SizeT + SizeT /\ 2 * SizeT \in Nat /\ 2 * SizeT + 0 = 2 * SizeT
    BY <1>1
  <2>6. /\ WriteArg(i, kind, ref) \in Seq(Bytes)
        /\ Len(WriteArg(i, kind, ref)) = ReadSize(kind, ref, said.len)
        /\ MinSize(kind, ref) \in Nat /\ AddDynamic(kind, ref, locals[i]) \in Nat
        /\ MinSize(kind, ref) + AddDynamic(kind, ref, locals[i]) = Len(WriteArg(i, kind, ref))
    <3>1. 0 \in Nat
      OBVIOUS
    <3>. QED
      BY <2>1, <2>2, <2>4, <2>5, <3>1, Zenon
  <2>7. HasArg(WriteArg(i, kind, ref), 0, i, kind, ref, said)
    BY <2>2, <2>3, Zenon
  <2>. QED
    BY <1>3, <1>8, <2>6, <2>7 DEF said
<1>9. CASE kind = "str" /\ ~ref
  <2> DEFINE w == Field("len", locals[i].len, SizeT) \o Field("chars", locals[i].ver, locals[i].len)
  <2>1. /\ w \in Seq(Bytes) /\ Len(w) = SizeT + locals[i].len
        /\ HasField(w, 0, "len", locals[i].len, SizeT)
        /\ HasField(w, 0 + SizeT, "chars", locals[i].ver, locals[i].len)
    <3>1. /\ "len" \in Tags /\ "chars" \in Tags /\ locals[i].len \in Values /\ locals[i].ver \in Values
      BY <1>2, <1>4, <1>5
    <3>. QED
      BY <1>1, <1>2, <3>1, FieldsJoined, Zenon
  <2>2. WriteArg(i, kind, ref) = w
    BY <1>9 DEF WriteArg
  <2> HIDE DEF w
  <2>3. HasArg(w, 0, i, kind, ref, said)
    BY <1>3, <1>9, <2>1 DEF HasArg
  <2>4. /\ ReadSize(kind, ref, said.len) = SizeT + locals[i].len
        /\ MinSize(kind, ref) = 0 /\ AddDynamic(kind, ref, locals[i]) = SizeT + locals[i].len
    BY <1>3, <1>9 DEF ReadSize, MinSize, AddDynamic
  <2>. QED
    BY <1>1, <1>2, <1>3, <1>9, <2>1, <2>2, <2>3, <2>4 DEF said
<1>. QED
  BY <1>1, <1>6, <1>7, <1>8, <1>9

\* A payload is as long as it was counted to be, and holds what the header
\* says, each argument where the one before it ends.
LEMMA PayloadWritten ==
  ASSUME locals \in [Index -> Variable], NEW kinds \in KindLists, NEW ref \in BOOLEAN,
         NEW e, e.data = Payload(kinds, ref),
         e.said = [i \in DOMAIN kinds |-> Said(i, kinds[i])]
  PROVE  /\ LaidOut(e) /\ e.data \in Seq(Bytes) /\ Len(e.data) = TotalSize(kinds, ref)
         /\ kTotalSizeExcludingDynStr(kinds, ref) \in Nat
<1>1. PICK N \in Index : kinds \in [1..N -> Kinds]
  BY DEF KindLists
<1>2. /\ N \in Nat /\ DOMAIN kinds = 1..N /\ Len(kinds) = N /\ 1..N \subseteq Index
      /\ HeaderBytes \in Nat /\ HeaderBytes # 0
  BY <1>1, CodecConstants DEF Index
<1> DEFINE fields == [i \in DOMAIN kinds |-> WriteArg(i, kinds[i], ref)]
           fixed == [i \in DOMAIN kinds |-> MinSize(kinds[i], ref)]
           extra == [i \in DOMAIN kinds |-> AddDynamic(kinds[i], ref, locals[i])]
           bytes == Laid(Header(kinds, ref), fields)
           a == Sums(HeaderBytes, fixed)
           b == Sums(0, extra)
           ends == [i \in 0..N |-> Len(bytes[i])]
<1>3. \A i \in 1..N :
        /\ WriteArg(i, kinds[i], ref) \in Seq(Bytes)
        /\ Len(WriteArg(i, kinds[i], ref)) = ReadSize(kinds[i], ref, Said(i, kinds[i]).len)
        /\ MinSize(kinds[i], ref) \in Nat /\ AddDynamic(kinds[i], ref, locals[i]) \in Nat
        /\ MinSize(kinds[i], ref) + AddDynamic(kinds[i], ref, locals[i])
              = Len(WriteArg(i, kinds[i], ref))
        /\ HasArg(WriteArg(i, kinds[i], ref), 0, i, kinds[i], ref, Said(i, kinds[i]))
        /\ Said(i, kinds[i]) \in Variable
        /\ kinds[i] = "num" => Said(i, kinds[i]).len = NumSize
  <2> TAKE i \in 1..N
  <2>1. i \in Index /\ kinds[i] \in Kinds
    BY <1>1, <1>2
  <2>. QED
    BY <2>1, ArgWritten, Zenon
<1>4. /\ fields \in [1..N -> Seq(Bytes)] /\ fixed \in [1..N -> Nat] /\ extra \in [1..N -> Nat]
      /\ \A i \in 1..N : /\ fields[i] = WriteArg(i, kinds[i], ref)
                         /\ fixed[i] + extra[i] = Len(fields[i])
  <2>1. \A i \in 1..N : fields[i] = WriteArg(i, kinds[i], ref)
    BY <1>2, Zenon
  <2>2. \A i \in 1..N : fixed[i] = MinSize(kinds[i], ref) /\ extra[i] = AddDynamic(kinds[i], ref, locals[i])
    BY <1>2, Zenon
  <2>3. fields \in [1..N -> Seq(Bytes)]
    BY <1>2, <1>3, Zenon
  <2>4. fixed \in [1..N -> Nat] /\ extra \in [1..N -> Nat]
    BY <1>2, <1>3, Zenon
  <2> HIDE DEF fields, fixed, extra
  <2>. QED
    BY <1>3, <2>1, <2>2, <2>3, <2>4, Zenon
<1>5. /\ Header(kinds, ref) \in Seq(Bytes) /\ Len(Header(kinds, ref)) = HeaderBytes
      /\ HasField(Header(kinds, ref), 0, "header", <<kinds, ref>>, HeaderBytes)
  <2>1. "header" \in Tags /\ <<kinds, ref>> \in Values
    BY DEF Tags, Values
  <2>. QED
    BY <1>2, <2>1, FieldFacts, Zenon DEF Header
<1> HIDE DEF fields, fixed, extra
<1>6. IsLaid(Bytes, bytes, N, Header(kinds, ref), fields)
  BY <1>2, <1>4, <1>5, LaidFacts, Zenon
<1>7. IsSums(a, N, HeaderBytes, fixed) /\ IsSums(b, N, 0, extra)
  <2>1. 0 \in Nat
    OBVIOUS
  <2>2. IsSums(a, N, HeaderBytes, fixed)
    BY <1>2, <1>4, SumsFacts, Zenon
  <2>3. IsSums(b, N, 0, extra)
    BY <1>2, <1>4, <2>1, SumsFacts, Zenon
  <2>. QED
    BY <2>2, <2>3
<1>8. /\ e.data = bytes[N] /\ TotalSize(kinds, ref) = a[N] + b[N]
      /\ kTotalSizeExcludingDynStr(kinds, ref) = a[N]
  BY <1>2, Zenon DEF Payload, TotalSize, kTotalSizeExcludingDynStr, dynamic_strings_length,
                    fields, fixed, extra
<1> HIDE DEF bytes, a, b
<1>9. Len(e.data) = TotalSize(kinds, ref)
  <2>1. PICK h : h = Header(kinds, ref)
    OBVIOUS
  <2>2. Counted(N, h, fields, bytes, fixed, extra, a, b)
    BY <1>4, <1>5, <1>6, <1>7, <2>1, Zenon DEF Counted
  <2>3. Len(bytes[N]) = a[N] + b[N]
    BY <1>2, <2>2, LaidLength
  <2>. QED
    BY <1>8, <2>3, Zenon
<1>10. /\ bytes \in [0..N -> Seq(Bytes)] /\ bytes[0] = Header(kinds, ref)
       /\ \A i \in 1..N : bytes[i] = bytes[i - 1] \o fields[i]
       /\ \A i \in 0..N : Len(bytes[i]) \in Nat /\ Carries(e.data, 0, bytes[i])
       /\ e.data \in Seq(Bytes)
  <2>1. /\ bytes \in [0..N -> Seq(Bytes)] /\ bytes[0] = Header(kinds, ref)
        /\ \A i \in 1..N : bytes[i] = bytes[i - 1] \o fields[i]
    BY <1>6, Zenon DEF IsLaid
  <2>2. \A i \in 0..N : Carries(bytes[N], 0, bytes[i])
    BY <1>2, <1>4, <1>6, LaidStays, Zenon
  <2>3. ASSUME NEW i \in 0..N PROVE Len(bytes[i]) \in Nat
    <3>1. bytes[i] \in Seq(Bytes)
      BY <2>1, Zenon
    <3>. QED
      BY <3>1
  <2>4. N \in 0..N
    BY <1>2
  <2>5. e.data \in Seq(Bytes)
    BY <1>8, <2>1, <2>4, Zenon
  <2>. QED
    BY <1>8, <2>1, <2>2, <2>3, <2>5, Zenon
<1>11. /\ ends \in [0..N -> Nat] /\ ends[0] = HeaderBytes
       /\ \A i \in 0..N : ends[i] = Len(bytes[i])
  <2>1. 0 \in 0..N
    BY <1>2
  <2>2. \A i \in 0..N : ends[i] = Len(bytes[i])
    BY Zenon
  <2>3. ends \in [0..N -> Nat]
    BY <1>10, Zenon
  <2>. QED
    BY <1>5, <1>10, <2>1, <2>2, <2>3, Zenon
<1> HIDE DEF ends
<1>12. ReadField(e.data, 0, "header", HeaderBytes) = <<kinds, ref>>
  <2>1. 0 \in 0..N /\ 0 \in Nat /\ 0 + 0 = 0
    BY <1>2
  <2>2. Carries(e.data, 0, Header(kinds, ref))
    BY <1>10, <2>1, Zenon
  <2>3. HasField(e.data, 0 + 0, "header", <<kinds, ref>>, HeaderBytes)
    BY <1>2, <1>5, <1>10, <2>1, <2>2, FieldMoved, Zenon
  <2>. QED
    BY <1>2, <2>1, <2>3, FieldRead, Zenon
<1>13. ASSUME NEW i \in 1..N
       PROVE  /\ ends[i] = ends[i - 1] + ReadSize(kinds[i], ref, e.said[i].len)
              /\ HasArg(e.data, ends[i - 1], i, kinds[i], ref, e.said[i])
              /\ kinds[i] = "num" => e.said[i].len = NumSize
  <2>1. i \in 0..N /\ i - 1 \in 0..N /\ N \in 0..N
    BY <1>2
  <2>2. e.said[i] = Said(i, kinds[i])
    BY <1>2, Zenon
  <2>3. /\ fields[i] \in Seq(Bytes) /\ Len(fields[i]) = ReadSize(kinds[i], ref, e.said[i].len)
        /\ HasArg(fields[i], 0, i, kinds[i], ref, e.said[i]) /\ e.said[i] \in Variable
        /\ kinds[i] = "num" => e.said[i].len = NumSize
    BY <1>3, <1>4, <2>2, Zenon
  <2>4. /\ bytes[i] = bytes[i - 1] \o fields[i] /\ bytes[i - 1] \in Seq(Bytes)
        /\ Carries(e.data, 0, bytes[i]) /\ ends[i - 1] = Len(bytes[i - 1]) /\ ends[i] = Len(bytes[i])
    BY <1>10, <1>11, <2>1, Zenon
  <2>5. ends[i] = ends[i - 1] + Len(fields[i]) /\ Carries(e.data, ends[i - 1], fields[i])
    <3> DEFINE x == bytes[i - 1]
               y == fields[i]
               d == e.data
    <3>1. x \in Seq(Bytes) /\ y \in Seq(Bytes) /\ d \in Seq(Bytes) /\ Carries(d, 0, x \o y)
      BY <1>10, <2>3, <2>4, Zenon
    <3> HIDE DEF x, y, d
    <3>2. Len(x \o y) = Len(x) + Len(y) /\ Carries(d, Len(x), y)
      BY <3>1, CarriedPart, Zenon
    <3>. QED
      BY <2>4, <3>2, Zenon DEF x, y, d
  <2>6. ends[i] = ends[i - 1] + ReadSize(kinds[i], ref, e.said[i].len)
    BY <2>3, <2>5, Zenon
  <2>7. e.said[i].len \in Nat
    BY <2>3 DEF Variable
  <2>8. ends[i - 1] \in Nat
    BY <1>11, <2>1, Zenon
  <2>9. HasArg(e.data, ends[i - 1], i, kinds[i], ref, e.said[i])
    BY <1>10, <2>3, <2>5, <2>7, <2>8, ArgMoved, ZenonT(40)
  <2>. QED
    BY <2>3, <2>6, <2>9, Zenon
<1>14. DOMAIN e.said = 1..Len(kinds)
  BY <1>2, Zenon
<1>15. Layout(e, kinds, ref, ends)
  BY <1>2, <1>11, <1>12, <1>13, <1>14, Zenon DEF Layout
<1>16. a[N] \in Nat
  <2>1. N \in 0..N
    BY <1>2
  <2>. QED
    BY <1>7, <2>1, Zenon DEF IsSums
<1>. QED
  BY <1>2, <1>8, <1>9, <1>10, <1>11, <1>15, <1>16, Zenon DEF LaidOut

LEMMA SumsOfNothing ==
  ASSUME NEW N \in Nat, NEW s, NEW a, IsSums(a, N, 0, s), \A i \in 1..N : s[i] = 0
  PROVE  a[N] = 0
<1>1. a \in [0..N -> Nat] /\ a[0] = 0 /\ \A i \in 1..N : a[i] = a[i - 1] + 0
  BY Zenon DEF IsSums
<1> DEFINE T == {n \in Nat : n <= N => a[n] = 0}
<1>2. T \in SUBSET Nat /\ 0 \in T
  BY <1>1
<1>3. ASSUME NEW n \in T PROVE n + 1 \in T
  <2>1. n \in Nat /\ n + 1 \in Nat /\ (n + 1) - 1 = n /\ 0 + 0 = 0
    OBVIOUS
  <2>2. ASSUME n + 1 <= N PROVE a[n + 1] = 0
    <3>1. n + 1 \in 1..N /\ a[n] = 0
      BY <2>1, <2>2
    <3>. QED
      BY <1>1, <2>1, <3>1, Zenon
  <2>. QED
    BY <2>1, <2>2
<1>4. N \in T
  <2> HIDE DEF T
  <2>. QED
    BY <1>2, <1>3, SetInduction
<1>. QED
  BY <1>4

\* By reference nothing is added to what the compiler has counted.
LEMMA NothingDynamic ==
  ASSUME NEW kinds \in KindLists
  PROVE  dynamic_strings_length(kinds, TRUE) = 0
<1>1. PICK N \in Index : kinds \in [1..N -> Kinds]
  BY DEF KindLists
<1>2. N \in Nat /\ DOMAIN kinds = 1..N /\ Len(kinds) = N /\ 0 \in Nat
  BY <1>1, CodecConstants DEF Index
<1> DEFINE s == [i \in DOMAIN kinds |-> AddDynamic(kinds[i], TRUE, locals[i])]
<1>3. \A i \in DOMAIN kinds : AddDynamic(kinds[i], TRUE, locals[i]) = 0
  BY DEF AddDynamic
<1>4. s \in [1..N -> Nat] /\ \A i \in 1..N : s[i] = 0
  BY <1>2, <1>3, Zenon
<1>5. dynamic_strings_length(kinds, TRUE) = Sums(0, s)[N]
  BY <1>2, Zenon DEF dynamic_strings_length
<1> HIDE DEF s
<1>6. IsSums(Sums(0, s), N, 0, s)
  BY <1>2, <1>4, SumsFacts, Zenon
<1>7. Sums(0, s)[N] = 0
  BY <1>2, <1>4, <1>6, SumsOfNothing
<1>. QED
  BY <1>5, <1>7, Zenon
-----------------------------------------------------------------------------
(* ArgsCodec: what is read *)

LEMMA ArgRead ==
  ASSUME locals \in [Index -> Variable], NEW data, NEW at \in Nat, NEW i \in Index,
         NEW kind \in Kinds, NEW ref \in BOOLEAN, NEW said \in Variable,
         HasArg(data, at, i, kind, ref, said), kind = "num" => said.len = NumSize
  PROVE  LET arg == ReadArg(data, at, kind, ref)
         IN /\ arg \in [len : Nat, ver : Int]
            /\ ReadSize(kind, ref, arg.len) = ReadSize(kind, ref, said.len)
            /\ kind # "obj" /\ (kind = "str" /\ ref => locals[i].ver = said.ver) => Same(arg, said)
<1> DEFINE arg == ReadArg(data, at, kind, ref)
           Holder(who) == IF who \in Index THEN locals[who].ver ELSE Garbage
<1>1. /\ SizeT \in Nat /\ SizeT # 0 /\ NumSize \in Nat /\ NumSize # 0 /\ at + SizeT \in Nat
      /\ Kinds \subseteq {"str", "num", "obj"} /\ Garbage \in Int
  BY CodecConstants DEF Garbage
<1>2. said.len \in Nat /\ said.ver \in Nat
  BY DEF Variable
<1>3. \A who : Holder(who) \in Int
  BY <1>1 DEF Variable
<1>4. CASE kind = "num"
  <2>1. HasField(data, at, "num", said.ver, NumSize)
    BY <1>4, Zenon DEF HasArg
  <2>2. ReadField(data, at, "num", NumSize) = said.ver
    BY <1>1, <2>1, FieldRead, Zenon
  <2>3. arg = [len |-> NumSize, ver |-> said.ver]
    BY <1>4, <2>2 DEF ReadArg
  <2> HIDE DEF arg
  <2>4. ReadSize(kind, ref, arg.len) = ReadSize(kind, ref, said.len)
    BY <1>4 DEF ReadSize
  <2>. QED
    BY <1>1, <1>2, <1>4, <2>3, <2>4 DEF arg, Same
<1>5. CASE kind = "obj"
  <2>1. arg = [len |-> NumSize, ver |-> Holder(ReadField(data, at, "ptr", SizeT))]
    BY <1>5 DEF ReadArg
  <2> HIDE DEF arg, Holder
  <2>2. ReadSize(kind, ref, arg.len) = ReadSize(kind, ref, said.len)
    BY <1>5 DEF ReadSize
  <2>3. arg \in [len : Nat, ver : Int]
    BY <1>1, <1>3, <2>1
  <2>. QED
    BY <1>5, <2>2, <2>3 DEF arg
<1>6. CASE kind = "str" /\ ref
  <2>1. HasField(data, at, "ptr", i, SizeT) /\ HasField(data, at + SizeT, "len", said.len, SizeT)
    BY <1>6, Zenon DEF HasArg
  <2>2. ReadField(data, at, "ptr", SizeT) = i /\ ReadField(data, at + SizeT, "len", SizeT) = said.len
    BY <1>1, <2>1, FieldRead, Zenon
  <2>3. arg = [len |-> said.len, ver |-> locals[i].ver]
    BY <1>6, <2>2 DEF ReadArg
  <2>4. locals[i].ver \in Nat
    BY DEF Variable
  <2> HIDE DEF arg
  <2>5. arg \in [len : Nat, ver : Int] /\ arg.len = said.len /\ arg.ver = locals[i].ver
    BY <1>2, <2>3, <2>4
  <2>6. (kind = "str" /\ ref => locals[i].ver = said.ver) => Same(arg, said)
    BY <1>6, <2>5, Zenon DEF Same
  <2>7. ReadSize(kind, ref, arg.len) = ReadSize(kind, ref, said.len)
    BY <2>5, Zenon
  <2>. QED
    BY <2>5, <2>6, <2>7, Zenon DEF arg
<1>7. CASE kind = "str" /\ ~ref
  <2>1. /\ HasField(data, at, "len", said.len, SizeT)
        /\ HasField(data, at + SizeT, "chars", said.ver, said.len)
    BY <1>7, Zenon DEF HasArg
  <2>2. ReadField(data, at, "len", SizeT) = said.len
    BY <1>1, <2>1, FieldRead, Zenon
  <2>3. arg = [len |-> said.len, ver |-> ReadField(data, at + SizeT, "chars", said.len)]
    BY <1>7, <2>2 DEF ReadArg
  <2> HIDE DEF arg
  <2>4. CASE said.len = 0
    <3>1. ReadField(data, at + SizeT, "chars", said.len) = Garbage
      BY <2>4 DEF ReadField
    <3>2. arg \in [len : Nat, ver : Int] /\ arg.len = said.len
      BY <1>1, <1>2, <2>3, <3>1
    <3>. QED
      BY <2>4, <3>2 DEF arg, Same
  <2>5. CASE said.len # 0
    <3>1. ReadField(data, at + SizeT, "chars", said.len) = said.ver
      BY <1>1, <1>2, <2>1, <2>5, FieldRead, Zenon
    <3>2. arg \in [len : Nat, ver : Int] /\ arg.len = said.len /\ arg.ver = said.ver
      BY <1>2, <2>3, <3>1
    <3>. QED
      BY <3>2 DEF arg, Same
  <2>. QED
    BY <2>4, <2>5
<1>. QED
  BY <1>1, <1>4, <1>5, <1>6, <1>7
-----------------------------------------------------------------------------
(* ArgsCodec: the steps *)

LEMMA CodecStart == CodecInit => CodecInvariant
<1> SUFFICES ASSUME CodecInit PROVE CodecInvariant
  OBVIOUS
<1>1. locals \in [Index -> Variable]
  <2>1. [len : StrLens, ver : {0}] \subseteq Variable
    <3>1. StrLens \subseteq Nat /\ {0} \subseteq Nat
      BY CodecConstants
    <3>. QED
      BY <3>1 DEF Variable
  <2>. QED
    BY <2>1 DEF CodecInit
<1>2. queue_ \in Seq(Queued) /\ Len(queue_) = 0 /\ rpc = "idle" /\ args = <<>> /\ inOrder = TRUE
  BY DEF CodecInit
<1>. QED
  BY <1>1, <1>2 DEF CodecInvariant, CodecTypes

\* An entry that is right is appended, the others stay as they are.
LEMMA AppendedRight ==
  ASSUME CodecInvariant, NEW new \in Queued, EntryRight(locals, new), queue_' = Append(queue_, new),
         UNCHANGED <<locals, rpc, offset, args, inOrder>>
  PROVE  CodecInvariant'
<1>1. queue_ \in Seq(Queued) /\ Len(queue_) \in Nat
  BY DEF CodecInvariant, CodecTypes
<1>2. /\ queue_' \in Seq(Queued) /\ Len(queue_') = Len(queue_) + 1
      /\ queue_'[Len(queue_) + 1] = new /\ \A e \in 1..Len(queue_) : queue_'[e] = queue_[e]
  BY <1>1
<1>3. CodecTypes'
  BY <1>2 DEF CodecInvariant, CodecTypes
<1>4. ASSUME NEW e \in 1..Len(queue_') PROVE EntryRight(locals', queue_'[e])
  <2>1. locals' = locals
    OBVIOUS
  <2>2. CASE e = Len(queue_) + 1
    BY <1>2, <2>1, <2>2, Zenon
  <2>3. CASE e # Len(queue_) + 1
    <3>1. e \in 1..Len(queue_)
      BY <1>1, <1>2, <2>3
    <3>2. EntryRight(locals, queue_[e])
      BY <3>1, Zenon DEF CodecInvariant
    <3>. QED
      BY <1>2, <2>1, <3>1, <3>2, Zenon
  <2>. QED
    BY <2>2, <2>3
<1>5. rpc' = "idle" => args' = <<>>
  BY DEF CodecInvariant
<1>6. ASSUME rpc' = "reading" PROVE queue_' # <<>> /\ BeingRead(queue_'[1], args', offset', inOrder')
  <2>1. queue_ # <<>> /\ BeingRead(queue_[1], args, offset, inOrder)
    BY <1>6, Zenon DEF CodecInvariant
  <2>2. 1 \in 1..Len(queue_)
    BY <1>1, <2>1
  <2>3. queue_' # <<>>
    BY <1>1, <1>2
  <2>. QED
    BY <1>2, <2>1, <2>2, <2>3, Zenon
<1>. QED
  BY <1>3, <1>4, <1>5, <1>6, Zenon DEF CodecInvariant

LEMMA LogStep ==
  ASSUME CodecInvariant, NEW kinds \in KindLists, NEW ref \in BOOLEAN, Log(kinds, ref)
  PROVE  CodecInvariant'
<1> DEFINE said == [i \in DOMAIN kinds |-> Said(i, kinds[i])]
           new == [data |-> Payload(kinds, ref), size |-> TotalSize(kinds, ref),
                   said |-> said, touched |-> {}]
<1>1. PICK N \in Index : kinds \in [1..N -> Kinds]
  BY DEF KindLists
<1>2. /\ N \in Nat /\ DOMAIN kinds = 1..N /\ Len(kinds) = N /\ 1..N \subseteq Index
      /\ kCapacity \in Nat /\ kMaxPayloadSize \in Nat
  BY <1>1, CodecConstants DEF Index
<1>3. CodecTypes /\ locals \in [Index -> Variable]
  BY DEF CodecInvariant, CodecTypes
<1>4. said \in [1..N -> Variable] /\ \A i \in 1..N : said[i].ver = locals[i].ver
  <2>1. \A i \in 1..N : Said(i, kinds[i]) \in Variable /\ Said(i, kinds[i]).ver = locals[i].ver
    <3> TAKE i \in 1..N
    <3>1. i \in Index /\ kinds[i] \in Kinds
      BY <1>1, <1>2
    <3>. QED
      BY <1>3, <3>1, ArgWritten, Zenon
  <2>. QED
    BY <1>2, <2>1, Zenon
<1>5. /\ new.data = Payload(kinds, ref) /\ new.size = TotalSize(kinds, ref)
      /\ new.said = said /\ new.touched = {}
  OBVIOUS
<1>6. queue_' = Append(queue_, new) /\ UNCHANGED <<locals, rpc, offset, args, inOrder>>
  BY DEF Log
<1> HIDE DEF new, said
<1>7. /\ LaidOut(new) /\ new.data \in Seq(Bytes) /\ Len(new.data) = TotalSize(kinds, ref)
      /\ kTotalSizeExcludingDynStr(kinds, ref) \in Nat
  BY <1>3, <1>5, PayloadWritten, Zenon DEF said
<1>8. TotalSize(kinds, ref) \in Nat
  <2>1. Len(new.data) \in Nat
    BY <1>7
  <2>. QED
    BY <1>7, <2>1, Zenon
<1>9. SizedRight(new)
  <2>1. ~Dropped(kinds, ref) /\ kTotalSizeExcludingDynStr(kinds, ref) <= kCapacity
    BY DEF Log, Compiles
  <2>2. TotalSize(kinds, ref) < kMaxPayloadSize
    BY <1>2, <1>8, <2>1 DEF Dropped
  <2>3. CASE ref
    <3>1. TotalSize(kinds, TRUE) = kTotalSizeExcludingDynStr(kinds, TRUE) + 0
      BY NothingDynamic, Zenon DEF TotalSize
    <3>2. ref = TRUE
      BY <2>3
    <3>3. kTotalSizeExcludingDynStr(kinds, ref) + 0 = kTotalSizeExcludingDynStr(kinds, ref)
      BY <1>7
    <3>4. TotalSize(kinds, ref) <= kCapacity
      BY <2>1, <3>1, <3>2, <3>3, Zenon
    <3>. QED
      BY <1>5, <1>7, <2>2, <3>4, Zenon DEF SizedRight
  <2>4. CASE ~ref
    <3>1. TotalSize(kinds, ref) <= kCapacity
      BY <1>2, <1>8, <2>1, <2>4 DEF Dropped
    <3>. QED
      BY <1>5, <1>7, <2>2, <3>1, Zenon DEF SizedRight
  <2>. QED
    BY <2>3, <2>4
<1>10. Remembered(locals, new)
  <2>1. DOMAIN new.said = 1..N
    BY <1>4, <1>5
  <2>. QED
    BY <1>4, <1>5, <2>1, Zenon DEF Remembered
<1>11. new \in Queued
  <2>1. new.said \in UNION {[1..n -> Variable] : n \in Index}
    BY <1>1, <1>4, <1>5, Zenon
  <2>2. new = [data |-> new.data, size |-> new.size, said |-> new.said, touched |-> new.touched]
    BY DEF new
  <2>3. new.data \in Seq(Bytes) /\ new.size \in Nat /\ new.touched \in SUBSET Index
    BY <1>5, <1>7, <1>8, Zenon
  <2>. QED
    BY <2>1, <2>2, <2>3 DEF Queued
<1>12. EntryRight(locals, new)
  BY <1>7, <1>9, <1>10, Zenon DEF EntryRight
<1>. QED
  BY <1>6, <1>11, <1>12, AppendedRight

\* An entry whose touched set alone has grown.
LEMMA TouchedRight ==
  ASSUME NEW e \in Queued, NEW i \in Index, NEW f, f = [e EXCEPT !.touched = @ \cup {i}]
  PROVE  /\ f \in Queued /\ f.data = e.data /\ f.size = e.size /\ f.said = e.said
         /\ f.touched = e.touched \cup {i}
         /\ SizedRight(e) => SizedRight(f)
         /\ LaidOut(e) => LaidOut(f)
         /\ \A read, at, o : BeingRead(e, read, at, o) => BeingRead(f, read, at, o)
<1>1. /\ f \in Queued /\ f.data = e.data /\ f.size = e.size /\ f.said = e.said
      /\ f.touched = e.touched \cup {i}
  BY DEF Queued
<1>2. SizedRight(e) => SizedRight(f)
  BY <1>1, Zenon DEF SizedRight
<1>3. \A kinds, ref, ends : Layout(e, kinds, ref, ends) => Layout(f, kinds, ref, ends)
  BY <1>1 DEF Layout
<1>4. LaidOut(e) => LaidOut(f)
  BY <1>3, Zenon DEF LaidOut
<1>5. \A j, arg, kind, ref : ArgRight(e, j, arg, kind, ref) => ArgRight(f, j, arg, kind, ref)
  <2>1. e.touched \subseteq f.touched
    BY <1>1, Zenon
  <2>. QED
    BY <1>1, <2>1, Zenon DEF ArgRight
<1>6. ASSUME NEW read, NEW m, NEW at, NEW kinds, NEW ref, NEW ends, ReadSoFar(e, read, m, at, kinds, ref, ends)
      PROVE  ReadSoFar(f, read, m, at, kinds, ref, ends)
  <2>1. Layout(f, kinds, ref, ends) /\ DOMAIN read = 1..m /\ m <= Len(kinds) /\ at = ends[m]
    BY <1>3, <1>6, Zenon DEF ReadSoFar
  <2>2. \A j \in 1..m : ArgRight(f, j, read[j], kinds[j], ref)
    BY <1>5, <1>6, Zenon DEF ReadSoFar
  <2>. QED
    BY <2>1, <2>2, Zenon DEF ReadSoFar
<1>7. ASSUME NEW read, NEW at, ReadingArgs(e, read, at)
      PROVE  ReadingArgs(f, read, at)
  <2>1. PICK kinds \in KindLists, ref \in BOOLEAN : \E ends \in [0..Len(kinds) -> Nat], m \in Nat :
          ReadSoFar(e, read, m, at, kinds, ref, ends)
    BY <1>7, Zenon DEF ReadingArgs
  <2>2. PICK ends \in [0..Len(kinds) -> Nat], m \in Nat : ReadSoFar(e, read, m, at, kinds, ref, ends)
    BY <2>1, Zenon
  <2>3. ReadSoFar(f, read, m, at, kinds, ref, ends)
    BY <1>6, <2>2, Zenon
  <2>. QED
    BY <2>2, <2>3, Zenon DEF ReadingArgs
<1>8. \A read, at, o : BeingRead(e, read, at, o) => BeingRead(f, read, at, o)
  <2>1. AnyOrder(e) <=> AnyOrder(f)
    BY <1>1, Zenon DEF AnyOrder
  <2>. QED
    BY <1>7, <2>1, Zenon DEF BeingRead
<1>. QED
  BY <1>1, <1>2, <1>4, <1>8, Zenon

LEMMA AssignStep ==
  ASSUME CodecInvariant, NEW i \in Index, NEW len \in StrLens, Assign(i, len)
  PROVE  CodecInvariant'
<1>1. /\ queue_ \in Seq(Queued) /\ Len(queue_) \in Nat /\ DOMAIN queue_ = 1..Len(queue_)
      /\ locals \in [Index -> Variable]
  BY DEF CodecInvariant, CodecTypes
<1>2. /\ locals' = [locals EXCEPT ![i] = [len |-> len, ver |-> @.ver + 1]]
      /\ queue_' = [e \in DOMAIN queue_ |-> [queue_[e] EXCEPT !.touched = @ \cup {i}]]
      /\ UNCHANGED <<rpc, offset, args, inOrder>>
  BY DEF Assign
<1>3. /\ locals' \in [Index -> Variable]
      /\ \A j \in Index : j # i => locals'[j] = locals[j]
  <2>1. [len |-> len, ver |-> locals[i].ver + 1] \in Variable
    BY <1>1, CodecConstants DEF Variable
  <2>. QED
    BY <1>1, <1>2, <2>1
<1>4. \A e \in 1..Len(queue_) : queue_[e] \in Queued
  BY <1>1
<1>5. \A e \in 1..Len(queue_) :
        /\ queue_'[e] \in Queued /\ queue_'[e].said = queue_[e].said
        /\ queue_'[e].touched = queue_[e].touched \cup {i}
        /\ SizedRight(queue_[e]) => SizedRight(queue_'[e])
        /\ LaidOut(queue_[e]) => LaidOut(queue_'[e])
        /\ \A read, at, o : BeingRead(queue_[e], read, at, o) => BeingRead(queue_'[e], read, at, o)
  <2> TAKE e \in 1..Len(queue_)
  <2>1. queue_'[e] = [queue_[e] EXCEPT !.touched = @ \cup {i}]
    BY <1>1, <1>2
  <2>. QED
    BY <1>4, <2>1, TouchedRight
<1>6. queue_' \in Seq(Queued) /\ Len(queue_') = Len(queue_)
  <2>1. DOMAIN queue_' = 1..Len(queue_)
    BY <1>1, <1>2, Zenon
  <2>2. queue_' = [e \in 1..Len(queue_) |-> queue_'[e]]
    BY <1>1, <1>2
  <2>3. queue_' \in [1..Len(queue_) -> Queued]
    BY <1>5, <2>2, Zenon
  <2>. QED
    BY <1>1, <2>3
<1>7. CodecTypes'
  BY <1>2, <1>3, <1>6 DEF CodecInvariant, CodecTypes
<1>8. ASSUME NEW e \in 1..Len(queue_') PROVE EntryRight(locals', queue_'[e])
  <2>1. e \in 1..Len(queue_)
    BY <1>6
  <2>2. EntryRight(locals, queue_[e])
    BY <2>1, Zenon DEF CodecInvariant
  <2>3. \A j \in DOMAIN queue_[e].said : j \in Index
    <3>1. queue_[e].said \in UNION {[1..n -> Variable] : n \in Index}
      BY <1>4, <2>1 DEF Queued
    <3>2. PICK n \in Index : queue_[e].said \in [1..n -> Variable]
      BY <3>1
    <3>3. DOMAIN queue_[e].said = 1..n
      BY <3>2
    <3>. QED
      BY <3>3, CodecConstants DEF Index
  <2>4. Remembered(locals', queue_'[e])
    <3> SUFFICES ASSUME NEW j \in DOMAIN queue_[e].said
                 PROVE  j \in queue_'[e].touched \/ locals'[j].ver = queue_[e].said[j].ver
      BY <1>5, <2>1, Zenon DEF Remembered
    <3>1. j \in queue_[e].touched \/ locals[j].ver = queue_[e].said[j].ver
      BY <2>2, Zenon DEF EntryRight, Remembered
    <3>2. j \in queue_'[e].touched <=> j \in queue_[e].touched \/ j = i
      BY <1>5, <2>1, Zenon
    <3>. QED
      BY <1>3, <2>3, <3>1, <3>2, Zenon
  <2>. QED
    BY <1>5, <2>1, <2>2, <2>4, Zenon DEF EntryRight
<1>9. rpc' = "idle" => args' = <<>>
  BY <1>2 DEF CodecInvariant
<1>10. ASSUME rpc' = "reading" PROVE queue_' # <<>> /\ BeingRead(queue_'[1], args', offset', inOrder')
  <2>1. queue_ # <<>> /\ BeingRead(queue_[1], args, offset, inOrder)
    BY <1>2, <1>10, Zenon DEF CodecInvariant
  <2>2. 1 \in 1..Len(queue_)
    BY <1>1, <2>1
  <2>3. queue_' # <<>>
    BY <1>6, <2>2
  <2>4. BeingRead(queue_'[1], args, offset, inOrder)
    BY <1>5, <2>1, <2>2, Zenon
  <2>. QED
    BY <1>2, <2>3, <2>4, Zenon
<1>. QED
  BY <1>7, <1>8, <1>9, <1>10, Zenon DEF CodecInvariant

LEMMA BeginStep ==
  ASSUME CodecInvariant, Begin
  PROVE  CodecInvariant'
<1>1. /\ rpc = "idle" /\ queue_ # <<>> /\ rpc' = "reading" /\ offset' = HeaderBytes
      /\ inOrder' = TRUE /\ UNCHANGED <<locals, queue_, args>>
  BY DEF Begin
<1>2. CodecTypes /\ args = <<>> /\ queue_ \in Seq(Queued)
  BY <1>1 DEF CodecInvariant, CodecTypes
<1>3. CodecTypes'
  BY <1>1, <1>2 DEF CodecTypes
<1>4. 1 \in 1..Len(queue_)
  BY <1>1, <1>2
<1>5. LaidOut(queue_[1])
  BY <1>4, Zenon DEF CodecInvariant, EntryRight
<1>6. PICK kinds \in KindLists, ref \in BOOLEAN : \E ends \in [0..Len(kinds) -> Nat] :
        Layout(queue_[1], kinds, ref, ends)
  BY <1>5, Zenon DEF LaidOut
<1>7. PICK ends \in [0..Len(kinds) -> Nat] : Layout(queue_[1], kinds, ref, ends)
  BY <1>6, Zenon
<1>8. DOMAIN args = 1..0 /\ 1..0 = {} /\ 0 \in Nat
  BY <1>2
<1>9. Len(kinds) \in Nat /\ 0 <= Len(kinds)
  <2>1. PICK n \in Index : kinds \in [1..n -> Kinds]
    BY DEF KindLists
  <2>. QED
    BY <2>1, CodecConstants DEF Index
<1>10. ends[0] = HeaderBytes
  BY <1>7, Zenon DEF Layout
<1>11. ReadSoFar(queue_[1], args, 0, HeaderBytes, kinds, ref, ends)
  BY <1>7, <1>8, <1>9, <1>10, Zenon DEF ReadSoFar
<1>12. ReadingArgs(queue_[1], args, HeaderBytes)
  BY <1>7, <1>8, <1>11, Zenon DEF ReadingArgs
<1>13. queue_' # <<>> /\ BeingRead(queue_'[1], args', offset', inOrder')
  BY <1>1, <1>12, Zenon DEF BeingRead
<1>14. \A e \in 1..Len(queue_') : EntryRight(locals', queue_'[e])
  BY <1>1, Zenon DEF CodecInvariant
<1>15. rpc' # "idle"
  BY <1>1
<1>. QED
  BY <1>3, <1>13, <1>14, <1>15, Zenon DEF CodecInvariant

LEMMA FormatStep ==
  ASSUME CodecInvariant, Format
  PROVE  CodecInvariant'
<1>1. /\ rpc = "reading" /\ rpc' = "idle" /\ args' = <<>> /\ queue_' = Tail(queue_)
      /\ locals' = locals /\ inOrder' = TRUE
  BY DEF Format, ArgsRead
<1>2. /\ queue_ # <<>> /\ queue_ \in Seq(Queued) /\ locals \in [Index -> Variable]
  BY <1>1 DEF CodecInvariant, CodecTypes
<1>3. /\ queue_' \in Seq(Queued) /\ Len(queue_') = Len(queue_) - 1 /\ Len(queue_) \in Nat
      /\ \A e \in 1..Len(queue_') : queue_'[e] = queue_[e + 1]
  BY <1>1, <1>2
<1>4. CodecTypes'
  BY <1>1, <1>2, <1>3 DEF CodecTypes
<1>5. ASSUME NEW e \in 1..Len(queue_') PROVE EntryRight(locals', queue_'[e])
  <2>1. e + 1 \in 1..Len(queue_)
    BY <1>3
  <2>2. EntryRight(locals, queue_[e + 1])
    BY <2>1, Zenon DEF CodecInvariant
  <2>. QED
    BY <1>1, <1>3, <2>2, Zenon
<1>6. rpc' # "reading"
  BY <1>1
<1>. QED
  BY <1>1, <1>4, <1>5, <1>6, Zenon DEF CodecInvariant

\* The header names the kinds of the arguments.
LEMMA EntryKinds ==
  ASSUME LaidOut(queue_[1])
  PROVE  \E kinds \in KindLists : ThisCall[1] = kinds
<1>1. PICK kinds \in KindLists, ref \in BOOLEAN : \E ends \in [0..Len(kinds) -> Nat] :
        Layout(queue_[1], kinds, ref, ends)
  BY Zenon DEF LaidOut
<1>2. ThisCall = <<kinds, ref>>
  BY <1>1, Zenon DEF Layout, ThisCall, Oldest
<1>. QED
  BY <1>2

\* An argument is read when those on its left have been.
LEMMA OneMoreRead ==
  ASSUME CodecInvariant, NEW i \in Index, ReadNext(i), Leftmost(i), ReadingArgs(queue_[1], args, offset)
  PROVE  ReadingArgs(queue_[1], args', offset')
<1>1. rpc = "reading"
  BY DEF ReadNext
<1>2. /\ queue_ # <<>> /\ queue_ \in Seq(Queued) /\ locals \in [Index -> Variable]
  BY <1>1 DEF CodecInvariant, CodecTypes
<1>3. 1 \in 1..Len(queue_) /\ queue_[1] \in Queued
  BY <1>2
<1>4. PICK kinds \in KindLists, ref \in BOOLEAN : \E ends \in [0..Len(kinds) -> Nat], m \in Nat :
        ReadSoFar(queue_[1], args, m, offset, kinds, ref, ends)
  BY Zenon DEF ReadingArgs
<1>5. PICK ends \in [0..Len(kinds) -> Nat], m \in Nat :
        ReadSoFar(queue_[1], args, m, offset, kinds, ref, ends)
  BY <1>4, Zenon
<1>6. Layout(queue_[1], kinds, ref, ends)
  BY <1>5, Zenon DEF ReadSoFar
<1>7. ThisCall[1] = kinds /\ ThisCall[2] = ref
  <2>1. ThisCall = <<kinds, ref>>
    BY <1>6, Zenon DEF Layout, ThisCall, Oldest
  <2>. QED
    BY <2>1
<1>8. PICK N \in Index : kinds \in [1..N -> Kinds]
  BY DEF KindLists
<1>9. N \in Nat /\ Len(kinds) = N /\ 1..N \subseteq Index
  BY <1>8, CodecConstants DEF Index
<1>10. PICK n \in Nat : n = m + 1
  OBVIOUS
<1>11. n = i /\ n \in 1..N /\ n \in Index /\ n - 1 = m /\ n \in 0..N /\ n - 1 \in 0..N
  <2>1. DOMAIN args = 1..m /\ m <= N
    BY <1>5, <1>9, Zenon DEF ReadSoFar
  <2>2. i \in 1..N /\ i \notin 1..m /\ \A j \in 1..(i - 1) : j \in 1..m
    <3>1. i \in DOMAIN ThisCall[1] \ DOMAIN args
      BY Zenon DEF ReadNext
    <3>. QED
      BY <1>7, <1>8, <2>1, <3>1, Zenon DEF Leftmost
  <2>3. i = m + 1
    <3>1. i > m
      BY <1>9, <2>2
    <3>2. CASE i = 1
      BY <3>1, <3>2
    <3>3. CASE i # 1
      <4>1. i - 1 \in 1..(i - 1)
        BY <1>9, <2>2, <3>3
      <4>2. i - 1 \in 1..m
        BY <2>2, <4>1, Zenon
      <4>. QED
        BY <1>9, <2>2, <3>1, <4>2
    <3>. QED
      BY <3>2, <3>3
  <2>. QED
    BY <1>9, <1>10, <2>2, <2>3
<1> DEFINE e == queue_[1]
           arg == ReadArg(e.data, offset, kinds[n], ref)
<1>12. /\ args' = [j \in DOMAIN args \cup {n} |-> IF j = n THEN arg ELSE args[j]]
       /\ offset' = offset + ReadSize(kinds[n], ref, arg.len)
  BY <1>7, <1>11, Zenon DEF ReadNext, Oldest
<1>13. /\ offset = ends[n - 1] /\ offset \in Nat /\ kinds[n] \in Kinds
  BY <1>5, <1>8, <1>9, <1>11 DEF ReadSoFar
<1>14. /\ ends[n] = ends[n - 1] + ReadSize(kinds[n], ref, e.said[n].len)
       /\ HasArg(e.data, ends[n - 1], n, kinds[n], ref, e.said[n])
       /\ kinds[n] = "num" => e.said[n].len = NumSize
       /\ DOMAIN e.said = 1..N
  BY <1>6, <1>9, <1>11, Zenon DEF Layout
<1>15. e.said[n] \in Variable
  <2>1. e.said \in UNION {[1..k -> Variable] : k \in Index}
    BY <1>3 DEF Queued
  <2>2. PICK k \in Index : e.said \in [1..k -> Variable]
    BY <2>1
  <2>. QED
    BY <1>11, <1>14, <2>2
<1>16. /\ arg \in [len : Nat, ver : Int]
       /\ ReadSize(kinds[n], ref, arg.len) = ReadSize(kinds[n], ref, e.said[n].len)
       /\ kinds[n] # "obj" /\ (kinds[n] = "str" /\ ref => locals[n].ver = e.said[n].ver)
            => Same(arg, e.said[n])
  <2>1. HasArg(e.data, offset, n, kinds[n], ref, e.said[n])
    BY <1>13, <1>14, Zenon
  <2>. QED
    BY <1>2, <1>11, <1>13, <1>14, <1>15, <2>1, ArgRead
<1>17. n \in e.touched \/ locals[n].ver = e.said[n].ver
  <2>1. Remembered(locals, e)
    BY <1>3, Zenon DEF CodecInvariant, EntryRight
  <2>. QED
    BY <1>11, <1>14, <2>1, Zenon DEF Remembered
<1>18. ArgRight(e, n, arg, kinds[n], ref)
  BY <1>16, <1>17, Zenon DEF ArgRight
<1> HIDE DEF arg, e
<1>19. DOMAIN args' = 1..n /\ args'[n] = arg /\ \A j \in 1..m : args'[j] = args[j]
  <2>1. DOMAIN args = 1..m
    BY <1>5, Zenon DEF ReadSoFar
  <2>2. 1..m \cup {n} = 1..n /\ \A j \in 1..m : j # n
    BY <1>10
  <2>. QED
    BY <1>12, <2>1, <2>2, Zenon
<1>20. ASSUME NEW j \in 1..n PROVE ArgRight(e, j, args'[j], kinds[j], ref)
  <2>1. CASE j = n
    BY <1>18, <1>19, <2>1, Zenon
  <2>2. CASE j # n
    <3>1. j \in 1..m
      BY <1>10, <2>2
    <3>2. ArgRight(e, j, args[j], kinds[j], ref)
      BY <1>5, <3>1, Zenon DEF ReadSoFar, e
    <3>. QED
      BY <1>19, <3>1, <3>2, Zenon
  <2>. QED
    BY <2>1, <2>2
<1>21. n <= Len(kinds) /\ offset' = ends[n]
  <2>1. n <= N
    BY <1>11
  <2>. QED
    BY <1>9, <1>12, <1>13, <1>14, <1>16, <1>19, <2>1, Zenon
<1>22. ReadSoFar(e, args', n, offset', kinds, ref, ends)
  BY <1>6, <1>19, <1>20, <1>21, Zenon DEF ReadSoFar, e
<1>. QED
  BY <1>22, Zenon DEF ReadingArgs, e

LEMMA ReadNextStep ==
  ASSUME CodecInvariant, NEW n \in Index, ReadNext(n)
  PROVE  CodecInvariant'
<1>1. rpc = "reading" /\ UNCHANGED <<locals, queue_, rpc>>
  BY DEF ReadNext
<1>2. /\ queue_ # <<>> /\ queue_ \in Seq(Queued) /\ locals \in [Index -> Variable]
      /\ inOrder \in BOOLEAN /\ BeingRead(queue_[1], args, offset, inOrder)
  BY <1>1 DEF CodecInvariant, CodecTypes
<1>3. 1 \in 1..Len(queue_) /\ queue_[1] \in Queued
  BY <1>2
<1>4. inOrder' = (inOrder /\ Leftmost(n)) /\ inOrder' \in BOOLEAN
  BY <1>2 DEF ReadNext
<1>5. BeingRead(queue_[1], args', offset', inOrder')
  <2>1. CASE inOrder /\ Leftmost(n)
    <3>1. inOrder' = TRUE /\ ReadingArgs(queue_[1], args, offset)
      BY <1>2, <1>4, <2>1, Zenon DEF BeingRead
    <3>2. ReadingArgs(queue_[1], args', offset')
      BY <2>1, <3>1, OneMoreRead, Zenon
    <3>. QED
      BY <3>1, <3>2, Zenon DEF BeingRead
  <2>2. CASE ~(inOrder /\ Leftmost(n))
    <3>1. inOrder' = FALSE
      BY <1>4, <2>2, Zenon
    <3>2. AnyOrder(queue_[1])
      <4>1. CASE ~inOrder
        BY <1>2, <4>1, Zenon DEF BeingRead
      <4>2. CASE inOrder
        <5>1. ~(Len(ThisCall[1]) <= kInOrder)
          BY <2>2, <4>2, Zenon DEF ReadNext
        <5>2. PICK kinds \in KindLists : ThisCall[1] = kinds
          BY <1>3, EntryKinds, Zenon DEF CodecInvariant, EntryRight
        <5>3. Len(kinds) \in Nat /\ kInOrder \in Nat
          BY CodecConstants DEF KindLists, Index
        <5>4. Len(kinds) > kInOrder
          BY <5>1, <5>2, <5>3
        <5>. QED
          BY <5>2, <5>4, Zenon DEF AnyOrder, ThisCall, Oldest
      <4>. QED
        BY <1>2, <4>1, <4>2
    <3>. QED
      BY <3>1, <3>2, Zenon DEF BeingRead
  <2>. QED
    BY <2>1, <2>2
<1>6. queue_' # <<>> /\ BeingRead(queue_'[1], args', offset', inOrder')
  BY <1>1, <1>2, <1>5, Zenon
<1>7. CodecTypes'
  BY <1>1, <1>4 DEF CodecInvariant, CodecTypes
<1>8. \A j \in 1..Len(queue_') : EntryRight(locals', queue_'[j])
  BY <1>1, Zenon DEF CodecInvariant
<1>9. rpc' # "idle"
  BY <1>1
<1>. QED
  BY <1>6, <1>7, <1>8, <1>9, Zenon DEF CodecInvariant

LEMMA CodecStep == CodecInvariant /\ [CodecNext]_codecVars => CodecInvariant'
<1> SUFFICES ASSUME CodecInvariant, [CodecNext]_codecVars PROVE CodecInvariant'
  OBVIOUS
<1>1. ASSUME UNCHANGED <<locals, queue_, rpc, offset, args, inOrder>> PROVE CodecInvariant'
  BY <1>1 DEF CodecInvariant, CodecTypes
<1>2. ASSUME NEW kinds \in KindLists, NEW ref \in BOOLEAN, Log(kinds, ref) PROVE CodecInvariant'
  BY <1>2, LogStep
<1>3. ASSUME NEW kinds \in KindLists, NEW ref \in BOOLEAN, LogDropped(kinds, ref) PROVE CodecInvariant'
  BY <1>1, <1>3 DEF LogDropped
<1>4. ASSUME NEW i \in Index, NEW len \in StrLens, Assign(i, len) PROVE CodecInvariant'
  BY <1>4, AssignStep
<1>5. CASE Begin
  BY <1>5, BeginStep
<1>6. ASSUME NEW i \in Index, ReadNext(i) PROVE CodecInvariant'
  BY <1>6, ReadNextStep
<1>7. CASE Format
  BY <1>7, FormatStep
<1>8. CASE Over \/ UNCHANGED codecVars
  BY <1>1, <1>8 DEF Over, codecVars
<1>. QED
  BY <1>2, <1>3, <1>4, <1>5, <1>6, <1>7, <1>8, Zenon DEF CodecNext
-----------------------------------------------------------------------------
(* ArgsCodec: theorems *)

\* Every entry in the queue holds the arguments of the call its header names,
\* each where the one before it ends, and what deserialize_and_format has read
\* of the oldest is right up to where it stands.
THEOREM CodecInvariance == CodecSpec => []CodecInvariant
<1>. QED
  BY CodecStart, CodecStep, PTL DEF CodecSpec

\* The size serialize() computes before it writes is the size of what
\* write_arg writes, for any number of arguments of any kinds and lengths, and
\* never more than the buffer or an entry holds.
THEOREM PayloadSizeExact == CodecSpec => []SizeIsExact
<1>1. CodecInvariant => SizeIsExact
  <2>1. CodecInvariant => DOMAIN queue_ = 1..Len(queue_)
    BY DEF CodecInvariant, CodecTypes
  <2>. QED
    BY <2>1, Zenon DEF CodecInvariant, EntryRight, SizedRight, SizeIsExact
<1>. QED
  BY <1>1, CodecInvariance, PTL

\* read_arg reads back what write_arg wrote: copied arguments whatever the
\* caller has done since, referenced strings if it has left them alone, of calls
\* of up to kInOrder arguments and of longer ones read from left to right.
THEOREM ArgsReadBack == CodecSpec => []ArgsAsLogged
<1>1. CodecInvariant => ArgsAsLogged
  <2> SUFFICES ASSUME CodecInvariant, rpc = "reading", ~(~inOrder /\ Len(ThisCall[1]) > kInOrder),
                      NEW i \in DOMAIN args
               PROVE  \/ ThisCall[1][i] = "obj"
                      \/ ThisCall[1][i] = "str" /\ ThisCall[2] /\ i \in Oldest.touched
                      \/ Same(args[i], Oldest.said[i])
    BY Zenon DEF ArgsAsLogged
  <2>1. ReadingArgs(queue_[1], args, offset)
    BY Zenon DEF CodecInvariant, BeingRead, AnyOrder, ThisCall, Oldest
  <2>2. PICK kinds, ref, ends, m : ReadSoFar(queue_[1], args, m, offset, kinds, ref, ends)
    BY <2>1, Zenon DEF ReadingArgs
  <2>3. ThisCall[1] = kinds /\ ThisCall[2] = ref
    <3>1. ThisCall = <<kinds, ref>>
      BY <2>2, Zenon DEF ReadSoFar, Layout, ThisCall, Oldest
    <3>. QED
      BY <3>1
  <2>4. ArgRight(queue_[1], i, args[i], kinds[i], ref)
    BY <2>2, Zenon DEF ReadSoFar
  <2>. QED
    BY <2>3, <2>4, Zenon DEF ArgRight, Oldest
<1>. QED
  BY <1>1, CodecInvariance, PTL
=============================================================================
