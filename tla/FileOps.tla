------------------------------ MODULE FileOps -------------------------------
(***************************************************************************)
(* The operations of file_util that change the file system, run by several *)
(* processes at once: TempFile and TempDir, whose names come from a        *)
(* generator seeded with the clock and may collide, the write and read     *)
(* loops beneath them, and create_directories.  Any call may fail, reads   *)
(* and writes may be short, a process may die.                             *)
(***************************************************************************)
EXTENDS Integers, Sequences, FiniteSets

CONSTANTS Procs,       \* the processes
          TempNames,   \* what temp_path may return
          Sizes,       \* the lengths of the contents, 0 for none
          Depth,       \* directories in the path given to create_directories
          MaxObjects   \* bound: objects constructed and directories asked for

ASSUME FileConstants == Sizes \subseteq Nat /\ Depth \in Nat /\ MaxObjects \in Nat

VARIABLES files,   \* name -> bytes, each the process that wrote it
          dirs,    \* the temporary directories there are
          levels,  \* what there is of the path given to create_directories
          proc,    \* what each process is doing
          made     \* objects so far

fileVars == <<files, dirs, levels, proc, made>>

\* st_size, done and seen belong to the loops, result to create_directories;
\* failed (ghost): a call of this operation failed.
Idle == [pc |-> "idle", path |-> "", size |-> 0, valid |-> TRUE, done |-> 0,
         st_size |-> 0, seen |-> <<>>, result |-> 0, failed |-> FALSE]

Content(p, n) == [i \in 1..n |-> p]
Put(f, name, bytes) == [n \in DOMAIN f \cup {name} |-> IF n = name THEN bytes ELSE f[n]]
Without(f, name) == [n \in DOMAIN f \ {name} |-> f[n]]

FilesInit == /\ files = <<>> /\ dirs = {} /\ levels = [dirs |-> 0, file |-> FALSE]
             /\ proc = [p \in Procs |-> Idle] /\ made = 0

At(p, pc) == proc[p].pc = pc
Step(p, r) == proc' = [proc EXCEPT ![p] = r]
-----------------------------------------------------------------------------
(* TempFile *)

TempFile(p, name, size) ==
  /\ At(p, "idle") /\ made < MaxObjects /\ made' = made + 1
  /\ Step(p, [Idle EXCEPT !.pc = "create", !.path = name, !.size = size])
  /\ UNCHANGED <<files, dirs, levels>>

\* A slip: create_file opens with "w", an existing file is taken over.
Creatable(name) == TRUE

\* fopen "wx": exclusive.
Exclusive(name) == name \notin DOMAIN files \cup dirs

\* create_file; a file that cannot be created leaves the object invalid.
CreateFile(p, ok) ==
  LET me == proc[p] IN
  /\ At(p, "create")
  /\ IF ok /\ Exclusive(me.path)
     THEN /\ files' = Put(files, me.path, <<>>)
          /\ Step(p, [me EXCEPT !.pc = IF me.size = 0 THEN "file" ELSE "open"])
     ELSE Step(p, [me EXCEPT !.pc = "file", !.valid = FALSE]) /\ UNCHANGED files
  /\ UNCHANGED <<dirs, levels, made>>

\* write_file: open(O_CREAT | O_TRUNC) ...
WriteOpen(p, ok) ==
  LET me == proc[p] IN
  /\ At(p, "open")
  /\ IF ok
     THEN files' = Put(files, me.path, <<>>) /\ Step(p, [me EXCEPT !.pc = "write"])
     ELSE Step(p, [me EXCEPT !.pc = "file", !.valid = FALSE]) /\ UNCHANGED files
  /\ UNCHANGED <<dirs, levels, made>>

Written(me, k) == me.done + k

\* ... then write() until everything is out, k bytes at a time ...
WriteSome(p, k) ==
  LET me == proc[p] IN
  /\ At(p, "write") /\ k <= me.size - me.done
  /\ files' = IF me.path \in DOMAIN files
              THEN Put(files, me.path, SubSeq(files[me.path], 1, me.done) \o Content(p, k)) ELSE files
  /\ Step(p, IF Written(me, k) = me.size THEN [me EXCEPT !.pc = "file", !.done = 0]
                                         ELSE [me EXCEPT !.done = Written(me, k)])
  /\ UNCHANGED <<dirs, levels, made>>

\* ... or it fails: the object is invalid, and nobody removes its file.
WriteFail(p) ==
  /\ At(p, "write")
  /\ Step(p, [proc[p] EXCEPT !.pc = "file", !.valid = FALSE, !.done = 0])
  /\ UNCHANGED <<files, dirs, levels, made>>

\* read_file of it by its owner: open and fstat, which may fail ...
ReadOpen(p, ok) ==
  LET me == proc[p] IN
  /\ At(p, "file") /\ me.valid /\ me.path \in DOMAIN files
  /\ Step(p, IF ok THEN [me EXCEPT !.pc = "read", !.st_size = Len(files[me.path]),
                                   !.done = 0, !.seen = <<>>, !.failed = FALSE]
                   ELSE [me EXCEPT !.seen = <<>>, !.failed = TRUE])
  /\ UNCHANGED <<files, dirs, levels, made>>

AllRead(me) == me.done = me.st_size

\* ... then read() until st_size bytes are in ...
ReadSome(p, k) ==
  LET me == proc[p] IN
  /\ At(p, "read") /\ me.done < me.st_size /\ k <= me.st_size - me.done
  /\ me.path \in DOMAIN files /\ me.done + k <= Len(files[me.path])
  /\ Step(p, [me EXCEPT !.done = @ + k, !.seen = @ \o SubSeq(files[me.path], me.done + 1, me.done + k),
                        !.pc = IF AllRead([me EXCEPT !.done = @ + k]) THEN "seen" ELSE "read"])
  /\ UNCHANGED <<files, dirs, levels, made>>

\* ... or there is nothing to read, or it fails: what is there is returned.
ReadEnd(p, ok) ==
  LET me == proc[p] IN
  /\ At(p, "read") /\ ok = (me.done = me.st_size)
  /\ Step(p, [me EXCEPT !.pc = "seen", !.failed = ~ok])
  /\ UNCHANGED <<files, dirs, levels, made>>

\* The caller has what read_file returned and goes on.
ReadDone(p) ==
  /\ At(p, "seen") /\ Step(p, [proc[p] EXCEPT !.pc = "file", !.done = 0, !.seen = <<>>])
  /\ UNCHANGED <<files, dirs, levels, made>>

\* ~TempFile: a valid object removes its file.
DestroyFile(p, ok) ==
  LET me == proc[p] IN
  /\ At(p, "file") /\ (ok \/ me.valid)
  /\ Step(p, Idle)
  /\ files' = IF ok /\ me.valid THEN Without(files, me.path) ELSE files
  /\ UNCHANGED <<dirs, levels, made>>
-----------------------------------------------------------------------------
(* TempDir *)

\* create_directory: what is there already will do, even a file (EEXIST).
TempDir(p, name, ok) ==
  /\ At(p, "idle") /\ made < MaxObjects /\ made' = made + 1
  /\ dirs' = IF ok /\ name \notin DOMAIN files THEN dirs \cup {name} ELSE dirs
  /\ Step(p, [Idle EXCEPT !.pc = "dir", !.path = name, !.valid = ok])
  /\ UNCHANGED <<files, levels>>

\* ~TempDir: rmdir.
DestroyDir(p, ok) ==
  LET me == proc[p] IN
  /\ At(p, "dir") /\ (ok \/ me.valid)
  /\ Step(p, Idle)
  /\ dirs' = IF ok /\ me.valid THEN dirs \ {me.path} ELSE dirs
  /\ UNCHANGED <<files, levels, made>>
-----------------------------------------------------------------------------
(* create_directories *)

\* done counts the levels dealt with.  The first levels.dirs are there, for mkdir
\* needs the parent; levels.file: a regular file has the name of the next.

\* Another program makes that file.
PutFile ==
  /\ levels.dirs < Depth /\ ~levels.file /\ levels' = [levels EXCEPT !.file = TRUE]
  /\ UNCHANGED <<files, dirs, proc, made>>

Reached(me) == [me EXCEPT !.pc = IF me.done = Depth THEN "made" ELSE "check"]

CreateDirectories(p) ==
  /\ At(p, "idle") /\ made < MaxObjects /\ made' = made + 1
  /\ Step(p, Reached(Idle))
  /\ UNCHANGED <<files, dirs, levels>>

NextLevel(me) == Reached([me EXCEPT !.done = @ + 1])

\* dir_exists: only a directory is one, a regular file has to be made.
CheckLevel(p) ==
  LET me == proc[p] IN
  /\ At(p, "check")
  /\ Step(p, IF me.done < levels.dirs THEN NextLevel(me) ELSE [me EXCEPT !.pc = "mkdir"])
  /\ UNCHANGED <<files, dirs, levels, made>>

\* A slip: create_directory fails on EEXIST.
AcceptsNew(level) == level = levels.dirs + 1 /\ ~levels.file

\* mkdir has the parent, and succeeds or says EEXIST, of a directory or of a file.
Accepts(level) == level <= levels.dirs + 1

\* Only where there is nothing does mkdir make a directory; a failure is
\* counted and the loop goes on.
MakeLevel(p, ok) ==
  LET me == proc[p]
      level == me.done + 1
  IN
  /\ At(p, "mkdir")
  /\ levels' = IF ok /\ level = levels.dirs + 1 /\ ~levels.file THEN [levels EXCEPT !.dirs = level] ELSE levels
  /\ Step(p, NextLevel([me EXCEPT !.result = IF ok /\ Accepts(level) THEN @ ELSE @ + 1,
                                  !.failed = @ \/ ~ok]))
  /\ UNCHANGED <<files, dirs, made>>

\* The result is in the caller's hands.
Return(p) ==
  /\ At(p, "made") /\ Step(p, Idle)
  /\ UNCHANGED <<files, dirs, levels, made>>

\* The process dies: its objects are gone, what they stand for stays.
Crash(p) ==
  /\ ~At(p, "idle") /\ Step(p, Idle)
  /\ UNCHANGED <<files, dirs, levels, made>>

FilesOver == made = MaxObjects /\ (\A p \in Procs : At(p, "idle")) /\ UNCHANGED fileVars

FilesNext ==
  \/ PutFile
  \/ \E p \in Procs :
       \/ \E name \in TempNames, size \in Sizes : TempFile(p, name, size)
       \/ \E ok \in BOOLEAN : \/ CreateFile(p, ok) \/ WriteOpen(p, ok) \/ ReadOpen(p, ok)
                              \/ ReadEnd(p, ok) \/ DestroyFile(p, ok) \/ DestroyDir(p, ok)
                              \/ MakeLevel(p, ok) \/ \E name \in TempNames : TempDir(p, name, ok)
       \/ \E size \in Sizes \ {0} : \E k \in 1..size : WriteSome(p, k) \/ ReadSome(p, k)
       \/ WriteFail(p) \/ ReadDone(p) \/ CreateDirectories(p) \/ CheckLevel(p)
       \/ Return(p) \/ Crash(p)
  \/ FilesOver

FilesSpec == FilesInit /\ [][FilesNext]_fileVars
-----------------------------------------------------------------------------
\* create_directories, which other processes that create the same levels may
\* overtake between its check and its mkdir: a call that failed makes its result
\* positive.  Where none did, the path is there and the result is 0, unless a
\* regular file has the name of a level: that level goes uncounted, since EEXIST
\* is taken for success, and the result is the number of those below it, which
\* is 0 if the file has the path's own name.
DirectoriesMade ==
  \A p \in Procs :
    LET me == proc[p] IN
    At(p, "made") =>
      IF me.failed THEN me.result > 0
      ELSE \/ levels.dirs = Depth /\ me.result = 0
           \/ levels.file /\ me.result = Depth - (levels.dirs + 1)

\* A valid TempFile's file is there and has its content, nobody else's byte
\* in it, whichever names collide, writes are short or processes die; and
\* read_file returns all of it, unless a call fails, and only bytes of it then.
TempFileIntact ==
  \A p \in Procs :
    LET me == proc[p] IN
    /\ At(p, "file") /\ me.valid =>
         me.path \in DOMAIN files /\ files[me.path] = Content(p, me.size)
    /\ At(p, "seen") =>
         me.seen = Content(p, Len(me.seen)) /\ (~me.failed => Len(me.seen) = me.size)
=============================================================================
