------------------------------ MODULE FileTool ------------------------------
(* What lzo1x (src/cli/main.rs) does to the files of a directory, one action *)
(* per system call, with calls that fail, processes that are killed and      *)
(* other processes at work.  A file holds cells: <<"data", x>> of a plain    *)
(* file; <<"header", mode, mtime>>, <<"block", x>> and <<"end">> of a .lzo   *)
(* file, where a block holds one cell x of the original, <<"bad", x>> one    *)
(* that was damaged; <<"raw", cells>> of a raw block.                        *)
EXTENDS Naturals, Sequences, FiniteSets

CONSTANTS
    Procs,       \* the processes
    Names,       \* names of the directory
    Lzo,         \* adds the suffix, where the result is one of Names
    Inodes,      \* files; a name's first file has that name for an inode
    Scenarios,   \* what there may be at first: files by name, the command
                 \* lines of each process, what standard input holds, and the
                 \* trouble there may be
    Grants,      \* mode -> what it lets the owner do: "read", "write"
    NOW, DEFAULT_MODE, \* the time, and the mode of a new file
    EPOCH, SECOND      \* UNIX_EPOCH, and what a second is, in ticks of the file system

None == "none"
Dash == "-"

\* f where it says something, g elsewhere: `@@` of TLC, defined so that it can
\* be reasoned about.
f ++ g == [x \in DOMAIN f \cup DOMAIN g |-> IF x \in DOMAIN f THEN f[x] ELSE g[x]]

CommandLines == [op : {"compress", "decompress", "list", "test"}, files : Seq(Names),
                 output : Names \cup {None}, keep : BOOLEAN, force : BOOLEAN,
                 stdout : BOOLEAN, raw : BOOLEAN,
                 sized : BOOLEAN] \* is there a --size, and the block no larger?

\* No FILE, or "-" alone, is standard input.
FromStdin(files) == files \in {<<>>, <<Dash>>}

\* What is compressed beside itself has a name that takes the suffix.
Nameable(job) ==
    job.op = "compress" /\ job.output = None /\ ~job.stdout /\ ~job.raw /\ ~FromStdin(job.files)
        => \A k \in 1 .. Len(job.files) : job.files[k] \in DOMAIN Lzo

IsSeq(c) == c \in Seq({ c[k] : k \in DOMAIN c })

ASSUME ToolAssumption ==
    /\ EPOCH \in Nat /\ SECOND \in Nat \ {0}
    /\ Names \subseteq Inodes /\ None \notin Inodes
    /\ DOMAIN Lzo \subseteq Names /\ Lzo \in [DOMAIN Lzo -> Names]
    /\ \A m, n \in DOMAIN Lzo : Lzo[m] = Lzo[n] => m = n
    /\ \A n \in DOMAIN Lzo : Lzo[n] \notin {n, Dash}
    /\ \A s \in Scenarios :
          /\ DOMAIN s.files \subseteq Names
          /\ \A n \in DOMAIN s.files : /\ DOMAIN s.files[n] = {"cells", "mode", "mtime"}
                                        /\ IsSeq(s.files[n].cells) /\ s.files[n].mtime \in Nat
          /\ DOMAIN s.jobs = Procs
          /\ \A p \in Procs : /\ s.jobs[p] \in Seq(CommandLines)
                               /\ \A k \in 1 .. Len(s.jobs[p]) : Nameable(s.jobs[p][k])
          /\ s.trouble \subseteq {"calls fail", "clean-up fails", "killed", "not root"}

\* There is always a file that is not in use, as on a disk that is not full.
ASSUME InodesAssumption ==
    /\ IsFiniteSet(Names) /\ IsFiniteSet(Procs) /\ IsFiniteSet(Inodes)
    /\ Cardinality(Inodes) >= Cardinality(Names) + 2 * Cardinality(Procs)

VARIABLES dir,     \* name -> inode or None
          node,    \* inode -> its file
          proc,    \* process -> where it is and what it has in memory
          scenario \* what there was at first
vars == <<dir, node, proc, scenario>>

initial == scenario.files
Stdin == scenario.stdin
Failing == "calls fail" \in scenario.trouble
CleanUpFails == "clean-up fails" \in scenario.trouble

\* root may open any file, its owner only as the mode has it.
May(what, i) == "not root" \in scenario.trouble => what \in Grants[node[i].mode]

NewFile == [cells |-> <<>>, mode |-> DEFAULT_MODE, mtime |-> NOW]

\* seen, used: cells read ahead, and cells consumed, of the input; buf, wpos:
\* cells waiting in the BufWriter and cells written before them.
Idle == [pc |-> "idle", left |-> <<>>, errs |-> FALSE, in |-> None, seen |-> <<>>,
         used |-> 0, tgt |-> None, buf |-> <<>>, wpos |-> 0, mode |-> 0, mtime |-> 0]

Init ==
    /\ scenario \in Scenarios
    /\ dir = [n \in Names |-> IF n \in DOMAIN initial THEN n ELSE None]
    /\ node = [i \in Inodes |-> IF i \in DOMAIN initial THEN initial[i] ELSE NewFile]
    /\ proc = [p \in Procs |-> [jobs |-> scenario.jobs[p], results |-> <<>>, stdout |-> <<>>]
                                ++ Idle]

At(self, pc) == proc[self].pc = pc
Become(self, changes) == proc' = [proc EXCEPT ![self] = changes ++ @]

\* The command line a process runs; results of those before it are kept.
Job(self) == proc[self].jobs[Len(proc[self].results) + 1]
File(self) == Head(proc[self].left)
Compressing(self) == Job(self).op = "compress"
Exists(name) == dir[name] # None
Input(self) == node[proc[self].in].cells

Suffixed(name) == \E n \in DOMAIN Lzo : Lzo[n] = name

TargetOf(job, file) ==
    IF job.output # None THEN job.output
    ELSE IF job.op = "compress" THEN Lzo[file]
    ELSE CHOOSE n \in DOMAIN Lzo : Lzo[n] = file

Target(self) == TargetOf(Job(self), File(self))

\* decompress_file looks at -o first, compress_file at -c.
ToStdout(self) == Job(self).stdout /\ (Compressing(self) \/ Job(self).output = None)

Return(self, result) ==
    Become(self, [results |-> Append(proc[self].results, result)] ++ Idle)

\* What remains of a file's state when run() goes on to the next one.
\* Mutant: a file that failed is tried again.
FileOverAgain(self, failed) ==
    [left |-> IF failed THEN proc[self].left ELSE Tail(proc[self].left),
     errs |-> proc[self].errs \/ failed, pc |-> "next"] ++ Idle

FileOver(self, failed) ==
    [left |-> Tail(proc[self].left), errs |-> proc[self].errs \/ failed, pc |-> "next"] ++ Idle

NextFile(self, failed) == Become(self, FileOver(self, failed))

Blocks(cells) == [i \in 1 .. Len(cells) |-> <<"block", cells[i]>>]
-----------------------------------------------------------------------------
\* run(): usage errors, then one of five ways to work.
Run(self) ==
    /\ At(self, "idle") /\ Len(proc[self].results) < Len(proc[self].jobs)
    /\ LET j == Job(self)
           way == IF j.raw THEN "raw"
                  ELSE IF j.op \in {"list", "test"} THEN "report"
                  ELSE IF FromStdin(j.files) /\ j.output = None THEN "filter"
                  ELSE "next"
       IN  IF Len(j.files) > 1 /\ (j.output # None \/ j.raw) THEN Return(self, "err")
           ELSE Become(self, [pc |-> way,
                              left |-> IF way = "report" /\ j.files = <<>> THEN <<Dash>>
                                       ELSE j.files])
    /\ UNCHANGED <<dir, node, scenario>>

\* The end marker that is reached over blocks; listing looks at their sizes only.
EndsAt(cells, op, n) ==
    /\ cells[n] = <<"end">>
    /\ \A k \in 2 .. n - 1 : cells[k][1] = "block" \/ (op = "list" /\ cells[k][1] = "bad")

Sound(cells, op) ==
    /\ cells # <<>> /\ cells[1][1] = "header"
    /\ \E n \in 2 .. Len(cells) : EndsAt(cells, op, n)

\* What the blocks of a sound stream hold.
Unblocked(cells) ==
    LET n == CHOOSE n \in 2 .. Len(cells) : EndsAt(cells, "decompress", n)
    IN  [k \in 1 .. n - 2 |-> cells[k + 1][2]]

\* Standard input to standard output; nothing in the directory is touched.
Filter(self) ==
    LET output == IF Compressing(self)
                  THEN <<<<"header", 0, 0>>>> \o Blocks(Stdin) \o <<<<"end">>>>
                  ELSE Unblocked(Stdin)
        readable == Compressing(self) \/ Sound(Stdin, "decompress")
    IN  /\ At(self, "filter")
        /\ \/ /\ readable
              /\ Become(self, [stdout |-> output,
                               results |-> Append(proc[self].results, "ok")] ++ Idle)
           \/ (~readable \/ Failing) /\ Return(self, "err")
        /\ UNCHANGED <<dir, node, scenario>>

\* What is in a file, or on standard input, if it can be read.
Contents(name, dash) ==
    IF dash THEN {Stdin}
    ELSE IF Exists(name) /\ May("read", dir[name]) THEN {node[dir[name]].cells} ELSE {}

\* list() and test(): the files one after the other, up to the first error.
Report(self) ==
    /\ At(self, "report")
    /\ LET left == proc[self].left
       IN  \/ /\ left = <<>>
              /\ Return(self, "ok")
           \/ /\ left # <<>>
              /\ \E cells \in Contents(File(self), File(self) = Dash) : Sound(cells, Job(self).op)
              /\ Become(self, [left |-> Tail(left)])
           \/ /\ left # <<>>
              /\ \/ Failing
                 \/ \A cells \in Contents(File(self), File(self) = Dash) : ~Sound(cells, Job(self).op)
              /\ Return(self, "err")
    /\ UNCHANGED <<dir, node, scenario>>

\* The loop over the files; -d needs a name to give back.
EachFile(self) ==
    /\ At(self, "next")
    /\ \/ /\ proc[self].left = <<>>
          /\ Return(self, IF proc[self].errs THEN "err" ELSE "ok")
       \/ /\ proc[self].left # <<>> /\ Compressing(self)
          /\ Become(self, [pc |-> "stat"])
       \/ /\ proc[self].left # <<>> /\ ~Compressing(self)
          /\ IF \/ Job(self).output # None \/ Job(self).stdout
                \/ Suffixed(File(self))
             THEN Become(self, [pc |-> "open"]) ELSE NextFile(self, TRUE)
    /\ UNCHANGED <<dir, node, scenario>>

\* Mutant: the time is rounded to the nearest second.
SecondsRounded(time) == IF time < EPOCH THEN 0 ELSE (time - EPOCH + SECOND \div 2) \div SECOND

\* The whole seconds from UNIX_EPOCH to a time, none to one before it, and back.
Seconds(time) == IF time < EPOCH THEN 0 ELSE (time - EPOCH) \div SECOND
Time(seconds) == EPOCH + seconds * SECOND

\* metadata(): the mode, and the time as the header has it.
Stat(self) ==
    /\ At(self, "stat")
    /\ IF Exists(File(self))
       THEN Become(self, [pc |-> "open", mode |-> node[dir[File(self)]].mode,
                          mtime |-> Seconds(node[dir[File(self)]].mtime)])
       ELSE NextFile(self, TRUE)
    /\ UNCHANGED <<dir, node, scenario>>

\* The header of a new .lzo file waits in the buffer.
Open(self) ==
    /\ At(self, "open")
    /\ IF ~Exists(File(self)) \/ ~May("read", dir[File(self)]) THEN NextFile(self, TRUE)
       ELSE IF Compressing(self)
       THEN Become(self, [pc |-> IF ToStdout(self) THEN "copy" ELSE "check",
                          in |-> dir[File(self)],
                          buf |-> <<<<"header", proc[self].mode, proc[self].mtime>>>>])
       ELSE Become(self, [pc |-> "header", in |-> dir[File(self)]])
    /\ UNCHANGED <<dir, node, scenario>>

\* read_header(); the BufReader may read ahead.
ReadHeader(self) ==
    /\ At(self, "header")
    /\ IF Input(self) # <<>> /\ Head(Input(self))[1] = "header"
       THEN \E k \in 1 .. Len(Input(self)) :
               Become(self, [pc |-> IF ToStdout(self) THEN "copy" ELSE "check",
                             seen |-> SubSeq(Input(self), 1, k), used |-> 1,
                             mode |-> Head(Input(self))[2], mtime |-> Head(Input(self))[3]])
       ELSE NextFile(self, TRUE)
    /\ UNCHANGED <<dir, node, scenario>>
-----------------------------------------------------------------------------
\* Mutant: an existing file is never a reason to refuse.
NeverRefused(self) == FALSE

Refused(self) == ~Job(self).force /\ Exists(Target(self))

\* create(): path.exists(), and then, as a second call, File::create.
Check(self) ==
    /\ At(self, "check")
    /\ IF Refused(self) THEN NextFile(self, TRUE) ELSE Become(self, [pc |-> "create"])
    /\ UNCHANGED <<dir, node, scenario>>

Free == Inodes \ ({ dir[n] : n \in Names } \cup { proc[p].in : p \in Procs }
                    \cup { proc[p].tgt : p \in Procs })

\* open with O_CREAT | O_TRUNC: an existing file stays what it is, but empty.
Truncate(name, i) ==
    /\ i = IF Exists(name) THEN dir[name] ELSE CHOOSE x \in Free : TRUE
    /\ dir' = [dir EXCEPT ![name] = i]
    /\ node' = [node EXCEPT ![i] = IF Exists(name) THEN [@ EXCEPT !.cells = <<>>, !.mtime = NOW]
                                   ELSE NewFile]

Writable(name) == Exists(name) => May("write", dir[name])

Create(self) ==
    /\ At(self, "create")
    /\ \/ /\ Writable(Target(self))
          /\ \E i \in Inodes : /\ Truncate(Target(self), i)
                               /\ Become(self, [pc |-> "copy", tgt |-> i])
       \/ /\ ~Writable(Target(self))
          /\ NextFile(self, TRUE) /\ UNCHANGED <<dir, node>>
    /\ UNCHANGED scenario

\* What a write at an offset makes of a file that may have been truncated since.
Written(cells, at, new) ==
    [k \in 1 .. (IF at + Len(new) > Len(cells) THEN at + Len(new) ELSE Len(cells)) |->
        IF k \in at + 1 .. at + Len(new) THEN new[k - at]
        ELSE IF k <= Len(cells) THEN cells[k] ELSE <<"hole">>]

\* The buffer goes to the file, at the process's own offset, or to standard
\* output; then `then` follows.
Spilled(self, then) ==
    LET p == proc[self]
        spilled == [buf |-> <<>>, wpos |-> p.wpos + Len(p.buf)]
    IN  IF p.tgt = None
        THEN /\ Become(self, [stdout |-> p.stdout \o p.buf] ++ then ++ spilled)
             /\ UNCHANGED node
        ELSE /\ Become(self, then ++ spilled)
             /\ node' = [node EXCEPT ![p.tgt].cells = Written(@, p.wpos, p.buf),
                                     ![p.tgt].mtime = NOW]

\* The next cell of the input, read ahead or read now, if there is one.
Upcoming(self) == IF proc[self].used < Len(proc[self].seen) THEN proc[self].seen ELSE Input(self)
HasCell(self) == proc[self].used < Len(Upcoming(self))
Cell(self) == Upcoming(self)[proc[self].used + 1]

CopyBlock(self) ==
    /\ At(self, "copy") /\ HasCell(self)
    /\ Compressing(self) \/ Cell(self)[1] = "block"
    /\ Become(self, [used |-> proc[self].used + 1,
                     buf |-> Append(proc[self].buf, IF Compressing(self) THEN <<"block", Cell(self)>>
                                                    ELSE Cell(self)[2])])
    /\ UNCHANGED <<dir, node, scenario>>

CopyEnd(self) ==
    /\ At(self, "copy")
    /\ \/ /\ Compressing(self) /\ ~HasCell(self)
          /\ Become(self, [pc |-> "flush", buf |-> Append(proc[self].buf, <<"end">>)])
       \/ /\ ~Compressing(self) /\ HasCell(self) /\ Cell(self)[1] = "end"
          /\ Become(self, [pc |-> "flush"])
    /\ UNCHANGED <<dir, node, scenario>>

\* The buffer is larger than a header, so nothing is written before a block is.
Spill(self) ==
    /\ At(self, "copy") /\ proc[self].buf # <<>> /\ proc[self].used > 0
    /\ Spilled(self, [pc |-> "copy"])
    /\ UNCHANGED <<dir, scenario>>

Flushed(self) == IF proc[self].tgt # None THEN [pc |-> "mode"]
                 ELSE FileOver(self, FALSE)

\* Mutant: the failure of a flush goes unnoticed.
FlushUnnoticed(self) ==
    /\ At(self, "flush")
    /\ \/ Spilled(self, Flushed(self))
       \/ Failing /\ UNCHANGED node /\ Become(self, Flushed(self))
    /\ UNCHANGED <<dir, scenario>>

Flush(self) ==
    /\ At(self, "flush")
    /\ Spilled(self, Flushed(self))
    /\ UNCHANGED <<dir, scenario>>

Bad(self) == /\ At(self, "copy") /\ ~Compressing(self)
             /\ HasCell(self) => Cell(self)[1] \notin {"block", "end"}

\* Mutant: the half-written file stays.
CopyFailsOnly(self) ==
    /\ Bad(self) \/ (Failing /\ proc[self].pc \in {"copy", "flush"})
    /\ NextFile(self, TRUE)
    /\ UNCHANGED <<dir, node, scenario>>

\* A bad block, or a read or write that fails: the target is removed by name,
\* and nothing is said of it if that fails too.
CopyFails(self) ==
    /\ Bad(self) \/ (Failing /\ proc[self].pc \in {"copy", "flush"})
    /\ IF proc[self].tgt = None THEN UNCHANGED dir
       ELSE \/ dir' = [dir EXCEPT ![Target(self)] = None]
            \/ CleanUpFails /\ UNCHANGED dir
    /\ NextFile(self, TRUE)
    /\ UNCHANGED <<node, scenario>>
-----------------------------------------------------------------------------
\* set_permissions() and set_modified() by name, failures ignored; the latter
\* opens the file for writing, with the mode it just got.  A mode or a time of
\* zero is taken for none when decompressing.
Restore(self) ==
    LET p == proc[self]
        i == dir[Target(self)]
    IN  /\ \/ /\ At(self, "mode")
              /\ \/ /\ i # None /\ (Compressing(self) \/ p.mode # 0)
                    /\ node' = [node EXCEPT ![i].mode = p.mode]
                 \/ /\ i = None \/ Failing \/ (~Compressing(self) /\ p.mode = 0)
                    /\ UNCHANGED node
              /\ Become(self, [pc |-> IF Compressing(self) THEN "remove" ELSE "mtime"])
           \/ /\ At(self, "mtime")
              /\ \/ /\ i # None /\ p.mtime # 0 /\ May("write", i)
                    /\ node' = [node EXCEPT ![i].mtime = Time(p.mtime)]
                 \/ /\ Failing \/ p.mtime = 0 \/ i = None \/ ~May("write", i)
                    /\ UNCHANGED node
              /\ Become(self, [pc |-> "remove"])
        /\ UNCHANGED <<dir, scenario>>

\* Mutant: only -o keeps the input.
KeepsForOutput(self) == Job(self).output # None

Keeps(self) == Job(self).keep \/ Job(self).output # None

\* The input is removed by name unless it is to be kept.
Remove(self) ==
    /\ At(self, "remove")
    /\ \/ Keeps(self) /\ NextFile(self, FALSE) /\ UNCHANGED dir
       \/ /\ ~Keeps(self) /\ Exists(File(self))
          /\ dir' = [dir EXCEPT ![File(self)] = None]
          /\ NextFile(self, FALSE)
       \/ ~Keeps(self) /\ (Failing \/ ~Exists(File(self))) /\ NextFile(self, TRUE) /\ UNCHANGED dir
    /\ UNCHANGED <<node, scenario>>

\* A call fails that leaves nothing behind to clean up.
CallFails(self) ==
    /\ Failing /\ proc[self].pc \in {"stat", "open", "header", "create"}
    /\ NextFile(self, TRUE)
    /\ UNCHANGED <<dir, node, scenario>>
-----------------------------------------------------------------------------
\* raw(): the whole input, then fs::write, which truncates and writes.  -d needs
\* a --size, which it looks for when it has read the input.
RawOut(self, cells) ==
    IF Compressing(self) THEN {<<<<"raw", cells>>>>}
    ELSE IF Job(self).sized /\ Len(cells) = 1 /\ cells[1][1] = "raw" THEN {cells[1][2]} ELSE {}

RawRead(self) ==
    /\ At(self, "raw")
    /\ LET files == Job(self).files
           data == Contents(files[1], FromStdin(files))
           out == UNION { RawOut(self, cells) : cells \in data }
       IN  \/ \E cells \in out :
                 IF Job(self).output # None
                 THEN Become(self, [pc |-> "rawcreate", buf |-> cells])
                 ELSE Become(self, [stdout |-> cells,
                                    results |-> Append(proc[self].results, "ok")] ++ Idle)
           \/ (out = {} \/ Failing) /\ Return(self, "err")
    /\ UNCHANGED <<dir, node, scenario>>

RawCreate(self) ==
    /\ At(self, "rawcreate")
    /\ \/ /\ Writable(Job(self).output)
          /\ \E i \in Inodes : /\ Truncate(Job(self).output, i)
                               /\ Become(self, [pc |-> "rawwrite", tgt |-> i])
       \/ /\ ~Writable(Job(self).output)
          /\ Return(self, "err") /\ UNCHANGED <<dir, node>>
    /\ UNCHANGED scenario

RawWrite(self) ==
    /\ At(self, "rawwrite")
    /\ node' = [node EXCEPT ![proc[self].tgt].cells = Written(@, 0, proc[self].buf)]
    /\ Return(self, "ok")
    /\ UNCHANGED <<dir, scenario>>

RawFails(self) ==
    /\ Failing /\ proc[self].pc \in {"rawcreate", "rawwrite"}
    /\ Return(self, "err")
    /\ UNCHANGED <<dir, node, scenario>>

Killed(self) ==
    /\ "killed" \in scenario.trouble /\ ~At(self, "idle") /\ ~At(self, "dead")
    /\ Become(self, [pc |-> "dead"])
    /\ UNCHANGED <<dir, node, scenario>>

Step(self) ==
    \/ Run(self) \/ Filter(self) \/ Report(self) \/ EachFile(self) \/ Stat(self) \/ Open(self)
    \/ ReadHeader(self) \/ Check(self) \/ Create(self) \/ CopyBlock(self)
    \/ CopyEnd(self) \/ Spill(self) \/ Flush(self) \/ CopyFails(self) \/ Restore(self)
    \/ Remove(self) \/ CallFails(self)
    \/ RawRead(self) \/ RawCreate(self) \/ RawWrite(self) \/ RawFails(self)

Next == \E self \in Procs : Step(self) \/ Killed(self)

Spec == Init /\ [][Next]_vars

\* A process that can go on does.
FairSpec == Spec /\ \A self \in Procs : WF_vars(Step(self))
-----------------------------------------------------------------------------
Cells(name) == node[dir[name]].cells

IsArchive(cells) == /\ Len(cells) >= 2 /\ cells[1][1] = "header"
                    /\ cells[Len(cells)] = <<"end">>
                    /\ \A k \in 2 .. Len(cells) - 1 : cells[k][1] = "block"

\* What a whole file stands for: its own cells, or those it was made from.
Plain(cells) == IF IsArchive(cells) THEN [k \in 1 .. Len(cells) - 2 |-> cells[k + 1][2]]
                ELSE cells

Commands == UNION { { proc[p].jobs[k] : k \in 1 .. Len(proc[p].jobs) } : p \in Procs }

Targets(job) ==
    IF job.output # None THEN {job.output}
    ELSE IF job.stdout \/ job.op \in {"list", "test"} THEN {}
    ELSE { TargetOf(job, job.files[k]) :
           k \in { x \in 1 .. Len(job.files) : job.op = "compress" \/ Suffixed(job.files[x]) } }

\* The names that a forced or raw command line may destroy.
Given(name) == \E job \in Commands : (job.force \/ job.raw) /\ name \in Targets(job)

\* Is there one process at work?
Alone == \A p, q \in Procs : p = q \/ proc[p].jobs = <<>> \/ proc[q].jobs = <<>>

Finished(p) == At(p, "idle") /\ Len(proc[p].results) = Len(proc[p].jobs)

NothingLost ==
    \A n \in DOMAIN initial :
        Given(n) \/ \E m \in Names : Exists(m) /\ Plain(Cells(m)) = Plain(initial[n].cells)

\* Whatever was in the directory is still there, as it was or in its .lzo
\* form, at every step of a process, with calls that fail and when it is
\* killed (main.rs:281-294, 337-357: the input goes last).
NothingIsLost == Alone => NothingLost

\* No file is left that stands for nothing the directory held, unless it is
\* still being written or its writer was killed (main.rs:336-337), whatever
\* calls fail but the one that removes it, whose failure the code ignores
\* (main.rs:284, 341); --raw and a file read and written by one command line
\* make no such promise.
NothingHalfWritten ==
    ~CleanUpFails => \A n \in Names :
        Exists(n) =>
            \/ \E m \in DOMAIN initial : Plain(Cells(n)) = Plain(initial[m].cells)
            \/ \E p \in Procs : proc[p].tgt = dir[n]
            \/ \E job \in Commands :
                 /\ n \in Targets(job)
                 /\ job.raw \/ \E k \in 1 .. Len(job.files) : n = job.files[k]

\* A file's contents change only under a process that has it open for writing
\* already, or that was given -f or --raw.
Respected ==
    \A n \in Names :
        Exists(n) /\ dir'[n] = dir[n] /\ Cells(n)' # Cells(n) =>
            \E p \in Procs : proc[p].tgt = dir[n] \/ (~At(p, "idle") /\ (Job(p).force \/ Job(p).raw))

\* A process on its own replaces no file without -f or --raw.
NotOverwrittenAlone == [][Alone => Respected]_vars

\* "refusing to replace a file unless forced" (main.rs:232), whoever made it.
NotOverwritten == [][Respected]_vars

\* "Keep the input file" (main.rs:87), "keep the input" (main.rs:85): so it is,
\* with whatever options and trouble, but for an input that the same command
\* line gives up for its output, as -k -f -o FILE FILE does.
InputIsKept ==
    \A p \in Procs :
        Alone /\ Len(proc[p].jobs) = 1 /\ (proc[p].jobs[1].keep \/ proc[p].jobs[1].stdout) =>
            \A k \in 1 .. Len(proc[p].jobs[1].files) :
                LET f == proc[p].jobs[1].files[k]
                IN  f \in DOMAIN initial /\ ~Given(f) =>
                        Exists(f) /\ Cells(f) = initial[f].cells

\* A command line without options.
Plainly(op, file) == [op |-> op, files |-> <<file>>, output |-> None, keep |-> FALSE,
                      force |-> FALSE, stdout |-> FALSE, raw |-> FALSE, sized |-> FALSE]

\* Have lzo1x FILE and then lzo1x -d FILE.lzo been run on f, undisturbed?
ThereAndBack(p, f) ==
    /\ Alone /\ scenario.trouble \subseteq {"not root"} /\ f # Dash
    /\ proc[p].jobs = <<Plainly("compress", f), Plainly("decompress", Lzo[f])>>
    /\ proc[p].results = <<"ok", "ok">>

\* What comes back has the contents, the mode unless it was zero, and the time
\* cut to a whole second, unless it was before the first second after
\* UNIX_EPOCH or the mode forbids to set it (main.rs:253-258, 289-291, 344-354).
GivesBack ==
    \A p \in Procs : \A f \in DOMAIN Lzo : ThereAndBack(p, f) =>
        LET was == initial[f]
            is == node[dir[f]]
        IN  /\ Exists(f) /\ is.cells = was.cells
            /\ is.mode = IF was.mode = 0 THEN DEFAULT_MODE ELSE was.mode
            /\ IF was.mtime >= EPOCH + SECOND /\ May("write", dir[f])
               THEN /\ is.mtime <= was.mtime /\ was.mtime < is.mtime + SECOND
                    /\ (is.mtime - EPOCH) % SECOND = 0
               ELSE is.mtime = NOW

\* "lzo1x -d FILE.lzo gives FILE back with its mode and modification time"
\* (main.rs:66-67).
GivesBackWhole ==
    \A p \in Procs : \A f \in DOMAIN Lzo :
        ThereAndBack(p, f) => Exists(f) /\ node[dir[f]] = initial[f]

\* Every command line of a process that is not killed is run to its end, one
\* way or the other.
EveryCommandReturns == "killed" \notin scenario.trouble ~> \A p \in Procs : Finished(p)
=============================================================================
