--------------------------- MODULE FileToolProofs ---------------------------
(* What lzo1x does to files, for every directory, command line and trouble.  *)
EXTENDS FileTool, TLAPS, SequenceTheorems, FiniteSetTheorems

ProcFields == {"jobs", "results", "stdout", "pc", "left", "errs", "in", "seen", "used",
               "tgt", "buf", "wpos", "mode", "mtime"}

FilePcs == {"stat", "open", "header", "check", "create", "copy", "flush", "mode", "mtime",
            "remove"}
RawPcs == {"raw", "rawcreate", "rawwrite"}

\* What a process holds, whatever it is about.
Well(p) ==
    /\ DOMAIN proc[p] = ProcFields
    /\ proc[p].jobs = scenario.jobs[p]
    /\ proc[p].results \in Seq({"ok", "err"}) /\ Len(proc[p].results) <= Len(proc[p].jobs)
    /\ proc[p].left \in Seq(Names \cup {Dash})
    /\ proc[p].in \in Inodes \cup {None} /\ proc[p].tgt \in Inodes \cup {None}
    /\ proc[p].used \in Nat
    /\ proc[p].pc \in {"idle", "dead", "filter", "report", "next"} \cup FilePcs \cup RawPcs

\* A command line that run() works off file by file.
FileJob(job) ==
    /\ ~job.raw /\ job.op \in {"compress", "decompress"}
    /\ FromStdin(job.files) => job.output # None
    /\ Len(job.files) > 1 => job.output = None

\* What is true of the place where a process is.
Placed(p) ==
    /\ ~At(p, "idle") => Len(proc[p].results) < Len(proc[p].jobs)
    /\ proc[p].pc \in RawPcs => Job(p).raw
    /\ proc[p].pc \in {"rawcreate", "rawwrite"} => Job(p).output # None
    /\ proc[p].pc \in {"next"} \cup FilePcs =>
          /\ FileJob(Job(p))
          /\ \A k \in 1 .. Len(proc[p].left) :
                \E j \in 1 .. Len(Job(p).files) : proc[p].left[k] = Job(p).files[j]
    /\ proc[p].pc \in FilePcs =>
          /\ proc[p].left # <<>>
          /\ Compressing(p) \/ Job(p).output # None \/ Job(p).stdout \/ Suffixed(File(p))
    /\ At(p, "stat") => Compressing(p)
    /\ At(p, "header") => ~Compressing(p)
    /\ proc[p].pc \in {"check", "create", "mode", "mtime", "remove"} => ~ToStdout(p)
    /\ proc[p].pc \in {"copy", "flush"} => (proc[p].tgt = None <=> ToStdout(p))
    /\ proc[p].pc \in FilePcs \ {"stat", "open"} => proc[p].in # None
    /\ proc[p].pc \in {"mode", "mtime", "remove", "rawwrite"} => proc[p].tgt # None
    /\ proc[p].pc \notin {"copy", "flush", "mode", "mtime", "remove", "rawwrite", "dead"} =>
          proc[p].tgt = None
    /\ proc[p].pc \in {"idle", "next", "stat", "open", "header"} =>
          /\ proc[p].seen = <<>> /\ proc[p].used = 0
          /\ proc[p].wpos = 0 /\ proc[p].buf = <<>>

IsFile(f) == DOMAIN f = {"cells", "mode", "mtime"}

FilesInv ==
    /\ scenario \in Scenarios
    /\ DOMAIN dir = Names /\ \A n \in Names : dir[n] \in Inodes \cup {None}
    /\ DOMAIN node = Inodes /\ \A i \in Inodes : IsFile(node[i])

TypeInv == FilesInv /\ DOMAIN proc = Procs /\ \A p \in Procs : Well(p) /\ Placed(p)
-----------------------------------------------------------------------------
\* What a process becomes, field by field.
LEMMA BecomeFields ==
    ASSUME NEW self \in Procs, DOMAIN proc = Procs, DOMAIN proc[self] = ProcFields,
           NEW changes, DOMAIN changes \subseteq ProcFields, Become(self, changes)
    PROVE  /\ DOMAIN proc' = Procs /\ \A q \in Procs \ {self} : proc'[q] = proc[q]
           /\ DOMAIN proc'[self] = ProcFields
           /\ \A x \in DOMAIN changes : proc'[self][x] = changes[x]
           /\ \A x \in ProcFields \ DOMAIN changes : proc'[self][x] = proc[self][x]
BY DEF Become, ++

\* The fields of a process whose file is over.
Advances(self) ==
    /\ DOMAIN proc' = Procs /\ \A q \in Procs \ {self} : proc'[q] = proc[q]
    /\ DOMAIN proc'[self] = ProcFields
    /\ proc'[self].pc = "next" /\ proc'[self].left = Tail(proc[self].left)
    /\ proc'[self].jobs = proc[self].jobs /\ proc'[self].results = proc[self].results
    /\ proc'[self].in = None /\ proc'[self].tgt = None
    /\ proc'[self].seen = <<>> /\ proc'[self].buf = <<>>
    /\ proc'[self].used = 0 /\ proc'[self].wpos = 0

LEMMA NextFileFields ==
    ASSUME NEW self \in Procs, DOMAIN proc = Procs, DOMAIN proc[self] = ProcFields,
           NEW failed, NextFile(self, failed)
    PROVE  Advances(self)
<1> DEFINE c == FileOver(self, failed)
<1>1. DOMAIN c \subseteq ProcFields
  BY DEF FileOver, ++, Idle, ProcFields
<1>2. /\ c.pc = "next" /\ c.left = Tail(proc[self].left) /\ c.in = None /\ c.tgt = None
      /\ c.seen = <<>> /\ c.buf = <<>> /\ c.used = 0 /\ c.wpos = 0
      /\ {"pc", "left", "in", "tgt", "seen", "buf", "used", "wpos"} \subseteq DOMAIN c
      /\ "jobs" \notin DOMAIN c /\ "results" \notin DOMAIN c
  BY DEF FileOver, ++, Idle
<1> HIDE DEF c
<1>3. Become(self, c)
  BY DEF NextFile, c
<1>4. /\ DOMAIN proc' = Procs /\ \A q \in Procs \ {self} : proc'[q] = proc[q]
      /\ DOMAIN proc'[self] = ProcFields
      /\ \A x \in DOMAIN c : proc'[self][x] = c[x]
      /\ \A x \in ProcFields \ DOMAIN c : proc'[self][x] = proc[self][x]
  BY <1>1, <1>3, BecomeFields
<1> QED BY <1>2, <1>4 DEF ProcFields, Advances

\* The fields of a process whose command line is over.
LEMMA ReturnFields ==
    ASSUME NEW self \in Procs, DOMAIN proc = Procs, DOMAIN proc[self] = ProcFields,
           NEW c, DOMAIN c = {"results", "stdout"} \/ DOMAIN c = {"results"}, Become(self, c ++ Idle)
    PROVE  /\ DOMAIN proc' = Procs /\ \A q \in Procs \ {self} : proc'[q] = proc[q]
           /\ DOMAIN proc'[self] = ProcFields
           /\ proc'[self].pc = "idle" /\ proc'[self].left = <<>>
           /\ proc'[self].jobs = proc[self].jobs /\ proc'[self].results = c.results
           /\ proc'[self].in = None /\ proc'[self].tgt = None
           /\ proc'[self].seen = <<>> /\ proc'[self].buf = <<>>
           /\ proc'[self].used = 0 /\ proc'[self].wpos = 0
<1> DEFINE d == c ++ Idle
<1>1. DOMAIN d \subseteq ProcFields
  BY DEF ++, Idle, ProcFields
<1>2. /\ d.pc = "idle" /\ d.left = <<>> /\ d.in = None /\ d.tgt = None
      /\ d.seen = <<>> /\ d.buf = <<>> /\ d.used = 0 /\ d.wpos = 0 /\ d.results = c.results
      /\ {"pc", "left", "in", "tgt", "seen", "buf", "used", "wpos", "results"} \subseteq DOMAIN d
      /\ "jobs" \notin DOMAIN d
  BY DEF ++, Idle
<1> HIDE DEF d
<1>3. Become(self, d)
  BY DEF d
<1> QED BY <1>1, <1>2, <1>3, BecomeFields DEF ProcFields
-----------------------------------------------------------------------------
\* Sequences of no particular set.
LEMMA SeqFacts ==
    ASSUME NEW c, IsSeq(c)
    PROVE  Len(c) \in Nat /\ DOMAIN c = 1 .. Len(c) /\ (c = <<>> <=> Len(c) = 0)
<1>1. c \in Seq({ c[k] : k \in DOMAIN c })
  BY DEF IsSeq
<1> QED BY <1>1

LEMMA SeqMade ==
    ASSUME NEW c, NEW n \in Nat, c = [k \in 1 .. n |-> c[k]]
    PROVE  IsSeq(c) /\ Len(c) = n
<1>1. DOMAIN c = 1 .. n
  OBVIOUS
<1>2. \A k \in 1 .. n : c[k] \in { c[j] : j \in DOMAIN c }
  BY <1>1
<1>3. c \in [1 .. n -> { c[j] : j \in DOMAIN c }]
  BY <1>2
<1>4. c \in Seq({ c[j] : j \in DOMAIN c })
  BY <1>3
<1> QED BY <1>1, <1>4 DEF IsSeq

LEMMA SeqOf ==
    ASSUME NEW S, NEW c \in Seq(S)
    PROVE  IsSeq(c)
<1>1. c = [k \in 1 .. Len(c) |-> c[k]] /\ Len(c) \in Nat
  OBVIOUS
<1> QED BY <1>1, SeqMade

LEMMA SeqAppend ==
    ASSUME NEW c, IsSeq(c), NEW x
    PROVE  /\ IsSeq(Append(c, x)) /\ Len(Append(c, x)) = Len(c) + 1
           /\ \A k \in 1 .. Len(c) : Append(c, x)[k] = c[k]
           /\ Append(c, x)[Len(c) + 1] = x
<1> DEFINE S == { c[k] : k \in DOMAIN c } \cup {x}
<1>1. c \in Seq(S)
  <2>1. c \in Seq({ c[k] : k \in DOMAIN c })
    BY DEF IsSeq
  <2> HIDE DEF S
  <2>2. { c[k] : k \in DOMAIN c } \subseteq S
    BY DEF S
  <2> QED BY <2>1, <2>2
<1>2. x \in S
  OBVIOUS
<1> HIDE DEF S
<1>3. Append(c, x) \in Seq(S)
  BY <1>1, <1>2
<1>4. IsSeq(Append(c, x))
  BY <1>3, SeqOf
<1>5. /\ Len(Append(c, x)) = Len(c) + 1
      /\ \A k \in 1 .. Len(c) : Append(c, x)[k] = c[k]
      /\ Append(c, x)[Len(c) + 1] = x
  BY <1>1, <1>2
<1> QED BY <1>4, <1>5

LEMMA SeqConcat ==
    ASSUME NEW c, NEW d, IsSeq(c), IsSeq(d)
    PROVE  /\ IsSeq(c \o d) /\ Len(c \o d) = Len(c) + Len(d)
           /\ \A k \in 1 .. Len(c) : (c \o d)[k] = c[k]
           /\ \A k \in 1 .. Len(d) : (c \o d)[Len(c) + k] = d[k]
<1> DEFINE S == { c[k] : k \in DOMAIN c } \cup { d[k] : k \in DOMAIN d }
<1>1. c \in Seq(S) /\ d \in Seq(S)
  <2>1. c \in Seq({ c[k] : k \in DOMAIN c }) /\ d \in Seq({ d[k] : k \in DOMAIN d })
    BY DEF IsSeq
  <2> HIDE DEF S
  <2>2. { c[k] : k \in DOMAIN c } \subseteq S /\ { d[k] : k \in DOMAIN d } \subseteq S
    BY DEF S
  <2> QED BY <2>1, <2>2
<1> HIDE DEF S
<1>2. c \o d \in Seq(S)
  BY <1>1
<1>3. IsSeq(c \o d)
  BY <1>2, SeqOf
<1>4. /\ Len(c \o d) = Len(c) + Len(d)
      /\ \A k \in 1 .. Len(c) : (c \o d)[k] = c[k]
      /\ \A k \in 1 .. Len(d) : (c \o d)[Len(c) + k] = d[k]
  BY <1>1
<1> QED BY <1>3, <1>4

LEMMA SeqIndex ==
    ASSUME NEW c, NEW d, IsSeq(c), IsSeq(d), NEW k \in 1 .. Len(c) + Len(d)
    PROVE  (c \o d)[k] = IF k \in 1 .. Len(c) THEN c[k] ELSE d[k - Len(c)]
<1>1. Len(c) \in Nat /\ Len(d) \in Nat
  BY SeqFacts
<1>2. CASE k \in 1 .. Len(c)
  BY <1>2, SeqConcat
<1>3. CASE k \notin 1 .. Len(c)
  <2>1. k - Len(c) \in 1 .. Len(d) /\ k = Len(c) + (k - Len(c))
    BY <1>1, <1>3
  <2> QED BY <1>3, <2>1, SeqConcat
<1> QED BY <1>2, <1>3

LEMMA SeqsEqual ==
    ASSUME NEW c, NEW d, IsSeq(c), IsSeq(d), Len(c) = Len(d),
           \A k \in 1 .. Len(c) : c[k] = d[k]
    PROVE  c = d
<1>1. \A e : IsSeq(e) => e = [k \in 1 .. Len(e) |-> e[k]]
  <2> SUFFICES ASSUME NEW e, IsSeq(e)
               PROVE  e = [k \in 1 .. Len(e) |-> e[k]]
    OBVIOUS
  <2> DEFINE S == { e[k] : k \in DOMAIN e }
  <2>1. e \in Seq(S)
    BY DEF IsSeq
  <2> HIDE DEF S
  <2> QED BY <2>1
<1>2. [k \in 1 .. Len(c) |-> c[k]] = [k \in 1 .. Len(d) |-> d[k]]
  OBVIOUS
<1>3. c = [k \in 1 .. Len(c) |-> c[k]] /\ d = [k \in 1 .. Len(d) |-> d[k]]
  BY <1>1
<1>4. c = d
  BY <1>2, <1>3
<1> QED BY <1>4

\* The file a write leaves.
LEMMA WrittenFacts ==
    ASSUME NEW c, NEW d, IsSeq(c), IsSeq(d), NEW at \in Nat
    PROVE  IsSeq(Written(c, at, d)) /\ (at = Len(c) => Written(c, at, d) = c \o d)
<1> DEFINE n == IF at + Len(d) > Len(c) THEN at + Len(d) ELSE Len(c)
           w == Written(c, at, d)
<1>1. n \in Nat /\ Len(c) \in Nat /\ Len(d) \in Nat
  BY SeqFacts
<1>2. w = [k \in 1 .. n |-> w[k]]
  BY DEF Written
<1>3. IsSeq(w) /\ Len(w) = n
  <2> HIDE DEF w, n
  <2> QED BY <1>1, <1>2, SeqMade
<1>4. ASSUME at = Len(c)
      PROVE  w = c \o d
  <2>1. n = Len(c) + Len(d)
    BY <1>1, <1>4
  <2>2. \A k \in 1 .. n : w[k] = IF k \in 1 .. Len(c) THEN c[k] ELSE d[k - Len(c)]
    BY <1>1, <1>4, <2>1 DEF Written
  <2>3. /\ IsSeq(c \o d) /\ Len(c \o d) = n
        /\ \A k \in 1 .. n : (c \o d)[k] = IF k \in 1 .. Len(c) THEN c[k] ELSE d[k - Len(c)]
    BY <1>1, <2>1, SeqConcat, SeqIndex
  <2> HIDE DEF w, n
  <2>4. \A k \in 1 .. n : w[k] = (c \o d)[k]
    BY <2>2, <2>3
  <2>5. Len(w) = Len(c \o d) /\ \A k \in 1 .. Len(w) : w[k] = (c \o d)[k]
    BY <1>3, <2>3, <2>4
  <2>6. IsSeq(w) /\ IsSeq(c \o d)
    BY <1>3, <2>3
  <2> QED BY <2>5, <2>6, SeqsEqual
<1> QED BY <1>3, <1>4
-----------------------------------------------------------------------------
\* The command line of a process that is not idle, and its files.
LEMMA JobIsLine ==
    ASSUME FilesInv, NEW p \in Procs, Well(p), Len(proc[p].results) < Len(proc[p].jobs)
    PROVE  /\ Job(p) \in CommandLines /\ Nameable(Job(p))
           /\ Len(proc[p].results) + 1 \in 1 .. Len(proc[p].jobs)
<1>1. proc[p].jobs \in Seq(CommandLines)
      /\ \A k \in 1 .. Len(proc[p].jobs) : Nameable(proc[p].jobs[k])
  BY ToolAssumption DEF FilesInv, Well
<1>2. Len(proc[p].results) \in Nat /\ Len(proc[p].jobs) \in Nat
  BY <1>1 DEF Well
<1>3. Len(proc[p].results) + 1 \in 1 .. Len(proc[p].jobs)
  BY <1>2
<1> QED BY <1>1, <1>3 DEF Job

\* What a process works on has a name, and so has what it makes.
LEMMA FileIsName ==
    ASSUME FilesInv, NEW p \in Procs, Well(p), Placed(p), proc[p].pc \in FilePcs
    PROVE  /\ Job(p) \in CommandLines /\ File(p) \in Names
           /\ \E j \in 1 .. Len(Job(p).files) : File(p) = Job(p).files[j]
           /\ Compressing(p) /\ Job(p).output = None /\ ~Job(p).stdout => File(p) \in DOMAIN Lzo
<1>1. Job(p) \in CommandLines /\ Nameable(Job(p))
  BY JobIsLine DEF Placed, At, FilePcs
<1>2. Len(proc[p].left) \in Nat /\ 1 \in 1 .. Len(proc[p].left) /\ File(p) = proc[p].left[1]
  BY DEF Well, Placed, File
<1>3. PICK j \in 1 .. Len(Job(p).files) : File(p) = Job(p).files[j]
  BY <1>2 DEF Placed
<1>4. Job(p).files \in Seq(Names) /\ FileJob(Job(p))
  BY <1>1 DEF CommandLines, Placed
<1>5. File(p) \in Names
  BY <1>3, <1>4
<1>6. ASSUME Compressing(p), Job(p).output = None, ~Job(p).stdout
      PROVE  File(p) \in DOMAIN Lzo
  BY <1>1, <1>3, <1>4, <1>6 DEF Nameable, FileJob, Compressing
<1> QED BY <1>1, <1>3, <1>5, <1>6

\* The target is one of the names its command line gives.
LEMMA TargetIsName ==
    ASSUME FilesInv, NEW p \in Procs, Well(p), Placed(p), proc[p].pc \in FilePcs, ~ToStdout(p)
    PROVE  /\ Target(p) \in Names /\ Target(p) \in Targets(Job(p))
           /\ Job(p).output = None /\ Compressing(p) => Target(p) = Lzo[File(p)]
           /\ Job(p).output = None /\ ~Compressing(p) =>
                 Target(p) \in DOMAIN Lzo /\ Lzo[Target(p)] = File(p)
<1>1. PICK j \in 1 .. Len(Job(p).files) : File(p) = Job(p).files[j]
  BY FileIsName
<1>2. /\ Job(p) \in CommandLines /\ FileJob(Job(p))
      /\ Compressing(p) \/ Job(p).output # None \/ Job(p).stdout \/ Suffixed(File(p))
  BY FileIsName DEF Placed
<1>3. CASE Job(p).output # None
  BY <1>2, <1>3 DEF Target, TargetOf, Targets, CommandLines
<1>4. CASE Job(p).output = None
  <2>1. ~Job(p).stdout /\ Job(p).op \in {"compress", "decompress"}
    BY <1>2, <1>4 DEF ToStdout, FileJob
  <2>2. Compressing(p) => Target(p) = Lzo[File(p)] /\ Lzo[File(p)] \in Names
    BY <1>4, <2>1, FileIsName, ToolAssumption DEF Target, TargetOf, Compressing
  <2>3. ~Compressing(p) => Target(p) \in DOMAIN Lzo /\ Lzo[Target(p)] = File(p)
    <3> SUFFICES ASSUME ~Compressing(p)
                 PROVE  Target(p) \in DOMAIN Lzo /\ Lzo[Target(p)] = File(p)
      OBVIOUS
    <3>1. \E n \in DOMAIN Lzo : Lzo[n] = File(p)
      BY <1>2, <1>4, <2>1 DEF Suffixed
    <3>2. Target(p) = CHOOSE n \in DOMAIN Lzo : Lzo[n] = File(p)
      BY <1>4 DEF Target, TargetOf, Compressing
    <3> QED BY <3>1, <3>2
  <2>4. Target(p) \in Names
    BY <2>2, <2>3, ToolAssumption
  <2>5. j \in { x \in 1 .. Len(Job(p).files) : Job(p).op = "compress" \/ Suffixed(Job(p).files[x]) }
    BY <1>1, <1>2, <1>4, <2>1 DEF Compressing
  <2>6. Target(p) = TargetOf(Job(p), Job(p).files[j])
    BY <1>1 DEF Target
  <2>7. Target(p) \in Targets(Job(p))
    BY <1>4, <2>1, <2>5, <2>6 DEF Targets
  <2> QED BY <1>4, <2>2, <2>3, <2>4, <2>7
<1> QED BY <1>3, <1>4
-----------------------------------------------------------------------------
\* One process at a time: the others are as they were.
LEMMA OthersKeep ==
    ASSUME TypeInv, NEW self \in Procs, scenario' = scenario,
           DOMAIN proc' = Procs, \A q \in Procs \ {self} : proc'[q] = proc[q],
           FilesInv', Well(self)', Placed(self)'
    PROVE  TypeInv'
<1>1. ASSUME NEW q \in Procs \ {self}
      PROVE  Well(q)' /\ Placed(q)'
  <2>1. proc'[q] = proc[q] /\ Well(q) /\ Placed(q)
    BY DEF TypeInv
  <2>2. Job(q)' = Job(q) /\ File(q)' = File(q) /\ (Compressing(q)' <=> Compressing(q))
    BY <2>1 DEF Job, File, Compressing
  <2>3. Well(q)'
    BY <2>1 DEF Well
  <2>4. Placed(q)'
    BY <2>1, <2>2 DEF Placed, At, ToStdout
  <2> QED BY <2>3, <2>4
<1> QED BY <1>1 DEF TypeInv

LEMMA FilesKeep ==
    ASSUME FilesInv, UNCHANGED <<dir, node, scenario>>
    PROVE  FilesInv'
BY DEF FilesInv, IsFile

\* After a file comes the next one.
LEMMA AfterFile ==
    ASSUME TypeInv, NEW self \in Procs, Advances(self),
           proc[self].pc \in {"next"} \cup FilePcs, proc[self].left # <<>>, scenario' = scenario
    PROVE  Well(self)' /\ Placed(self)'
<1>1. /\ Well(self) /\ Placed(self) /\ DOMAIN proc = Procs /\ DOMAIN proc[self] = ProcFields
      /\ FilesInv
  BY DEF TypeInv, Well
<1>2. /\ DOMAIN proc'[self] = ProcFields
      /\ proc'[self].pc = "next" /\ proc'[self].left = Tail(proc[self].left)
      /\ proc'[self].jobs = proc[self].jobs /\ proc'[self].results = proc[self].results
      /\ proc'[self].in = None /\ proc'[self].tgt = None
      /\ proc'[self].seen = <<>> /\ proc'[self].buf = <<>>
      /\ proc'[self].used = 0 /\ proc'[self].wpos = 0
  BY DEF Advances
<1>3. /\ Tail(proc[self].left) \in Seq(Names \cup {Dash})
      /\ \A k \in 1 .. Len(Tail(proc[self].left)) :
            k + 1 \in 1 .. Len(proc[self].left) /\ Tail(proc[self].left)[k] = proc[self].left[k + 1]
  BY <1>1, HeadTailProperties DEF Well
<1>5. Well(self)'
  BY <1>1, <1>2, <1>3 DEF Well
<1>6. Job(self)' = Job(self)
  BY <1>2 DEF Job
<1>7. Placed(self)'
  BY <1>1, <1>2, <1>3, <1>6 DEF Placed, At, FilePcs, RawPcs
<1> QED BY <1>5, <1>7

\* After a command line comes the next one.
LEMMA AfterCommand ==
    ASSUME TypeInv, NEW self \in Procs, NEW c, Become(self, c ++ Idle),
           DOMAIN c = {"results", "stdout"} \/ DOMAIN c = {"results"},
           NEW result \in {"ok", "err"}, c.results = Append(proc[self].results, result),
           Len(proc[self].results) < Len(proc[self].jobs), scenario' = scenario
    PROVE  Well(self)' /\ Placed(self)'
<1>1. /\ Well(self) /\ Placed(self) /\ DOMAIN proc = Procs /\ DOMAIN proc[self] = ProcFields
      /\ FilesInv
  BY DEF TypeInv, Well
<1>2. /\ DOMAIN proc'[self] = ProcFields
      /\ proc'[self].pc = "idle" /\ proc'[self].left = <<>>
      /\ proc'[self].jobs = proc[self].jobs
      /\ proc'[self].results = Append(proc[self].results, result)
      /\ proc'[self].in = None /\ proc'[self].tgt = None
      /\ proc'[self].seen = <<>> /\ proc'[self].buf = <<>>
      /\ proc'[self].used = 0 /\ proc'[self].wpos = 0
  BY <1>1, ReturnFields
<1>3. /\ Append(proc[self].results, result) \in Seq({"ok", "err"})
      /\ Len(Append(proc[self].results, result)) <= Len(proc[self].jobs)
  <2>1. proc[self].results \in Seq({"ok", "err"}) /\ proc[self].jobs \in Seq(CommandLines)
    BY <1>1, ToolAssumption DEF Well, FilesInv
  <2> QED BY <2>1, AppendProperties
<1>5. Well(self)'
  BY <1>1, <1>2, <1>3 DEF Well
<1>6. Placed(self)'
  BY <1>2 DEF Placed, At, FilePcs, RawPcs
<1> QED BY <1>5, <1>6

LEMMA AfterReturn ==
    ASSUME TypeInv, NEW self \in Procs, NEW result \in {"ok", "err"}, Return(self, result),
           Len(proc[self].results) < Len(proc[self].jobs), scenario' = scenario
    PROVE  Well(self)' /\ Placed(self)'
<1> DEFINE c == [results |-> Append(proc[self].results, result)]
<1>1. DOMAIN c = {"results"} /\ c.results = Append(proc[self].results, result)
  OBVIOUS
<1>2. Become(self, c ++ Idle)
  BY DEF Return
<1> HIDE DEF c
<1> QED BY <1>1, <1>2, AfterCommand
-----------------------------------------------------------------------------
\* A step that touches no file: the process's own state is what there is to show.
LEMMA OwnState ==
    ASSUME TypeInv, NEW self \in Procs, NEW changes, Become(self, changes),
           DOMAIN changes \subseteq ProcFields \ {"jobs", "results"}, scenario' = scenario
    PROVE  /\ DOMAIN proc' = Procs /\ \A q \in Procs \ {self} : proc'[q] = proc[q]
           /\ DOMAIN proc'[self] = ProcFields
           /\ \A x \in DOMAIN changes : proc'[self][x] = changes[x]
           /\ \A x \in ProcFields \ DOMAIN changes : proc'[self][x] = proc[self][x]
           /\ Job(self)' = Job(self)
<1>1. DOMAIN proc = Procs /\ DOMAIN proc[self] = ProcFields
  BY DEF TypeInv, Well
<1>2. /\ DOMAIN proc' = Procs /\ \A q \in Procs \ {self} : proc'[q] = proc[q]
      /\ DOMAIN proc'[self] = ProcFields
      /\ \A x \in DOMAIN changes : proc'[self][x] = changes[x]
      /\ \A x \in ProcFields \ DOMAIN changes : proc'[self][x] = proc[self][x]
  BY <1>1, BecomeFields
<1>3. proc'[self].jobs = proc[self].jobs /\ proc'[self].results = proc[self].results
  BY <1>2 DEF ProcFields
<1> QED BY <1>2, <1>3 DEF Job

LEMMA RunTypes ==
    ASSUME TypeInv, NEW self \in Procs, Run(self)
    PROVE  TypeInv'
<1>1. /\ Well(self) /\ Placed(self) /\ FilesInv /\ At(self, "idle")
      /\ Len(proc[self].results) < Len(proc[self].jobs) /\ UNCHANGED <<dir, node, scenario>>
  BY DEF TypeInv, Run
<1>2. Job(self) \in CommandLines
  BY <1>1, JobIsLine
<1> DEFINE j == Job(self)
           way == IF j.raw THEN "raw"
                  ELSE IF j.op \in {"list", "test"} THEN "report"
                  ELSE IF FromStdin(j.files) /\ j.output = None THEN "filter"
                  ELSE "next"
           c == [pc |-> way,
                 left |-> IF way = "report" /\ j.files = <<>> THEN <<Dash>> ELSE j.files]
<1>3. CASE Return(self, "err")
  <2>1. Well(self)' /\ Placed(self)'
    BY <1>1, <1>3, AfterReturn
  <2>2. DOMAIN proc' = Procs /\ \A q \in Procs \ {self} : proc'[q] = proc[q]
    BY <1>3 DEF TypeInv, Return, Become
  <2> QED BY <1>1, <2>1, <2>2, FilesKeep, OthersKeep
<1>4. CASE /\ ~(Len(j.files) > 1 /\ (j.output # None \/ j.raw))
           /\ Become(self, c)
  <2>1. /\ DOMAIN c = {"pc", "left"} /\ c.pc = way
        /\ c.left = IF way = "report" /\ j.files = <<>> THEN <<Dash>> ELSE j.files
    OBVIOUS
  <2>2. c.left \in Seq(Names \cup {Dash}) /\ j.files \in Seq(Names)
    <3>1. j.files \in Seq(Names)
      BY <1>2 DEF CommandLines
    <3> HIDE DEF c, way, j
    <3>2. j.files \in Seq(Names \cup {Dash}) /\ <<Dash>> \in Seq(Names \cup {Dash})
      BY <3>1
    <3> QED BY <2>1, <3>1, <3>2
  <2> HIDE DEF c
  <2>3. /\ DOMAIN proc' = Procs /\ \A q \in Procs \ {self} : proc'[q] = proc[q]
        /\ DOMAIN proc'[self] = ProcFields
        /\ \A x \in DOMAIN c : proc'[self][x] = c[x]
        /\ \A x \in ProcFields \ DOMAIN c : proc'[self][x] = proc[self][x]
        /\ Job(self)' = j
    <3>1. DOMAIN c \subseteq ProcFields \ {"jobs", "results"}
      BY <2>1 DEF ProcFields
    <3> QED BY <1>1, <1>4, <3>1, OwnState
  <2>4. Well(self)'
    BY <1>1, <2>1, <2>2, <2>3 DEF Well, ProcFields, RawPcs
  <2>5. Placed(self)'
    <3>1. way \in {"filter", "report", "next", "raw"} /\ (way = "raw" => j.raw)
          /\ (way = "next" => FileJob(j))
      BY <1>2, <1>4 DEF FileJob, CommandLines
    <3>2. way = "next" => c.left = j.files
      BY <2>1
    <3>3. proc'[self].pc = way /\ proc'[self].left = c.left
          /\ \A x \in {"results", "jobs", "tgt", "seen", "used", "wpos", "buf"} :
                proc'[self][x] = proc[self][x]
      BY <2>1, <2>3 DEF ProcFields
    <3> HIDE DEF way, j
    <3> QED BY <1>1, <2>3, <3>1, <3>2, <3>3 DEF Placed, At, FilePcs, RawPcs
  <2> QED BY <1>1, <2>3, <2>4, <2>5, FilesKeep, OthersKeep
<1> QED BY <1>3, <1>4 DEF Run

LEMMA FilterTypes ==
    ASSUME TypeInv, NEW self \in Procs, Filter(self)
    PROVE  TypeInv'
<1>1. /\ Well(self) /\ Placed(self) /\ FilesInv /\ UNCHANGED <<dir, node, scenario>>
      /\ Len(proc[self].results) < Len(proc[self].jobs)
  BY DEF TypeInv, Filter, Placed, At
<1>2. DOMAIN proc' = Procs /\ \A q \in Procs \ {self} : proc'[q] = proc[q]
  BY DEF TypeInv, Filter, Return, Become
<1>3. Well(self)' /\ Placed(self)'
  <2>1. CASE Return(self, "err")
    BY <1>1, <2>1, AfterReturn
  <2>2. ASSUME NEW s, Become(self, [stdout |-> s, results |-> Append(proc[self].results, "ok")] ++ Idle)
        PROVE  Well(self)' /\ Placed(self)'
    <3> DEFINE c == [stdout |-> s, results |-> Append(proc[self].results, "ok")]
    <3>1. DOMAIN c = {"results", "stdout"} /\ c.results = Append(proc[self].results, "ok")
      OBVIOUS
    <3>2. Become(self, c ++ Idle)
      BY <2>2
    <3> HIDE DEF c
    <3> QED BY <1>1, <3>1, <3>2, AfterCommand
  <2> QED BY <2>1, <2>2 DEF Filter
<1> QED BY <1>1, <1>2, <1>3, FilesKeep, OthersKeep

LEMMA ReportTypes ==
    ASSUME TypeInv, NEW self \in Procs, Report(self)
    PROVE  TypeInv'
<1>1. /\ Well(self) /\ Placed(self) /\ FilesInv /\ UNCHANGED <<dir, node, scenario>>
      /\ Len(proc[self].results) < Len(proc[self].jobs) /\ proc[self].pc = "report"
  BY DEF TypeInv, Report, Placed, At
<1>2. DOMAIN proc' = Procs /\ \A q \in Procs \ {self} : proc'[q] = proc[q]
  BY DEF TypeInv, Report, Return, Become
<1>3. Well(self)' /\ Placed(self)'
  <2>1. CASE Return(self, "err") \/ Return(self, "ok")
    BY <1>1, <2>1, AfterReturn
  <2>2. CASE proc[self].left # <<>> /\ Become(self, [left |-> Tail(proc[self].left)])
    <3> DEFINE c == [left |-> Tail(proc[self].left)]
    <3>1. DOMAIN c = {"left"} /\ c.left = Tail(proc[self].left)
      OBVIOUS
    <3>2. c.left \in Seq(Names \cup {Dash})
      BY <1>1, <2>2, <3>1, HeadTailProperties DEF Well
    <3> HIDE DEF c
    <3>3. /\ DOMAIN proc'[self] = ProcFields /\ proc'[self].left = c.left
          /\ \A x \in ProcFields \ DOMAIN c : proc'[self][x] = proc[self][x]
      BY <1>1, <2>2, <3>1, OwnState DEF c, ProcFields
    <3>4. Well(self)'
      BY <1>1, <3>1, <3>2, <3>3 DEF Well, ProcFields
    <3>5. Placed(self)'
      BY <1>1, <3>1, <3>3 DEF Placed, At, ProcFields, FilePcs, RawPcs
    <3> QED BY <3>4, <3>5
  <2> QED BY <2>1, <2>2 DEF Report
<1> QED BY <1>1, <1>2, <1>3, FilesKeep, OthersKeep

LEMMA FileOverTypes ==
    ASSUME TypeInv, NEW self \in Procs, NEW failed, NextFile(self, failed),
           proc[self].pc \in {"next"} \cup FilePcs, proc[self].left # <<>>,
           scenario' = scenario, FilesInv'
    PROVE  TypeInv'
<1>1. Advances(self)
  BY NextFileFields DEF TypeInv, Well
<1>2. Well(self)' /\ Placed(self)'
  BY <1>1, AfterFile
<1> QED BY <1>1, <1>2, OthersKeep DEF Advances

LEMMA EachFileTypes ==
    ASSUME TypeInv, NEW self \in Procs, EachFile(self)
    PROVE  TypeInv'
<1>1. /\ Well(self) /\ Placed(self) /\ FilesInv /\ UNCHANGED <<dir, node, scenario>>
      /\ Len(proc[self].results) < Len(proc[self].jobs) /\ proc[self].pc = "next"
      /\ FilesInv'
  BY FilesKeep DEF TypeInv, EachFile, Placed, At
<1>2. CASE Return(self, IF proc[self].errs THEN "err" ELSE "ok")
  <2>1. Well(self)' /\ Placed(self)'
    BY <1>1, <1>2, AfterReturn
  <2>2. DOMAIN proc' = Procs /\ \A q \in Procs \ {self} : proc'[q] = proc[q]
    BY <1>2 DEF TypeInv, Return, Become
  <2> QED BY <1>1, <2>1, <2>2, OthersKeep
<1>3. CASE proc[self].left # <<>> /\ NextFile(self, TRUE)
  BY <1>1, <1>3, FileOverTypes
<1>4. ASSUME NEW pc \in {"stat", "open"}, Become(self, [pc |-> pc]), proc[self].left # <<>>,
             pc = "stat" => Compressing(self),
             Compressing(self) \/ Job(self).output # None \/ Job(self).stdout \/ Suffixed(File(self))
      PROVE  TypeInv'
  <2> DEFINE c == [pc |-> pc]
  <2>1. DOMAIN c = {"pc"} /\ c.pc = pc
    OBVIOUS
  <2> HIDE DEF c
  <2>2. /\ DOMAIN proc' = Procs /\ \A q \in Procs \ {self} : proc'[q] = proc[q]
        /\ DOMAIN proc'[self] = ProcFields /\ proc'[self].pc = pc
        /\ \A x \in ProcFields \ {"pc"} : proc'[self][x] = proc[self][x]
        /\ Job(self)' = Job(self)
    BY <1>1, <1>4, <2>1, OwnState DEF c, ProcFields
  <2>3. Well(self)'
    BY <1>1, <1>4, <2>2 DEF Well, ProcFields, FilePcs
  <2>4. File(self)' = File(self) /\ (Compressing(self)' <=> Compressing(self))
    BY <2>2 DEF File, Compressing, ProcFields
  <2>5. Placed(self)'
    BY <1>1, <1>4, <2>2, <2>4 DEF Placed, At, ProcFields, FilePcs, RawPcs
  <2> QED BY <1>1, <2>2, <2>3, <2>5, OthersKeep
<1>5. CASE proc[self].left # <<>> /\ Compressing(self) /\ Become(self, [pc |-> "stat"])
  BY <1>4, <1>5
<1>6. CASE /\ proc[self].left # <<>> /\ Become(self, [pc |-> "open"])
           /\ Job(self).output # None \/ Job(self).stdout \/ Suffixed(File(self))
  BY <1>4, <1>6
<1> QED BY <1>2, <1>3, <1>5, <1>6 DEF EachFile

LEMMA StatTypes ==
    ASSUME TypeInv, NEW self \in Procs, Stat(self)
    PROVE  TypeInv'
<1>1. /\ Well(self) /\ Placed(self) /\ FilesInv /\ UNCHANGED <<dir, node, scenario>>
      /\ proc[self].pc = "stat" /\ proc[self].left # <<>> /\ FilesInv'
  BY FilesKeep DEF TypeInv, Stat, Placed, At, FilePcs
<1>2. CASE NextFile(self, TRUE)
  BY <1>1, <1>2, FileOverTypes DEF FilePcs
<1>3. ASSUME NEW m, NEW t, Become(self, [pc |-> "open", mode |-> m, mtime |-> t])
      PROVE  TypeInv'
  <2> DEFINE c == [pc |-> "open", mode |-> m, mtime |-> t]
  <2>1. DOMAIN c = {"pc", "mode", "mtime"} /\ c.pc = "open"
    OBVIOUS
  <2> HIDE DEF c
  <2>2. /\ DOMAIN proc' = Procs /\ \A q \in Procs \ {self} : proc'[q] = proc[q]
        /\ DOMAIN proc'[self] = ProcFields /\ proc'[self].pc = "open"
        /\ \A x \in ProcFields \ {"pc", "mode", "mtime"} : proc'[self][x] = proc[self][x]
        /\ Job(self)' = Job(self)
    BY <1>1, <1>3, <2>1, OwnState DEF c, ProcFields
  <2>3. Well(self)'
    BY <1>1, <2>2 DEF Well, ProcFields, FilePcs
  <2>4. File(self)' = File(self) /\ (Compressing(self)' <=> Compressing(self))
    BY <2>2 DEF File, Compressing, ProcFields
  <2>5. Placed(self)'
    BY <1>1, <2>2, <2>4 DEF Placed, At, ProcFields, FilePcs, RawPcs
  <2> QED BY <1>1, <2>2, <2>3, <2>5, OthersKeep
<1> QED BY <1>2, <1>3 DEF Stat

LEMMA OpenTypes ==
    ASSUME TypeInv, NEW self \in Procs, Open(self)
    PROVE  TypeInv'
<1>1. /\ Well(self) /\ Placed(self) /\ FilesInv /\ UNCHANGED <<dir, node, scenario>>
      /\ proc[self].pc = "open" /\ proc[self].left # <<>> /\ FilesInv'
  BY FilesKeep DEF TypeInv, Open, Placed, At, FilePcs
<1>2. CASE NextFile(self, TRUE)
  BY <1>1, <1>2, FileOverTypes DEF FilePcs
<1>3. ASSUME Exists(File(self)), Compressing(self),
             Become(self, [pc |-> IF ToStdout(self) THEN "copy" ELSE "check", in |-> dir[File(self)],
                           buf |-> <<<<"header", proc[self].mode, proc[self].mtime>>>>])
      PROVE  TypeInv'
  <2> DEFINE c == [pc |-> IF ToStdout(self) THEN "copy" ELSE "check", in |-> dir[File(self)],
                   buf |-> <<<<"header", proc[self].mode, proc[self].mtime>>>>]
             h == <<"header", proc[self].mode, proc[self].mtime>>
  <2>1. /\ DOMAIN c = {"pc", "in", "buf"} /\ c.pc = IF ToStdout(self) THEN "copy" ELSE "check"
        /\ c.in = dir[File(self)] /\ c.buf = <<h>>
    OBVIOUS
  <2> HIDE DEF c, h
  <2>2. /\ DOMAIN proc' = Procs /\ \A q \in Procs \ {self} : proc'[q] = proc[q]
        /\ DOMAIN proc'[self] = ProcFields /\ proc'[self].pc = c.pc /\ proc'[self].in = c.in
        /\ proc'[self].buf = <<h>>
        /\ \A x \in ProcFields \ {"pc", "in", "buf"} : proc'[self][x] = proc[self][x]
        /\ Job(self)' = Job(self)
    BY <1>1, <1>3, <2>1, OwnState DEF c, h, ProcFields
  <2>3. c.in \in Inodes \cup {None} /\ c.in # None
    BY <1>1, <1>3, <2>1, FileIsName DEF FilesInv, Exists, FilePcs
  <2>4. Well(self)'
    BY <1>1, <2>1, <2>2, <2>3 DEF Well, ProcFields, FilePcs
  <2>5. File(self)' = File(self) /\ (Compressing(self)' <=> Compressing(self))
        /\ (ToStdout(self)' <=> ToStdout(self))
    BY <2>2 DEF File, Compressing, ToStdout, ProcFields
  <2>6. Placed(self)'
    BY <1>1, <2>1, <2>2, <2>3, <2>5 DEF Placed, At, ProcFields, FilePcs, RawPcs
  <2> QED BY <1>1, <2>2, <2>4, <2>6, OthersKeep
<1>4. ASSUME Exists(File(self)), ~Compressing(self),
             Become(self, [pc |-> "header", in |-> dir[File(self)]])
      PROVE  TypeInv'
  <2> DEFINE c == [pc |-> "header", in |-> dir[File(self)]]
  <2>1. DOMAIN c = {"pc", "in"} /\ c.pc = "header" /\ c.in = dir[File(self)]
    OBVIOUS
  <2> HIDE DEF c
  <2>2. /\ DOMAIN proc' = Procs /\ \A q \in Procs \ {self} : proc'[q] = proc[q]
        /\ DOMAIN proc'[self] = ProcFields /\ proc'[self].pc = "header" /\ proc'[self].in = c.in
        /\ \A x \in ProcFields \ {"pc", "in"} : proc'[self][x] = proc[self][x]
        /\ Job(self)' = Job(self)
    BY <1>1, <1>4, <2>1, OwnState DEF c, ProcFields
  <2>3. c.in \in Inodes \cup {None} /\ c.in # None
    BY <1>1, <1>4, <2>1, FileIsName DEF FilesInv, FilePcs, Exists
  <2>4. Well(self)'
    BY <1>1, <2>2, <2>3 DEF Well, ProcFields, FilePcs
  <2>5. File(self)' = File(self) /\ (Compressing(self)' <=> Compressing(self))
    BY <2>2 DEF File, Compressing, ProcFields
  <2>6. Placed(self)'
    BY <1>1, <1>4, <2>2, <2>3, <2>5 DEF Placed, At, ProcFields, FilePcs, RawPcs
  <2> QED BY <1>1, <2>2, <2>4, <2>6, OthersKeep
<1> QED BY <1>2, <1>3, <1>4 DEF Open

LEMMA SubSeqIsSeq ==
    ASSUME NEW c, IsSeq(c), NEW k \in 1 .. Len(c)
    PROVE  IsSeq(SubSeq(c, 1, k)) /\ Len(SubSeq(c, 1, k)) = k
           /\ \A j \in 1 .. k : SubSeq(c, 1, k)[j] = c[j]
<1> DEFINE S == { c[j] : j \in DOMAIN c }
<1>1. c \in Seq(S)
  BY DEF IsSeq
<1> HIDE DEF S
<1>2. /\ SubSeq(c, 1, k) \in Seq(S) /\ Len(SubSeq(c, 1, k)) = k
      /\ \A j \in 1 .. k : SubSeq(c, 1, k)[j] = c[j]
  BY <1>1
<1> QED BY <1>2, SeqOf

LEMMA ReadHeaderTypes ==
    ASSUME TypeInv, NEW self \in Procs, ReadHeader(self)
    PROVE  TypeInv'
<1>1. /\ Well(self) /\ Placed(self) /\ FilesInv /\ UNCHANGED <<dir, node, scenario>>
      /\ proc[self].pc = "header" /\ proc[self].left # <<>> /\ FilesInv'
      /\ ~Compressing(self)
  BY FilesKeep DEF TypeInv, ReadHeader, Placed, At, FilePcs
<1>2. CASE NextFile(self, TRUE)
  BY <1>1, <1>2, FileOverTypes DEF FilePcs
<1>3. ASSUME NEW k \in 1 .. Len(Input(self)), NEW m, NEW t,
             Become(self, [pc |-> IF ToStdout(self) THEN "copy" ELSE "check",
                           seen |-> SubSeq(Input(self), 1, k), used |-> 1, mode |-> m, mtime |-> t])
      PROVE  TypeInv'
  <2> DEFINE c == [pc |-> IF ToStdout(self) THEN "copy" ELSE "check",
                   seen |-> SubSeq(Input(self), 1, k), used |-> 1, mode |-> m, mtime |-> t]
  <2>1. /\ DOMAIN c = {"pc", "seen", "used", "mode", "mtime"}
        /\ c.pc = IF ToStdout(self) THEN "copy" ELSE "check"
        /\ c.seen = SubSeq(Input(self), 1, k) /\ c.used = 1
    OBVIOUS
  <2> HIDE DEF c
  <2>2. /\ DOMAIN proc' = Procs /\ \A q \in Procs \ {self} : proc'[q] = proc[q]
        /\ DOMAIN proc'[self] = ProcFields /\ proc'[self].pc = c.pc
        /\ proc'[self].seen = c.seen /\ proc'[self].used = 1
        /\ \A x \in ProcFields \ {"pc", "seen", "used", "mode", "mtime"} :
              proc'[self][x] = proc[self][x]
        /\ Job(self)' = Job(self)
    BY <1>1, <1>3, <2>1, OwnState DEF c, ProcFields
  <2>3. c.pc \in {"copy", "check"}
    BY <2>1
  <2>4. Well(self)'
    BY <1>1, <2>2, <2>3 DEF Well, ProcFields, FilePcs
  <2>5. File(self)' = File(self) /\ (Compressing(self)' <=> Compressing(self))
        /\ (ToStdout(self)' <=> ToStdout(self))
    BY <2>2 DEF File, Compressing, ToStdout, ProcFields
  <2>6. Placed(self)'
    BY <1>1, <2>1, <2>2, <2>5 DEF Placed, At, ProcFields, FilePcs, RawPcs
  <2> QED BY <1>1, <2>2, <2>4, <2>6, OthersKeep
<1> QED BY <1>2, <1>3 DEF ReadHeader

LEMMA CheckTypes ==
    ASSUME TypeInv, NEW self \in Procs, Check(self)
    PROVE  TypeInv'
<1>1. /\ Well(self) /\ Placed(self) /\ FilesInv /\ UNCHANGED <<dir, node, scenario>>
      /\ proc[self].pc = "check" /\ proc[self].left # <<>> /\ FilesInv'
  BY FilesKeep DEF TypeInv, Check, Placed, At, FilePcs
<1>2. CASE NextFile(self, TRUE)
  BY <1>1, <1>2, FileOverTypes DEF FilePcs
<1>3. CASE Become(self, [pc |-> "create"])
  <2> DEFINE c == [pc |-> "create"]
  <2>1. DOMAIN c = {"pc"} /\ c.pc = "create"
    OBVIOUS
  <2> HIDE DEF c
  <2>2. /\ DOMAIN proc' = Procs /\ \A q \in Procs \ {self} : proc'[q] = proc[q]
        /\ DOMAIN proc'[self] = ProcFields /\ proc'[self].pc = "create"
        /\ \A x \in ProcFields \ {"pc"} : proc'[self][x] = proc[self][x]
        /\ Job(self)' = Job(self)
    BY <1>1, <1>3, <2>1, OwnState DEF c, ProcFields
  <2>3. Well(self)'
    BY <1>1, <2>2 DEF Well, ProcFields, FilePcs
  <2>4. File(self)' = File(self) /\ (Compressing(self)' <=> Compressing(self))
        /\ (ToStdout(self)' <=> ToStdout(self))
    BY <2>2 DEF File, Compressing, ToStdout, ProcFields
  <2>5. Placed(self)'
    BY <1>1, <2>2, <2>4 DEF Placed, At, ProcFields, FilePcs, RawPcs
  <2> QED BY <1>1, <2>2, <2>3, <2>5, OthersKeep
<1> QED BY <1>2, <1>3 DEF Check

LEMMA TruncateFiles ==
    ASSUME FilesInv, NEW name \in Names, NEW i \in Inodes, Truncate(name, i), scenario' = scenario
    PROVE  FilesInv' /\ \A j \in Inodes \ {i} : node'[j] = node[j]
<1>1. IsFile(NewFile)
  BY DEF IsFile, NewFile
<1>2. IsFile(node[i])
  BY DEF FilesInv
<1>3. IsFile(node'[i])
  BY <1>1, <1>2 DEF Truncate, IsFile, FilesInv
<1>4. \A j \in Inodes \ {i} : node'[j] = node[j]
  BY DEF Truncate, FilesInv
<1>5. DOMAIN dir' = Names /\ DOMAIN node' = Inodes /\ \A n \in Names : dir'[n] \in Inodes \cup {None}
  BY DEF Truncate, FilesInv
<1> QED BY <1>3, <1>4, <1>5 DEF FilesInv, IsFile

LEMMA CreateTypes ==
    ASSUME TypeInv, NEW self \in Procs, Create(self)
    PROVE  TypeInv'
<1>1. /\ Well(self) /\ Placed(self) /\ FilesInv /\ scenario' = scenario
      /\ proc[self].pc = "create" /\ proc[self].left # <<>> /\ ~ToStdout(self)
  BY DEF TypeInv, Create, Placed, At, FilePcs
<1>2. CASE NextFile(self, TRUE) /\ UNCHANGED <<dir, node>>
  BY <1>1, <1>2, FileOverTypes, FilesKeep DEF FilePcs
<1>3. ASSUME NEW i \in Inodes, Truncate(Target(self), i),
             Become(self, [pc |-> "copy", tgt |-> i])
      PROVE  TypeInv'
  <2> DEFINE c == [pc |-> "copy", tgt |-> i]
  <2>1. DOMAIN c = {"pc", "tgt"} /\ c.pc = "copy" /\ c.tgt = i
    OBVIOUS
  <2> HIDE DEF c
  <2>2. /\ DOMAIN proc' = Procs /\ \A q \in Procs \ {self} : proc'[q] = proc[q]
        /\ DOMAIN proc'[self] = ProcFields /\ proc'[self].pc = "copy" /\ proc'[self].tgt = i
        /\ \A x \in ProcFields \ {"pc", "tgt"} : proc'[self][x] = proc[self][x]
        /\ Job(self)' = Job(self)
    BY <1>1, <1>3, <2>1, OwnState DEF c, ProcFields
  <2>3. Well(self)'
    BY <1>1, <2>2 DEF Well, ProcFields, FilePcs
  <2>4. File(self)' = File(self) /\ (Compressing(self)' <=> Compressing(self))
        /\ (ToStdout(self)' <=> ToStdout(self))
    BY <2>2 DEF File, Compressing, ToStdout, ProcFields
  <2>5. i # None
    BY ToolAssumption
  <2>6. Placed(self)'
    BY <1>1, <2>2, <2>4, <2>5 DEF Placed, At, ProcFields, FilePcs, RawPcs
  <2>7. FilesInv'
    BY <1>1, <1>3, TargetIsName, TruncateFiles DEF FilePcs
  <2> QED BY <1>1, <2>2, <2>3, <2>6, <2>7, OthersKeep
<1> QED BY <1>2, <1>3 DEF Create

LEMMA CopyBlockTypes ==
    ASSUME TypeInv, NEW self \in Procs, CopyBlock(self)
    PROVE  TypeInv'
<1>1. /\ Well(self) /\ Placed(self) /\ FilesInv /\ UNCHANGED <<dir, node, scenario>>
      /\ proc[self].pc = "copy" /\ proc[self].left # <<>> /\ FilesInv'
  BY FilesKeep DEF TypeInv, CopyBlock, Placed, At, FilePcs
<1> DEFINE e == IF Compressing(self) THEN <<"block", Cell(self)>> ELSE Cell(self)[2]
           c == [used |-> proc[self].used + 1, buf |-> Append(proc[self].buf, e)]
<1>2. DOMAIN c = {"used", "buf"} /\ c.used = proc[self].used + 1 /\ c.buf = Append(proc[self].buf, e)
  OBVIOUS
<1>3. Become(self, c)
  BY DEF CopyBlock
<1> HIDE DEF c, e
<1>4. /\ DOMAIN proc' = Procs /\ \A q \in Procs \ {self} : proc'[q] = proc[q]
      /\ DOMAIN proc'[self] = ProcFields /\ proc'[self].used = c.used /\ proc'[self].buf = c.buf
      /\ \A x \in ProcFields \ {"used", "buf"} : proc'[self][x] = proc[self][x]
      /\ Job(self)' = Job(self)
  BY <1>1, <1>2, <1>3, OwnState DEF ProcFields
<1>5. c.used \in Nat
  BY <1>1, <1>2 DEF Well
<1>6. Well(self)'
  BY <1>1, <1>4, <1>5 DEF Well, ProcFields, FilePcs
<1>7. File(self)' = File(self) /\ (Compressing(self)' <=> Compressing(self))
      /\ (ToStdout(self)' <=> ToStdout(self))
  BY <1>4 DEF File, Compressing, ToStdout, ProcFields
<1>8. Placed(self)'
  BY <1>1, <1>4, <1>7 DEF Placed, At, ProcFields, FilePcs, RawPcs
<1> QED BY <1>1, <1>4, <1>6, <1>8, OthersKeep

LEMMA CopyEndTypes ==
    ASSUME TypeInv, NEW self \in Procs, CopyEnd(self)
    PROVE  TypeInv'
<1>1. /\ Well(self) /\ Placed(self) /\ FilesInv /\ UNCHANGED <<dir, node, scenario>>
      /\ proc[self].pc = "copy" /\ proc[self].left # <<>> /\ FilesInv'
  BY FilesKeep DEF TypeInv, CopyEnd, Placed, At, FilePcs
<1>2. ASSUME NEW b,
             \/ Become(self, [pc |-> "flush", buf |-> b])
             \/ b = proc[self].buf /\ Become(self, [pc |-> "flush"])
      PROVE  TypeInv'
  <2>1. /\ DOMAIN proc' = Procs /\ \A q \in Procs \ {self} : proc'[q] = proc[q]
        /\ DOMAIN proc'[self] = ProcFields /\ proc'[self].pc = "flush" /\ proc'[self].buf = b
        /\ \A x \in ProcFields \ {"pc", "buf"} : proc'[self][x] = proc[self][x]
        /\ Job(self)' = Job(self)
    <3>1. CASE Become(self, [pc |-> "flush", buf |-> b])
      <4> DEFINE c == [pc |-> "flush", buf |-> b]
      <4>1. DOMAIN c = {"pc", "buf"} /\ c.pc = "flush" /\ c.buf = b
        OBVIOUS
      <4> HIDE DEF c
      <4> QED BY <1>1, <3>1, <4>1, OwnState DEF c, ProcFields
    <3>2. CASE b = proc[self].buf /\ Become(self, [pc |-> "flush"])
      <4> DEFINE c == [pc |-> "flush"]
      <4>1. DOMAIN c = {"pc"} /\ c.pc = "flush"
        OBVIOUS
      <4> HIDE DEF c
      <4> QED BY <1>1, <3>2, <4>1, OwnState DEF c, ProcFields
    <3> QED BY <1>2, <3>1, <3>2
  <2>2. Well(self)'
    BY <1>1, <1>2, <2>1 DEF Well, ProcFields, FilePcs
  <2>3. File(self)' = File(self) /\ (Compressing(self)' <=> Compressing(self))
        /\ (ToStdout(self)' <=> ToStdout(self))
    BY <2>1 DEF File, Compressing, ToStdout, ProcFields
  <2>4. Placed(self)'
    BY <1>1, <2>1, <2>3 DEF Placed, At, ProcFields, FilePcs, RawPcs
  <2> QED BY <1>1, <2>1, <2>2, <2>4, OthersKeep
<1> QED BY <1>2 DEF CopyEnd

\* What the buffer was is in the file, or was said.
LEMMA SpilledFields ==
    ASSUME TypeInv, NEW self \in Procs, NEW q, Spilled(self, [pc |-> q])
    PROVE  /\ DOMAIN proc' = Procs /\ \A o \in Procs \ {self} : proc'[o] = proc[o]
           /\ DOMAIN proc'[self] = ProcFields /\ proc'[self].pc = q /\ proc'[self].buf = <<>>
           /\ proc'[self].wpos = proc[self].wpos + Len(proc[self].buf)
           /\ \A x \in ProcFields \ {"pc", "buf", "wpos", "stdout"} : proc'[self][x] = proc[self][x]
           /\ Job(self)' = Job(self)
<1> DEFINE s == [buf |-> <<>>, wpos |-> proc[self].wpos + Len(proc[self].buf)]
           t == [pc |-> q]
           o == [stdout |-> proc[self].stdout \o proc[self].buf]
           c == IF proc[self].tgt = None THEN o ++ t ++ s ELSE t ++ s
<1>1. /\ DOMAIN c \subseteq {"pc", "buf", "wpos", "stdout"} /\ {"pc", "buf", "wpos"} \subseteq DOMAIN c
      /\ c.pc = q /\ c.buf = <<>> /\ c.wpos = proc[self].wpos + Len(proc[self].buf)
  BY DEF ++
<1>2. Become(self, c)
  BY DEF Spilled
<1> HIDE DEF c
<1>3. DOMAIN proc = Procs /\ DOMAIN proc[self] = ProcFields
  BY DEF TypeInv, Well
<1>4. DOMAIN c \subseteq ProcFields
  BY <1>1 DEF ProcFields
<1>5. /\ DOMAIN proc' = Procs /\ \A p \in Procs \ {self} : proc'[p] = proc[p]
      /\ DOMAIN proc'[self] = ProcFields
      /\ \A x \in DOMAIN c : proc'[self][x] = c[x]
      /\ \A x \in ProcFields \ DOMAIN c : proc'[self][x] = proc[self][x]
  BY <1>2, <1>3, <1>4, BecomeFields
<1>6. \A x \in ProcFields \ {"pc", "buf", "wpos", "stdout"} : proc'[self][x] = proc[self][x]
  BY <1>1, <1>5
<1>7. Job(self)' = Job(self)
  BY <1>6 DEF Job, ProcFields
<1> QED BY <1>1, <1>5, <1>6, <1>7

LEMMA SpilledFiles ==
    ASSUME TypeInv, NEW self \in Procs, NEW then, Spilled(self, then), UNCHANGED <<dir, scenario>>
    PROVE  /\ FilesInv'
           /\ proc[self].tgt = None => node' = node
           /\ proc[self].tgt # None =>
                 /\ proc[self].tgt \in Inodes
                 /\ node'[proc[self].tgt].cells =
                       Written(node[proc[self].tgt].cells, proc[self].wpos, proc[self].buf)
                 /\ \A j \in Inodes \ {proc[self].tgt} : node'[j] = node[j]
<1>1. Well(self) /\ FilesInv
  BY DEF TypeInv
<1>2. CASE proc[self].tgt = None
  BY <1>1, <1>2, FilesKeep DEF Spilled
<1>3. CASE proc[self].tgt # None
  <2>1. PICK t \in Inodes : t = proc[self].tgt
    BY <1>1, <1>3 DEF Well
  <2>2. IsFile(node[t])
    BY <1>1, <2>1 DEF FilesInv
  <2> DEFINE w == Written(node[t].cells, proc[self].wpos, proc[self].buf)
  <2>4. node' = [node EXCEPT ![t].cells = w, ![t].mtime = NOW]
    BY <1>3, <2>1 DEF Spilled
  <2> HIDE DEF w
  <2>5. DOMAIN node' = Inodes /\ \A j \in Inodes \ {t} : node'[j] = node[j]
    BY <1>1, <2>4 DEF FilesInv
  <2>6. node'[t].cells = w /\ DOMAIN node'[t] = {"cells", "mode", "mtime"}
    BY <1>1, <2>2, <2>4 DEF FilesInv, IsFile
  <2>7. FilesInv'
    BY <1>1, <2>5, <2>6 DEF FilesInv, IsFile
  <2> QED BY <1>3, <2>1, <2>5, <2>6, <2>7 DEF w
<1> QED BY <1>2, <1>3

LEMMA SpillTypes ==
    ASSUME TypeInv, NEW self \in Procs, NEW q \in {"copy", "mode"}, Spilled(self, [pc |-> q]),
           proc[self].pc \in {"copy", "flush"}, q = "mode" => proc[self].tgt # None,
           UNCHANGED <<dir, scenario>>
    PROVE  TypeInv'
<1>1. Well(self) /\ Placed(self) /\ FilesInv /\ FilesInv' /\ proc[self].left # <<>>
  BY SpilledFiles DEF TypeInv, Placed, FilePcs
<1>2. /\ DOMAIN proc' = Procs /\ \A o \in Procs \ {self} : proc'[o] = proc[o]
      /\ DOMAIN proc'[self] = ProcFields /\ proc'[self].pc = q /\ proc'[self].buf = <<>>
      /\ proc'[self].wpos = proc[self].wpos + Len(proc[self].buf)
      /\ \A x \in ProcFields \ {"pc", "buf", "wpos", "stdout"} : proc'[self][x] = proc[self][x]
      /\ Job(self)' = Job(self)
  BY SpilledFields
<1>4. Well(self)'
  BY <1>1, <1>2 DEF Well, ProcFields, FilePcs
<1>5. File(self)' = File(self) /\ (Compressing(self)' <=> Compressing(self))
      /\ (ToStdout(self)' <=> ToStdout(self))
  BY <1>2 DEF File, Compressing, ToStdout, ProcFields
<1>6. Placed(self)'
  BY <1>1, <1>2, <1>5 DEF Placed, At, ProcFields, FilePcs, RawPcs
<1> QED BY <1>1, <1>2, <1>4, <1>6, OthersKeep

\* What is written to standard output is over when it is flushed.
LEMMA FlushedFields ==
    ASSUME TypeInv, NEW self \in Procs, Spilled(self, FileOver(self, FALSE)), proc[self].tgt = None
    PROVE  Advances(self)
<1> DEFINE s == [buf |-> <<>>, wpos |-> proc[self].wpos + Len(proc[self].buf)]
           o == [stdout |-> proc[self].stdout \o proc[self].buf]
           t == FileOver(self, FALSE)
           c == o ++ t ++ s
<1>1. /\ DOMAIN t \subseteq ProcFields \ {"jobs", "results", "stdout"}
      /\ {"pc", "left", "in", "tgt", "seen", "buf", "used", "wpos"} \subseteq DOMAIN t
      /\ t.pc = "next" /\ t.left = Tail(proc[self].left) /\ t.in = None /\ t.tgt = None
      /\ t.seen = <<>> /\ t.buf = <<>> /\ t.used = 0 /\ t.wpos = 0
  BY DEF FileOver, ++, Idle, ProcFields
<1>2. Become(self, c)
  BY DEF Spilled
<1>3. DOMAIN o = {"stdout"} /\ DOMAIN s = {"buf", "wpos"}
  OBVIOUS
<1> HIDE DEF o, t, s
<1>4. /\ DOMAIN c \subseteq ProcFields \ {"jobs", "results"}
      /\ \A x \in DOMAIN t : x \in DOMAIN c /\ c[x] = t[x]
  BY <1>1, <1>3 DEF ++, ProcFields
<1>5. DOMAIN proc = Procs /\ DOMAIN proc[self] = ProcFields
  BY DEF TypeInv, Well
<1> HIDE DEF c
<1>6. /\ DOMAIN proc' = Procs /\ \A p \in Procs \ {self} : proc'[p] = proc[p]
      /\ DOMAIN proc'[self] = ProcFields
      /\ \A x \in DOMAIN c : proc'[self][x] = c[x]
      /\ \A x \in ProcFields \ DOMAIN c : proc'[self][x] = proc[self][x]
  BY <1>2, <1>4, <1>5, BecomeFields
<1>7. proc'[self].jobs = proc[self].jobs /\ proc'[self].results = proc[self].results
  BY <1>4, <1>6 DEF ProcFields
<1>8. \A x \in DOMAIN t : proc'[self][x] = t[x]
  BY <1>4, <1>6
<1> QED BY <1>1, <1>6, <1>7, <1>8 DEF Advances

LEMMA FlushTypes ==
    ASSUME TypeInv, NEW self \in Procs, Flush(self)
    PROVE  TypeInv'
<1>1. /\ Placed(self) /\ proc[self].pc = "flush" /\ UNCHANGED <<dir, scenario>>
      /\ Spilled(self, Flushed(self)) /\ proc[self].left # <<>>
  BY DEF TypeInv, Flush, At, Placed, FilePcs
<1>2. CASE proc[self].tgt = None
  <2>1. Advances(self) /\ FilesInv'
    BY <1>1, <1>2, FlushedFields, SpilledFiles DEF Flushed
  <2>2. Well(self)' /\ Placed(self)'
    BY <1>1, <2>1, AfterFile DEF FilePcs
  <2> QED BY <1>1, <2>1, <2>2, OthersKeep DEF Advances
<1>3. CASE proc[self].tgt # None
  BY <1>1, <1>3, SpillTypes DEF Flushed
<1> QED BY <1>2, <1>3

LEMMA RemovedFiles ==
    ASSUME FilesInv, NEW name, dir' = [dir EXCEPT ![name] = None], UNCHANGED <<node, scenario>>
    PROVE  FilesInv'
BY DEF FilesInv, IsFile

LEMMA CopyFailsTypes ==
    ASSUME TypeInv, NEW self \in Procs, CopyFails(self)
    PROVE  TypeInv' /\ Advances(self) /\ proc[self].pc \in {"copy", "flush"}
<1>1. /\ Well(self) /\ Placed(self) /\ FilesInv /\ UNCHANGED <<node, scenario>>
      /\ proc[self].pc \in {"copy", "flush"} /\ NextFile(self, TRUE)
      /\ dir' = dir \/ dir' = [dir EXCEPT ![Target(self)] = None]
  BY DEF TypeInv, CopyFails, Bad, At
<1>2. FilesInv' /\ proc[self].left # <<>>
  BY <1>1, FilesKeep, RemovedFiles DEF Placed, FilePcs
<1>3. Advances(self)
  BY <1>1, NextFileFields DEF TypeInv, Well
<1> QED BY <1>1, <1>2, <1>3, FileOverTypes DEF FilePcs

LEMMA RemoveTypes ==
    ASSUME TypeInv, NEW self \in Procs, Remove(self)
    PROVE  TypeInv' /\ Advances(self)
<1>1. /\ Well(self) /\ Placed(self) /\ FilesInv /\ UNCHANGED <<node, scenario>>
      /\ proc[self].pc = "remove"
      /\ dir' = dir \/ dir' = [dir EXCEPT ![File(self)] = None]
  BY DEF TypeInv, Remove, At
<1>2. PICK failed \in BOOLEAN : NextFile(self, failed)
  BY DEF Remove
<1>3. FilesInv' /\ proc[self].left # <<>>
  BY <1>1, FilesKeep, RemovedFiles DEF Placed, FilePcs
<1>4. Advances(self)
  BY <1>2, NextFileFields DEF TypeInv, Well
<1> QED BY <1>1, <1>2, <1>3, <1>4, FileOverTypes DEF FilePcs

LEMMA CallFailsTypes ==
    ASSUME TypeInv, NEW self \in Procs, CallFails(self)
    PROVE  TypeInv' /\ Advances(self)
<1>1. /\ Well(self) /\ Placed(self) /\ FilesInv /\ UNCHANGED <<dir, node, scenario>>
      /\ proc[self].pc \in FilePcs /\ NextFile(self, TRUE)
  BY DEF TypeInv, CallFails, FilePcs
<1>2. FilesInv' /\ proc[self].left # <<>>
  BY <1>1, FilesKeep DEF Placed
<1>3. Advances(self)
  BY <1>1, NextFileFields DEF TypeInv, Well
<1> QED BY <1>1, <1>2, <1>3, FileOverTypes

LEMMA RestoreFields ==
    ASSUME TypeInv, NEW self \in Procs, Restore(self)
    PROVE  /\ DOMAIN proc' = Procs /\ \A q \in Procs \ {self} : proc'[q] = proc[q]
           /\ DOMAIN proc'[self] = ProcFields /\ proc'[self].pc \in {"mtime", "remove"}
           /\ \A x \in ProcFields \ {"pc"} : proc'[self][x] = proc[self][x]
           /\ Job(self)' = Job(self)
           /\ proc[self].pc \in {"mode", "mtime"} /\ UNCHANGED <<dir, scenario>>
<1>1. PICK q \in {"mtime", "remove"} : Become(self, [pc |-> q])
  BY DEF Restore
<1> DEFINE c == [pc |-> q]
<1>2. DOMAIN c = {"pc"} /\ c.pc = q
  OBVIOUS
<1> HIDE DEF c
<1>3. scenario' = scenario /\ proc[self].pc \in {"mode", "mtime"} /\ dir' = dir
  BY DEF Restore, At
<1> QED BY <1>1, <1>2, <1>3, OwnState DEF c, ProcFields

LEMMA RestoreFiles ==
    ASSUME TypeInv, NEW self \in Procs, Restore(self)
    PROVE  FilesInv' /\ \A i \in Inodes : node'[i].cells = node[i].cells
<1>1. /\ Well(self) /\ Placed(self) /\ FilesInv /\ UNCHANGED <<dir, scenario>>
      /\ proc[self].pc \in FilePcs /\ ~ToStdout(self)
  BY DEF TypeInv, Restore, At, Placed, FilePcs
<1>2. PICK i : i = dir[Target(self)]
  OBVIOUS
<1>3. i \in Inodes \cup {None}
  BY <1>1, <1>2, TargetIsName DEF FilesInv
<1>4. \/ node' = node
      \/ i \in Inodes /\ \E m : node' = [node EXCEPT ![i].mode = m]
      \/ i \in Inodes /\ \E m : node' = [node EXCEPT ![i].mtime = m]
  BY <1>2, <1>3 DEF Restore
<1>5. CASE node' = node
  BY <1>1, <1>5 DEF FilesInv, IsFile
<1>6. CASE i \in Inodes /\ \E m : node' = [node EXCEPT ![i].mode = m]
  BY <1>1, <1>6 DEF FilesInv, IsFile
<1>7. CASE i \in Inodes /\ \E m : node' = [node EXCEPT ![i].mtime = m]
  BY <1>1, <1>7 DEF FilesInv, IsFile
<1> QED BY <1>4, <1>5, <1>6, <1>7

LEMMA RestoreTypes ==
    ASSUME TypeInv, NEW self \in Procs, Restore(self)
    PROVE  TypeInv'
<1>1. /\ DOMAIN proc' = Procs /\ \A q \in Procs \ {self} : proc'[q] = proc[q]
      /\ DOMAIN proc'[self] = ProcFields /\ proc'[self].pc \in {"mtime", "remove"}
      /\ \A x \in ProcFields \ {"pc"} : proc'[self][x] = proc[self][x]
      /\ Job(self)' = Job(self)
      /\ proc[self].pc \in {"mode", "mtime"} /\ UNCHANGED <<dir, scenario>>
      /\ Well(self) /\ Placed(self)
  BY RestoreFields DEF TypeInv
<1>2. Well(self)'
  BY <1>1 DEF Well, ProcFields, FilePcs
<1>3. File(self)' = File(self) /\ (Compressing(self)' <=> Compressing(self))
      /\ (ToStdout(self)' <=> ToStdout(self))
  BY <1>1 DEF File, Compressing, ToStdout, ProcFields
<1>4. Placed(self)'
  BY <1>1, <1>3 DEF Placed, At, ProcFields, FilePcs, RawPcs
<1> QED BY <1>1, <1>2, <1>4, RestoreFiles, OthersKeep
-----------------------------------------------------------------------------
LEMMA RawReadTypes ==
    ASSUME TypeInv, NEW self \in Procs, RawRead(self)
    PROVE  TypeInv'
<1>1. /\ Well(self) /\ Placed(self) /\ FilesInv /\ UNCHANGED <<dir, node, scenario>>
      /\ Len(proc[self].results) < Len(proc[self].jobs) /\ proc[self].pc = "raw" /\ FilesInv'
  BY FilesKeep DEF TypeInv, RawRead, Placed, At
<1>2. DOMAIN proc' = Procs /\ \A q \in Procs \ {self} : proc'[q] = proc[q]
  BY DEF TypeInv, RawRead, Return, Become
<1>3. CASE Return(self, "err")
  BY <1>1, <1>2, <1>3, AfterReturn, OthersKeep
<1>4. ASSUME NEW cells,
             Become(self, [stdout |-> cells,
                           results |-> Append(proc[self].results, "ok")] ++ Idle)
      PROVE  TypeInv'
  <2> DEFINE c == [stdout |-> cells, results |-> Append(proc[self].results, "ok")]
  <2>1. DOMAIN c = {"results", "stdout"} /\ c.results = Append(proc[self].results, "ok")
    OBVIOUS
  <2>2. Become(self, c ++ Idle)
    BY <1>4
  <2> HIDE DEF c
  <2>3. Well(self)' /\ Placed(self)'
    BY <1>1, <2>1, <2>2, AfterCommand
  <2> QED BY <1>1, <1>2, <2>3, OthersKeep
<1>5. ASSUME NEW cells, Job(self).output # None, Become(self, [pc |-> "rawcreate", buf |-> cells])
      PROVE  TypeInv'
  <2> DEFINE c == [pc |-> "rawcreate", buf |-> cells]
  <2>1. DOMAIN c = {"pc", "buf"} /\ c.pc = "rawcreate"
    OBVIOUS
  <2> HIDE DEF c
  <2>2. /\ DOMAIN proc'[self] = ProcFields /\ proc'[self].pc = "rawcreate"
        /\ \A x \in ProcFields \ {"pc", "buf"} : proc'[self][x] = proc[self][x]
        /\ Job(self)' = Job(self)
    BY <1>1, <1>5, <2>1, OwnState DEF c, ProcFields
  <2>3. Well(self)'
    BY <1>1, <2>2 DEF Well, ProcFields, RawPcs
  <2>4. Placed(self)'
    BY <1>1, <1>5, <2>2 DEF Placed, At, ProcFields, FilePcs, RawPcs
  <2> QED BY <1>1, <1>2, <2>3, <2>4, OthersKeep
<1> QED BY <1>3, <1>4, <1>5 DEF RawRead

\* Where --raw writes to.
LEMMA OutputIsName ==
    ASSUME FilesInv, NEW p \in Procs, Well(p), Placed(p), proc[p].pc \in {"rawcreate", "rawwrite"}
    PROVE  Job(p).output \in Names /\ Job(p).raw /\ Len(proc[p].results) < Len(proc[p].jobs)
<1>1. Len(proc[p].results) < Len(proc[p].jobs) /\ Job(p).output # None /\ Job(p).raw
  BY DEF Placed, At, RawPcs
<1>2. Job(p) \in CommandLines
  BY <1>1, JobIsLine
<1>3. Job(p).output \in Names \cup {None}
  BY <1>2 DEF CommandLines
<1> QED BY <1>1, <1>3

LEMMA RawCreateTypes ==
    ASSUME TypeInv, NEW self \in Procs, RawCreate(self)
    PROVE  TypeInv'
<1>1. /\ Well(self) /\ Placed(self) /\ FilesInv /\ scenario' = scenario
      /\ Len(proc[self].results) < Len(proc[self].jobs) /\ proc[self].pc = "rawcreate"
      /\ Job(self).output \in Names
  BY OutputIsName DEF TypeInv, RawCreate, At
<1>2. DOMAIN proc' = Procs /\ \A q \in Procs \ {self} : proc'[q] = proc[q]
  BY DEF TypeInv, RawCreate, Return, Become
<1>3. CASE Return(self, "err") /\ UNCHANGED <<dir, node>>
  BY <1>1, <1>2, <1>3, AfterReturn, FilesKeep, OthersKeep
<1>4. ASSUME NEW i \in Inodes, Truncate(Job(self).output, i),
             Become(self, [pc |-> "rawwrite", tgt |-> i])
      PROVE  TypeInv'
  <2> DEFINE c == [pc |-> "rawwrite", tgt |-> i]
  <2>1. DOMAIN c = {"pc", "tgt"} /\ c.pc = "rawwrite" /\ c.tgt = i
    OBVIOUS
  <2> HIDE DEF c
  <2>2. /\ DOMAIN proc'[self] = ProcFields /\ proc'[self].pc = "rawwrite" /\ proc'[self].tgt = i
        /\ \A x \in ProcFields \ {"pc", "tgt"} : proc'[self][x] = proc[self][x]
        /\ Job(self)' = Job(self)
    BY <1>1, <1>4, <2>1, OwnState DEF c, ProcFields
  <2>3. Well(self)'
    BY <1>1, <2>2 DEF Well, ProcFields, RawPcs
  <2>4. i # None
    BY ToolAssumption
  <2>5. Placed(self)'
    BY <1>1, <2>2, <2>4 DEF Placed, At, ProcFields, FilePcs, RawPcs
  <2>6. FilesInv'
    BY <1>1, <1>4, TruncateFiles
  <2> QED BY <1>1, <1>2, <2>3, <2>5, <2>6, OthersKeep
<1> QED BY <1>3, <1>4 DEF RawCreate

LEMMA RawWriteTypes ==
    ASSUME TypeInv, NEW self \in Procs, RawWrite(self)
    PROVE  TypeInv'
<1>1. /\ Well(self) /\ Placed(self) /\ FilesInv /\ UNCHANGED <<dir, scenario>>
      /\ Len(proc[self].results) < Len(proc[self].jobs) /\ proc[self].pc = "rawwrite"
  BY OutputIsName DEF TypeInv, RawWrite, At
<1>2. DOMAIN proc' = Procs /\ \A q \in Procs \ {self} : proc'[q] = proc[q]
  BY DEF TypeInv, RawWrite, Return, Become
<1>3. PICK w : node' = [node EXCEPT ![proc[self].tgt].cells = w]
  BY DEF RawWrite
<1>4. FilesInv'
  BY <1>1, <1>3 DEF FilesInv, IsFile
<1> QED BY <1>1, <1>2, <1>4, AfterReturn, OthersKeep DEF RawWrite

LEMMA RawFailsTypes ==
    ASSUME TypeInv, NEW self \in Procs, RawFails(self)
    PROVE  TypeInv'
<1>1. /\ Well(self) /\ Placed(self) /\ FilesInv /\ UNCHANGED <<dir, node, scenario>>
      /\ Len(proc[self].results) < Len(proc[self].jobs) /\ FilesInv' /\ Return(self, "err")
  BY OutputIsName, FilesKeep DEF TypeInv, RawFails
<1>2. DOMAIN proc' = Procs /\ \A q \in Procs \ {self} : proc'[q] = proc[q]
  BY DEF TypeInv, RawFails, Return, Become
<1> QED BY <1>1, <1>2, AfterReturn, OthersKeep

LEMMA KilledFields ==
    ASSUME TypeInv, NEW self \in Procs, Killed(self)
    PROVE  /\ DOMAIN proc' = Procs /\ \A q \in Procs \ {self} : proc'[q] = proc[q]
           /\ DOMAIN proc'[self] = ProcFields /\ proc'[self].pc = "dead"
           /\ \A x \in ProcFields \ {"pc"} : proc'[self][x] = proc[self][x]
           /\ Job(self)' = Job(self)
<1> DEFINE c == [pc |-> "dead"]
<1>1. DOMAIN c = {"pc"} /\ c.pc = "dead"
  OBVIOUS
<1>2. Become(self, c) /\ scenario' = scenario
  BY DEF Killed
<1> HIDE DEF c
<1> QED BY <1>1, <1>2, OwnState DEF ProcFields

LEMMA KilledTypes ==
    ASSUME TypeInv, NEW self \in Procs, Killed(self)
    PROVE  TypeInv'
<1>1. /\ Well(self) /\ Placed(self) /\ FilesInv' /\ scenario' = scenario /\ proc[self].pc # "idle"
  BY FilesKeep DEF TypeInv, Killed, At
<1>2. /\ DOMAIN proc' = Procs /\ \A q \in Procs \ {self} : proc'[q] = proc[q]
      /\ DOMAIN proc'[self] = ProcFields /\ proc'[self].pc = "dead"
      /\ \A x \in ProcFields \ {"pc"} : proc'[self][x] = proc[self][x]
      /\ Job(self)' = Job(self)
  BY KilledFields
<1>3. Well(self)'
  BY <1>1, <1>2 DEF Well, ProcFields
<1>4. Placed(self)'
  BY <1>1, <1>2 DEF Placed, At, ProcFields, FilePcs, RawPcs
<1> QED BY <1>1, <1>2, <1>3, <1>4, OthersKeep

LEMMA InitFields ==
    ASSUME Init, NEW p \in Procs
    PROVE  /\ DOMAIN proc = Procs /\ DOMAIN proc[p] = ProcFields
           /\ proc[p].jobs = scenario.jobs[p] /\ proc[p].results = <<>>
           /\ proc[p].pc = "idle" /\ proc[p].left = <<>> /\ proc[p].in = None
           /\ proc[p].tgt = None /\ proc[p].seen = <<>> /\ proc[p].buf = <<>>
           /\ proc[p].used = 0 /\ proc[p].wpos = 0
<1> DEFINE c == [jobs |-> scenario.jobs[p], results |-> <<>>, stdout |-> <<>>]
<1>1. proc[p] = c ++ Idle /\ DOMAIN proc = Procs
  BY DEF Init
<1>2. DOMAIN c = {"jobs", "results", "stdout"} /\ c.jobs = scenario.jobs[p] /\ c.results = <<>>
  OBVIOUS
<1> HIDE DEF c
<1> QED BY <1>1, <1>2 DEF ++, Idle, ProcFields

LEMMA InitTypes ==
    ASSUME Init
    PROVE  TypeInv
<1>1. scenario \in Scenarios /\ DOMAIN initial \subseteq Names
  BY ToolAssumption DEF Init, initial
<1>2. FilesInv
  <2>1. DOMAIN dir = Names /\ \A n \in Names : dir[n] \in Inodes \cup {None}
    BY <1>1, ToolAssumption DEF Init
  <2>2. DOMAIN node = Inodes
        /\ \A i \in Inodes : node[i] = IF i \in DOMAIN initial THEN initial[i] ELSE NewFile
    BY DEF Init
  <2>3. \A n \in DOMAIN initial : IsFile(initial[n])
    BY <1>1, ToolAssumption DEF IsFile, initial
  <2>4. IsFile(NewFile)
    BY DEF IsFile, NewFile
  <2> QED BY <1>1, <2>1, <2>2, <2>3, <2>4 DEF FilesInv
<1>3. ASSUME NEW p \in Procs
      PROVE  Well(p) /\ Placed(p)
  <2>1. /\ DOMAIN proc = Procs /\ DOMAIN proc[p] = ProcFields
        /\ proc[p].jobs = scenario.jobs[p] /\ proc[p].results = <<>>
        /\ proc[p].pc = "idle" /\ proc[p].left = <<>> /\ proc[p].in = None
        /\ proc[p].tgt = None /\ proc[p].seen = <<>> /\ proc[p].buf = <<>>
        /\ proc[p].used = 0 /\ proc[p].wpos = 0
    BY InitFields
  <2>2. proc[p].jobs \in Seq(CommandLines)
    BY <1>1, <2>1, ToolAssumption
  <2>3. Well(p)
    BY <2>1, <2>2 DEF Well
  <2>4. Placed(p)
    BY <2>1 DEF Placed, At, FilePcs, RawPcs
  <2> QED BY <2>3, <2>4
<1>4. DOMAIN proc = Procs
  BY DEF Init
<1> QED BY <1>2, <1>3, <1>4 DEF TypeInv

LEMMA StepTypes ==
    ASSUME TypeInv, NEW self \in Procs, Step(self) \/ Killed(self)
    PROVE  TypeInv'
<1>1. CASE Run(self) \/ Filter(self) \/ Report(self) \/ EachFile(self) \/ Stat(self)
  BY <1>1, RunTypes, FilterTypes, ReportTypes, EachFileTypes, StatTypes
<1>2. CASE Open(self) \/ ReadHeader(self) \/ Check(self) \/ Create(self) \/ CopyBlock(self)
  BY <1>2, OpenTypes, ReadHeaderTypes, CheckTypes, CreateTypes, CopyBlockTypes
<1>3. CASE Spill(self)
  BY <1>3, SpillTypes DEF Spill, At
<1>4. CASE CopyEnd(self) \/ Flush(self) \/ CopyFails(self) \/ Restore(self) \/ Remove(self)
           \/ CallFails(self)
  BY <1>4, CopyEndTypes, FlushTypes, CopyFailsTypes, RestoreTypes, RemoveTypes, CallFailsTypes
<1>5. CASE RawRead(self) \/ RawCreate(self) \/ RawWrite(self) \/ RawFails(self) \/ Killed(self)
  BY <1>5, RawReadTypes, RawCreateTypes, RawWriteTypes, RawFailsTypes, KilledTypes
<1> QED BY <1>1, <1>2, <1>3, <1>4, <1>5 DEF Step

LEMMA TypesStay ==
    ASSUME TypeInv, [Next]_vars
    PROVE  TypeInv'
<1>1. CASE UNCHANGED vars
  BY <1>1 DEF vars, TypeInv, FilesInv, IsFile, Well, Placed, At, Job, File, Compressing, ToStdout
<1>2. CASE Next
  BY <1>2, StepTypes DEF Next
<1> QED BY <1>1, <1>2
-----------------------------------------------------------------------------
\* There is an inode to give to a new file.
LEMMA ImageBound ==
    ASSUME NEW S, IsFiniteSet(S), NEW f
    PROVE  /\ IsFiniteSet({ f[x] : x \in S })
           /\ Cardinality({ f[x] : x \in S }) <= Cardinality(S)
<1> DEFINE T == { f[x] : x \in S }
           g == [x \in S |-> f[x]]
<1>1. g \in Surjection(S, T)
  BY DEF Surjection
<1> HIDE DEF g, T
<1>2. IsFiniteSet(T) /\ Cardinality(T) <= Cardinality(S)
  BY <1>1, FS_Surjection
<1> QED BY <1>2 DEF T

LEMMA UnionBound ==
    ASSUME NEW S, NEW T, IsFiniteSet(S), IsFiniteSet(T)
    PROVE  /\ IsFiniteSet(S \cup T)
           /\ Cardinality(S \cup T) <= Cardinality(S) + Cardinality(T)
<1>1. /\ IsFiniteSet(S \cup T)
      /\ Cardinality(S \cup T) = Cardinality(S) + Cardinality(T) - Cardinality(S \cap T)
  BY FS_Union
<1>2. IsFiniteSet(S \cap T)
  BY FS_Subset
<1>3. /\ Cardinality(S) \in Nat /\ Cardinality(T) \in Nat /\ Cardinality(S \cap T) \in Nat
  BY <1>2, FS_CardinalityType
<1> QED BY <1>1, <1>3

LEMMA FreeExists ==
    ASSUME NEW p \in Procs, proc[p].tgt = None
    PROVE  (CHOOSE x \in Free : TRUE) \in Free
<1> DEFINE D == { dir[n] : n \in Names }
           I == { proc[q].in : q \in Procs }
           T == { proc[q].tgt : q \in Procs }
           f == [q \in Procs |-> proc[q].in]
           g == [q \in Procs |-> proc[q].tgt]
           U == D \cup I \cup T
<1>1. IsFiniteSet(D) /\ Cardinality(D) <= Cardinality(Names)
  BY InodesAssumption, ImageBound
<1>2. IsFiniteSet(I) /\ Cardinality(I) <= Cardinality(Procs)
  <2>1. I = { f[q] : q \in Procs }
    OBVIOUS
  <2> HIDE DEF I, f
  <2> QED BY <2>1, InodesAssumption, ImageBound
<1>3. IsFiniteSet(T) /\ Cardinality(T) <= Cardinality(Procs)
  <2>1. T = { g[q] : q \in Procs }
    OBVIOUS
  <2> HIDE DEF T, g
  <2> QED BY <2>1, InodesAssumption, ImageBound
<1>4. None \in T
  OBVIOUS
<1>5. Free = Inodes \ U
  BY DEF Free
<1> HIDE DEF D, I, T, U
<1>6. IsFiniteSet(U) /\ Cardinality(U) <= Cardinality(Names) + 2 * Cardinality(Procs)
  <2>1. IsFiniteSet(D \cup I) /\ Cardinality(D \cup I) <= Cardinality(D) + Cardinality(I)
    BY <1>1, <1>2, UnionBound
  <2>2. IsFiniteSet(U) /\ Cardinality(U) <= Cardinality(D \cup I) + Cardinality(T)
    BY <1>3, <2>1, UnionBound DEF U
  <2>3. /\ Cardinality(D) \in Nat /\ Cardinality(I) \in Nat /\ Cardinality(T) \in Nat
        /\ Cardinality(D \cup I) \in Nat /\ Cardinality(U) \in Nat
        /\ Cardinality(Names) \in Nat /\ Cardinality(Procs) \in Nat
    BY <1>1, <1>2, <1>3, <2>1, <2>2, InodesAssumption, FS_CardinalityType
  <2> QED BY <1>1, <1>2, <1>3, <2>1, <2>2, <2>3
<1>7. None \in U /\ None \notin Inodes
  BY <1>4, ToolAssumption DEF U
<1>8. Free # {}
  <2> SUFFICES ASSUME Inodes \subseteq U
               PROVE  FALSE
    BY <1>5
  <2>1. IsFiniteSet(U \ {None}) /\ Cardinality(U \ {None}) = Cardinality(U) - 1
    BY <1>6, <1>7, FS_RemoveElement
  <2>2. Inodes \in SUBSET (U \ {None})
    BY <1>7
  <2>3. Cardinality(Inodes) <= Cardinality(U \ {None})
    BY <2>1, <2>2, FS_Subset
  <2>4. /\ Cardinality(Inodes) \in Nat /\ Cardinality(U) \in Nat
        /\ Cardinality(Names) \in Nat /\ Cardinality(Procs) \in Nat
    BY <1>6, InodesAssumption, FS_CardinalityType
  <2> QED BY <1>6, <2>1, <2>3, <2>4, InodesAssumption
<1> QED BY <1>8

\* A name's file changes by opening it only if it was there before.
LEMMA TruncateFacts ==
    ASSUME FilesInv, NEW self \in Procs, proc[self].tgt = None, NEW name \in Names, NEW i \in Inodes,
           Truncate(name, i), scenario' = scenario
    PROVE  /\ dir'[name] = i /\ \A n \in Names \ {name} : dir'[n] = dir[n]
           /\ \A j \in Inodes \ {i} : node'[j] = node[j]
           /\ node'[i].cells = <<>>
           /\ Exists(name) => i = dir[name]
           /\ ~Exists(name) => /\ \A n \in Names : dir[n] # i
                               /\ \A p \in Procs : proc[p].in # i /\ proc[p].tgt # i
<1>1. dir'[name] = i /\ \A n \in Names \ {name} : dir'[n] = dir[n]
  BY DEF Truncate, FilesInv
<1>2. /\ \A j \in Inodes \ {i} : node'[j] = node[j]
      /\ node'[i].cells = <<>>
  BY DEF Truncate, FilesInv, IsFile, NewFile
<1>3. ~Exists(name) => i \in Free
  BY FreeExists DEF Truncate
<1>4. Exists(name) => i = dir[name]
  BY DEF Truncate
<1> QED BY <1>1, <1>2, <1>3, <1>4 DEF Free
-----------------------------------------------------------------------------
\* Only a process that has something to do takes steps.
LEMMA ActorHasJobs ==
    ASSUME TypeInv, NEW self \in Procs, Step(self) \/ Killed(self)
    PROVE  Len(proc[self].results) < Len(proc[self].jobs) /\ proc[self].jobs # <<>>
<1>1. ~At(self, "idle") \/ Len(proc[self].results) < Len(proc[self].jobs)
  BY DEF Step, Killed, Run, Filter, Report, EachFile, Stat, Open, ReadHeader, Check, Create,
         CopyBlock, CopyEnd, Spill, Flush, CopyFails, Bad, Restore, Remove, CallFails,
         RawRead, RawCreate, RawWrite, RawFails, At
<1>2. Len(proc[self].results) < Len(proc[self].jobs) /\ Len(proc[self].results) \in Nat
  BY <1>1 DEF TypeInv, Placed, Well
<1>3. Len(<<>>) = 0
  OBVIOUS
<1> QED BY <1>2, <1>3

LEMMA JobsStay ==
    ASSUME TypeInv, [Next]_vars
    PROVE  /\ scenario' = scenario /\ \A p \in Procs : proc'[p].jobs = proc[p].jobs
           /\ (Alone' <=> Alone) /\ Commands' = Commands
<1>1. TypeInv'
  BY TypesStay
<1>2. scenario' = scenario
  BY DEF Next, vars, Step, Killed, Run, Filter, Report, EachFile, Stat, Open, ReadHeader, Check,
         Create, CopyBlock, CopyEnd, Spill, Flush, CopyFails, Restore, Remove, CallFails,
         RawRead, RawCreate, RawWrite, RawFails
<1>3. \A p \in Procs : proc'[p].jobs = proc[p].jobs
  BY <1>1, <1>2 DEF TypeInv, Well
<1> QED BY <1>2, <1>3 DEF Alone, Commands

\* A process comes to create() through the check of it only.
LEMMA OnlyAfterCheck ==
    ASSUME TypeInv, NEW self \in Procs, Step(self) \/ Killed(self), At(self, "create")'
    PROVE  Check(self) /\ ~Refused(self) /\ Become(self, [pc |-> "create"])
<1>1. DOMAIN proc = Procs /\ DOMAIN proc[self] = ProcFields
  BY DEF TypeInv, Well
<1>2. ~Run(self)
  BY <1>1 DEF Run, Return, Become, ++, Idle, At, ProcFields
<1>3. ~Filter(self) /\ ~Report(self)
  BY <1>1 DEF Filter, Report, Return, Become, ++, Idle, At, ProcFields
<1>4. \A failed : ~NextFile(self, failed)
  BY <1>1, NextFileFields DEF Advances, At
<1>5. ~EachFile(self) /\ ~Stat(self)
  BY <1>1, <1>4 DEF EachFile, Stat, Return, Become, ++, Idle, At, ProcFields
<1>6. ~Open(self) /\ ~ReadHeader(self)
  BY <1>1, <1>4 DEF Open, ReadHeader, Become, ++, At, ProcFields
<1>7. ~Create(self) /\ ~CopyBlock(self) /\ ~CopyEnd(self)
  BY <1>1, <1>4 DEF Create, CopyBlock, CopyEnd, Become, ++, At, ProcFields
<1>8. ~Spill(self)
  BY SpilledFields DEF Spill, At
<1>9. ~Flush(self)
  BY SpilledFields, FlushedFields DEF Flush, Flushed, Advances, At
<1>10. ~CopyFails(self) /\ ~Remove(self) /\ ~CallFails(self) /\ ~Restore(self)
  BY <1>4, RestoreFields DEF CopyFails, Remove, CallFails, At
<1>11. ~RawRead(self)
  BY <1>1 DEF RawRead, Return, Become, ++, Idle, At, ProcFields
<1>12. ~RawCreate(self) /\ ~RawWrite(self) /\ ~RawFails(self)
  BY <1>1 DEF RawCreate, RawWrite, RawFails, Return, Become, ++, Idle, At, ProcFields
<1>13. ~Killed(self)
  BY KilledFields DEF At
<1>14. Check(self)
  BY <1>2, <1>3, <1>5, <1>6, <1>7, <1>8, <1>9, <1>10, <1>11, <1>12, <1>13 DEF Step
<1> QED BY <1>4, <1>14 DEF Check

\* How the directory changes.
LEMMA DirChanges ==
    ASSUME TypeInv, NEW self \in Procs, Step(self) \/ Killed(self)
    PROVE  \/ dir' = dir
           \/ \E name : dir' = [dir EXCEPT ![name] = None]
           \/ At(self, "create") /\ \E i \in Inodes :
                 Truncate(Target(self), i) /\ Become(self, [pc |-> "copy", tgt |-> i])
           \/ At(self, "rawcreate") /\ \E i \in Inodes :
                 Truncate(Job(self).output, i) /\ Become(self, [pc |-> "rawwrite", tgt |-> i])
<1>1. CASE Create(self)
  BY <1>1 DEF Create
<1>2. CASE RawCreate(self)
  BY <1>2 DEF RawCreate
<1>3. CASE CopyFails(self)
  BY <1>3 DEF CopyFails
<1>4. CASE Remove(self)
  BY <1>4 DEF Remove
<1> QED BY <1>1, <1>2, <1>3, <1>4
        DEF Step, Killed, Run, Filter, Report, EachFile, Stat, Open, ReadHeader, Check,
            CopyBlock, CopyEnd, Spill, Flush, Restore, CallFails, RawRead, RawWrite, RawFails

\* How the contents of files change.
LEMMA CellsChange ==
    ASSUME TypeInv, NEW self \in Procs, Step(self) \/ Killed(self),
           NEW j \in Inodes, node'[j].cells # node[j].cells
    PROVE  \/ At(self, "create") /\ \E i \in Inodes :
                 Truncate(Target(self), i) /\ Become(self, [pc |-> "copy", tgt |-> i])
           \/ At(self, "rawcreate") /\ \E i \in Inodes :
                 Truncate(Job(self).output, i) /\ Become(self, [pc |-> "rawwrite", tgt |-> i])
           \/ proc[self].tgt = j
<1>1. CASE Create(self)
  BY <1>1 DEF Create
<1>2. CASE RawCreate(self)
  BY <1>2 DEF RawCreate
<1>3. CASE Spill(self) \/ Flush(self)
  BY <1>3, SpilledFiles DEF Spill, Flush
<1>4. CASE RawWrite(self)
  BY <1>4 DEF RawWrite, TypeInv, FilesInv
<1>5. CASE Restore(self)
  BY <1>5, RestoreFiles
<1> QED BY <1>1, <1>2, <1>3, <1>4, <1>5
        DEF Step, Killed, Run, Filter, Report, EachFile, Stat, Open, ReadHeader, Check,
            CopyBlock, CopyEnd, CopyFails, Remove, CallFails, RawRead, RawFails

\* No two names for one file; and a process that works alone and is about to
\* create a file without -f has nothing in its way.
Distinct == \A m, n \in Names : Exists(m) /\ dir[m] = dir[n] => m = n
Fresh == Alone => \A p \in Procs : At(p, "create") /\ ~Job(p).force => ~Exists(Target(p))

ToolInv == TypeInv /\ Distinct /\ Fresh

LEMMA InitIsFine ==
    ASSUME Init
    PROVE  ToolInv
<1>1. TypeInv
  BY InitTypes
<1>2. Distinct
  BY <1>1, ToolAssumption DEF Init, Distinct, Exists, TypeInv, FilesInv
<1>3. Fresh
  BY <1>1, InitFields DEF Fresh, At
<1> QED BY <1>1, <1>2, <1>3 DEF ToolInv

LEMMA CreateFacts ==
    ASSUME TypeInv, NEW self \in Procs, NEW i \in Inodes, scenario' = scenario,
           NEW name, \/ At(self, "create") /\ name = Target(self)
                     \/ At(self, "rawcreate") /\ name = Job(self).output,
           Truncate(name, i)
    PROVE  /\ name \in Names /\ proc[self].tgt = None
           /\ dir'[name] = i /\ \A n \in Names \ {name} : dir'[n] = dir[n]
           /\ \A j \in Inodes \ {i} : node'[j] = node[j]
           /\ node'[i].cells = <<>>
           /\ Exists(name) => i = dir[name]
           /\ ~Exists(name) => /\ \A n \in Names : dir[n] # i
                               /\ \A p \in Procs : proc[p].in # i /\ proc[p].tgt # i
<1>1. Well(self) /\ Placed(self) /\ FilesInv
  BY DEF TypeInv
<1>2. name \in Names
  BY <1>1, TargetIsName, OutputIsName DEF At, FilePcs, Placed
<1>3. proc[self].tgt = None
  BY <1>1 DEF Placed, At
<1> QED BY <1>1, <1>2, <1>3, TruncateFacts

LEMMA DistinctStays ==
    ASSUME TypeInv, Distinct, [Next]_vars
    PROVE  Distinct'
<1>1. CASE dir' = dir
  BY <1>1 DEF Distinct, Exists
<1>2. CASE \E name : dir' = [dir EXCEPT ![name] = None]
  BY <1>2 DEF Distinct, Exists, TypeInv, FilesInv
<1>3. ASSUME NEW self \in Procs, NEW i \in Inodes, NEW name, Truncate(name, i),
             \/ At(self, "create") /\ name = Target(self)
             \/ At(self, "rawcreate") /\ name = Job(self).output
      PROVE  Distinct'
  <2>1. /\ name \in Names
        /\ dir'[name] = i /\ \A n \in Names \ {name} : dir'[n] = dir[n]
        /\ Exists(name) => i = dir[name]
        /\ ~Exists(name) => \A n \in Names : dir[n] # i
    BY <1>3, CreateFacts, JobsStay
  <2> QED BY <2>1 DEF Distinct, Exists
<1> QED BY <1>1, <1>2, <1>3, DirChanges DEF Next, vars

LEMMA FreshStays ==
    ASSUME TypeInv, Fresh, [Next]_vars
    PROVE  Fresh'
<1> SUFFICES ASSUME Alone', NEW p \in Procs, At(p, "create")', ~Job(p)'.force
             PROVE  ~Exists(Target(p))'
  BY DEF Fresh
<1>1. Alone /\ TypeInv'
  BY JobsStay, TypesStay
<1>2. proc[p].jobs # <<>>
  <2>1. Len(proc'[p].results) < Len(proc'[p].jobs) /\ proc'[p].results \in Seq({"ok", "err"})
    BY <1>1 DEF TypeInv, Well, Placed, At
  <2>2. Len(<<>>) = 0 /\ proc'[p].jobs = proc[p].jobs
    BY JobsStay
  <2> QED BY <2>1, <2>2
<1>3. CASE UNCHANGED vars
  BY <1>1, <1>3 DEF vars, Fresh, At, Job, Exists, Target, File
<1>4. ASSUME NEW self \in Procs, Step(self) \/ Killed(self)
      PROVE  ~Exists(Target(p))'
  <2>1. self = p
    BY <1>1, <1>2, <1>4, ActorHasJobs DEF Alone
  <2>2. Check(p) /\ ~Refused(p) /\ Become(p, [pc |-> "create"])
    BY <1>4, <2>1, OnlyAfterCheck
  <2> DEFINE c == [pc |-> "create"]
  <2>3. DOMAIN c = {"pc"} /\ c.pc = "create"
    OBVIOUS
  <2>4. Become(p, c) /\ dir' = dir /\ scenario' = scenario
    BY <2>2 DEF Check
  <2> HIDE DEF c
  <2>5. proc'[p].left = proc[p].left /\ Job(p)' = Job(p)
    BY <2>3, <2>4, OwnState DEF ProcFields
  <2>6. Target(p)' = Target(p) /\ ~Exists(Target(p))
    BY <2>2, <2>5 DEF Target, File, Refused
  <2> QED BY <2>4, <2>6 DEF Exists
<1> QED BY <1>3, <1>4 DEF Next

LEMMA FineStays ==
    ASSUME ToolInv, [Next]_vars
    PROVE  ToolInv'
BY TypesStay, DistinctStays, FreshStays DEF ToolInv

\* A step respects the files of others.
LEMMA StepRespects ==
    ASSUME ToolInv, [Next]_vars, Alone
    PROVE  Respected
<1> SUFFICES ASSUME NEW n \in Names, Exists(n), dir'[n] = dir[n], Cells(n)' # Cells(n)
             PROVE  \E p \in Procs : \/ proc[p].tgt = dir[n]
                                     \/ ~At(p, "idle") /\ (Job(p).force \/ Job(p).raw)
  BY DEF Respected
<1>1. TypeInv /\ scenario' = scenario
  BY JobsStay DEF ToolInv
<1>2. PICK j \in Inodes : j = dir[n]
  BY <1>1 DEF TypeInv, FilesInv, Exists
<1>3. node'[j].cells # node[j].cells
  BY <1>2 DEF Cells
<1>4. PICK self \in Procs : Step(self) \/ Killed(self)
  BY <1>3 DEF Next, vars
<1>5. ASSUME NEW i \in Inodes, Truncate(Target(self), i), At(self, "create")
      PROVE  Job(self).force
  <2>1. j = i /\ (~Exists(Target(self)) => \A m \in Names : dir[m] # i)
    BY <1>1, <1>3, <1>5, CreateFacts
  <2>2. Exists(Target(self))
    BY <1>2, <2>1
  <2> QED BY <1>5, <2>2 DEF ToolInv, Fresh
<1>6. ASSUME At(self, "rawcreate")
      PROVE  Job(self).raw
  BY <1>1, <1>6 DEF TypeInv, Placed, At, RawPcs
<1> QED BY <1>1, <1>2, <1>3, <1>4, <1>5, <1>6, CellsChange DEF At

\* A process on its own replaces no file without -f or --raw.
THEOREM NothingIsOverwrittenAlone == Spec => NotOverwrittenAlone
<1>1. Init => ToolInv
  BY InitIsFine
<1>2. ToolInv /\ [Next]_vars => ToolInv'
  BY FineStays
<1>3. ToolInv /\ [Next]_vars => [Alone => Respected]_vars
  BY StepRespects
<1> QED BY <1>1, <1>2, <1>3, PTL DEF Spec, NotOverwrittenAlone
-----------------------------------------------------------------------------
\* What a process writes to changes when it creates a file, and when the file
\* is over.
LEMMA TargetChanges ==
    ASSUME TypeInv, NEW self \in Procs, Step(self) \/ Killed(self)
    PROVE  \/ proc'[self].tgt = None
           \/ /\ At(self, "create") \/ At(self, "rawcreate")
              /\ proc'[self].left = proc[self].left /\ Job(self)' = Job(self)
           \/ /\ proc[self].pc \in {"copy", "flush", "mode", "mtime", "remove", "rawwrite", "dead"}
              /\ proc'[self].pc \in FilePcs => proc[self].pc \in FilePcs
              /\ proc'[self].tgt = proc[self].tgt
              /\ proc'[self].left = proc[self].left /\ Job(self)' = Job(self)
<1>1. /\ DOMAIN proc = Procs /\ DOMAIN proc[self] = ProcFields
      /\ Well(self) /\ Placed(self)
  BY DEF TypeInv, Well
<1>2. \A failed : NextFile(self, failed) => proc'[self].tgt = None
  BY <1>1, NextFileFields DEF Advances
<1>3. ASSUME NEW c, Become(self, c), "tgt" \in DOMAIN c => c.tgt = None, proc[self].tgt = None
      PROVE  proc'[self].tgt = None
  BY <1>1, <1>3 DEF Become, ++, ProcFields
<1>4. \A result : Return(self, result) => proc'[self].tgt = None
  BY <1>1 DEF Return, Become, ++, Idle, ProcFields
<1>5. CASE Run(self) \/ Filter(self) \/ Report(self) \/ EachFile(self) \/ Stat(self)
           \/ Open(self) \/ ReadHeader(self) \/ Check(self) \/ RawRead(self)
  <2>1. proc[self].tgt = None
    BY <1>1, <1>5 DEF Placed, At, Run, Filter, Report, EachFile, Stat, Open, ReadHeader, Check, RawRead
  <2>2. CASE Run(self)
    BY <1>3, <1>4, <2>1, <2>2 DEF Run
  <2>3. CASE Filter(self)
    <3>1. ASSUME NEW c, DOMAIN c = {"stdout", "results"}, Become(self, c ++ Idle)
          PROVE  proc'[self].tgt = None
      BY <1>1, <3>1 DEF Become, ++, Idle, ProcFields
    <3> QED BY <1>4, <2>3, <3>1 DEF Filter
  <2>4. CASE Report(self)
    BY <1>3, <1>4, <2>1, <2>4 DEF Report
  <2>5. CASE EachFile(self)
    BY <1>2, <1>3, <1>4, <2>1, <2>5 DEF EachFile
  <2>6. CASE Stat(self)
    BY <1>2, <1>3, <2>1, <2>6 DEF Stat
  <2>7. CASE Open(self)
    BY <1>2, <1>3, <2>1, <2>7 DEF Open
  <2>8. CASE ReadHeader(self)
    BY <1>2, <1>3, <2>1, <2>8 DEF ReadHeader
  <2>9. CASE Check(self)
    BY <1>2, <1>3, <2>1, <2>9 DEF Check
  <2>10. CASE RawRead(self)
    <3>1. ASSUME NEW c, DOMAIN c = {"stdout", "results"}, Become(self, c ++ Idle)
          PROVE  proc'[self].tgt = None
      BY <1>1, <3>1 DEF Become, ++, Idle, ProcFields
    <3> QED BY <1>3, <1>4, <2>1, <2>10, <3>1 DEF RawRead
  <2> QED BY <1>5, <2>2, <2>3, <2>4, <2>5, <2>6, <2>7, <2>8, <2>9, <2>10
<1>6. ASSUME NEW q, NEW i, Become(self, [pc |-> q, tgt |-> i])
      PROVE  proc'[self].left = proc[self].left /\ Job(self)' = Job(self)
  <2>1. /\ proc'[self].left = proc[self].left /\ proc'[self].jobs = proc[self].jobs
        /\ proc'[self].results = proc[self].results
    BY <1>1, <1>6 DEF Become, ++, ProcFields
  <2> QED BY <2>1 DEF Job
<1>7. CASE Create(self) \/ RawCreate(self)
  BY <1>2, <1>4, <1>6, <1>7 DEF Create, RawCreate
<1>8. CASE CopyBlock(self) \/ CopyEnd(self)
  BY <1>1, <1>8 DEF CopyBlock, CopyEnd, Become, ++, ProcFields, Job, At, FilePcs
<1>9. CASE Spill(self)
  BY <1>9, SpilledFields DEF Spill, At, ProcFields, FilePcs
<1>10. CASE Flush(self)
  BY <1>10, SpilledFields, FlushedFields DEF Flush, Flushed, Advances, At, ProcFields, FilePcs
<1>11. CASE CopyFails(self) \/ Remove(self) \/ CallFails(self)
  BY <1>2, <1>11 DEF CopyFails, Remove, CallFails
<1>12. CASE Restore(self)
  BY <1>12, RestoreFields DEF ProcFields, FilePcs
<1>13. CASE RawWrite(self) \/ RawFails(self)
  BY <1>1, <1>13 DEF RawWrite, RawFails, Return, Become, ++, Idle, ProcFields
<1>14. CASE Killed(self)
  <2>1. proc'[self].pc = "dead" /\ Job(self)' = Job(self)
        /\ proc'[self].tgt = proc[self].tgt /\ proc'[self].left = proc[self].left
    BY <1>14, KilledFields DEF ProcFields
  <2>2. proc[self].tgt = None \/ proc[self].pc \in {"copy", "flush", "mode", "mtime", "remove", "rawwrite", "dead"}
    BY <1>1 DEF Placed
  <2> QED BY <2>1, <2>2 DEF FilePcs
<1> QED BY <1>5, <1>7, <1>8, <1>9, <1>10, <1>11, <1>12, <1>13, <1>14 DEF Step

\* The file a process keeps is where it was, as it was, and is not what the
\* process writes to.
Untouched(p, f) ==
    /\ dir[f] = f /\ node[f].cells = initial[f].cells
    /\ proc[p].tgt # f
    /\ proc[p].pc \in FilePcs /\ proc[p].tgt # None => Target(p) # f

Keeper(p) == Len(proc[p].jobs) = 1 /\ (proc[p].jobs[1].keep \/ proc[p].jobs[1].stdout)

KeptInv ==
    Alone => \A p \in Procs : Keeper(p) => \A k \in 1 .. Len(proc[p].jobs[1].files) :
        LET f == proc[p].jobs[1].files[k]
        IN  f \in DOMAIN initial /\ ~Given(f) => Untouched(p, f)

\* What an unforced process writes to was not there; a forced one was given it.
LEMMA WritesGiven ==
    ASSUME ToolInv, Alone, NEW self \in Procs, NEW name,
           \/ At(self, "create") /\ name = Target(self)
           \/ At(self, "rawcreate") /\ name = Job(self).output
    PROVE  /\ name \in Names /\ Job(self) \in Commands
           /\ Exists(name) => Given(name)
<1>1. Well(self) /\ Placed(self) /\ FilesInv /\ Len(proc[self].results) < Len(proc[self].jobs)
  BY DEF ToolInv, TypeInv, Placed, At
<1>2. Job(self) \in Commands
  BY <1>1, JobIsLine DEF Commands, Job
<1>3. name \in Names /\ name \in Targets(Job(self))
  <2>1. CASE At(self, "create") /\ name = Target(self)
    BY <1>1, <2>1, TargetIsName DEF At, FilePcs, Placed
  <2>2. CASE At(self, "rawcreate") /\ name = Job(self).output
    BY <1>1, <2>2, OutputIsName DEF At, Targets, Placed
  <2> QED BY <2>1, <2>2
<1>4. Exists(name) => Job(self).force \/ Job(self).raw
  BY <1>1, OutputIsName DEF ToolInv, Fresh, At
<1> QED BY <1>2, <1>3, <1>4 DEF Given

LEMMA UntouchedStays ==
    ASSUME ToolInv, Alone, NEW p \in Procs, Keeper(p), Step(p) \/ Killed(p),
           NEW f \in DOMAIN initial, ~Given(f), Untouched(p, f)
    PROVE  Untouched(p, f)'
<1>1. /\ TypeInv /\ Well(p) /\ Placed(p) /\ FilesInv /\ scenario' = scenario /\ [Next]_vars
      /\ f \in Names /\ f \in Inodes /\ Exists(f)
  <2>1. [Next]_vars /\ TypeInv
    BY DEF Next, ToolInv
  <2>2. f \in Names /\ f # None /\ f \in Inodes
    BY <2>1, ToolAssumption DEF TypeInv, FilesInv, initial
  <2> QED BY <2>1, <2>2, JobsStay DEF TypeInv, Untouched, Exists
<1>2. ASSUME NEW i \in Inodes, NEW name, Truncate(name, i),
             \/ At(p, "create") /\ name = Target(p)
             \/ At(p, "rawcreate") /\ name = Job(p).output
      PROVE  name # f /\ i # f /\ dir'[f] = f /\ node'[f] = node[f]
  <2>1. name # f /\ name \in Names
    BY <1>1, <1>2, WritesGiven
  <2>2. /\ dir'[f] = dir[f]
        /\ \A j \in Inodes \ {i} : node'[j] = node[j]
        /\ Exists(name) => i = dir[name]
        /\ ~Exists(name) => dir[f] # i
    BY <1>1, <1>2, <2>1, CreateFacts
  <2>3. i # dir[f]
    BY <1>1, <2>1, <2>2 DEF ToolInv, Distinct
  <2> QED BY <1>1, <2>1, <2>2, <2>3 DEF Untouched
<1>3. dir'[f] = f
  <2>1. ASSUME CopyFails(p)
        PROVE  dir'[f] = f
    BY <1>1, <2>1, CopyFailsTypes DEF CopyFails, Untouched, FilePcs, TypeInv, FilesInv
  <2>2. ASSUME Remove(p)
        PROVE  dir'[f] = f
    <3>1. Keeps(p)
      <4>1. ~ToStdout(p) /\ Len(proc[p].results) < Len(proc[p].jobs) /\ At(p, "remove")
        BY <1>1, <2>2 DEF Remove, At, Placed
      <4>2. Job(p) = proc[p].jobs[1]
        <5>1. Len(proc[p].results) = 0
          BY <1>1, <4>1 DEF Keeper, Well
        <5> QED BY <5>1 DEF Job
      <4> QED BY <4>1, <4>2 DEF Keeper, Keeps, ToStdout
    <3> QED BY <2>2, <3>1 DEF Remove, Untouched
  <2>3. CASE Create(p)
    BY <1>2, <2>3 DEF Create, Untouched
  <2>4. CASE RawCreate(p)
    BY <1>2, <2>4 DEF RawCreate, Untouched
  <2> QED BY <2>1, <2>2, <2>3, <2>4
          DEF Untouched, Step, Killed, Run, Filter, Report, EachFile, Stat, Open, ReadHeader, Check,
              CopyBlock, CopyEnd, Spill, Flush, Restore, CallFails, RawRead, RawWrite, RawFails
<1>4. node'[f].cells = initial[f].cells
  BY <1>1, <1>2, CellsChange DEF Untouched
<1>5. proc'[p].tgt # f /\ (proc'[p].pc \in FilePcs /\ proc'[p].tgt # None => Target(p)' # f)
  <2>1. CASE proc'[p].tgt = None
    BY <1>1, <2>1, ToolAssumption
  <2>2. CASE /\ proc[p].pc \in {"copy", "flush", "mode", "mtime", "remove", "rawwrite", "dead"}
             /\ proc'[p].pc \in FilePcs => proc[p].pc \in FilePcs
             /\ proc'[p].tgt = proc[p].tgt
             /\ proc'[p].left = proc[p].left /\ Job(p)' = Job(p)
    BY <2>2 DEF Untouched, Target, File
  <2>3. CASE /\ At(p, "create") \/ At(p, "rawcreate")
             /\ proc'[p].left = proc[p].left /\ Job(p)' = Job(p)
             /\ proc'[p].tgt # None
    <3>1. DOMAIN proc = Procs /\ DOMAIN proc[p] = ProcFields
      BY <1>1 DEF TypeInv, Well
    <3>2. proc[p].tgt = None
      BY <1>1, <2>3 DEF Placed, At
    <3>3. ~NextFile(p, TRUE)
      BY <2>3, <3>1, NextFileFields DEF Advances
    <3>4. Create(p) \/ RawCreate(p) \/ Killed(p)
      <4>1. ~CallFails(p) /\ ~RawFails(p)
        <5>1. \A result : Return(p, result) => proc'[p].tgt = None
          BY <3>1 DEF Return, Become, ++, Idle, ProcFields
        <5>2. ~RawFails(p)
          BY <2>3, <5>1 DEF RawFails
        <5> QED BY <3>3, <5>2 DEF CallFails
      <4>2. ~CopyFails(p)
        BY <1>1, <2>3, CopyFailsTypes DEF At
      <4> QED BY <2>3, <4>1, <4>2 DEF Step, At, Run, Filter, Report, EachFile, Stat, Open, ReadHeader,
                  Check, CopyBlock, CopyEnd, Spill, Flush, Restore, Remove, RawRead, RawWrite
    <3>5. CASE Killed(p)
      BY <2>3, <3>2, <3>5, <1>1, KilledFields DEF ProcFields
    <3>6. CASE Create(p)
      <4>1. PICK i \in Inodes : Truncate(Target(p), i) /\ Become(p, [pc |-> "copy", tgt |-> i])
        BY <3>3, <3>6 DEF Create
      <4>2. proc'[p].tgt = i
        BY <3>1, <4>1 DEF Become, ++, ProcFields
      <4>3. i # f /\ Target(p) # f
        BY <1>2, <3>6, <4>1 DEF Create
      <4>4. Target(p)' = Target(p)
        BY <2>3 DEF Target, File
      <4> QED BY <4>2, <4>3, <4>4
    <3>7. CASE RawCreate(p)
      <4>1. PICK i \in Inodes : Truncate(Job(p).output, i) /\ Become(p, [pc |-> "rawwrite", tgt |-> i])
        BY <2>3, <3>1, <3>7 DEF RawCreate, Return, Become, ++, Idle, ProcFields
      <4>2. proc'[p].tgt = i /\ proc'[p].pc = "rawwrite"
        BY <3>1, <4>1 DEF Become, ++, ProcFields
      <4>3. i # f
        BY <1>2, <3>7, <4>1 DEF RawCreate
      <4> QED BY <4>2, <4>3 DEF FilePcs
    <3> QED BY <3>4, <3>5, <3>6, <3>7
  <2> QED BY <1>1, <2>1, <2>2, <2>3, TargetChanges
<1> QED BY <1>1, <1>3, <1>4, <1>5 DEF Untouched, initial

LEMMA InitKeeps ==
    ASSUME Init
    PROVE  KeptInv
<1> SUFFICES ASSUME NEW p \in Procs, NEW f \in DOMAIN initial
             PROVE  Untouched(p, f)
  BY DEF KeptInv
<1>1. TypeInv /\ proc[p].pc = "idle" /\ proc[p].tgt = None
  BY InitTypes, InitFields
<1>2. f \in Names /\ f \in Inodes /\ f # None
  BY <1>1, ToolAssumption DEF TypeInv, FilesInv, initial
<1>3. dir[f] = f /\ node[f] = initial[f]
  BY <1>2 DEF Init
<1> QED BY <1>1, <1>2, <1>3 DEF Untouched, FilePcs

LEMMA KeptStays ==
    ASSUME ToolInv, KeptInv, [Next]_vars
    PROVE  KeptInv'
<1>1. /\ TypeInv /\ scenario' = scenario /\ \A p \in Procs : proc'[p].jobs = proc[p].jobs
      /\ (Alone' <=> Alone) /\ Commands' = Commands
  BY JobsStay DEF ToolInv
<1>2. ASSUME NEW n
      PROVE  Given(n)' <=> Given(n)
  <2>1. Commands' = Commands
    BY <1>1
  <2>2. Given(n)' <=> \E job \in Commands' : (job.force \/ job.raw) /\ n \in Targets(job)
    BY DEF Given
  <2> QED BY <2>1, <2>2 DEF Given
<1> SUFFICES ASSUME Alone, NEW p \in Procs, Keeper(p),
                    NEW k \in 1 .. Len(proc[p].jobs[1].files),
                    proc[p].jobs[1].files[k] \in DOMAIN initial, ~Given(proc[p].jobs[1].files[k])
             PROVE  Untouched(p, proc[p].jobs[1].files[k])'
  BY <1>1, <1>2 DEF KeptInv, Keeper, initial
<1>3. PICK f : f = proc[p].jobs[1].files[k] /\ f = (proc[p].jobs[1].files[k])'
  BY <1>1
<1>4. Untouched(p, f) /\ f \in DOMAIN initial
  BY <1>3 DEF KeptInv
<1>5. ~Given(f)
  BY <1>3
<1>6. Untouched(p, f)'
  <2>1. CASE UNCHANGED vars
    BY <1>4, <2>1 DEF vars, Untouched, Target, Job, File, initial
  <2>2. ASSUME NEW self \in Procs, Step(self) \/ Killed(self)
        PROVE  Untouched(p, f)'
    <3>1. proc[p].jobs # <<>>
      BY DEF Keeper
    <3>2. self = p
      BY <1>1, <2>2, <3>1, ActorHasJobs DEF Alone
    <3> QED BY <1>4, <1>5, <2>2, <3>2, UntouchedStays
  <2> QED BY <2>1, <2>2 DEF Next
<1> QED BY <1>3, <1>6

\* With -k or -c a process that works alone leaves its input as it was, at every
\* step, with calls that fail and when it is killed, whatever else it is told,
\* but for an input that it was told to write over.
THEOREM KeptInputsStay == Spec => []InputIsKept
<1>1. Init => ToolInv /\ KeptInv
  BY InitIsFine, InitKeeps
<1>2. ToolInv /\ KeptInv /\ [Next]_vars => ToolInv' /\ KeptInv'
  BY FineStays, KeptStays
<1>3. ToolInv /\ KeptInv => InputIsKept
  <2> SUFFICES ASSUME ToolInv, KeptInv, Alone, NEW p \in Procs, Keeper(p),
                      NEW k \in 1 .. Len(proc[p].jobs[1].files),
                      proc[p].jobs[1].files[k] \in DOMAIN initial, ~Given(proc[p].jobs[1].files[k])
               PROVE  LET f == proc[p].jobs[1].files[k]
                      IN  Exists(f) /\ Cells(f) = initial[f].cells
    BY DEF InputIsKept, Keeper
  <2>1. PICK f : f = proc[p].jobs[1].files[k]
    OBVIOUS
  <2>2. Untouched(p, f) /\ f \in DOMAIN initial
    BY <2>1 DEF KeptInv
  <2>3. f # None
    BY <2>2, ToolAssumption DEF ToolInv, TypeInv, FilesInv, initial
  <2> QED BY <2>1, <2>2, <2>3 DEF Untouched, Exists, Cells
<1> QED BY <1>1, <1>2, <1>3, PTL DEF Spec
-----------------------------------------------------------------------------
\* Is there no name that a command line may destroy?
Unforced == \A n \in Names : ~Given(n)

\* A stream that can be read up to its end marker is a whole archive, with
\* nothing behind the marker, of something that is not itself an archive.
Ended(c, m) ==
    /\ c[1][1] = "header" /\ c[m][1] = "end"
    /\ \A k \in 2 .. m - 1 : c[k][1] = "block"

Tidy(c, packed) ==
    IF packed
    THEN \A m \in 2 .. Len(c) :
            Ended(c, m) => m = Len(c) /\ IsArchive(c) /\ ~IsArchive(Plain(c))
    ELSE ~IsArchive(c)

\* Does a command line make a file of the directory out of its k-th file?
Converts(job, k) ==
    /\ FileJob(job) /\ ~(job.stdout /\ (job.op = "compress" \/ job.output = None))
    /\ job.op = "compress" \/ job.output # None \/ Suffixed(job.files[k])

\* The names of K are those of .lzo files: at first, and in what is asked for.
TidyFor(K) ==
    /\ \A n \in DOMAIN initial : Tidy(initial[n].cells, n \in K)
    /\ \A job \in Commands : \A k \in 1 .. Len(job.files) :
          Converts(job, k) => /\ job.files[k] \in K <=> job.op = "decompress"
                              /\ TargetOf(job, job.files[k]) \in K <=> job.op = "compress"

\* Cells of a packed under the header h, and cells of c, the input, after k cells
\* of the input.
PackedTo(h, a, c, k) ==
    /\ Len(a) = k + 1 /\ a[1] = h
    /\ \A j \in 1 .. k : a[j + 1] = <<"block", c[j]>>
UnpackedTo(a, c, k) ==
    /\ k >= 1 /\ Len(a) = k - 1 /\ c[1][1] = "header"
    /\ \A j \in 1 .. k - 1 : c[j + 1][1] = "block" /\ a[j] = c[j + 1][2]

Packed(h, a, c) ==
    /\ Len(a) = Len(c) + 2 /\ a[1] = h /\ a[Len(a)] = <<"end">>
    /\ \A j \in 1 .. Len(c) : a[j + 1] = <<"block", c[j]>>
Unpacked(a, c) ==
    \E k \in 1 .. Len(c) - 1 : UnpackedTo(a, c, k) /\ c[k + 1][1] = "end"

\* The header that a process has for what it compresses.
Heading(p) == <<"header", proc[p].mode, proc[p].mtime>>

\* What a process has made of its input, in the file and in the buffer.
Out(p) == (IF proc[p].tgt = None THEN <<>> ELSE node[proc[p].tgt].cells) \o proc[p].buf

Moving == {"check", "create", "copy", "flush", "mode", "mtime", "remove"}

\* What is true of a process that makes one file out of another.
InHand(p) ==
    /\ proc[p].pc \in {"header"} \cup Moving => dir[File(p)] = proc[p].in
    /\ proc[p].pc \in Moving /\ ~ToStdout(p) =>
          /\ proc[p].tgt # None => /\ proc[p].tgt # proc[p].in /\ dir[Target(p)] = proc[p].tgt
                                   /\ proc[p].wpos = Len(node[proc[p].tgt].cells)
          /\ proc[p].tgt = None => proc[p].wpos = 0
          /\ proc[p].pc \in {"check", "create", "copy"} =>
                /\ proc[p].used <= Len(Input(p)) /\ Len(proc[p].seen) <= Len(Input(p))
                /\ \A k \in 1 .. Len(proc[p].seen) : proc[p].seen[k] = Input(p)[k]
                /\ IF Compressing(p) THEN PackedTo(Heading(p), Out(p), Input(p), proc[p].used)
                   ELSE UnpackedTo(Out(p), Input(p), proc[p].used)
          /\ proc[p].pc \in {"flush", "mode", "mtime", "remove"} =>
                IF Compressing(p) THEN Packed(Heading(p), Out(p), Input(p))
                ELSE Unpacked(Out(p), Input(p))
          /\ proc[p].pc \in {"mode", "mtime", "remove"} => proc[p].buf = <<>>

SeqsInv ==
    /\ \A i \in Inodes : IsSeq(node[i].cells)
    /\ \A p \in Procs : proc[p].pc \in FilePcs => IsSeq(proc[p].buf) /\ IsSeq(proc[p].seen)
                                                  /\ proc[p].wpos \in Nat

\* A file that no process writes to.
Loose(n) == Exists(n) /\ \A p \in Procs : proc[p].tgt # dir[n]

Stands(n, m) == Plain(Cells(n)) = Plain(initial[m].cells)

\* Each file that was there has one that is no leftover and stands for it; and
\* there are leftovers only of a clean-up that failed.
FilesStand(K) ==
    /\ \A m \in DOMAIN initial :
          \E n \in Names : Loose(n) /\ Tidy(Cells(n), n \in K) /\ Stands(n, m)
    /\ ~CleanUpFails => \A n \in Names : Loose(n) =>
          Tidy(Cells(n), n \in K) /\ \E m \in DOMAIN initial : Stands(n, m)

ContentsInv ==
    Alone /\ Unforced =>
        /\ SeqsInv
        /\ \A p \in Procs : InHand(p)
        /\ \A K \in SUBSET Names : TidyFor(K) => FilesStand(K)

\* Packing and unpacking, on streams.
LEMMA ArchiveOfPacked ==
    ASSUME NEW a, NEW c, IsSeq(a), IsSeq(c), NEW h, h[1] = "header", Packed(h, a, c), ~IsArchive(c)
    PROVE  Plain(a) = Plain(c) /\ Tidy(a, TRUE)
<1>1. Len(c) \in Nat /\ Len(a) = Len(c) + 2
  BY SeqFacts DEF Packed
<1>2. \A k \in 2 .. Len(a) - 1 : a[k] = <<"block", c[k - 1]>> /\ a[k][1] = "block" /\ a[k][2] = c[k - 1]
  <2> SUFFICES ASSUME NEW k \in 2 .. Len(a) - 1
               PROVE  a[k] = <<"block", c[k - 1]>>
    OBVIOUS
  <2>1. k - 1 \in 1 .. Len(c) /\ (k - 1) + 1 = k
    BY <1>1
  <2> QED BY <2>1 DEF Packed
<1>3. IsArchive(a)
  BY <1>1, <1>2 DEF IsArchive, Packed
<1>4. Plain(a) = c
  <2> DEFINE p == [k \in 1 .. Len(a) - 2 |-> a[k + 1][2]]
  <2>1. \A k \in 1 .. Len(c) : p[k] = c[k]
    <3> SUFFICES ASSUME NEW k \in 1 .. Len(c)
                 PROVE  a[k + 1][2] = c[k]
      BY <1>1
    <3>1. k + 1 \in 2 .. Len(a) - 1 /\ (k + 1) - 1 = k
      BY <1>1
    <3> QED BY <1>2, <3>1
  <2>2. p = [k \in 1 .. Len(c) |-> p[k]]
    BY <1>1
  <2>3. Plain(a) = p
    BY <1>3 DEF Plain
  <2> HIDE DEF p
  <2>4. IsSeq(p) /\ Len(p) = Len(c)
    BY <1>1, <2>2, SeqMade
  <2>5. p = c
    BY <2>1, <2>4, SeqsEqual
  <2> QED BY <2>3, <2>5
<1>5. Plain(c) = c
  BY DEF Plain
<1>6. ASSUME NEW m \in 2 .. Len(a), Ended(a, m)
      PROVE  m = Len(a)
  BY <1>1, <1>2, <1>6 DEF Ended
<1> QED BY <1>3, <1>4, <1>5, <1>6 DEF Tidy

LEMMA PlainOfUnpacked ==
    ASSUME NEW a, NEW c, IsSeq(a), IsSeq(c), Unpacked(a, c), Tidy(c, TRUE)
    PROVE  Plain(a) = Plain(c) /\ Tidy(a, FALSE)
<1>1. PICK k \in 1 .. Len(c) - 1 : UnpackedTo(a, c, k) /\ c[k + 1][1] = "end"
  BY DEF Unpacked
<1>2. Len(c) \in Nat /\ k + 1 \in 2 .. Len(c) /\ Len(a) = k - 1
  BY <1>1, SeqFacts DEF UnpackedTo
<1>3. Ended(c, k + 1)
  <2>1. ASSUME NEW j \in 2 .. (k + 1) - 1
        PROVE  c[j][1] = "block"
    <3>1. j - 1 \in 1 .. k - 1 /\ (j - 1) + 1 = j
      BY <1>2
    <3> QED BY <1>1, <3>1 DEF UnpackedTo
  <2> QED BY <1>1, <2>1 DEF Ended, UnpackedTo
<1>4. k + 1 = Len(c) /\ IsArchive(c) /\ ~IsArchive(Plain(c))
  BY <1>2, <1>3 DEF Tidy
<1>5. a = Plain(c)
  <2> DEFINE p == [j \in 1 .. Len(c) - 2 |-> c[j + 1][2]]
  <2>1. p = Plain(c)
    BY <1>4 DEF Plain
  <2>2. \A j \in 1 .. Len(a) : a[j] = p[j]
    BY <1>1, <1>2, <1>4 DEF UnpackedTo
  <2>3. p = [j \in 1 .. Len(a) |-> p[j]] /\ Len(a) \in Nat
    BY <1>2, <1>4
  <2> HIDE DEF p
  <2>4. IsSeq(p) /\ Len(p) = Len(a)
    BY <2>3, SeqMade
  <2>5. a = p
    BY <2>2, <2>4, SeqsEqual
  <2> QED BY <2>1, <2>5
<1> QED BY <1>4, <1>5 DEF Plain, Tidy

\* Where a process is after the steps that do not make a file.
LEMMA PlaceAfter ==
    ASSUME TypeInv, NEW self \in Procs,
           \/ Run(self) \/ Filter(self) \/ Report(self) \/ EachFile(self) \/ Stat(self)
           \/ CopyFails(self) \/ Remove(self) \/ CallFails(self)
           \/ RawRead(self) \/ RawCreate(self) \/ RawWrite(self) \/ RawFails(self) \/ Killed(self)
    PROVE  /\ proc'[self].pc \notin {"header"} \cup Moving
           /\ proc'[self].pc \in FilePcs => proc'[self].buf = <<>> /\ proc'[self].seen = <<>>
                                            /\ proc'[self].wpos = 0
<1>1. /\ DOMAIN proc = Procs /\ DOMAIN proc[self] = ProcFields /\ TypeInv'
  <2>1. [Next]_vars
    BY DEF Next, Step
  <2> QED BY <2>1, TypesStay DEF TypeInv, Well
<1>2. ASSUME NextFile(self, TRUE) \/ NextFile(self, FALSE)
      PROVE  proc'[self].pc = "next"
  BY <1>1, <1>2, NextFileFields DEF Advances
<1>3. \A result : Return(self, result) => proc'[self].pc = "idle"
  BY <1>1 DEF Return, Become, ++, Idle, ProcFields
<1>4. ASSUME NEW c, Become(self, c), "pc" \in DOMAIN c
      PROVE  proc'[self].pc = c.pc
  BY <1>1, <1>4 DEF Become, ++, ProcFields
<1>5. ASSUME NEW c, DOMAIN c = {"stdout", "results"}, Become(self, c ++ Idle)
      PROVE  proc'[self].pc = "idle"
  BY <1>1, <1>5 DEF Become, ++, Idle, ProcFields
<1> DEFINE Safe == {"idle", "dead", "filter", "report", "next", "stat", "open"} \cup RawPcs
<1>6. ASSUME proc'[self].pc \in Safe
      PROVE  /\ proc'[self].pc \notin {"header"} \cup Moving
             /\ proc'[self].pc \in FilePcs => proc'[self].buf = <<>> /\ proc'[self].seen = <<>>
                                              /\ proc'[self].wpos = 0
  BY <1>1, <1>6 DEF TypeInv, Placed, RawPcs, Moving, FilePcs
<1>7. CASE Run(self)
  <2> DEFINE way == IF Job(self).raw THEN "raw"
                    ELSE IF Job(self).op \in {"list", "test"} THEN "report"
                    ELSE IF FromStdin(Job(self).files) /\ Job(self).output = None THEN "filter"
                    ELSE "next"
             c == [pc |-> way,
                   left |-> IF way = "report" /\ Job(self).files = <<>> THEN <<Dash>>
                            ELSE Job(self).files]
  <2>1. Return(self, "err") \/ Become(self, c)
    BY <1>7 DEF Run
  <2>2. "pc" \in DOMAIN c /\ c.pc = way
    OBVIOUS
  <2>3. way \in Safe
    BY DEF RawPcs
  <2> HIDE DEF c
  <2>4. proc'[self].pc = "idle" \/ proc'[self].pc = way
    BY <1>3, <1>4, <2>1, <2>2
  <2> QED BY <1>6, <2>3, <2>4
<1>8. CASE Filter(self)
  BY <1>3, <1>5, <1>6, <1>8 DEF Filter
<1>9. CASE Report(self)
  <2>1. Return(self, "err") \/ Return(self, "ok") \/ Become(self, [left |-> Tail(proc[self].left)])
    BY <1>9 DEF Report
  <2>2. ASSUME NEW c, Become(self, c), "pc" \notin DOMAIN c
        PROVE  proc'[self].pc = proc[self].pc
    BY <1>1, <2>2 DEF Become, ++, ProcFields
  <2> QED BY <1>3, <1>6, <1>9, <2>1, <2>2 DEF Report, At
<1>10. CASE EachFile(self)
  <2>1. \/ NextFile(self, TRUE) \/ \E result : Return(self, result)
        \/ Become(self, [pc |-> "stat"]) \/ Become(self, [pc |-> "open"])
    BY <1>10 DEF EachFile
  <2>2. proc'[self].pc \in {"next", "idle", "stat", "open"}
    <3>1. ASSUME NEW q, Become(self, [pc |-> q])
          PROVE  proc'[self].pc = q
      BY <1>1, <3>1 DEF Become, ++, ProcFields
    <3> QED BY <1>2, <1>3, <2>1, <3>1
  <2> QED BY <1>6, <2>2
<1>11. CASE Stat(self)
  <2>1. \/ NextFile(self, TRUE)
        \/ \E m, t : Become(self, [pc |-> "open", mode |-> m, mtime |-> t])
    BY <1>11 DEF Stat
  <2>2. proc'[self].pc \in {"next", "open"}
    <3>1. ASSUME NEW m, NEW t, Become(self, [pc |-> "open", mode |-> m, mtime |-> t])
          PROVE  proc'[self].pc = "open"
      BY <1>1, <3>1 DEF Become, ++, ProcFields
    <3> QED BY <1>2, <2>1, <3>1
  <2> QED BY <1>6, <2>2
<1>12. CASE CopyFails(self) \/ Remove(self) \/ CallFails(self)
  BY <1>2, <1>6, <1>12 DEF CopyFails, Remove, CallFails
<1>13. CASE RawRead(self)
  <2>1. \/ Return(self, "err")
        \/ \E cells : Become(self, [pc |-> "rawcreate", buf |-> cells])
        \/ \E cells : Become(self, [stdout |-> cells,
                                    results |-> Append(proc[self].results, "ok")] ++ Idle)
    BY <1>13 DEF RawRead
  <2>2. proc'[self].pc \in {"idle", "rawcreate"}
    <3>1. ASSUME NEW cells, Become(self, [pc |-> "rawcreate", buf |-> cells])
          PROVE  proc'[self].pc = "rawcreate"
      BY <1>1, <3>1 DEF Become, ++, ProcFields
    <3>2. ASSUME NEW cells, Become(self, [stdout |-> cells,
                                          results |-> Append(proc[self].results, "ok")] ++ Idle)
          PROVE  proc'[self].pc = "idle"
      BY <1>1, <3>2 DEF Become, ++, Idle, ProcFields
    <3> QED BY <1>3, <2>1, <3>1, <3>2
  <2> QED BY <1>6, <2>2 DEF RawPcs
<1>14. CASE RawCreate(self)
  <2>1. Return(self, "err") \/ \E i : Become(self, [pc |-> "rawwrite", tgt |-> i])
    BY <1>14 DEF RawCreate
  <2>2. proc'[self].pc \in {"idle", "rawwrite"}
    <3>1. ASSUME NEW i, Become(self, [pc |-> "rawwrite", tgt |-> i])
          PROVE  proc'[self].pc = "rawwrite"
      BY <1>1, <3>1 DEF Become, ++, ProcFields
    <3> QED BY <1>3, <2>1, <3>1
  <2> QED BY <1>6, <2>2 DEF RawPcs
<1>15. CASE RawWrite(self) \/ RawFails(self)
  BY <1>3, <1>6, <1>15 DEF RawWrite, RawFails
<1>16. CASE Killed(self)
  BY <1>6, <1>16, KilledFields
<1> QED BY <1>7, <1>8, <1>9, <1>10, <1>11, <1>12, <1>13, <1>14, <1>15, <1>16
-----------------------------------------------------------------------------
\* Other processes stay as they are.
LEMMA OthersUnchanged ==
    ASSUME TypeInv, NEW self \in Procs, Step(self) \/ Killed(self), NEW q \in Procs \ {self}
    PROVE  proc'[q] = proc[q]
<1>1. (\E c : Become(self, c)) => proc'[q] = proc[q]
  BY DEF TypeInv, Become
<1> QED BY <1>1 DEF Step, Killed, Run, Filter, Report, EachFile, Stat, Open, ReadHeader, Check,
            Create, CopyBlock, CopyEnd, Spill, Flush, Spilled, CopyFails, Restore, Remove, CallFails,
            RawRead, RawCreate, RawWrite, RawFails, Return, NextFile

\* Without -f and --raw only new files are made.
LEMMA OnlyNewFiles ==
    ASSUME ToolInv, Alone, Unforced, NEW p \in Procs
    PROVE  /\ proc[p].pc \notin {"rawcreate", "rawwrite"}
           /\ At(p, "create") => Target(p) \in Names /\ ~Exists(Target(p))
<1>1. Well(p) /\ Placed(p) /\ FilesInv
  BY DEF ToolInv, TypeInv
<1>2. ASSUME proc[p].pc \in {"rawcreate", "rawwrite"}
      PROVE  FALSE
  <2>1. Job(p).output \in Names /\ Job(p).raw /\ Len(proc[p].results) < Len(proc[p].jobs)
    BY <1>1, <1>2, OutputIsName
  <2>2. Job(p) \in Commands
    BY <1>1, <2>1, JobIsLine DEF Commands, Job
  <2>3. Job(p).output \in Targets(Job(p))
    BY <1>1, <1>2 DEF Targets, Placed
  <2> QED BY <2>1, <2>2, <2>3 DEF Unforced, Given
<1>3. At(p, "create") => Target(p) \in Names /\ ~Exists(Target(p))
  BY WritesGiven DEF Unforced
<1> QED BY <1>2, <1>3

LEMMA SeqsStay ==
    ASSUME ToolInv, Alone, Unforced, SeqsInv, NEW self \in Procs, Step(self) \/ Killed(self)
    PROVE  SeqsInv'
<1>1. /\ TypeInv /\ Well(self) /\ Placed(self) /\ FilesInv /\ TypeInv' /\ scenario' = scenario
      /\ DOMAIN proc = Procs /\ DOMAIN proc[self] = ProcFields
  <2>1. [Next]_vars /\ TypeInv
    BY DEF Next, ToolInv
  <2> QED BY <2>1, TypesStay, JobsStay DEF TypeInv, Well
<1>2. proc[self].pc \notin {"rawcreate", "rawwrite"}
  BY OnlyNewFiles
<1>3. IsSeq(<<>>) /\ Len(<<>>) = 0
  BY SeqOf, EmptySeq
<1>4. \A i \in Inodes : IsSeq(node'[i].cells)
  <2> SUFFICES ASSUME NEW j \in Inodes, node'[j].cells # node[j].cells
               PROVE  IsSeq(node'[j].cells)
    BY DEF SeqsInv
  <2>1. ASSUME NEW i \in Inodes, Truncate(Target(self), i), At(self, "create")
        PROVE  IsSeq(node'[j].cells)
    <3>1. node'[i].cells = <<>> /\ \A k \in Inodes \ {i} : node'[k] = node[k]
      BY <1>1, <2>1, CreateFacts
    <3> QED BY <1>3, <3>1
  <2>2. ASSUME proc[self].tgt = j
        PROVE  IsSeq(node'[j].cells)
    <3>1. CASE Spill(self) \/ Flush(self)
      <4>1. node'[j].cells = Written(node[j].cells, proc[self].wpos, proc[self].buf)
        BY <1>1, <2>2, <3>1, SpilledFiles, ToolAssumption DEF Spill, Flush
      <4>2. proc[self].pc \in FilePcs
        BY <3>1 DEF Spill, Flush, At, FilePcs
      <4> QED BY <4>1, <4>2, WrittenFacts DEF SeqsInv
    <3>2. CASE Restore(self)
      BY <1>1, <3>2, RestoreFiles
    <3>3. ~Create(self) /\ ~RawCreate(self) /\ ~RawWrite(self)
      <4>1. j # None
        BY ToolAssumption
      <4> QED BY <1>1, <1>2, <2>2, <4>1 DEF Placed, Create, RawCreate, RawWrite, At
    <3> QED BY <3>1, <3>2, <3>3
            DEF Step, Killed, Run, Filter, Report, EachFile, Stat, Open, ReadHeader, Check,
                CopyBlock, CopyEnd, CopyFails, Remove, CallFails, RawRead, RawFails
  <2> QED BY <1>1, <1>2, <2>1, <2>2, CellsChange DEF At
<1>5. ASSUME proc'[self].pc \in FilePcs
      PROVE  /\ IsSeq(proc'[self].buf) /\ IsSeq(proc'[self].seen) /\ proc'[self].wpos \in Nat
  <2>1. CASE \/ Run(self) \/ Filter(self) \/ Report(self) \/ EachFile(self) \/ Stat(self)
             \/ CopyFails(self) \/ Remove(self) \/ CallFails(self)
             \/ RawRead(self) \/ RawCreate(self) \/ RawWrite(self) \/ RawFails(self) \/ Killed(self)
    BY <1>1, <1>3, <1>5, <2>1, PlaceAfter
  <2>2. CASE Open(self)
    <3>1. proc[self].pc = "open" /\ proc[self].seen = <<>> /\ proc[self].wpos = 0
          /\ proc[self].buf = <<>>
      BY <1>1, <2>2 DEF Placed, Open, At
    <3>3. ASSUME NEW q, NEW i, NEW h, Become(self, [pc |-> q, in |-> i, buf |-> <<h>>])
          PROVE  proc'[self].buf = <<h>> /\ proc'[self].seen = <<>> /\ proc'[self].wpos = 0
      BY <1>1, <3>1, <3>3 DEF Become, ++, ProcFields
    <3>4. ASSUME NEW i, Become(self, [pc |-> "header", in |-> i])
          PROVE  proc'[self].buf = <<>> /\ proc'[self].seen = <<>> /\ proc'[self].wpos = 0
      BY <1>1, <3>1, <3>4 DEF Become, ++, ProcFields
    <3>5. \/ NextFile(self, TRUE)
          \/ \E q, i, h : Become(self, [pc |-> q, in |-> i, buf |-> <<h>>])
          \/ \E i : Become(self, [pc |-> "header", in |-> i])
      BY <2>2 DEF Open
    <3>6. \A h : IsSeq(<<h>>)
      <4> SUFFICES ASSUME NEW h
                   PROVE  IsSeq(<<h>>)
        OBVIOUS
      <4>1. <<h>> \in Seq({h})
        OBVIOUS
      <4> QED BY <4>1, SeqOf
    <3>7. /\ proc'[self].buf = <<>> \/ \E h : proc'[self].buf = <<h>>
          /\ proc'[self].seen = <<>> /\ proc'[self].wpos = 0
      <4>1. NextFile(self, TRUE) => Advances(self)
        BY <1>1, NextFileFields
      <4> QED BY <3>3, <3>4, <3>5, <4>1 DEF Advances
    <3>8. IsSeq(proc'[self].buf)
      BY <1>3, <3>6, <3>7
    <3>9. IsSeq(proc'[self].seen) /\ proc'[self].wpos \in Nat
      BY <1>3, <3>7
    <3> QED BY <3>8, <3>9
  <2>3. CASE ReadHeader(self)
    <3>1. proc[self].pc = "header" /\ proc[self].buf = <<>> /\ proc[self].wpos = 0
      BY <1>1, <2>3 DEF Placed, ReadHeader, At
    <3>2. ASSUME NEW q, NEW s, NEW m, NEW t,
                 Become(self, [pc |-> q, seen |-> s, used |-> 1, mode |-> m, mtime |-> t])
          PROVE  proc'[self].buf = <<>> /\ proc'[self].seen = s /\ proc'[self].wpos = 0
      BY <1>1, <3>1, <3>2 DEF Become, ++, ProcFields
    <3>3. NextFile(self, TRUE) => Advances(self)
      BY <1>1, NextFileFields
    <3>4. \/ NextFile(self, TRUE)
          \/ \E k \in 1 .. Len(Input(self)) : \E q, m, t :
                Become(self, [pc |-> q, seen |-> SubSeq(Input(self), 1, k), used |-> 1,
                              mode |-> m, mtime |-> t])
      BY <2>3 DEF ReadHeader
    <3>5. IsSeq(Input(self))
      BY <1>1, <3>1 DEF Input, SeqsInv, Well, Placed, FilePcs
    <3>6. CASE NextFile(self, TRUE)
      BY <1>3, <3>3, <3>6 DEF Advances
    <3>7. ASSUME NEW k \in 1 .. Len(Input(self)), NEW q, NEW m, NEW t,
                 Become(self, [pc |-> q, seen |-> SubSeq(Input(self), 1, k), used |-> 1,
                              mode |-> m, mtime |-> t])
          PROVE  /\ IsSeq(proc'[self].buf) /\ IsSeq(proc'[self].seen) /\ proc'[self].wpos \in Nat
      <4>1. IsSeq(SubSeq(Input(self), 1, k))
        BY <3>5, <3>7, SubSeqIsSeq
      <4>2. proc'[self].buf = <<>> /\ proc'[self].seen = SubSeq(Input(self), 1, k)
            /\ proc'[self].wpos = 0
        BY <3>2, <3>7
      <4> QED BY <1>3, <4>1, <4>2
    <3> QED BY <3>4, <3>6, <3>7
  <2>4. ASSUME NEW c, Become(self, c), DOMAIN c \subseteq ProcFields,
               DOMAIN c \cap {"buf", "seen", "wpos"} = {}, proc[self].pc \in FilePcs
        PROVE  /\ IsSeq(proc'[self].buf) /\ IsSeq(proc'[self].seen) /\ proc'[self].wpos \in Nat
    <3>1. \A x \in {"buf", "seen", "wpos"} : proc'[self][x] = proc[self][x]
      BY <1>1, <2>4, BecomeFields DEF ProcFields
    <3> QED BY <2>4, <3>1 DEF SeqsInv
  <2>5. ASSUME NextFile(self, TRUE)
        PROVE  /\ IsSeq(proc'[self].buf) /\ IsSeq(proc'[self].seen) /\ proc'[self].wpos \in Nat
    <3>1. Advances(self)
      BY <1>1, <2>5, NextFileFields
    <3> QED BY <1>3, <3>1 DEF Advances
  <2>6. CASE Check(self)
    <3>1. NextFile(self, TRUE) \/ Become(self, [pc |-> "create"])
      BY <2>6 DEF Check
    <3> DEFINE c == [pc |-> "create"]
    <3>2. DOMAIN c = {"pc"}
      OBVIOUS
    <3>3. NextFile(self, TRUE) \/ Become(self, c)
      BY <3>1
    <3> HIDE DEF c
    <3> QED BY <2>4, <2>5, <2>6, <3>2, <3>3 DEF ProcFields, Check, At, FilePcs
  <2>7. CASE Create(self)
    <3>1. NextFile(self, TRUE) \/ \E i : Become(self, [pc |-> "copy", tgt |-> i])
      BY <2>7 DEF Create
    <3>2. ASSUME NEW i, Become(self, [pc |-> "copy", tgt |-> i])
          PROVE  /\ IsSeq(proc'[self].buf) /\ IsSeq(proc'[self].seen) /\ proc'[self].wpos \in Nat
      <4> DEFINE c == [pc |-> "copy", tgt |-> i]
      <4>1. DOMAIN c = {"pc", "tgt"} /\ Become(self, c)
        BY <3>2
      <4> HIDE DEF c
      <4> QED BY <2>4, <2>7, <4>1 DEF ProcFields, Create, At, FilePcs
    <3> QED BY <2>5, <3>1, <3>2
  <2>8. CASE Restore(self)
    <3>1. \A x \in {"buf", "seen", "wpos"} : proc'[self][x] = proc[self][x]
      BY <1>1, <2>8, RestoreFields DEF ProcFields
    <3>2. proc[self].pc \in FilePcs
      BY <1>1, <2>8, RestoreFields DEF FilePcs
    <3> QED BY <3>1, <3>2 DEF SeqsInv
  <2>9. IsSeq(proc[self].buf) => \A x : IsSeq(Append(proc[self].buf, x))
    BY SeqAppend
  <2>10. CASE CopyBlock(self)
    <3>1. PICK x, u : Become(self, [used |-> u, buf |-> Append(proc[self].buf, x)])
      BY <2>10 DEF CopyBlock
    <3>2. /\ proc'[self].buf = Append(proc[self].buf, x) /\ proc'[self].seen = proc[self].seen
          /\ proc'[self].wpos = proc[self].wpos
      BY <1>1, <3>1 DEF Become, ++, ProcFields
    <3>3. proc[self].pc \in FilePcs
      BY <2>10 DEF CopyBlock, At, FilePcs
    <3> QED BY <2>9, <3>2, <3>3 DEF SeqsInv
  <2>11. CASE CopyEnd(self)
    <3>1. proc[self].pc \in FilePcs
      BY <2>11 DEF CopyEnd, At, FilePcs
    <3>2. ASSUME NEW x, Become(self, [pc |-> "flush", buf |-> Append(proc[self].buf, x)])
          PROVE  /\ proc'[self].buf = Append(proc[self].buf, x) /\ proc'[self].seen = proc[self].seen
                 /\ proc'[self].wpos = proc[self].wpos
      BY <1>1, <3>2 DEF Become, ++, ProcFields
    <3>3. ASSUME Become(self, [pc |-> "flush"])
          PROVE  /\ proc'[self].buf = proc[self].buf /\ proc'[self].seen = proc[self].seen
                 /\ proc'[self].wpos = proc[self].wpos
      BY <1>1, <3>3 DEF Become, ++, ProcFields
    <3>4. \/ \E x : Become(self, [pc |-> "flush", buf |-> Append(proc[self].buf, x)])
          \/ Become(self, [pc |-> "flush"])
      BY <2>11 DEF CopyEnd
    <3> QED BY <2>9, <3>1, <3>2, <3>3, <3>4 DEF SeqsInv
  <2>12. ASSUME NEW q, Spilled(self, [pc |-> q]), proc[self].pc \in FilePcs
         PROVE  /\ IsSeq(proc'[self].buf) /\ IsSeq(proc'[self].seen) /\ proc'[self].wpos \in Nat
    <3>1. /\ proc'[self].buf = <<>> /\ proc'[self].wpos = proc[self].wpos + Len(proc[self].buf)
          /\ proc'[self].seen = proc[self].seen
      BY <1>1, <2>12, SpilledFields DEF ProcFields
    <3>2. IsSeq(proc[self].seen) /\ proc[self].wpos \in Nat /\ Len(proc[self].buf) \in Nat
      BY <2>12, SeqFacts DEF SeqsInv
    <3> QED BY <1>3, <3>1, <3>2
  <2>13. CASE Spill(self)
    BY <2>12, <2>13 DEF Spill, At, FilePcs
  <2>14. CASE Flush(self)
    <3>1. Spilled(self, Flushed(self)) /\ proc[self].pc \in FilePcs
      BY <2>14 DEF Flush, At, FilePcs
    <3>2. CASE proc[self].tgt # None
      BY <2>12, <3>1, <3>2 DEF Flushed
    <3>3. CASE proc[self].tgt = None
      <4>1. Advances(self)
        BY <1>1, <3>1, <3>3, FlushedFields DEF Flushed
      <4> QED BY <1>3, <4>1 DEF Advances
    <3> QED BY <3>2, <3>3
  <2> QED BY <2>1, <2>2, <2>3, <2>6, <2>7, <2>8, <2>10, <2>11, <2>13, <2>14 DEF Step
<1>6. ASSUME NEW q \in Procs, proc'[q].pc \in FilePcs
      PROVE  /\ IsSeq(proc'[q].buf) /\ IsSeq(proc'[q].seen) /\ proc'[q].wpos \in Nat
  <2>1. q # self => proc'[q] = proc[q]
    BY <1>1, OthersUnchanged
  <2> QED BY <1>5, <1>6, <2>1 DEF SeqsInv
<1> QED BY <1>4, <1>6 DEF SeqsInv
-----------------------------------------------------------------------------
\* Streams that grow.
LEMMA NothingAdded ==
    ASSUME NEW c, IsSeq(c)
    PROVE  c \o <<>> = c /\ <<>> \o c = c
<1>1. c \in Seq({ c[k] : k \in DOMAIN c })
  BY DEF IsSeq
<1> QED BY <1>1

LEMMA OneAdded ==
    ASSUME NEW c, NEW d, IsSeq(c), IsSeq(d), NEW x
    PROVE  c \o Append(d, x) = Append(c \o d, x)
<1> DEFINE S == { c[k] : k \in DOMAIN c } \cup { d[k] : k \in DOMAIN d } \cup {x}
<1>1. c \in Seq(S) /\ d \in Seq(S) /\ x \in S
  <2>1. c \in Seq({ c[k] : k \in DOMAIN c }) /\ d \in Seq({ d[k] : k \in DOMAIN d })
    BY DEF IsSeq
  <2> HIDE DEF S
  <2>2. { c[k] : k \in DOMAIN c } \subseteq S /\ { d[k] : k \in DOMAIN d } \subseteq S /\ x \in S
    BY DEF S
  <2> QED BY <2>1, <2>2
<1> HIDE DEF S
<1> QED BY <1>1

LEMMA PackedGrows ==
    ASSUME NEW a, NEW c, IsSeq(a), NEW k \in Nat, NEW h, PackedTo(h, a, c, k)
    PROVE  /\ PackedTo(h, Append(a, <<"block", c[k + 1]>>), c, k + 1)
           /\ k = Len(c) => Packed(h, Append(a, <<"end">>), c)
<1>1. /\ Len(a) = k + 1 /\ a[1] = h
      /\ \A j \in 1 .. k : a[j + 1] = <<"block", c[j]>>
  BY DEF PackedTo
<1>2. ASSUME NEW x
      PROVE  /\ Len(Append(a, x)) = k + 2 /\ Append(a, x)[k + 2] = x
             /\ Append(a, x)[1] = h
             /\ \A j \in 1 .. k : Append(a, x)[j + 1] = <<"block", c[j]>>
  <2>1. /\ Len(Append(a, x)) = Len(a) + 1 /\ Append(a, x)[Len(a) + 1] = x
        /\ \A j \in 1 .. Len(a) : Append(a, x)[j] = a[j]
    BY SeqAppend
  <2>2. (k + 1) + 1 = k + 2 /\ 1 \in 1 .. Len(a) /\ \A j \in 1 .. k : j + 1 \in 1 .. Len(a)
    BY <1>1
  <2>3. Len(Append(a, x)) = k + 2 /\ Append(a, x)[k + 2] = x
    BY <1>1, <2>1, <2>2
  <2> QED BY <1>1, <2>1, <2>2, <2>3
<1>3. PackedTo(h, Append(a, <<"block", c[k + 1]>>), c, k + 1)
  <2> DEFINE b == Append(a, <<"block", c[k + 1]>>)
  <2>1. /\ Len(b) = k + 2 /\ b[k + 2] = <<"block", c[k + 1]>> /\ b[1] = h
        /\ \A j \in 1 .. k : b[j + 1] = <<"block", c[j]>>
    BY <1>2
  <2> HIDE DEF b
  <2>2. ASSUME NEW j \in 1 .. k + 1
        PROVE  b[j + 1] = <<"block", c[j]>>
    <3>1. j \in 1 .. k \/ (j = k + 1 /\ j + 1 = k + 2)
      OBVIOUS
    <3> QED BY <2>1, <3>1
  <2>3. Len(b) = (k + 1) + 1
    BY <2>1
  <2>4. PackedTo(h, b, c, k + 1)
    BY <2>1, <2>2, <2>3 DEF PackedTo
  <2> QED BY <2>4 DEF b
<1>4. ASSUME k = Len(c)
      PROVE  Packed(h, Append(a, <<"end">>), c)
  <2> DEFINE b == Append(a, <<"end">>)
  <2>1. /\ Len(b) = k + 2 /\ b[k + 2] = <<"end">> /\ b[1] = h
        /\ \A j \in 1 .. k : b[j + 1] = <<"block", c[j]>>
    BY <1>2
  <2> HIDE DEF b
  <2>2. Packed(h, b, c)
    BY <1>4, <2>1 DEF Packed
  <2> QED BY <2>2 DEF b
<1> QED BY <1>3, <1>4

LEMMA UnpackedGrows ==
    ASSUME NEW a, NEW c, IsSeq(a), NEW k \in Nat, UnpackedTo(a, c, k)
    PROVE  /\ c[k + 1][1] = "block" => UnpackedTo(Append(a, c[k + 1][2]), c, k + 1)
           /\ k + 1 <= Len(c) /\ Len(c) \in Nat /\ c[k + 1][1] = "end" => Unpacked(a, c)
<1>1. /\ k >= 1 /\ Len(a) = k - 1 /\ c[1][1] = "header"
      /\ \A j \in 1 .. k - 1 : c[j + 1][1] = "block" /\ a[j] = c[j + 1][2]
  BY DEF UnpackedTo
<1>2. ASSUME c[k + 1][1] = "block"
      PROVE  UnpackedTo(Append(a, c[k + 1][2]), c, k + 1)
  <2> DEFINE b == Append(a, c[k + 1][2])
  <2>1. /\ Len(b) = Len(a) + 1 /\ b[Len(a) + 1] = c[k + 1][2]
        /\ \A j \in 1 .. Len(a) : b[j] = a[j]
    BY SeqAppend
  <2>2. Len(b) = k /\ b[k] = c[k + 1][2] /\ \A j \in 1 .. k - 1 : b[j] = a[j]
    <3>1. Len(a) + 1 = k
      BY <1>1
    <3> QED BY <1>1, <2>1, <3>1
  <2> HIDE DEF b
  <2>3. ASSUME NEW j \in 1 .. (k + 1) - 1
        PROVE  c[j + 1][1] = "block" /\ b[j] = c[j + 1][2]
    <3>1. j \in 1 .. k - 1 \/ j = k
      OBVIOUS
    <3> QED BY <1>1, <1>2, <2>2, <3>1
  <2>4. UnpackedTo(b, c, k + 1)
    BY <1>1, <2>2, <2>3 DEF UnpackedTo
  <2> QED BY <2>4 DEF b
<1>3. ASSUME k + 1 <= Len(c), Len(c) \in Nat, c[k + 1][1] = "end"
      PROVE  Unpacked(a, c)
  <2>1. k \in 1 .. Len(c) - 1
    BY <1>1, <1>3
  <2> QED BY <1>3, <2>1 DEF Unpacked
<1> QED BY <1>2, <1>3

\* A command line, and what a process is at, as long as they do not change.
LEMMA SameJob ==
    ASSUME NEW p, \A x \in {"jobs", "results", "left"} : proc'[p][x] = proc[p][x]
    PROVE  /\ Job(p)' = Job(p) /\ File(p)' = File(p) /\ Target(p)' = Target(p)
           /\ (ToStdout(p)' <=> ToStdout(p)) /\ (Compressing(p)' <=> Compressing(p))
BY DEF Job, File, Target, ToStdout, Compressing

LEMMA SameHeading ==
    ASSUME NEW p, proc'[p].mode = proc[p].mode, proc'[p].mtime = proc[p].mtime
    PROVE  Heading(p)' = Heading(p)
BY DEF Heading

\* A process that only goes on stays what it was.
LEMMA GoesOn ==
    ASSUME NEW p \in Procs, InHand(p), dir' = dir, \A i \in Inodes : node'[i].cells = node[i].cells,
           Well(p), Placed(p), \A x \in ProcFields \ {"pc"} : proc'[p][x] = proc[p][x],
           \/ proc[p].pc = "check" /\ proc'[p].pc = "create"
           \/ proc[p].pc \in {"mode", "mtime"} /\ proc'[p].pc \in {"mtime", "remove"}
    PROVE  InHand(p)'
<1>1. /\ Job(p)' = Job(p) /\ File(p)' = File(p) /\ Target(p)' = Target(p)
      /\ (ToStdout(p)' <=> ToStdout(p)) /\ (Compressing(p)' <=> Compressing(p))
  BY SameJob DEF ProcFields
<1>2. proc[p].in \in Inodes /\ proc[p].tgt \in Inodes \cup {None}
  BY DEF Well, Placed, FilePcs
<1>3. Input(p)' = Input(p) /\ Out(p)' = Out(p)
      /\ (proc[p].tgt # None => node'[proc[p].tgt].cells = node[proc[p].tgt].cells)
  BY <1>2 DEF Input, Out, ProcFields
<1>4. Heading(p)' = Heading(p)
  BY SameHeading DEF ProcFields
<1> QED BY <1>1, <1>3, <1>4 DEF InHand, Moving, ProcFields

LEMMA OpenInHand ==
    ASSUME TypeInv, SeqsInv, NEW self \in Procs, Open(self)
    PROVE  InHand(self)'
<1>1. /\ DOMAIN proc = Procs /\ DOMAIN proc[self] = ProcFields /\ proc[self].pc = "open"
      /\ Placed(self) /\ Well(self) /\ UNCHANGED <<dir, node, scenario>> /\ FilesInv
  BY DEF TypeInv, Well, Open, At
<1>2. /\ proc[self].seen = <<>> /\ proc[self].used = 0 /\ proc[self].wpos = 0
      /\ proc[self].buf = <<>> /\ proc[self].tgt = None
  BY <1>1 DEF Placed
<1>3. CASE NextFile(self, TRUE)
  BY <1>1, <1>3, NextFileFields DEF Advances, InHand, Moving
<1>4. CASE ~NextFile(self, TRUE)
  <2>1. Exists(File(self)) /\ File(self) \in Names
    BY <1>1, <1>4, FileIsName DEF Open, FilePcs
  <2>2. PICK i \in Inodes : i = dir[File(self)]
    BY <1>1, <2>1 DEF FilesInv, Exists
  <2>3. ASSUME Become(self, [pc |-> "header", in |-> i])
        PROVE  InHand(self)'
    <3>1. /\ proc'[self].pc = "header" /\ proc'[self].in = i
          /\ \A x \in ProcFields \ {"pc", "in"} : proc'[self][x] = proc[self][x]
      BY <1>1, <2>3 DEF Become, ++, ProcFields
    <3>2. File(self)' = File(self)
      BY <3>1, SameJob DEF ProcFields
    <3> QED BY <1>1, <2>2, <3>1, <3>2 DEF InHand, Moving
  <2>4. ASSUME NEW q \in {"check", "copy"}, q = "copy" => ToStdout(self), Compressing(self),
               Become(self, [pc |-> q, in |-> i, buf |-> <<Heading(self)>>])
        PROVE  InHand(self)'
    <3> DEFINE h == Heading(self)
    <3>1. Become(self, [pc |-> q, in |-> i, buf |-> <<h>>])
      BY <2>4
    <3> HIDE DEF h
    <3>2. /\ proc'[self].pc = q /\ proc'[self].in = i /\ proc'[self].buf = <<h>>
          /\ \A x \in ProcFields \ {"pc", "in", "buf"} : proc'[self][x] = proc[self][x]
      BY <1>1, <3>1 DEF Become, ++, ProcFields
    <3>3. /\ Job(self)' = Job(self) /\ File(self)' = File(self) /\ Target(self)' = Target(self)
          /\ (ToStdout(self)' <=> ToStdout(self)) /\ (Compressing(self)' <=> Compressing(self))
      BY <3>2, SameJob DEF ProcFields
    <3>4. Len(Input(self)') \in Nat
      <4>1. Input(self)' = node[i].cells
        BY <1>1, <3>2 DEF Input
      <4> QED BY <4>1, SeqFacts DEF SeqsInv
    <3>5. Out(self)' = <<h>>
      <4>1. proc'[self].tgt = None
        BY <1>2, <3>2 DEF ProcFields
      <4> QED BY <3>2, <4>1 DEF Out
    <3>6. PackedTo(Heading(self)', Out(self)', Input(self)', 0)
      <4>1. Heading(self)' = h
        BY <3>2, SameHeading DEF h, ProcFields
      <4> QED BY <3>5, <4>1 DEF PackedTo
    <3>7. /\ proc'[self].seen = <<>> /\ proc'[self].used = 0 /\ proc'[self].wpos = 0
          /\ proc'[self].tgt = None
      BY <1>2, <3>2 DEF ProcFields
    <3> HIDE DEF Input, Out
    <3>8. CASE q = "copy"
      BY <1>1, <2>2, <2>4, <3>2, <3>3, <3>8 DEF InHand, Moving
    <3>9. CASE q = "check"
      <4>1. dir'[File(self)'] = proc'[self].in
        BY <1>1, <2>2, <3>2, <3>3
      <4>2. /\ proc'[self].used <= Len(Input(self)') /\ Len(proc'[self].seen) <= Len(Input(self)')
            /\ \A k \in 1 .. Len(proc'[self].seen) : proc'[self].seen[k] = Input(self)'[k]
            /\ PackedTo(Heading(self)', Out(self)', Input(self)', proc'[self].used)
        <5>1. Len(proc'[self].seen) = 0
          BY <3>7
        <5> QED BY <3>4, <3>6, <3>7, <5>1
      <4> QED BY <2>4, <3>2, <3>3, <3>7, <3>9, <4>1, <4>2 DEF InHand
    <3> QED BY <2>4, <3>8, <3>9
  <2>5. CASE Compressing(self)
    <3>1. Become(self, [pc |-> IF ToStdout(self) THEN "copy" ELSE "check", in |-> i,
                        buf |-> <<Heading(self)>>])
      BY <1>4, <2>2, <2>5 DEF Open, Heading
    <3>2. CASE ToStdout(self)
      BY <2>4, <2>5, <3>1, <3>2
    <3>3. CASE ~ToStdout(self)
      BY <2>4, <2>5, <3>1, <3>3
    <3> QED BY <3>2, <3>3
  <2>6. CASE ~Compressing(self)
    BY <1>4, <2>2, <2>3, <2>6 DEF Open
  <2> QED BY <2>5, <2>6
<1> QED BY <1>3, <1>4

LEMMA ReadHeaderInHand ==
    ASSUME TypeInv, SeqsInv, NEW self \in Procs, InHand(self), ReadHeader(self)
    PROVE  InHand(self)'
<1>1. /\ DOMAIN proc = Procs /\ DOMAIN proc[self] = ProcFields /\ proc[self].pc = "header"
      /\ Placed(self) /\ Well(self) /\ UNCHANGED <<dir, node, scenario>>
  BY DEF TypeInv, Well, ReadHeader, At
<1>2. /\ proc[self].seen = <<>> /\ proc[self].used = 0 /\ proc[self].wpos = 0
      /\ proc[self].buf = <<>> /\ proc[self].tgt = None /\ proc[self].in \in Inodes
      /\ ~Compressing(self) /\ dir[File(self)] = proc[self].in
  BY <1>1 DEF Placed, FilePcs, Well, InHand, At
<1>3. CASE NextFile(self, TRUE)
  BY <1>1, <1>3, NextFileFields DEF Advances, InHand, Moving
<1>4. IsSeq(Input(self))
  BY <1>2 DEF SeqsInv, Input
<1>5. ASSUME NEW q \in {"check", "copy"}, q = "copy" => ToStdout(self), NEW m, NEW t,
             NEW k \in 1 .. Len(Input(self)), Input(self)[1][1] = "header",
             Become(self, [pc |-> q, seen |-> SubSeq(Input(self), 1, k), used |-> 1,
                           mode |-> m, mtime |-> t])
      PROVE  InHand(self)'
  <2> DEFINE s == SubSeq(Input(self), 1, k)
  <2>1. Len(s) = k /\ \A j \in 1 .. k : s[j] = Input(self)[j]
    <3> DEFINE S == { Input(self)[j] : j \in DOMAIN Input(self) }
    <3>1. Input(self) \in Seq(S)
      BY <1>4 DEF IsSeq
    <3> HIDE DEF S
    <3> QED BY <3>1, <1>5
  <2>2. Become(self, [pc |-> q, seen |-> s, used |-> 1, mode |-> m, mtime |-> t])
    BY <1>5
  <2> HIDE DEF s
  <2>3. /\ proc'[self].pc = q /\ proc'[self].seen = s /\ proc'[self].used = 1
        /\ \A x \in ProcFields \ {"pc", "seen", "used", "mode", "mtime"} :
              proc'[self][x] = proc[self][x]
    BY <1>1, <2>2 DEF Become, ++, ProcFields
  <2>4. /\ Job(self)' = Job(self) /\ File(self)' = File(self) /\ Target(self)' = Target(self)
        /\ (ToStdout(self)' <=> ToStdout(self)) /\ (Compressing(self)' <=> Compressing(self))
    BY <2>3, SameJob DEF ProcFields
  <2>5. /\ proc'[self].in = proc[self].in /\ proc'[self].buf = <<>> /\ proc'[self].wpos = 0
        /\ proc'[self].tgt = None
    BY <1>2, <2>3 DEF ProcFields
  <2>6. Input(self)' = Input(self)
    BY <1>1, <2>5 DEF Input
  <2>7. Out(self)' = <<>>
    BY <2>5 DEF Out
  <2>8. UnpackedTo(Out(self)', Input(self)', 1)
    BY <1>5, <2>6, <2>7 DEF UnpackedTo
  <2>9. /\ proc'[self].used <= Len(Input(self)') /\ Len(proc'[self].seen) <= Len(Input(self)')
        /\ \A j \in 1 .. Len(proc'[self].seen) : proc'[self].seen[j] = Input(self)'[j]
    <3>1. Len(Input(self)) \in Nat
      BY <1>4, SeqFacts
    <3> QED BY <1>5, <2>1, <2>3, <2>6, <3>1
  <2>10. dir'[File(self)'] = proc'[self].in
    BY <1>1, <1>2, <2>4, <2>5
  <2> QED BY <1>2, <1>5, <2>3, <2>4, <2>5, <2>8, <2>9, <2>10 DEF InHand
<1>6. CASE ~NextFile(self, TRUE)
  <2>1. /\ Input(self) # <<>> /\ Head(Input(self))[1] = "header"
        /\ \E k \in 1 .. Len(Input(self)) : \E m, t :
              Become(self, [pc |-> IF ToStdout(self) THEN "copy" ELSE "check",
                            seen |-> SubSeq(Input(self), 1, k), used |-> 1,
                            mode |-> m, mtime |-> t])
    BY <1>6 DEF ReadHeader
  <2>2. Input(self)[1][1] = "header"
    BY <2>1
  <2>3. CASE ToStdout(self)
    BY <1>5, <2>1, <2>2, <2>3
  <2>4. CASE ~ToStdout(self)
    BY <1>5, <2>1, <2>2, <2>4
  <2> QED BY <2>3, <2>4
<1> QED BY <1>3, <1>6

LEMMA CreateInHand ==
    ASSUME ToolInv, SeqsInv, Alone, Unforced, NEW self \in Procs, InHand(self), Create(self)
    PROVE  InHand(self)'
<1>1. /\ DOMAIN proc = Procs /\ DOMAIN proc[self] = ProcFields /\ proc[self].pc = "create"
      /\ Placed(self) /\ Well(self) /\ scenario' = scenario /\ TypeInv /\ FilesInv
  BY DEF ToolInv, TypeInv, Well, Create, At
<1>2. /\ ~ToStdout(self) /\ proc[self].tgt = None /\ proc[self].in \in Inodes /\ proc[self].wpos = 0
      /\ dir[File(self)] = proc[self].in
  BY <1>1 DEF Placed, FilePcs, Well, InHand, Moving
<1>3. CASE NextFile(self, TRUE)
  BY <1>1, <1>3, NextFileFields DEF Advances, InHand, Moving
<1>4. CASE ~NextFile(self, TRUE)
  <2>1. PICK i \in Inodes : Truncate(Target(self), i) /\ Become(self, [pc |-> "copy", tgt |-> i])
    BY <1>4 DEF Create
  <2>2. Target(self) \in Names /\ ~Exists(Target(self))
    BY <1>1, OnlyNewFiles DEF At
  <2>3. /\ dir'[Target(self)] = i /\ \A n \in Names \ {Target(self)} : dir'[n] = dir[n]
        /\ \A j \in Inodes \ {i} : node'[j] = node[j]
        /\ node'[i].cells = <<>>
        /\ \A n \in Names : dir[n] # i
        /\ \A p \in Procs : proc[p].in # i /\ proc[p].tgt # i
    BY <1>1, <2>1, <2>2, CreateFacts DEF At
  <2>4. /\ proc'[self].pc = "copy" /\ proc'[self].tgt = i
        /\ \A x \in ProcFields \ {"pc", "tgt"} : proc'[self][x] = proc[self][x]
    BY <1>1, <2>1 DEF Become, ++, ProcFields
  <2>5. /\ Job(self)' = Job(self) /\ File(self)' = File(self) /\ Target(self)' = Target(self)
        /\ (ToStdout(self)' <=> ToStdout(self)) /\ (Compressing(self)' <=> Compressing(self))
    BY <2>4, SameJob DEF ProcFields
  <2>6. File(self) \in Names /\ File(self) # Target(self)
    <3>1. File(self) \in Names
      BY <1>1, FileIsName DEF FilePcs
    <3>2. dir[File(self)] # None
      BY <1>2, ToolAssumption
    <3> QED BY <2>2, <3>1, <3>2 DEF Exists
  <2>7. proc'[self].in = proc[self].in /\ proc'[self].buf = proc[self].buf
        /\ proc'[self].seen = proc[self].seen /\ proc'[self].used = proc[self].used
        /\ proc'[self].wpos = 0
    BY <1>2, <2>4 DEF ProcFields
  <2>8. Input(self)' = Input(self) /\ Heading(self)' = Heading(self)
    BY <1>2, <2>3, <2>4, <2>7, SameHeading DEF Input, ProcFields
  <2>9. Out(self)' = Out(self)
    <3>1. Out(self)' = <<>> \o proc[self].buf
      <4>1. i # None
        BY ToolAssumption
      <4> QED BY <2>3, <2>4, <2>7, <4>1 DEF Out
    <3> QED BY <1>2, <3>1 DEF Out
  <2>10. /\ proc'[self].tgt # proc'[self].in /\ dir'[Target(self)'] = proc'[self].tgt
         /\ Len(node'[proc'[self].tgt].cells) = 0 /\ proc'[self].tgt # None
    <3>1. i # None /\ i # proc[self].in
      BY <2>3, ToolAssumption
    <3>2. dir'[Target(self)'] = i
      BY <2>3, <2>5
    <3>3. Len(node'[i].cells) = 0
      BY <2>3
    <3> QED BY <2>4, <2>7, <3>1, <3>2, <3>3
  <2>11. dir'[File(self)'] = proc'[self].in
    BY <1>2, <2>3, <2>5, <2>6, <2>7
  <2> QED BY <1>1, <1>2, <2>4, <2>5, <2>7, <2>8, <2>9, <2>10, <2>11 DEF InHand, Moving
<1> QED BY <1>3, <1>4

LEMMA CopyBlockInHand ==
    ASSUME TypeInv, SeqsInv, NEW self \in Procs, InHand(self), CopyBlock(self)
    PROVE  InHand(self)'
<1>1. /\ DOMAIN proc = Procs /\ DOMAIN proc[self] = ProcFields /\ proc[self].pc = "copy"
      /\ Placed(self) /\ Well(self) /\ UNCHANGED <<dir, node, scenario>> /\ proc[self].used \in Nat
      /\ proc[self].in \in Inodes /\ HasCell(self)
      /\ IsSeq(proc[self].buf) /\ IsSeq(proc[self].seen)
  BY DEF TypeInv, Well, Placed, FilePcs, CopyBlock, At, SeqsInv
<1> DEFINE x == IF Compressing(self) THEN <<"block", Cell(self)>> ELSE Cell(self)[2]
<1>2. Become(self, [used |-> proc[self].used + 1, buf |-> Append(proc[self].buf, x)])
  BY DEF CopyBlock
<1>3. Compressing(self) \/ Cell(self)[1] = "block"
  BY DEF CopyBlock
<1> HIDE DEF x
<1>4. /\ proc'[self].used = proc[self].used + 1 /\ proc'[self].buf = Append(proc[self].buf, x)
      /\ \A y \in ProcFields \ {"used", "buf"} : proc'[self][y] = proc[self][y]
  BY <1>1, <1>2 DEF Become, ++, ProcFields
<1>5. /\ Job(self)' = Job(self) /\ File(self)' = File(self) /\ Target(self)' = Target(self)
      /\ (ToStdout(self)' <=> ToStdout(self)) /\ (Compressing(self)' <=> Compressing(self))
  BY <1>4, SameJob DEF ProcFields
<1>6. /\ proc'[self].pc = "copy" /\ proc'[self].in = proc[self].in /\ proc'[self].tgt = proc[self].tgt
      /\ proc'[self].wpos = proc[self].wpos /\ proc'[self].seen = proc[self].seen
      /\ Input(self)' = Input(self) /\ Heading(self)' = Heading(self)
  BY <1>1, <1>4, SameHeading DEF ProcFields, Input
<1>7. CASE ToStdout(self)
  BY <1>1, <1>5, <1>6, <1>7 DEF InHand, Moving
<1>8. CASE ~ToStdout(self)
  <2>1. /\ proc[self].used <= Len(Input(self)) /\ Len(proc[self].seen) <= Len(Input(self))
        /\ \A k \in 1 .. Len(proc[self].seen) : proc[self].seen[k] = Input(self)[k]
        /\ IF Compressing(self) THEN PackedTo(Heading(self), Out(self), Input(self), proc[self].used)
           ELSE UnpackedTo(Out(self), Input(self), proc[self].used)
    BY <1>1, <1>8 DEF InHand, Moving
  <2>2. Len(Input(self)) \in Nat /\ Len(proc[self].seen) \in Nat
    BY <1>1, SeqFacts DEF SeqsInv, Input
  <2>3. proc[self].used + 1 <= Len(Input(self)) /\ Cell(self) = Input(self)[proc[self].used + 1]
    BY <1>1, <2>1, <2>2 DEF HasCell, Upcoming, Cell
  <2> DEFINE out == IF proc[self].tgt = None THEN <<>> ELSE node[proc[self].tgt].cells
  <2>4. IsSeq(out)
    <3>1. proc[self].tgt \in Inodes \cup {None}
      BY <1>1 DEF Well
    <3>2. IsSeq(<<>>)
      BY EmptySeq, SeqOf
    <3> QED BY <3>1, <3>2 DEF SeqsInv
  <2>5. Out(self) = out \o proc[self].buf /\ Out(self)' = out \o Append(proc[self].buf, x)
    BY <1>1, <1>4, <1>6 DEF Out
  <2> HIDE DEF out
  <2>6. IsSeq(Out(self)) /\ Out(self)' = Append(Out(self), x)
    BY <1>1, <2>4, <2>5, SeqConcat, OneAdded
  <2>7. IF Compressing(self) THEN PackedTo(Heading(self), Out(self)', Input(self), proc[self].used + 1)
        ELSE UnpackedTo(Out(self)', Input(self), proc[self].used + 1)
    <3>1. CASE Compressing(self)
      BY <1>1, <2>1, <2>3, <2>6, <3>1, PackedGrows DEF x
    <3>2. CASE ~Compressing(self)
      <4>1. Input(self)[proc[self].used + 1][1] = "block" /\ x = Input(self)[proc[self].used + 1][2]
        BY <1>3, <2>3, <3>2 DEF x
      <4>2. UnpackedTo(Out(self), Input(self), proc[self].used)
        BY <2>1, <3>2
      <4>3. UnpackedTo(Append(Out(self), Input(self)[proc[self].used + 1][2]), Input(self),
                       proc[self].used + 1)
        BY <1>1, <2>6, <4>1, <4>2, UnpackedGrows
      <4> QED BY <2>6, <3>2, <4>1, <4>3
    <3> QED BY <3>1, <3>2
  <2>8. (IF Compressing(self) THEN PackedTo(Heading(self), Out(self), Input(self), proc[self].used)
           ELSE UnpackedTo(Out(self), Input(self), proc[self].used))'
    BY <1>4, <1>5, <1>6, <2>7
  <2>9. (/\ proc[self].used <= Len(Input(self)) /\ Len(proc[self].seen) <= Len(Input(self))
         /\ \A k \in 1 .. Len(proc[self].seen) : proc[self].seen[k] = Input(self)[k])'
    BY <1>4, <1>6, <2>1, <2>3
  <2>10. dir'[File(self)'] = proc'[self].in
    BY <1>1, <1>5, <1>6 DEF InHand, Moving
  <2>11. (/\ proc[self].tgt # None => /\ proc[self].tgt # proc[self].in /\ dir[Target(self)] = proc[self].tgt
                                      /\ proc[self].wpos = Len(node[proc[self].tgt].cells)
          /\ proc[self].tgt = None => proc[self].wpos = 0)'
    BY <1>1, <1>5, <1>6, <1>8 DEF InHand, Moving
  <2> QED BY <1>6, <2>8, <2>9, <2>10, <2>11 DEF InHand
<1> QED BY <1>7, <1>8

LEMMA CopyEndInHand ==
    ASSUME TypeInv, SeqsInv, NEW self \in Procs, InHand(self), CopyEnd(self)
    PROVE  InHand(self)'
<1>1. /\ DOMAIN proc = Procs /\ DOMAIN proc[self] = ProcFields /\ proc[self].pc = "copy"
      /\ Placed(self) /\ Well(self) /\ UNCHANGED <<dir, node, scenario>> /\ proc[self].used \in Nat
      /\ proc[self].in \in Inodes
      /\ IsSeq(proc[self].buf) /\ IsSeq(proc[self].seen)
  BY DEF TypeInv, Well, Placed, FilePcs, CopyEnd, At, SeqsInv
<1>2. /\ proc'[self].pc = "flush" /\ \A y \in ProcFields \ {"pc", "buf"} : proc'[self][y] = proc[self][y]
      /\ \/ /\ Compressing(self) /\ ~HasCell(self)
            /\ proc'[self].buf = Append(proc[self].buf, <<"end">>)
         \/ /\ ~Compressing(self) /\ HasCell(self) /\ Cell(self)[1] = "end"
            /\ proc'[self].buf = proc[self].buf
  <2>1. ASSUME NEW b, Become(self, [pc |-> "flush", buf |-> b])
        PROVE  /\ proc'[self].pc = "flush" /\ proc'[self].buf = b
               /\ \A y \in ProcFields \ {"pc", "buf"} : proc'[self][y] = proc[self][y]
    BY <1>1, <2>1 DEF Become, ++, ProcFields
  <2>2. ASSUME Become(self, [pc |-> "flush"])
        PROVE  /\ proc'[self].pc = "flush" /\ proc'[self].buf = proc[self].buf
               /\ \A y \in ProcFields \ {"pc", "buf"} : proc'[self][y] = proc[self][y]
    BY <1>1, <2>2 DEF Become, ++, ProcFields
  <2> DEFINE e == Append(proc[self].buf, <<"end">>)
  <2>3. \/ Compressing(self) /\ ~HasCell(self) /\ Become(self, [pc |-> "flush", buf |-> e])
        \/ /\ ~Compressing(self) /\ HasCell(self) /\ Cell(self)[1] = "end"
           /\ Become(self, [pc |-> "flush"])
    BY DEF CopyEnd
  <2> HIDE DEF e
  <2>4. CASE Compressing(self) /\ ~HasCell(self) /\ Become(self, [pc |-> "flush", buf |-> e])
    BY <2>1, <2>4 DEF e
  <2>5. CASE /\ ~Compressing(self) /\ HasCell(self) /\ Cell(self)[1] = "end"
             /\ Become(self, [pc |-> "flush"])
    BY <2>2, <2>5
  <2> QED BY <2>3, <2>4, <2>5
<1>3. /\ Job(self)' = Job(self) /\ File(self)' = File(self) /\ Target(self)' = Target(self)
      /\ (ToStdout(self)' <=> ToStdout(self)) /\ (Compressing(self)' <=> Compressing(self))
  BY <1>2, SameJob DEF ProcFields
<1>4. /\ proc'[self].in = proc[self].in /\ proc'[self].tgt = proc[self].tgt
      /\ proc'[self].wpos = proc[self].wpos
      /\ Input(self)' = Input(self) /\ Heading(self)' = Heading(self)
  BY <1>1, <1>2, SameHeading DEF ProcFields, Input
<1>5. CASE ToStdout(self)
  BY <1>1, <1>2, <1>3, <1>4, <1>5 DEF InHand, Moving
<1>6. CASE ~ToStdout(self)
  <2>1. /\ proc[self].used <= Len(Input(self)) /\ Len(proc[self].seen) <= Len(Input(self))
        /\ \A k \in 1 .. Len(proc[self].seen) : proc[self].seen[k] = Input(self)[k]
        /\ IF Compressing(self) THEN PackedTo(Heading(self), Out(self), Input(self), proc[self].used)
           ELSE UnpackedTo(Out(self), Input(self), proc[self].used)
    BY <1>1, <1>6 DEF InHand, Moving
  <2>2. Len(Input(self)) \in Nat /\ Len(proc[self].seen) \in Nat
    BY <1>1, SeqFacts DEF SeqsInv, Input
  <2>3. /\ HasCell(self) => /\ proc[self].used + 1 <= Len(Input(self))
                            /\ Cell(self) = Input(self)[proc[self].used + 1]
        /\ ~HasCell(self) => proc[self].used = Len(Input(self))
    BY <1>1, <2>1, <2>2 DEF HasCell, Upcoming, Cell
  <2> DEFINE out == IF proc[self].tgt = None THEN <<>> ELSE node[proc[self].tgt].cells
  <2>4. IsSeq(out)
    <3>1. proc[self].tgt \in Inodes \cup {None}
      BY <1>1 DEF Well
    <3>2. IsSeq(<<>>)
      BY EmptySeq, SeqOf
    <3> QED BY <3>1, <3>2 DEF SeqsInv
  <2>5. Out(self) = out \o proc[self].buf /\ Out(self)' = out \o proc'[self].buf
    BY <1>1, <1>4 DEF Out
  <2> HIDE DEF out
  <2>6. IsSeq(Out(self))
    BY <1>1, <2>4, <2>5, SeqConcat
  <2>7. IF Compressing(self) THEN Packed(Heading(self), Out(self)', Input(self))
        ELSE Unpacked(Out(self)', Input(self))
    <3>1. CASE Compressing(self)
      <4>1. Out(self)' = Append(Out(self), <<"end">>)
        <5>1. proc'[self].buf = Append(proc[self].buf, <<"end">>)
          BY <1>2, <3>1
        <5>2. out \o Append(proc[self].buf, <<"end">>) = Append(out \o proc[self].buf, <<"end">>)
          BY <1>1, <2>4, OneAdded
        <5> QED BY <2>5, <5>1, <5>2
      <4>2. proc[self].used = Len(Input(self))
        BY <1>2, <2>3, <3>1
      <4> QED BY <1>1, <2>1, <2>6, <3>1, <4>1, <4>2, PackedGrows
    <3>2. CASE ~Compressing(self)
      <4>1. Out(self)' = Out(self)
        BY <1>2, <2>5, <3>2
      <4>2. /\ proc[self].used + 1 <= Len(Input(self))
            /\ Input(self)[proc[self].used + 1][1] = "end"
        BY <1>2, <2>3, <3>2
      <4> QED BY <1>1, <2>1, <2>2, <2>6, <3>2, <4>1, <4>2, UnpackedGrows
    <3> QED BY <3>1, <3>2
  <2>8. (IF Compressing(self) THEN Packed(Heading(self), Out(self), Input(self))
         ELSE Unpacked(Out(self), Input(self)))'
    BY <1>3, <1>4, <2>7
  <2>10. dir'[File(self)'] = proc'[self].in
    BY <1>1, <1>3, <1>4 DEF InHand, Moving
  <2>11. (/\ proc[self].tgt # None => /\ proc[self].tgt # proc[self].in /\ dir[Target(self)] = proc[self].tgt
                                      /\ proc[self].wpos = Len(node[proc[self].tgt].cells)
          /\ proc[self].tgt = None => proc[self].wpos = 0)'
    BY <1>1, <1>3, <1>4, <1>6 DEF InHand, Moving
  <2> QED BY <1>2, <2>8, <2>10, <2>11 DEF InHand
<1> QED BY <1>5, <1>6

LEMMA SpilledInHand ==
    ASSUME TypeInv, SeqsInv, NEW self \in Procs, InHand(self), UNCHANGED <<dir, scenario>>,
           NEW q, Spilled(self, [pc |-> q]), proc[self].pc \in {"copy", "flush"},
           \/ q = "copy" /\ proc[self].pc = "copy"
           \/ q = "mode" /\ proc[self].pc = "flush" /\ ~ToStdout(self)
    PROVE  InHand(self)'
<1>1. /\ Placed(self) /\ Well(self) /\ proc[self].in \in Inodes
      /\ IsSeq(proc[self].buf) /\ IsSeq(proc[self].seen) /\ proc[self].wpos \in Nat
  BY DEF TypeInv, Placed, Well, FilePcs, SeqsInv
<1>2. /\ proc'[self].pc = q /\ proc'[self].buf = <<>>
      /\ proc'[self].wpos = proc[self].wpos + Len(proc[self].buf)
      /\ \A x \in ProcFields \ {"pc", "buf", "wpos", "stdout"} : proc'[self][x] = proc[self][x]
  BY SpilledFields
<1>3. /\ Job(self)' = Job(self) /\ File(self)' = File(self) /\ Target(self)' = Target(self)
      /\ (ToStdout(self)' <=> ToStdout(self)) /\ (Compressing(self)' <=> Compressing(self))
  BY <1>2, SameJob DEF ProcFields
<1>4. /\ proc'[self].in = proc[self].in /\ proc'[self].tgt = proc[self].tgt
      /\ proc'[self].used = proc[self].used /\ proc'[self].seen = proc[self].seen
      /\ Heading(self)' = Heading(self)
  BY <1>2, SameHeading DEF ProcFields
<1>5. dir'[File(self)'] = proc'[self].in
  BY <1>1, <1>3, <1>4 DEF InHand, Moving
<1>6. CASE ToStdout(self)
  BY <1>2, <1>3, <1>5, <1>6 DEF InHand, Moving
<1>7. CASE ~ToStdout(self)
  <2>1. PICK t \in Inodes : t = proc[self].tgt
    BY <1>1, <1>7 DEF Placed, Well
  <2>2. t # None /\ t # proc[self].in /\ dir[Target(self)] = t /\ proc[self].wpos = Len(node[t].cells)
    BY <1>7, <2>1, ToolAssumption DEF InHand, Moving
  <2>3. /\ node'[t].cells = Written(node[t].cells, proc[self].wpos, proc[self].buf)
        /\ \A j \in Inodes \ {t} : node'[j] = node[j]
    BY <2>1, <2>2, SpilledFiles
  <2>4. IsSeq(node[t].cells)
    BY DEF SeqsInv
  <2>5. /\ node'[t].cells = node[t].cells \o proc[self].buf /\ IsSeq(node'[t].cells)
        /\ Len(node'[t].cells) = Len(node[t].cells) + Len(proc[self].buf)
    <3>1. node'[t].cells = node[t].cells \o proc[self].buf
      BY <1>1, <2>2, <2>3, <2>4, WrittenFacts
    <3> QED BY <1>1, <2>4, <3>1, SeqConcat
  <2>6. Input(self)' = Input(self)
    BY <1>1, <1>4, <2>2, <2>3 DEF Input
  <2>7. Out(self)' = Out(self)
    <3>1. Out(self)' = node'[t].cells \o <<>> /\ Out(self) = node[t].cells \o proc[self].buf
      BY <1>2, <1>4, <2>1, <2>2 DEF Out
    <3>2. node'[t].cells \o <<>> = node'[t].cells
      BY <2>5, NothingAdded
    <3> QED BY <2>5, <3>1, <3>2
  <2>8. (/\ proc[self].tgt # None => /\ proc[self].tgt # proc[self].in /\ dir[Target(self)] = proc[self].tgt
                                     /\ proc[self].wpos = Len(node[proc[self].tgt].cells)
         /\ proc[self].tgt = None => proc[self].wpos = 0)'
    BY <1>2, <1>3, <1>4, <2>1, <2>2, <2>5
  <2>9. CASE q = "copy"
    <3>1. (/\ proc[self].used <= Len(Input(self)) /\ Len(proc[self].seen) <= Len(Input(self))
           /\ \A k \in 1 .. Len(proc[self].seen) : proc[self].seen[k] = Input(self)[k]
           /\ IF Compressing(self) THEN PackedTo(Heading(self), Out(self), Input(self), proc[self].used)
              ELSE UnpackedTo(Out(self), Input(self), proc[self].used))'
      BY <1>3, <1>4, <1>7, <2>6, <2>7, <2>9 DEF InHand, Moving
    <3> QED BY <1>2, <1>5, <2>8, <2>9, <3>1 DEF InHand
  <2>10. CASE q = "mode"
    <3>1. (IF Compressing(self) THEN Packed(Heading(self), Out(self), Input(self))
           ELSE Unpacked(Out(self), Input(self)))'
      BY <1>3, <1>4, <1>7, <2>6, <2>7, <2>10 DEF InHand, Moving
    <3> QED BY <1>2, <1>5, <2>8, <2>10, <3>1 DEF InHand
  <2> QED BY <2>9, <2>10
<1> QED BY <1>6, <1>7

LEMMA InHandStays ==
    ASSUME ToolInv, SeqsInv, Alone, Unforced, NEW self \in Procs, Step(self) \/ Killed(self), InHand(self)
    PROVE  \A p \in Procs : InHand(p)'
<1>1. TypeInv /\ TypeInv' /\ Placed(self) /\ Well(self)
  <2>1. [Next]_vars /\ TypeInv
    BY DEF Next, ToolInv
  <2> QED BY <2>1, TypesStay DEF TypeInv
<1>2. ASSUME NEW p \in Procs \ {self}
      PROVE  InHand(p)'
  <2>1. proc[p].jobs = <<>>
    BY <1>1, ActorHasJobs DEF Alone
  <2>2. proc[p].pc = "idle"
    <3>1. Len(proc[p].results) \in Nat /\ Len(<<>>) = 0
      BY <1>1, EmptySeq DEF TypeInv, Well
    <3> QED BY <1>1, <2>1, <3>1 DEF TypeInv, Placed, At
  <2>3. proc'[p] = proc[p]
    BY <1>1, OthersUnchanged
  <2> QED BY <2>2, <2>3 DEF InHand, Moving
<1>3. InHand(self)'
  <2>1. CASE \/ Run(self) \/ Filter(self) \/ Report(self) \/ EachFile(self) \/ Stat(self)
             \/ CopyFails(self) \/ Remove(self) \/ CallFails(self)
             \/ RawRead(self) \/ RawCreate(self) \/ RawWrite(self) \/ RawFails(self) \/ Killed(self)
    <3>1. proc'[self].pc \notin {"header"} \cup Moving
      BY <1>1, <2>1, PlaceAfter
    <3> QED BY <3>1 DEF InHand
  <2>2. CASE Open(self) \/ ReadHeader(self) \/ CopyBlock(self) \/ CopyEnd(self) \/ Create(self)
    BY <1>1, <2>2, OpenInHand, ReadHeaderInHand, CopyBlockInHand, CopyEndInHand, CreateInHand
  <2>3. CASE Check(self)
    <3>1. NextFile(self, TRUE) \/ Become(self, [pc |-> "create"])
      BY <2>3 DEF Check
    <3>2. DOMAIN proc = Procs /\ DOMAIN proc[self] = ProcFields /\ proc[self].pc = "check"
          /\ UNCHANGED <<dir, node>>
      BY <1>1, <2>3 DEF TypeInv, Well, Check, At
    <3>3. CASE NextFile(self, TRUE)
      BY <3>2, <3>3, NextFileFields DEF Advances, InHand, Moving
    <3>4. CASE Become(self, [pc |-> "create"])
      <4>1. proc'[self].pc = "create" /\ \A x \in ProcFields \ {"pc"} : proc'[self][x] = proc[self][x]
        BY <3>2, <3>4 DEF Become, ++, ProcFields
      <4> QED BY <1>1, <3>2, <4>1, GoesOn
    <3> QED BY <3>1, <3>3, <3>4
  <2>4. CASE Restore(self)
    <3>1. /\ proc'[self].pc \in {"mtime", "remove"} /\ proc[self].pc \in {"mode", "mtime"}
          /\ \A x \in ProcFields \ {"pc"} : proc'[self][x] = proc[self][x]
          /\ dir' = dir /\ \A i \in Inodes : node'[i].cells = node[i].cells
      BY <1>1, <2>4, RestoreFields, RestoreFiles
    <3> QED BY <1>1, <3>1, GoesOn
  <2>5. CASE Spill(self)
    BY <1>1, <2>5, SpilledInHand DEF Spill, At
  <2>6. CASE Flush(self)
    <3>1. proc[self].pc = "flush" /\ Spilled(self, Flushed(self)) /\ UNCHANGED <<dir, scenario>>
      BY <2>6 DEF Flush, At
    <3>2. CASE proc[self].tgt = None
      <4>1. Advances(self)
        BY <1>1, <3>1, <3>2, FlushedFields DEF Flushed
      <4> QED BY <4>1 DEF Advances, InHand, Moving
    <3>3. CASE proc[self].tgt # None
      <4>1. ~ToStdout(self)
        BY <1>1, <3>1, <3>3 DEF Placed
      <4> QED BY <1>1, <3>1, <3>3, <4>1, SpilledInHand DEF Flushed
    <3> QED BY <3>2, <3>3
  <2> QED BY <2>1, <2>2, <2>3, <2>4, <2>5, <2>6 DEF Step
<1> QED BY <1>2, <1>3
-----------------------------------------------------------------------------
\* What holds of the files after a step that disturbs none of the loose ones, and
\* adds to them only what a clean-up left.
LEMMA NothingDisturbed ==
    ASSUME NEW K, FilesStand(K), scenario' = scenario,
           \A n \in Names : /\ Loose(n) => Loose(n)' /\ Cells(n)' = Cells(n)
                            /\ Loose(n)' => Loose(n) \/ CleanUpFails
    PROVE  FilesStand(K)'
<1>1. \A n \in Names, m \in DOMAIN initial : Loose(n) => (Stands(n, m)' <=> Stands(n, m))
  <2> SUFFICES ASSUME NEW n \in Names, NEW m \in DOMAIN initial, Loose(n)
               PROVE  Stands(n, m)' <=> Stands(n, m)
    OBVIOUS
  <2>1. Cells(n)' = Cells(n) /\ initial' = initial
    BY DEF initial
  <2> QED BY <2>1 DEF Stands, Plain, IsArchive
<1>2. DOMAIN initial' = DOMAIN initial
  BY DEF initial
<1>3. \A n \in Names : Loose(n) => (Tidy(Cells(n), n \in K)' <=> Tidy(Cells(n), n \in K))
  <2> SUFFICES ASSUME NEW n \in Names, Loose(n)
               PROVE  Tidy(Cells(n), n \in K)' <=> Tidy(Cells(n), n \in K)
    OBVIOUS
  <2>1. Cells(n)' = Cells(n)
    OBVIOUS
  <2> QED BY <2>1 DEF Tidy, Ended, Plain, IsArchive
<1>4. CleanUpFails' <=> CleanUpFails
  BY DEF CleanUpFails
<1> QED BY <1>1, <1>2, <1>3, <1>4 DEF FilesStand

\* A process that works alone is the only one that writes.
LEMMA OnlyWriter ==
    ASSUME TypeInv, Alone, NEW self \in Procs, Step(self) \/ Killed(self)
    PROVE  \A n : /\ Loose(n) <=> (Exists(n) /\ proc[self].tgt # dir[n])
                  /\ Loose(n)' <=> (Exists(n)' /\ proc'[self].tgt # dir'[n])
<1>1. ASSUME NEW p \in Procs \ {self}
      PROVE  proc[p].tgt = None /\ proc'[p].tgt = None
  <2>1. proc[p].jobs = <<>>
    BY ActorHasJobs DEF Alone
  <2>2. proc[p].pc = "idle"
    <3>1. Len(proc[p].results) \in Nat /\ Len(<<>>) = 0
      BY EmptySeq DEF TypeInv, Well
    <3> QED BY <2>1, <3>1 DEF TypeInv, Placed, At
  <2>3. proc'[p] = proc[p]
    BY OthersUnchanged
  <2> QED BY <2>2, <2>3 DEF TypeInv, Placed
<1> QED BY <1>1 DEF Loose, Exists

\* Its steps that do not make or remove a file leave it the same file to write.
LEMMA SameTarget ==
    ASSUME TypeInv, NEW self \in Procs, Step(self) \/ Killed(self),
           proc[self].pc \notin {"rawcreate", "rawwrite"}, ~Remove(self), ~CopyFails(self),
           At(self, "create") => ~\E i \in Inodes :
              Truncate(Target(self), i) /\ Become(self, [pc |-> "copy", tgt |-> i])
    PROVE  proc'[self].tgt = proc[self].tgt
<1>1. DOMAIN proc = Procs /\ DOMAIN proc[self] = ProcFields /\ Placed(self) /\ Well(self)
  BY DEF TypeInv, Well
<1>2. CASE proc[self].tgt = None
  <2>1. ASSUME At(self, "create")
        PROVE  proc'[self].tgt = None
    <3>1. Create(self) \/ CallFails(self) \/ Killed(self)
      BY <2>1 DEF At, Step, Run, Filter, Report, EachFile, Stat, Open, ReadHeader, Check, CopyBlock,
              CopyEnd, Spill, Flush, CopyFails, Bad, Restore, Remove, RawRead, RawCreate,
              RawWrite, RawFails
    <3>2. Create(self) => NextFile(self, TRUE)
      BY <2>1 DEF Create
    <3>3. CallFails(self) => NextFile(self, TRUE)
      BY DEF CallFails
    <3> QED BY <1>1, <1>2, <3>1, <3>2, <3>3, NextFileFields, KilledFields DEF Advances, ProcFields
  <2> QED BY <1>2, <2>1, TargetChanges DEF At
<1>3. CASE proc[self].tgt # None
  <2>1. proc[self].pc \in {"copy", "flush", "mode", "mtime", "remove", "dead"}
    BY <1>1, <1>3 DEF Placed
  <2>2. CopyBlock(self) \/ CopyEnd(self) \/ Spill(self) \/ Flush(self) \/ Restore(self) \/ Killed(self)
    BY <2>1 DEF At, Step, Run, Filter, Report, EachFile, Stat, Open, ReadHeader, Check, Create,
            CallFails, RawRead, RawCreate, RawWrite, RawFails
  <2>3. CASE CopyBlock(self) \/ CopyEnd(self)
    BY <1>1, <2>3 DEF CopyBlock, CopyEnd, Become, ++, ProcFields
  <2>4. CASE Spill(self) \/ Flush(self)
    BY <1>3, <2>4, SpilledFields DEF Spill, Flush, Flushed, ProcFields
  <2>5. CASE Restore(self) \/ Killed(self)
    BY <2>5, RestoreFields, KilledFields DEF ProcFields
  <2> QED BY <2>2, <2>3, <2>4, <2>5
<1> QED BY <1>2, <1>3

\* A file that is whole, made of another one that is there, stands for what
\* that one stands for.
LEMMA MadeFile ==
    ASSUME TypeInv, SeqsInv, NEW self \in Procs, InHand(self), proc[self].pc = "remove",
           NEW K \in SUBSET Names, TidyFor(K), Tidy(Cells(File(self)), File(self) \in K)
    PROVE  /\ Plain(Cells(Target(self))) = Plain(Cells(File(self)))
           /\ Tidy(Cells(Target(self)), Target(self) \in K)
<1>1. /\ Well(self) /\ Placed(self) /\ FilesInv /\ ~ToStdout(self) /\ proc[self].tgt # None
      /\ proc[self].in \in Inodes /\ proc[self].tgt \in Inodes /\ File(self) \in Names
  BY FileIsName DEF TypeInv, Placed, Well, FilePcs
<1>2. /\ dir[File(self)] = proc[self].in /\ dir[Target(self)] = proc[self].tgt
      /\ proc[self].buf = <<>>
      /\ IF Compressing(self) THEN Packed(Heading(self), Out(self), Input(self))
         ELSE Unpacked(Out(self), Input(self))
  BY <1>1 DEF InHand, Moving
<1>3. PICK a : a = Cells(Target(self))
  OBVIOUS
<1>4. PICK c : c = Cells(File(self))
  OBVIOUS
<1>5. IsSeq(a) /\ IsSeq(c) /\ Out(self) = a /\ Input(self) = c
  <2>1. IsSeq(node[proc[self].tgt].cells) /\ IsSeq(node[proc[self].in].cells)
    BY <1>1 DEF SeqsInv
  <2>2. Out(self) = node[proc[self].tgt].cells
    BY <1>1, <1>2, <2>1, NothingAdded DEF Out
  <2> QED BY <1>2, <1>3, <1>4, <2>1, <2>2 DEF Cells, Input
<1>6. (File(self) \in K <=> ~Compressing(self)) /\ (Target(self) \in K <=> Compressing(self))
  <2>1. /\ (File(self) \in K <=> Job(self).op = "decompress")
        /\ (Target(self) \in K <=> Job(self).op = "compress")
    <3>1. PICK j \in 1 .. Len(Job(self).files) : File(self) = Job(self).files[j]
      BY <1>1, FileIsName DEF FilePcs
    <3>2. Job(self) \in Commands
      <4>1. Len(proc[self].results) < Len(proc[self].jobs)
        BY <1>1 DEF Placed, At
      <4> QED BY <1>1, <4>1, JobIsLine DEF Commands, Job
    <3>3. Converts(Job(self), j)
      <4>1. FileJob(Job(self)) /\ (Compressing(self) \/ Job(self).output # None \/ Job(self).stdout
                                   \/ Suffixed(File(self)))
        BY <1>1 DEF Placed, FilePcs
      <4> QED BY <1>1, <3>1, <4>1 DEF Converts, ToStdout, Compressing
    <3>4. Target(self) = TargetOf(Job(self), Job(self).files[j])
      BY <3>1 DEF Target
    <3> QED BY <3>1, <3>2, <3>3, <3>4 DEF TidyFor
  <2>2. Job(self).op \in {"compress", "decompress"}
    BY <1>1 DEF Placed, FilePcs, FileJob
  <2> QED BY <2>1, <2>2 DEF Compressing
<1>7. Tidy(c, File(self) \in K)
  BY <1>4
<1>8. CASE Compressing(self)
  <2>1. ~IsArchive(c)
    BY <1>6, <1>7, <1>8 DEF Tidy
  <2>2. Plain(a) = Plain(c) /\ Tidy(a, TRUE)
    BY <1>2, <1>5, <1>8, <2>1, ArchiveOfPacked DEF Heading
  <2>3. (Target(self) \in K) = TRUE
    BY <1>6, <1>8
  <2> QED BY <1>3, <1>4, <2>2, <2>3
<1>9. CASE ~Compressing(self)
  <2>1. Tidy(c, TRUE)
    <3>1. (File(self) \in K) = TRUE
      BY <1>6, <1>9
    <3> QED BY <1>7, <3>1
  <2>2. Plain(a) = Plain(c) /\ Tidy(a, FALSE)
    BY <1>2, <1>5, <1>9, <2>1, PlainOfUnpacked
  <2>3. (Target(self) \in K) = FALSE
    BY <1>6, <1>9
  <2> QED BY <1>3, <1>4, <2>2, <2>3
<1> QED BY <1>8, <1>9

LEMMA FilesStandStay ==
    ASSUME ToolInv, SeqsInv, Alone, Unforced, NEW self \in Procs, Step(self) \/ Killed(self),
           InHand(self), NEW K \in SUBSET Names, TidyFor(K), FilesStand(K)
    PROVE  FilesStand(K)'
<1>1. /\ TypeInv /\ TypeInv' /\ Placed(self) /\ Well(self) /\ FilesInv /\ scenario' = scenario
      /\ FilesInv' /\ Distinct
  <2>1. [Next]_vars /\ TypeInv /\ Distinct
    BY DEF Next, ToolInv
  <2> QED BY <2>1, TypesStay, JobsStay DEF TypeInv
<1>2. proc[self].pc \notin {"rawcreate", "rawwrite"}
      /\ (At(self, "create") => Target(self) \in Names /\ ~Exists(Target(self)))
  BY OnlyNewFiles
<1>3. \A n : /\ Loose(n) <=> (Exists(n) /\ proc[self].tgt # dir[n])
             /\ Loose(n)' <=> (Exists(n)' /\ proc'[self].tgt # dir'[n])
  BY <1>1, OnlyWriter
<1>4. CASE Remove(self)
  <2>1. /\ proc[self].pc = "remove" /\ node' = node /\ proc'[self].tgt = None
        /\ dir' = dir \/ dir' = [dir EXCEPT ![File(self)] = None]
    <3>1. proc'[self].tgt = None
      BY <1>1, <1>4, RemoveTypes DEF Advances
    <3> QED BY <1>4, <3>1 DEF Remove, At
  <2>2. /\ ~ToStdout(self) /\ proc[self].tgt \in Inodes /\ proc[self].in \in Inodes
        /\ File(self) \in Names /\ Target(self) \in Names
    BY <1>1, <2>1, FileIsName, TargetIsName DEF Placed, Well, FilePcs
  <2>3. /\ dir[File(self)] = proc[self].in /\ dir[Target(self)] = proc[self].tgt
        /\ proc[self].tgt # proc[self].in
    BY <2>1, <2>2, ToolAssumption DEF InHand, Moving
  <2>4. Loose(File(self)) /\ ~Loose(Target(self)) /\ File(self) # Target(self)
    BY <1>3, <2>2, <2>3, ToolAssumption DEF Exists
  <2>5. Tidy(Cells(File(self)), File(self) \in K) =>
          /\ Plain(Cells(Target(self))) = Plain(Cells(File(self)))
          /\ Tidy(Cells(Target(self)), Target(self) \in K)
    BY <1>1, <2>1, MadeFile
  <2> DEFINE There(n) == Loose(n) \/ n = Target(self)
  <2>6. \A n \in Names : Loose(n)' => There(n) /\ dir'[n] = dir[n]
    <3> SUFFICES ASSUME NEW n \in Names, Loose(n)'
                 PROVE  There(n) /\ dir'[n] = dir[n]
      OBVIOUS
    <3>1. dir'[n] = dir[n] /\ Exists(n)
      BY <1>1, <1>3, <2>1 DEF Exists, FilesInv
    <3>2. dir[n] = proc[self].tgt => n = Target(self)
      BY <1>1, <2>2, <2>3, <3>1 DEF Distinct
    <3> QED BY <1>3, <3>1, <3>2
  <2>7. \A n \in Names : There(n) /\ n # File(self) => Loose(n)' /\ dir'[n] = dir[n]
    <3> SUFFICES ASSUME NEW n \in Names, There(n), n # File(self)
                 PROVE  Loose(n)' /\ dir'[n] = dir[n]
      OBVIOUS
    <3>1. dir'[n] = dir[n]
      BY <1>1, <2>1 DEF FilesInv
    <3>2. Exists(n)
      BY <1>3, <2>2, <2>3, ToolAssumption DEF Exists
    <3> QED BY <1>3, <2>1, <3>1, <3>2 DEF Exists
  <2>8. \A n : dir'[n] = dir[n] => Cells(n)' = Cells(n)
    BY <2>1 DEF Cells
  <2>9. initial' = initial
    BY <1>1 DEF initial
  <2>10. \A n \in Names, m \in DOMAIN initial :
            dir'[n] = dir[n] => (Stands(n, m)' <=> Stands(n, m))
    <3> SUFFICES ASSUME NEW n \in Names, NEW m \in DOMAIN initial, dir'[n] = dir[n]
                 PROVE  Stands(n, m)' <=> Stands(n, m)
      OBVIOUS
    <3>1. Cells(n)' = Cells(n)
      BY <2>8
    <3> QED BY <2>9, <3>1 DEF Stands, Plain, IsArchive
  <2>11. ASSUME NEW n \in Names, dir'[n] = dir[n], Tidy(Cells(n), n \in K)
         PROVE  Tidy(Cells(n), n \in K)'
    <3>1. Cells(n)' = Cells(n)
      BY <2>8, <2>11
    <3> QED BY <2>11, <3>1
  <2>12. ASSUME Tidy(Cells(File(self)), File(self) \in K), NEW m
         PROVE  Stands(File(self), m) <=> Stands(Target(self), m)
    BY <2>5, <2>12 DEF Stands
  <2>13. \A m \in DOMAIN initial' :
            \E n \in Names : Loose(n)' /\ Tidy(Cells(n), n \in K)' /\ Stands(n, m)'
    <3> SUFFICES ASSUME NEW m \in DOMAIN initial
                 PROVE  \E n \in Names : Loose(n)' /\ Tidy(Cells(n), n \in K)' /\ Stands(n, m)'
      BY <2>9
    <3>1. PICK n \in Names : Loose(n) /\ Tidy(Cells(n), n \in K) /\ Stands(n, m)
      BY DEF FilesStand
    <3>2. PICK k \in Names : There(k) /\ k # File(self) /\ Tidy(Cells(k), k \in K) /\ Stands(k, m)
      <4>1. CASE n = File(self)
        BY <2>2, <2>4, <2>5, <2>12, <3>1, <4>1
      <4> QED BY <3>1, <4>1
    <3> QED BY <2>7, <2>10, <2>11, <3>2
  <2>14. ASSUME ~CleanUpFails, NEW n \in Names, Loose(n)'
         PROVE  Tidy(Cells(n), n \in K)' /\ \E m \in DOMAIN initial' : Stands(n, m)'
    <3>1. There(n) /\ dir'[n] = dir[n]
      BY <2>6, <2>14
    <3>2. /\ Tidy(Cells(File(self)), File(self) \in K)
          /\ \E m \in DOMAIN initial : Stands(File(self), m)
      BY <2>2, <2>4, <2>14 DEF FilesStand
    <3>3. Tidy(Cells(n), n \in K) /\ \E m \in DOMAIN initial : Stands(n, m)
      <4>1. CASE n = Target(self)
        BY <2>5, <2>12, <3>2, <4>1
      <4>2. CASE Loose(n)
        BY <2>14, <4>2 DEF FilesStand
      <4> QED BY <3>1, <4>1, <4>2
    <3> QED BY <2>9, <2>10, <2>11, <3>1, <3>3
  <2>15. CleanUpFails' <=> CleanUpFails
    BY <1>1 DEF CleanUpFails
  <2> QED BY <2>13, <2>14, <2>15 DEF FilesStand
<1>5. CASE CopyFails(self)
  <2>1. /\ proc'[self].tgt = None /\ node' = node /\ proc[self].pc \in {"copy", "flush"}
        /\ IF proc[self].tgt = None THEN dir' = dir
           ELSE dir' = [dir EXCEPT ![Target(self)] = None] \/ (CleanUpFails /\ dir' = dir)
    BY <1>1, <1>5, CopyFailsTypes DEF CopyFails, Advances
  <2>2. ASSUME NEW n \in Names
        PROVE  /\ Loose(n) => Loose(n)' /\ Cells(n)' = Cells(n)
               /\ Loose(n)' => Loose(n) \/ CleanUpFails
    <3>1. CASE proc[self].tgt = None
      BY <1>3, <2>1, <3>1 DEF Exists, Cells
    <3>2. CASE proc[self].tgt # None /\ CleanUpFails /\ dir' = dir
      BY <1>3, <2>1, <3>2, ToolAssumption DEF Exists, Cells
    <3>3. CASE proc[self].tgt # None /\ dir' = [dir EXCEPT ![Target(self)] = None]
      <4>1. ~ToStdout(self) /\ dir[Target(self)] = proc[self].tgt /\ Target(self) \in Names
        BY <1>1, <2>1, <3>3, TargetIsName DEF Placed, InHand, Moving, FilePcs
      <4>2. dir'[Target(self)] = None /\ (n # Target(self) => dir'[n] = dir[n])
        BY <1>1, <3>3, <4>1 DEF FilesInv
      <4>3. n # Target(self) => dir[n] # proc[self].tgt
        BY <1>1, <3>3, <4>1 DEF Distinct, Exists
      <4> QED BY <1>3, <2>1, <3>3, <4>1, <4>2, <4>3 DEF Exists, Cells
    <3> QED BY <2>1, <3>1, <3>2, <3>3
  <2> QED BY <1>1, <2>2, NothingDisturbed
<1>6. ASSUME NEW i \in Inodes, Truncate(Target(self), i), Become(self, [pc |-> "copy", tgt |-> i]),
             At(self, "create")
      PROVE  FilesStand(K)'
  <2>1. /\ dir'[Target(self)] = i /\ \A n \in Names \ {Target(self)} : dir'[n] = dir[n]
        /\ \A j \in Inodes \ {i} : node'[j] = node[j]
        /\ \A n \in Names : dir[n] # i
        /\ proc[self].tgt = None
    BY <1>1, <1>2, <1>6, CreateFacts DEF At
  <2>2. proc'[self].tgt = i
    BY <1>1, <1>6 DEF TypeInv, Well, Become, ++, ProcFields
  <2>3. ASSUME NEW n \in Names
        PROVE  (Loose(n)' <=> Loose(n)) /\ (Loose(n) => Cells(n)' = Cells(n))
    <3>1. CASE n = Target(self)
      BY <1>2, <1>3, <1>6, <2>1, <2>2, <3>1
    <3>2. CASE n # Target(self)
      <4>1. dir'[n] = dir[n] /\ dir[n] # i
        BY <2>1, <3>2
      <4>2. Exists(n) => dir[n] \in Inodes \ {i}
        BY <1>1, <4>1 DEF Exists, FilesInv
      <4> QED BY <1>3, <2>1, <2>2, <4>1, <4>2 DEF Exists, Cells
    <3> QED BY <3>1, <3>2
  <2> QED BY <1>1, <2>3, NothingDisturbed
<1>7. CASE /\ ~Remove(self) /\ ~CopyFails(self)
           /\ At(self, "create") => ~\E i \in Inodes :
                 Truncate(Target(self), i) /\ Become(self, [pc |-> "copy", tgt |-> i])
  <2>1. proc'[self].tgt = proc[self].tgt
    BY <1>1, <1>2, <1>7, SameTarget
  <2>2. dir' = dir
    BY <1>2, <1>7 DEF At, Create, RawCreate, Step, Killed, Run, Filter, Report, EachFile, Stat, Open,
            ReadHeader, Check, CopyBlock, CopyEnd, Spill, Flush, Restore, CallFails, RawRead,
            RawWrite, RawFails
  <2>3. \A j \in Inodes : proc[self].tgt # j => node'[j].cells = node[j].cells
    BY <1>1, <1>2, <1>7, CellsChange DEF At
  <2>4. ASSUME NEW n \in Names
        PROVE  (Loose(n)' <=> Loose(n)) /\ (Loose(n) => Cells(n)' = Cells(n))
    <3>1. Exists(n) => dir[n] \in Inodes
      BY <1>1 DEF Exists, FilesInv
    <3> QED BY <1>3, <2>1, <2>2, <2>3, <3>1 DEF Exists, Cells
  <2> QED BY <1>1, <2>4, NothingDisturbed
<1> QED BY <1>4, <1>5, <1>6, <1>7

LEMMA InitContents ==
    ASSUME Init
    PROVE  ContentsInv
<1>1. TypeInv /\ \A p \in Procs : proc[p].pc = "idle" /\ proc[p].tgt = None
  BY InitTypes, InitFields
<1>2. /\ DOMAIN initial \subseteq Names /\ DOMAIN initial \subseteq Inodes
      /\ \A n \in DOMAIN initial : IsSeq(initial[n].cells) /\ n # None
  BY <1>1, ToolAssumption DEF TypeInv, FilesInv, initial
<1>3. SeqsInv
  <2>1. IsSeq(<<>>)
    BY EmptySeq, SeqOf
  <2>2. \A i \in Inodes : IsSeq(node[i].cells)
    BY <1>2, <2>1 DEF Init, NewFile
  <2> QED BY <1>1, <2>2 DEF SeqsInv, FilePcs
<1>4. \A p \in Procs : InHand(p)
  BY <1>1 DEF InHand, Moving
<1>5. ASSUME NEW K \in SUBSET Names, TidyFor(K)
      PROVE  FilesStand(K)
  <2>1. \A n \in Names : Loose(n) <=> n \in DOMAIN initial
    BY <1>1, <1>2 DEF Init, Loose, Exists
  <2>2. \A n \in DOMAIN initial : n \in Names /\ Cells(n) = initial[n].cells
    BY <1>2 DEF Init, Cells
  <2>3. \A n \in DOMAIN initial : Tidy(Cells(n), n \in K) /\ Stands(n, n)
    BY <1>5, <2>2 DEF TidyFor, Stands
  <2> QED BY <2>1, <2>2, <2>3 DEF FilesStand
<1> QED BY <1>3, <1>4, <1>5 DEF ContentsInv

LEMMA ContentsStay ==
    ASSUME ToolInv, ContentsInv, [Next]_vars
    PROVE  ContentsInv'
<1>1. /\ TypeInv /\ scenario' = scenario /\ \A p \in Procs : proc'[p].jobs = proc[p].jobs
      /\ (Alone' <=> Alone) /\ Commands' = Commands
  BY JobsStay DEF ToolInv
<1>2. Unforced' <=> Unforced
  <2>1. \A n : Given(n)' <=> \E job \in Commands' : (job.force \/ job.raw) /\ n \in Targets(job)
    BY DEF Given
  <2>2. \A n : Given(n)' <=> Given(n)
    BY <1>1, <2>1 DEF Given
  <2> QED BY <2>2 DEF Unforced
<1>3. \A K : TidyFor(K)' <=> TidyFor(K)
  <2>1. initial' = initial
    BY <1>1 DEF initial
  <2>2. \A K : TidyFor(K)' <=>
           /\ \A n \in DOMAIN initial' : Tidy(initial'[n].cells, n \in K)
           /\ \A job \in Commands' : \A k \in 1 .. Len(job.files) :
                 Converts(job, k) => /\ job.files[k] \in K <=> job.op = "decompress"
                                     /\ TargetOf(job, job.files[k]) \in K <=> job.op = "compress"
    BY DEF TidyFor, Tidy, Ended, Plain, IsArchive
  <2> QED BY <1>1, <2>1, <2>2 DEF TidyFor
<1> SUFFICES ASSUME Alone, Unforced
             PROVE  /\ SeqsInv'
                    /\ \A p \in Procs : InHand(p)'
                    /\ \A K \in SUBSET Names : TidyFor(K) => FilesStand(K)'
  BY <1>1, <1>2, <1>3 DEF ContentsInv
<1>4. SeqsInv /\ (\A p \in Procs : InHand(p))
      /\ \A K \in SUBSET Names : TidyFor(K) => FilesStand(K)
  BY DEF ContentsInv
<1>5. CASE UNCHANGED vars
  <2>1. SeqsInv'
    BY <1>4, <1>5 DEF vars, SeqsInv
  <2>2. ASSUME NEW p \in Procs
        PROVE  InHand(p)'
    <3>1. /\ Job(p)' = Job(p) /\ File(p)' = File(p) /\ Target(p)' = Target(p)
          /\ (ToStdout(p)' <=> ToStdout(p)) /\ (Compressing(p)' <=> Compressing(p))
      BY <1>5 DEF vars, Job, File, Target, ToStdout, Compressing
    <3>2. /\ Input(p)' = Input(p) /\ Out(p)' = Out(p) /\ Heading(p)' = Heading(p)
          /\ proc' = proc /\ dir' = dir /\ node' = node
      BY <1>5 DEF vars, Input, Out, Heading
    <3>3. InHand(p)
      BY <1>4
    <3> QED BY <3>1, <3>2, <3>3 DEF InHand
  <2>3. ASSUME NEW K \in SUBSET Names, TidyFor(K)
        PROVE  FilesStand(K)'
    <3>1. FilesStand(K)
      BY <1>4, <2>3
    <3>2. ASSUME NEW n \in Names
          PROVE  (Loose(n)' <=> Loose(n)) /\ (Loose(n) => Cells(n)' = Cells(n))
      BY <1>5 DEF vars, Loose, Exists, Cells
    <3> QED BY <1>1, <3>1, <3>2, NothingDisturbed
  <2> QED BY <2>1, <2>2, <2>3
<1>6. ASSUME NEW self \in Procs, Step(self) \/ Killed(self)
      PROVE  /\ SeqsInv'
             /\ \A p \in Procs : InHand(p)'
             /\ \A K \in SUBSET Names : TidyFor(K) => FilesStand(K)'
  <2>1. SeqsInv'
    BY <1>4, <1>6, SeqsStay
  <2>2. \A p \in Procs : InHand(p)'
    BY <1>4, <1>6, InHandStays
  <2>3. \A K \in SUBSET Names : TidyFor(K) => FilesStand(K)'
    BY <1>4, <1>6, FilesStandStay
  <2> QED BY <2>1, <2>2, <2>3
<1> QED BY <1>5, <1>6 DEF Next

LEMMA ContentsAlways == Spec => [](ToolInv /\ ContentsInv)
<1>1. Init => ToolInv /\ ContentsInv
  BY InitIsFine, InitContents
<1>2. ToolInv /\ ContentsInv /\ [Next]_vars => ToolInv' /\ ContentsInv'
  BY FineStays, ContentsStay
<1> QED BY <1>1, <1>2, PTL DEF Spec

\* The commands take .lzo files for .lzo files, the files of the directory are
\* whole, and no -f or --raw names what may be overwritten.
Orderly == Unforced /\ \E K \in SUBSET Names : TidyFor(K)

\* A process that works alone loses nothing of an orderly directory, at no
\* step, with calls that fail and when it is killed: the input is removed only
\* when a whole output, flushed and under its own name, stands for it.
THEOREM NothingGoesMissing == Spec => [](Orderly => NothingIsLost)
<1>1. ToolInv /\ ContentsInv => (Orderly => NothingIsLost)
  <2> SUFFICES ASSUME ToolInv, ContentsInv, Unforced, NEW K \in SUBSET Names, TidyFor(K), Alone,
                      NEW m \in DOMAIN initial
               PROVE  \E n \in Names : Exists(n) /\ Plain(Cells(n)) = Plain(initial[m].cells)
    BY DEF Orderly, NothingIsLost, NothingLost
  <2>1. FilesStand(K)
    BY DEF ContentsInv
  <2> QED BY <2>1 DEF FilesStand, Loose, Stands
<1> QED BY <1>1, ContentsAlways, PTL

\* And it leaves no file there that is half of one, but the one it was writing
\* when it was killed, and the one that it failed to remove.
THEOREM NothingIsLeftHalf == Spec => [](Alone /\ Orderly => NothingHalfWritten)
<1>1. ToolInv /\ ContentsInv => (Alone /\ Orderly => NothingHalfWritten)
  <2> SUFFICES ASSUME ToolInv, ContentsInv, Unforced, NEW K \in SUBSET Names, TidyFor(K), Alone,
                      ~CleanUpFails,
                      NEW n \in Names, Exists(n), ~\E p \in Procs : proc[p].tgt = dir[n]
               PROVE  \E m \in DOMAIN initial : Plain(Cells(n)) = Plain(initial[m].cells)
    BY DEF Orderly, NothingHalfWritten
  <2>1. FilesStand(K)
    BY DEF ContentsInv
  <2> QED BY <2>1 DEF FilesStand, Loose, Stands
<1> QED BY <1>1, ContentsAlways, PTL
-----------------------------------------------------------------------------
\* The two command lines of a file, given to a process that works alone and
\* meets no trouble.
Errand(p, f) ==
    /\ Alone /\ scenario.trouble \subseteq {"not root"} /\ f # Dash
    /\ proc[p].jobs = <<Plainly("compress", f), Plainly("decompress", Lzo[f])>>

\* f as it was; its .lzo file; and the file that came back, with the mode and
\* the time that can be given to it.
Original(f) == IF f \in DOMAIN initial THEN dir[f] = f /\ node[f] = initial[f] ELSE dir[f] = None

HeaderOf(f) == <<"header", initial[f].mode, Seconds(initial[f].mtime)>>

Archived(f) == /\ f \in DOMAIN initial /\ Exists(Lzo[f])
               /\ Packed(HeaderOf(f), Cells(Lzo[f]), initial[f].cells)

ModeOf(f) == IF initial[f].mode = 0 THEN DEFAULT_MODE ELSE initial[f].mode
TimeOf(f, i) == IF Seconds(initial[f].mtime) # 0 /\ May("write", i)
                THEN Time(Seconds(initial[f].mtime)) ELSE NOW

Back(f) == /\ f \in DOMAIN initial /\ Exists(f) /\ Cells(f) = initial[f].cells
           /\ node[dir[f]].mode = ModeOf(f) /\ node[dir[f]].mtime = TimeOf(f, dir[f])

\* A time that is read in seconds and set from them is cut to a whole second.
LEMMA SecondsCut ==
    ASSUME NEW t \in Nat
    PROVE  /\ Seconds(t) # 0 <=> t >= EPOCH + SECOND
           /\ t >= EPOCH + SECOND =>
                 /\ Time(Seconds(t)) <= t /\ t < Time(Seconds(t)) + SECOND
                 /\ (Time(Seconds(t)) - EPOCH) % SECOND = 0
<1>1. EPOCH \in Nat /\ SECOND \in Nat \ {0}
  BY ToolAssumption
<1>2. CASE t < EPOCH
  BY <1>1, <1>2 DEF Seconds
<1>3. CASE t >= EPOCH
  <2>1. PICK d \in Nat : d = t - EPOCH
    BY <1>1, <1>3
  <2>2. PICK s \in Nat : s = d \div SECOND /\ s * SECOND <= d /\ d < s * SECOND + SECOND
    BY <1>1
  <2>3. s # 0 <=> d >= SECOND
    BY <1>1, <2>2
  <2>4. (s * SECOND) % SECOND = 0
    BY <1>1
  <2>5. PICK x \in Nat : x = s * SECOND
    BY <1>1
  <2>6. Seconds(t) = s /\ Time(Seconds(t)) = EPOCH + x
    BY <1>1, <1>3, <2>1, <2>2, <2>5 DEF Seconds, Time
  <2>7. (EPOCH + x) - EPOCH = x
    BY <1>1, <2>5
  <2> QED BY <1>1, <2>1, <2>2, <2>3, <2>4, <2>5, <2>6, <2>7
<1> QED BY <1>1, <1>2, <1>3

\* What holds while lzo1x FILE is run, and while lzo1x -d FILE.lzo is.
Packing(p, f) ==
    /\ proc[p].pc \in {"idle", "next"} \cup FilePcs
    /\ At(p, "idle") => Original(f)
    /\ At(p, "next") => \/ proc[p].left = <<f>> /\ Original(f)
                        \/ /\ proc[p].left = <<>>
                           /\ proc[p].errs \/ (Archived(f) /\ ~Exists(f))
    /\ proc[p].pc \in FilePcs => proc[p].left = <<f>> /\ Original(f)
    /\ proc[p].pc \in FilePcs \ {"stat"} => f \in DOMAIN initial /\ Heading(p) = HeaderOf(f)

Unpacking(p, f) ==
    LET made == node[proc[p].tgt]
    IN  /\ proc[p].pc \in {"idle", "next"} \cup FilePcs
        /\ At(p, "idle") => Archived(f) /\ ~Exists(f)
        /\ At(p, "next") => \/ proc[p].left = <<Lzo[f]>> /\ Archived(f) /\ ~Exists(f)
                            \/ proc[p].left = <<>> /\ (proc[p].errs \/ Back(f))
        /\ proc[p].pc \in FilePcs => proc[p].left = <<Lzo[f]>> /\ Archived(f)
        /\ proc[p].pc \in {"open", "header", "check", "create"} => ~Exists(f)
        /\ proc[p].pc \in Moving => Heading(p) = HeaderOf(f)
        /\ proc[p].pc \in {"copy", "flush", "mode"} =>
              made.mode = DEFAULT_MODE /\ made.mtime = NOW
        /\ At(p, "mtime") => made.mode = ModeOf(f) /\ made.mtime = NOW
        /\ At(p, "remove") => made.mode = ModeOf(f) /\ made.mtime = TimeOf(f, proc[p].tgt)

\* A process on such an errand, between the commands and after them.
ErrandInv ==
    \A p \in Procs : \A f \in DOMAIN Lzo : Errand(p, f) =>
        /\ proc[p].results = <<>> => Packing(p, f)
        /\ proc[p].results = <<"ok">> => Unpacking(p, f)
        /\ proc[p].results = <<"ok", "ok">> => Back(f)

LEMMA ErrandFacts ==
    ASSUME TypeInv, NEW p \in Procs, NEW f \in DOMAIN Lzo, Errand(p, f)
    PROVE  /\ Len(proc[p].jobs) = 2 /\ Unforced
           /\ f \in Names /\ Lzo[f] \in Names /\ Lzo[f] # f /\ Lzo[f] # Dash
           /\ ~Failing /\ "killed" \notin scenario.trouble
           /\ proc[p].results = <<>> => Job(p) = Plainly("compress", f)
           /\ proc[p].results = <<"ok">> => Job(p) = Plainly("decompress", Lzo[f])
           /\ f \in DOMAIN initial => f \in Inodes /\ f # None /\ IsSeq(initial[f].cells)
<1> DEFINE c == Plainly("compress", f)
           d == Plainly("decompress", Lzo[f])
<1>1. proc[p].jobs = <<c, d>>
  BY DEF Errand
<1>2. ~c.force /\ ~c.raw /\ ~d.force /\ ~d.raw
  BY DEF Plainly
<1> HIDE DEF c, d
<1>3. Len(proc[p].jobs) = 2 /\ proc[p].jobs[1] = c /\ proc[p].jobs[2] = d
  BY <1>1
<1>4. Unforced
  <2> SUFFICES ASSUME NEW job \in Commands
               PROVE  ~job.force /\ ~job.raw
    BY DEF Unforced, Given
  <2>1. PICK q \in Procs : \E k \in 1 .. Len(proc[q].jobs) : job = proc[q].jobs[k]
    BY DEF Commands
  <2>2. q = p
    <3>1. proc[q].jobs # <<>>
      BY <2>1
    <3>2. proc[p].jobs # <<>>
      BY <1>3
    <3> QED BY <3>1, <3>2 DEF Errand, Alone
  <2>3. job = c \/ job = d
    BY <1>3, <2>1, <2>2
  <2> QED BY <1>2, <2>3
<1>5. f \in Names /\ Lzo[f] \in Names /\ Lzo[f] # f /\ Lzo[f] # Dash
  BY ToolAssumption
<1>6. ~Failing /\ "killed" \notin scenario.trouble
  BY DEF Errand, Failing
<1>7. /\ proc[p].results = <<>> => Job(p) = c
      /\ proc[p].results = <<"ok">> => Job(p) = d
  <2>1. Len(<<>>) = 0 /\ Len(<<"ok">>) = 1
    OBVIOUS
  <2>2. ASSUME proc[p].results = <<>>
        PROVE  Job(p) = c
    <3>1. Len(proc[p].results) + 1 = 1
      BY <2>1, <2>2
    <3> QED BY <1>3, <3>1 DEF Job
  <2>3. ASSUME proc[p].results = <<"ok">>
        PROVE  Job(p) = d
    <3>1. Len(proc[p].results) + 1 = 2
      BY <2>1, <2>3
    <3> QED BY <1>3, <3>1 DEF Job
  <2> QED BY <2>2, <2>3
<1>8. f \in DOMAIN initial => f \in Inodes /\ f # None /\ IsSeq(initial[f].cells)
  BY <1>5, ToolAssumption DEF TypeInv, FilesInv, initial
<1> QED BY <1>3, <1>4, <1>5, <1>6, <1>7, <1>8 DEF c, d

\* Which call a process on an errand makes next.
LEMMA CallMade ==
    ASSUME TypeInv, NEW p \in Procs, NEW f \in DOMAIN Lzo, Errand(p, f), Step(p) \/ Killed(p)
    PROVE  /\ At(p, "idle") => Run(p)
           /\ At(p, "next") => EachFile(p)
           /\ At(p, "stat") => Stat(p)
           /\ At(p, "open") => Open(p)
           /\ At(p, "header") => ReadHeader(p)
           /\ At(p, "check") => Check(p)
           /\ At(p, "create") => Create(p)
           /\ At(p, "copy") => \/ CopyBlock(p) \/ CopyEnd(p) \/ Spill(p)
                               \/ CopyFails(p) /\ ~Compressing(p)
           /\ At(p, "flush") => Flush(p)
           /\ proc[p].pc \in {"mode", "mtime"} => Restore(p)
           /\ At(p, "remove") => Remove(p)
<1>1. ~Killed(p) /\ ~CallFails(p) /\ (CopyFails(p) => At(p, "copy") /\ ~Compressing(p))
  BY ErrandFacts DEF Killed, CallFails, CopyFails, Bad
<1>2. At(p, "idle") => Run(p)
  BY <1>1 DEF Step, Run, Filter, Report, EachFile, Stat, Open, ReadHeader, Check, Create, CopyBlock,
         CopyEnd, Spill, Flush, Restore, Remove, RawRead, RawCreate, RawWrite, RawFails, At
<1>3. At(p, "next") => EachFile(p)
  BY <1>1 DEF Step, Run, Filter, Report, EachFile, Stat, Open, ReadHeader, Check, Create, CopyBlock,
         CopyEnd, Spill, Flush, Restore, Remove, RawRead, RawCreate, RawWrite, RawFails, At
<1>4. ASSUME proc[p].pc \in FilePcs
      PROVE  Stat(p) \/ Open(p) \/ ReadHeader(p) \/ Check(p) \/ Create(p) \/ CopyBlock(p)
             \/ CopyEnd(p) \/ Spill(p) \/ Flush(p) \/ Restore(p) \/ Remove(p)
             \/ (CopyFails(p) /\ ~Compressing(p))
  BY <1>1, <1>4 DEF Step, Run, Filter, Report, EachFile, RawRead, RawCreate, RawWrite, RawFails, At,
         FilePcs
<1>5. /\ Stat(p) => At(p, "stat")
      /\ Open(p) => At(p, "open")
      /\ ReadHeader(p) => At(p, "header")
      /\ Check(p) => At(p, "check")
      /\ Create(p) => At(p, "create")
      /\ CopyBlock(p) \/ CopyEnd(p) \/ Spill(p) => At(p, "copy")
      /\ Flush(p) => At(p, "flush")
      /\ Restore(p) => proc[p].pc \in {"mode", "mtime"}
      /\ Remove(p) => At(p, "remove")
  BY DEF Stat, Open, ReadHeader, Check, Create, CopyBlock, CopyEnd, Spill, Flush, Restore, Remove, At
<1> QED BY <1>1, <1>2, <1>3, <1>4, <1>5 DEF At, FilePcs

\* A file that is given up, and one that is done.
LEMMA FileEnds ==
    ASSUME TypeInv, NEW p \in Procs, NEW failed \in BOOLEAN, NextFile(p, failed),
           NEW x, proc[p].left = <<x>>
    PROVE  /\ proc'[p].pc = "next" /\ proc'[p].left = <<>>
           /\ proc'[p].results = proc[p].results /\ (failed => proc'[p].errs)
<1>1. DOMAIN proc = Procs /\ DOMAIN proc[p] = ProcFields
  BY DEF TypeInv, Well
<1>2. Advances(p)
  BY <1>1, NextFileFields
<1>3. Tail(<<x>>) = <<>>
  OBVIOUS
<1>4. failed => proc'[p].errs
  <2> DEFINE c == FileOver(p, failed)
  <2>1. Become(p, c)
    BY DEF NextFile
  <2>2. "errs" \in DOMAIN c /\ DOMAIN c \subseteq ProcFields /\ c.errs = (proc[p].errs \/ failed)
    BY DEF FileOver, ++, Idle, ProcFields
  <2> HIDE DEF c
  <2>3. proc'[p].errs = c.errs
    BY <1>1, <2>1, <2>2, BecomeFields
  <2> QED BY <2>2, <2>3
<1> QED BY <1>2, <1>3, <1>4 DEF Advances

LEMMA GivenUp ==
    ASSUME NEW p, NEW f, proc'[p].pc = "next", proc'[p].left = <<>>, proc'[p].errs
    PROVE  Packing(p, f)' /\ Unpacking(p, f)'
BY DEF Packing, Unpacking, At, FilePcs, Moving

LEMMA OriginalStays ==
    ASSUME NEW f, Original(f), dir'[f] = dir[f], scenario' = scenario,
           f \in DOMAIN initial => node'[f] = node[f]
    PROVE  Original(f)'
BY DEF Original, initial

LEMMA SameHeader ==
    ASSUME NEW f, scenario' = scenario
    PROVE  HeaderOf(f)' = HeaderOf(f) /\ initial' = initial /\ ModeOf(f)' = ModeOf(f)
BY DEF HeaderOf, initial, ModeOf
-----------------------------------------------------------------------------
\* The first half of the errand.
LEMMA PackingFacts ==
    ASSUME TypeInv, NEW p \in Procs, NEW f \in DOMAIN Lzo, Errand(p, f),
           proc[p].results = <<>>, Packing(p, f), proc[p].pc \in FilePcs
    PROVE  /\ File(p) = f /\ Compressing(p) /\ ~ToStdout(p) /\ Target(p) = Lzo[f]
           /\ ~Keeps(p) /\ ~Job(p).force /\ Original(f) /\ proc[p].left = <<f>>
           /\ ~At(p, "header")
           /\ ~At(p, "stat") => f \in DOMAIN initial /\ Heading(p) = HeaderOf(f) /\ dir[f] = f
<1>1. Job(p) = Plainly("compress", f) /\ proc[p].left = <<f>>
  BY ErrandFacts DEF Packing
<1>2. /\ Job(p).op = "compress" /\ Job(p).output = None /\ ~Job(p).stdout /\ ~Job(p).keep
      /\ ~Job(p).force
  BY <1>1 DEF Plainly
<1>3. File(p) = f /\ Compressing(p) /\ ~ToStdout(p) /\ Target(p) = Lzo[f] /\ ~Keeps(p)
  BY <1>1, <1>2 DEF File, Compressing, ToStdout, Target, TargetOf, Keeps
<1>4. ~At(p, "header")
  BY <1>3 DEF TypeInv, Placed
<1> QED BY <1>1, <1>2, <1>3, <1>4 DEF Packing, Original, At, FilePcs

LEMMA PackingGoesOn ==
    ASSUME NEW p, NEW f, scenario' = scenario, proc'[p].pc \in FilePcs, proc'[p].left = <<f>>,
           Original(f)', ~At(p, "stat")' => f \in DOMAIN initial /\ Heading(p)' = HeaderOf(f)
    PROVE  Packing(p, f)'
BY SameHeader DEF Packing, At, FilePcs

\* Steps that touch no file.
LEMMA PackingOnItsOwn ==
    ASSUME TypeInv, NEW p \in Procs, NEW f \in DOMAIN Lzo, Errand(p, f),
           proc[p].results = <<>>, Packing(p, f), Original(f), UNCHANGED <<dir, node, scenario>>,
           NEW c, Become(p, c), DOMAIN c \subseteq ProcFields \ {"jobs", "results", "left"},
           "pc" \in DOMAIN c, c.pc \in FilePcs, proc[p].left = <<f>>,
           c.pc # "stat" => f \in DOMAIN initial /\ Heading(p)' = HeaderOf(f)
    PROVE  proc'[p].results = <<>> /\ Packing(p, f)'
<1>1. /\ proc'[p].pc = c.pc /\ proc'[p].results = <<>> /\ proc'[p].left = <<f>>
  BY OwnState DEF ProcFields
<1>2. Original(f)'
  BY OriginalStays
<1> QED BY <1>1, <1>2, PackingGoesOn DEF At

LEMMA PackingBegins ==
    ASSUME TypeInv, NEW p \in Procs, NEW f \in DOMAIN Lzo, Errand(p, f),
           proc[p].results = <<>>, Packing(p, f), Run(p)
    PROVE  proc'[p].results = <<>> /\ Packing(p, f)'
<1>1. Job(p) = Plainly("compress", f) /\ f # Dash /\ At(p, "idle") /\ UNCHANGED <<dir, node, scenario>>
  BY ErrandFacts DEF Run, Errand
<1>2. /\ Job(p).op = "compress" /\ Job(p).output = None /\ ~Job(p).raw /\ Job(p).files = <<f>>
  BY <1>1 DEF Plainly
<1>3. Len(Job(p).files) = 1 /\ ~FromStdin(Job(p).files)
  <2>1. Len(<<f>>) = 1 /\ <<f>> # <<>> /\ <<f>>[1] = f /\ <<Dash>>[1] = Dash
    OBVIOUS
  <2>2. <<f>> # <<Dash>>
    BY <1>1, <2>1
  <2> QED BY <1>2, <2>1, <2>2 DEF FromStdin
<1> DEFINE c == [pc |-> "next", left |-> <<f>>]
<1>4. Become(p, c)
  BY <1>2, <1>3 DEF Run
<1>5. DOMAIN c = {"pc", "left"} /\ c.pc = "next" /\ c.left = <<f>>
  OBVIOUS
<1> HIDE DEF c
<1>6. proc'[p].pc = "next" /\ proc'[p].left = <<f>> /\ proc'[p].results = <<>>
  BY <1>1, <1>4, <1>5, OwnState DEF ProcFields
<1>7. Original(f)'
  BY <1>1, OriginalStays DEF Packing
<1> QED BY <1>6, <1>7 DEF Packing, At, FilePcs

\* What a command ends with.
LEMMA CommandEnds ==
    ASSUME TypeInv, NEW p \in Procs, NEW r \in {"ok", "err"}, Return(p, r)
    PROVE  proc'[p].pc = "idle" /\ proc'[p].results = Append(proc[p].results, r)
<1> DEFINE c == [results |-> Append(proc[p].results, r)]
<1>1. DOMAIN c = {"results"} /\ c.results = Append(proc[p].results, r)
  OBVIOUS
<1>2. Become(p, c ++ Idle)
  BY DEF Return
<1>3. DOMAIN proc = Procs /\ DOMAIN proc[p] = ProcFields
  BY DEF TypeInv, Well
<1> HIDE DEF c
<1> QED BY <1>1, <1>2, <1>3, ReturnFields

LEMMA ArchivedStays ==
    ASSUME NEW f, Archived(f), dir'[Lzo[f]] = dir[Lzo[f]], scenario' = scenario,
           node'[dir[Lzo[f]]].cells = node[dir[Lzo[f]]].cells
    PROVE  Archived(f)'
<1>1. Cells(Lzo[f])' = Cells(Lzo[f]) /\ (Exists(Lzo[f])' <=> Exists(Lzo[f]))
  BY DEF Cells, Exists
<1> QED BY <1>1, SameHeader DEF Archived, Packed

LEMMA PackingEachFile ==
    ASSUME TypeInv, NEW p \in Procs, NEW f \in DOMAIN Lzo, Errand(p, f),
           proc[p].results = <<>>, Packing(p, f), EachFile(p)
    PROVE  \/ proc'[p].results = <<>> /\ Packing(p, f)'
           \/ proc'[p].results = <<"ok">> /\ Unpacking(p, f)'
           \/ proc'[p].results = <<"err">>
<1>1. At(p, "next") /\ UNCHANGED <<dir, node, scenario>> /\ Compressing(p)
  BY ErrandFacts DEF EachFile, Compressing, Plainly
<1>2. CASE proc[p].left = <<f>> /\ Original(f)
  <2>1. proc[p].left # <<>>
    BY <1>2
  <2> DEFINE c == [pc |-> "stat"]
  <2>2. Become(p, c)
    BY <1>1, <2>1 DEF EachFile
  <2>3. DOMAIN c = {"pc"} /\ c.pc = "stat"
    OBVIOUS
  <2> HIDE DEF c
  <2> QED BY <1>1, <1>2, <2>2, <2>3, PackingOnItsOwn DEF FilePcs, ProcFields
<1>3. CASE proc[p].left = <<>> /\ (proc[p].errs \/ (Archived(f) /\ ~Exists(f)))
  <2> DEFINE r == IF proc[p].errs THEN "err" ELSE "ok"
  <2>1. Return(p, r) /\ r \in {"ok", "err"}
    BY <1>1, <1>3 DEF EachFile
  <2>2. r = "ok" => Archived(f) /\ ~Exists(f)
    BY <1>3
  <2> HIDE DEF r
  <2>3. proc'[p].pc = "idle" /\ proc'[p].results = Append(<<>>, r)
    BY <2>1, CommandEnds
  <2>4. Append(<<>>, r) = <<r>>
    OBVIOUS
  <2>5. CASE r = "err"
    BY <2>3, <2>4, <2>5
  <2>6. CASE r = "ok"
    <3>1. Archived(f)' /\ ~Exists(f)'
      BY <1>1, <2>2, <2>6, ArchivedStays DEF Exists
    <3>2. Unpacking(p, f)'
      BY <2>3, <3>1 DEF Unpacking, At, FilePcs, Moving
    <3> QED BY <2>3, <2>4, <2>6, <3>2
  <2> QED BY <2>1, <2>5, <2>6
<1> QED BY <1>1, <1>2, <1>3 DEF Packing

LEMMA PackingReads ==
    ASSUME TypeInv, NEW p \in Procs, NEW f \in DOMAIN Lzo, Errand(p, f),
           proc[p].results = <<>>, Packing(p, f), Stat(p) \/ Open(p) \/ Check(p)
    PROVE  proc'[p].results = <<>> /\ Packing(p, f)'
<1>1. /\ proc[p].pc \in {"stat", "open", "check"} /\ UNCHANGED <<dir, node, scenario>>
      /\ DOMAIN proc = Procs /\ DOMAIN proc[p] = ProcFields
      /\ f \in DOMAIN initial => f # None
  BY ErrandFacts DEF TypeInv, Well, Stat, Open, Check, At
<1>2. /\ File(p) = f /\ Compressing(p) /\ ~ToStdout(p) /\ Original(f) /\ proc[p].left = <<f>>
      /\ ~At(p, "stat") => f \in DOMAIN initial /\ Heading(p) = HeaderOf(f) /\ dir[f] = f
  BY <1>1, PackingFacts DEF FilePcs
<1>3. CASE NextFile(p, TRUE)
  BY <1>2, <1>3, FileEnds, GivenUp
<1>4. CASE Stat(p) /\ ~NextFile(p, TRUE)
  <2> DEFINE m == node[f].mode
             t == Seconds(node[f].mtime)
             c == [pc |-> "open", mode |-> m, mtime |-> t]
  <2>1. f \in DOMAIN initial /\ dir[f] = f /\ node[f] = initial[f]
    BY <1>2, <1>4 DEF Stat, Original, Exists
  <2>2. Become(p, c)
    BY <1>2, <1>4, <2>1 DEF Stat
  <2>3. DOMAIN c = {"pc", "mode", "mtime"} /\ c.pc = "open" /\ c.mode = m /\ c.mtime = t
    OBVIOUS
  <2> HIDE DEF c
  <2>4. Heading(p)' = HeaderOf(f)
    <3>1. proc'[p].mode = m /\ proc'[p].mtime = t
      BY <1>1, <2>2, <2>3, OwnState DEF ProcFields
    <3> QED BY <2>1, <3>1 DEF Heading, HeaderOf
  <2> QED BY <1>1, <1>2, <2>1, <2>2, <2>3, <2>4, PackingOnItsOwn DEF FilePcs, ProcFields
<1>5. CASE Open(p) /\ ~NextFile(p, TRUE)
  <2> DEFINE c == [pc |-> "check", in |-> dir[f],
                   buf |-> <<<<"header", proc[p].mode, proc[p].mtime>>>>]
  <2>1. Become(p, c)
    BY <1>2, <1>5 DEF Open
  <2>2. DOMAIN c = {"pc", "in", "buf"} /\ c.pc = "check"
    OBVIOUS
  <2> HIDE DEF c
  <2>3. Heading(p)' = Heading(p)
    BY <1>1, <2>1, <2>2, OwnState, SameHeading DEF ProcFields
  <2>4. ~At(p, "stat")
    BY <1>5 DEF Open, At
  <2> QED BY <1>1, <1>2, <2>1, <2>2, <2>3, <2>4, PackingOnItsOwn DEF FilePcs, ProcFields
<1>6. CASE Check(p) /\ ~NextFile(p, TRUE)
  <2> DEFINE c == [pc |-> "create"]
  <2>1. Become(p, c)
    BY <1>6 DEF Check
  <2>2. DOMAIN c = {"pc"} /\ c.pc = "create"
    OBVIOUS
  <2> HIDE DEF c
  <2>3. Heading(p)' = Heading(p)
    BY <1>1, <2>1, <2>2, OwnState, SameHeading DEF ProcFields
  <2>4. ~At(p, "stat")
    BY <1>6 DEF Check, At
  <2> QED BY <1>1, <1>2, <2>1, <2>2, <2>3, <2>4, PackingOnItsOwn DEF FilePcs, ProcFields
<1> QED BY <1>3, <1>4, <1>5, <1>6

\* What a process reads from and writes to.
LEMMA InAndOut ==
    ASSUME TypeInv, NEW p \in Procs, InHand(p), proc[p].pc \in Moving, ~ToStdout(p)
    PROVE  /\ proc[p].in \in Inodes /\ dir[File(p)] = proc[p].in
           /\ proc[p].tgt # None => /\ proc[p].tgt \in Inodes /\ proc[p].tgt # proc[p].in
                                    /\ dir[Target(p)] = proc[p].tgt
           /\ proc[p].pc \in {"copy", "flush", "mode", "mtime", "remove"} => proc[p].tgt # None
BY DEF TypeInv, Well, Placed, InHand, Moving, FilePcs

\* What creating a new file does.
LEMMA NewlyMade ==
    ASSUME ToolInv, Alone, Unforced, NEW p \in Procs, Create(p)
    PROVE  \/ NextFile(p, TRUE)
           \/ /\ proc'[p].pc = "copy" /\ \A x \in ProcFields \ {"pc", "tgt"} : proc'[p][x] = proc[p][x]
              /\ proc'[p].tgt \in Inodes /\ Target(p) \in Names
              /\ dir'[Target(p)] = proc'[p].tgt /\ node'[proc'[p].tgt] = NewFile
              /\ \A n \in Names : dir[n] # proc'[p].tgt
              /\ \A n \in Names \ {Target(p)} : dir'[n] = dir[n]
              /\ \A j \in Inodes \ {proc'[p].tgt} : node'[j] = node[j]
<1>1. /\ DOMAIN proc = Procs /\ DOMAIN proc[p] = ProcFields /\ At(p, "create") /\ TypeInv /\ FilesInv
      /\ scenario' = scenario
  BY DEF ToolInv, TypeInv, Well, Create
<1>2. Target(p) \in Names /\ ~Exists(Target(p))
  BY <1>1, OnlyNewFiles
<1>3. SUFFICES ASSUME NEW i \in Inodes, Truncate(Target(p), i), Become(p, [pc |-> "copy", tgt |-> i])
               PROVE  /\ proc'[p].pc = "copy" /\ proc'[p].tgt = i
                      /\ \A x \in ProcFields \ {"pc", "tgt"} : proc'[p][x] = proc[p][x]
                      /\ dir'[Target(p)] = i /\ node'[i] = NewFile
                      /\ \A n \in Names : dir[n] # i
                      /\ \A n \in Names \ {Target(p)} : dir'[n] = dir[n]
                      /\ \A j \in Inodes \ {i} : node'[j] = node[j]
  BY <1>2 DEF Create
<1>4. /\ proc'[p].pc = "copy" /\ proc'[p].tgt = i
      /\ \A x \in ProcFields \ {"pc", "tgt"} : proc'[p][x] = proc[p][x]
  BY <1>1, <1>3 DEF Become, ++, ProcFields
<1>5. /\ dir'[Target(p)] = i /\ \A n \in Names : dir[n] # i
      /\ \A n \in Names \ {Target(p)} : dir'[n] = dir[n]
      /\ \A j \in Inodes \ {i} : node'[j] = node[j]
  BY <1>1, <1>2, <1>3, CreateFacts
<1>6. node'[i] = NewFile
  BY <1>1, <1>2, <1>3 DEF Truncate, FilesInv
<1> QED BY <1>4, <1>5, <1>6

\* What the mode and the time of the file that was made become.
LEMMA AttributesSet ==
    ASSUME TypeInv, NEW p \in Procs, Restore(p), dir[Target(p)] \in Inodes, ~Failing
    PROVE  LET i == dir[Target(p)]
           IN  /\ \A j \in Inodes \ {i} : node'[j] = node[j]
               /\ At(p, "mode") =>
                     /\ proc'[p].pc = IF Compressing(p) THEN "remove" ELSE "mtime"
                     /\ node'[i].mode = IF Compressing(p) \/ proc[p].mode # 0 THEN proc[p].mode
                                        ELSE node[i].mode
                     /\ node'[i].mtime = node[i].mtime
               /\ At(p, "mtime") =>
                     /\ proc'[p].pc = "remove" /\ node'[i].mode = node[i].mode
                     /\ node'[i].mtime = IF proc[p].mtime # 0 /\ May("write", i)
                                         THEN Time(proc[p].mtime) ELSE node[i].mtime
<1>1. PICK i \in Inodes : i = dir[Target(p)]
  OBVIOUS
<1>2. /\ DOMAIN node = Inodes /\ DOMAIN node[i] = {"cells", "mode", "mtime"} /\ i # None
      /\ DOMAIN proc = Procs /\ DOMAIN proc[p] = ProcFields
  BY <1>1, ToolAssumption DEF TypeInv, Well, FilesInv, IsFile
<1>3. ASSUME NEW q, Become(p, [pc |-> q])
      PROVE  proc'[p].pc = q
  BY <1>2, <1>3 DEF Become, ++, ProcFields
<1>4. CASE At(p, "mode")
  <2>1. /\ \/ /\ Compressing(p) \/ proc[p].mode # 0
              /\ node' = [node EXCEPT ![i].mode = proc[p].mode]
           \/ ~Compressing(p) /\ proc[p].mode = 0 /\ UNCHANGED node
        /\ Become(p, [pc |-> IF Compressing(p) THEN "remove" ELSE "mtime"])
    BY <1>1, <1>2, <1>4 DEF Restore, At
  <2>2. proc'[p].pc = IF Compressing(p) THEN "remove" ELSE "mtime"
    BY <1>3, <2>1
  <2>3. /\ \A j \in Inodes \ {i} : node'[j] = node[j]
        /\ node'[i].mode = IF Compressing(p) \/ proc[p].mode # 0 THEN proc[p].mode
                           ELSE node[i].mode
        /\ node'[i].mtime = node[i].mtime
    BY <1>2, <2>1
  <2> QED BY <1>1, <1>4, <2>2, <2>3 DEF At
<1>5. CASE At(p, "mtime")
  <2>1. /\ \/ /\ proc[p].mtime # 0 /\ May("write", i)
              /\ node' = [node EXCEPT ![i].mtime = Time(proc[p].mtime)]
           \/ ~(proc[p].mtime # 0 /\ May("write", i)) /\ UNCHANGED node
        /\ Become(p, [pc |-> "remove"])
    BY <1>1, <1>2, <1>5 DEF Restore, At
  <2>2. proc'[p].pc = "remove"
    BY <1>3, <2>1
  <2>3. /\ \A j \in Inodes \ {i} : node'[j] = node[j]
        /\ node'[i].mode = node[i].mode
        /\ node'[i].mtime = IF proc[p].mtime # 0 /\ May("write", i) THEN Time(proc[p].mtime)
                            ELSE node[i].mtime
    BY <1>2, <2>1
  <2> QED BY <1>1, <1>5, <2>2, <2>3 DEF At
<1> QED BY <1>4, <1>5 DEF Restore

LEMMA PackingMakes ==
    ASSUME ToolInv, NEW p \in Procs, NEW f \in DOMAIN Lzo, Errand(p, f), InHand(p),
           proc[p].results = <<>>, Packing(p, f),
           Create(p) \/ CopyBlock(p) \/ CopyEnd(p) \/ Spill(p) \/ Flush(p) \/ Restore(p)
    PROVE  proc'[p].results = <<>> /\ Packing(p, f)'
<1>1. /\ proc[p].pc \in {"create", "copy", "flush", "mode", "mtime"} /\ scenario' = scenario
      /\ DOMAIN proc = Procs /\ DOMAIN proc[p] = ProcFields /\ TypeInv /\ FilesInv
      /\ Unforced /\ Alone /\ f \in Names /\ Lzo[f] # f /\ (f \in DOMAIN initial => f \in Inodes)
      /\ ~Failing
  BY ErrandFacts
     DEF ToolInv, TypeInv, Well, Create, CopyBlock, CopyEnd, Spill, Flush, Restore, At, Errand
<1>2. /\ File(p) = f /\ Compressing(p) /\ ~ToStdout(p) /\ Target(p) = Lzo[f]
      /\ Original(f) /\ proc[p].left = <<f>> /\ f \in DOMAIN initial /\ Heading(p) = HeaderOf(f)
      /\ dir[f] = f
  BY <1>1, PackingFacts DEF FilePcs, At
<1>3. ~At(p, "create") => proc[p].tgt \in Inodes \ {f} /\ dir[Lzo[f]] = proc[p].tgt
  BY <1>1, <1>2, InAndOut DEF Moving, At
<1>4. ASSUME proc'[p].pc \in FilePcs, dir'[f] = dir[f], node'[f] = node[f],
             \A x \in {"results", "left", "mode", "mtime"} : proc'[p][x] = proc[p][x]
      PROVE  proc'[p].results = <<>> /\ Packing(p, f)'
  <2>1. Original(f)'
    BY <1>1, <1>2, <1>4, OriginalStays
  <2>2. Heading(p)' = Heading(p)
    BY <1>4, SameHeading
  <2> QED BY <1>1, <1>2, <1>4, <2>1, <2>2, PackingGoesOn
<1>5. CASE Create(p)
  <2>1. CASE NextFile(p, TRUE)
    BY <1>1, <1>2, <2>1, FileEnds, GivenUp
  <2>2. CASE ~NextFile(p, TRUE)
    <3>1. /\ proc'[p].pc = "copy" /\ \A x \in ProcFields \ {"pc", "tgt"} : proc'[p][x] = proc[p][x]
          /\ \A n \in Names : dir[n] # proc'[p].tgt
          /\ \A n \in Names \ {Lzo[f]} : dir'[n] = dir[n]
          /\ \A j \in Inodes \ {proc'[p].tgt} : node'[j] = node[j]
      BY <1>1, <1>2, <1>5, <2>2, NewlyMade
    <3>2. dir'[f] = dir[f] /\ node'[f] = node[f]
      BY <1>1, <1>2, <3>1
    <3> QED BY <1>4, <3>1, <3>2 DEF FilePcs, ProcFields
  <2> QED BY <2>1, <2>2
<1>6. CASE CopyBlock(p) \/ CopyEnd(p)
  <2>1. UNCHANGED <<dir, node>>
    BY <1>6 DEF CopyBlock, CopyEnd
  <2>2. proc'[p].pc \in {"copy", "flush"}
        /\ \A x \in {"results", "left", "mode", "mtime"} : proc'[p][x] = proc[p][x]
    BY <1>1, <1>6 DEF CopyBlock, CopyEnd, Become, ++, ProcFields, At
  <2> QED BY <1>4, <2>1, <2>2 DEF FilePcs
<1>7. CASE Spill(p) \/ Flush(p)
  <2>1. proc[p].tgt \in Inodes \ {f} /\ proc[p].tgt # None
    BY <1>3, <1>7, ToolAssumption DEF Spill, Flush, At
  <2>2. PICK q \in {"copy", "mode"} : Spilled(p, [pc |-> q]) /\ dir' = dir
    BY <1>7, <2>1 DEF Spill, Flush, Flushed
  <2>3. node'[f] = node[f]
    BY <1>1, <1>2, <2>1, <2>2, SpilledFiles
  <2>4. proc'[p].pc = q /\ \A x \in {"results", "left", "mode", "mtime"} : proc'[p][x] = proc[p][x]
    BY <1>1, <2>2, SpilledFields DEF ProcFields
  <2> QED BY <1>4, <2>2, <2>3, <2>4 DEF FilePcs
<1>8. CASE Restore(p)
  <2>1. /\ proc'[p].pc \in {"mtime", "remove"} /\ proc[p].pc \in {"mode", "mtime"} /\ dir' = dir
        /\ \A x \in ProcFields \ {"pc"} : proc'[p][x] = proc[p][x]
    BY <1>1, <1>8, RestoreFields
  <2>2. dir[Target(p)] \in Inodes \ {f}
    BY <1>2, <1>3, <2>1 DEF At
  <2>3. node'[f] = node[f]
    BY <1>1, <1>2, <1>8, <2>2, AttributesSet
  <2> QED BY <1>4, <2>1, <2>3 DEF FilePcs, ProcFields
<1> QED BY <1>5, <1>6, <1>7, <1>8

\* What is made is in the file when the input is to be removed.
LEMMA MadeInFull ==
    ASSUME TypeInv, SeqsInv, NEW p \in Procs, InHand(p), At(p, "remove")
    PROVE  /\ ~ToStdout(p) /\ File(p) \in Names /\ Target(p) \in Names
           /\ proc[p].tgt \in Inodes /\ proc[p].tgt # None /\ dir[Target(p)] = proc[p].tgt
           /\ IsSeq(Cells(Target(p))) /\ IsSeq(Cells(File(p)))
           /\ IF Compressing(p) THEN Packed(Heading(p), Cells(Target(p)), Cells(File(p)))
              ELSE Unpacked(Cells(Target(p)), Cells(File(p)))
<1>1. Well(p) /\ Placed(p) /\ FilesInv /\ ~ToStdout(p) /\ proc[p].pc = "remove"
  BY DEF TypeInv, Placed, At
<1>2. /\ proc[p].in \in Inodes /\ dir[File(p)] = proc[p].in
      /\ proc[p].tgt \in Inodes /\ proc[p].tgt # None /\ dir[Target(p)] = proc[p].tgt
  BY <1>1, InAndOut DEF Moving
<1>3. File(p) \in Names /\ Target(p) \in Names
  BY <1>1, FileIsName, TargetIsName DEF FilePcs
<1>4. IsSeq(node[proc[p].tgt].cells) /\ IsSeq(node[proc[p].in].cells)
  BY <1>2 DEF SeqsInv
<1>5. /\ proc[p].buf = <<>>
      /\ IF Compressing(p) THEN Packed(Heading(p), Out(p), Input(p)) ELSE Unpacked(Out(p), Input(p))
  BY <1>1 DEF InHand, Moving
<1>6. Out(p) = Cells(Target(p)) /\ Input(p) = Cells(File(p))
  BY <1>2, <1>4, <1>5, NothingAdded DEF Out, Cells, Input
<1>7. IsSeq(Cells(Target(p))) /\ IsSeq(Cells(File(p)))
  BY <1>2, <1>4 DEF Cells
<1> QED BY <1>1, <1>2, <1>3, <1>5, <1>6, <1>7

LEMMA PackingEnds ==
    ASSUME TypeInv, SeqsInv, NEW p \in Procs, NEW f \in DOMAIN Lzo, Errand(p, f), InHand(p),
           proc[p].results = <<>>, Packing(p, f), Remove(p)
    PROVE  proc'[p].results = <<>> /\ Packing(p, f)'
<1>1. At(p, "remove") /\ UNCHANGED <<node, scenario>> /\ FilesInv /\ f \in Names /\ Lzo[f] # f
      /\ Lzo[f] \in Names
  BY ErrandFacts DEF Remove, TypeInv
<1>2. /\ File(p) = f /\ Compressing(p) /\ Target(p) = Lzo[f] /\ ~Keeps(p)
      /\ proc[p].left = <<f>> /\ f \in DOMAIN initial /\ Heading(p) = HeaderOf(f) /\ Original(f)
  BY <1>1, PackingFacts DEF FilePcs, At
<1>3. CASE NextFile(p, TRUE)
  BY <1>2, <1>3, FileEnds, GivenUp
<1>4. CASE NextFile(p, FALSE) /\ dir' = [dir EXCEPT ![f] = None]
  <2>1. proc'[p].pc = "next" /\ proc'[p].left = <<>> /\ proc'[p].results = <<>>
    BY <1>2, <1>4, FileEnds
  <2>2. Cells(f) = initial[f].cells
    BY <1>2 DEF Original, Cells
  <2>3. Exists(Lzo[f]) /\ Packed(HeaderOf(f), Cells(Lzo[f]), initial[f].cells)
    BY <1>1, <1>2, <2>2, MadeInFull DEF Exists
  <2>4. Archived(f)
    BY <1>2, <2>3 DEF Archived
  <2>5. dir'[Lzo[f]] = dir[Lzo[f]] /\ dir'[f] = None
    BY <1>1, <1>4 DEF FilesInv
  <2>6. Archived(f)' /\ ~Exists(f)'
    BY <1>1, <2>4, <2>5, ArchivedStays DEF Exists
  <2> QED BY <2>1, <2>6 DEF Packing, At, FilePcs
<1> QED BY <1>2, <1>3, <1>4 DEF Remove
-----------------------------------------------------------------------------
\* The second half of the errand.
LEMMA UnpackingFacts ==
    ASSUME TypeInv, NEW p \in Procs, NEW f \in DOMAIN Lzo, Errand(p, f),
           proc[p].results = <<"ok">>, Unpacking(p, f), proc[p].pc \in FilePcs
    PROVE  /\ File(p) = Lzo[f] /\ ~Compressing(p) /\ ~ToStdout(p) /\ Target(p) = f
           /\ ~Keeps(p) /\ ~Job(p).force /\ Archived(f) /\ proc[p].left = <<Lzo[f]>>
           /\ ~At(p, "stat") /\ f \in DOMAIN initial /\ Exists(Lzo[f])
<1>1. Job(p) = Plainly("decompress", Lzo[f]) /\ proc[p].left = <<Lzo[f]>>
  BY ErrandFacts DEF Unpacking
<1>2. /\ Job(p).op = "decompress" /\ Job(p).output = None /\ ~Job(p).stdout /\ ~Job(p).keep
      /\ ~Job(p).force
  BY <1>1 DEF Plainly
<1>3. File(p) = Lzo[f] /\ ~Compressing(p) /\ ~ToStdout(p) /\ ~Keeps(p)
  BY <1>1, <1>2 DEF File, Compressing, ToStdout, Keeps
<1>4. ~At(p, "stat")
  BY <1>3 DEF TypeInv, Placed
<1>5. Target(p) = f
  <2>1. Target(p) \in DOMAIN Lzo /\ Lzo[Target(p)] = Lzo[f]
    BY <1>2, <1>3, TargetIsName DEF TypeInv
  <2> QED BY <2>1, ToolAssumption
<1>6. Archived(f) /\ f \in DOMAIN initial /\ Exists(Lzo[f])
  BY DEF Unpacking, Archived
<1> QED BY <1>1, <1>2, <1>3, <1>4, <1>5, <1>6

\* Steps that touch no file, before there is one.
LEMMA UnpackingOnItsOwn ==
    ASSUME TypeInv, NEW p \in Procs, NEW f \in DOMAIN Lzo, Errand(p, f),
           proc[p].results = <<"ok">>, Archived(f), ~Exists(f),
           UNCHANGED <<dir, node, scenario>>,
           NEW c, Become(p, c), DOMAIN c \subseteq ProcFields \ {"jobs", "results", "left"},
           "pc" \in DOMAIN c, c.pc \in {"open", "header", "check", "create"},
           proc[p].left = <<Lzo[f]>>,
           c.pc \in {"check", "create"} => Heading(p)' = HeaderOf(f)
    PROVE  proc'[p].results = <<"ok">> /\ Unpacking(p, f)'
<1>1. /\ proc'[p].pc = c.pc /\ proc'[p].results = <<"ok">> /\ proc'[p].left = <<Lzo[f]>>
  BY OwnState DEF ProcFields
<1>2. Archived(f)' /\ ~Exists(f)'
  BY ArchivedStays DEF Exists
<1> QED BY <1>1, <1>2, SameHeader DEF Unpacking, At, FilePcs, Moving

LEMMA UnpackingBegins ==
    ASSUME TypeInv, NEW p \in Procs, NEW f \in DOMAIN Lzo, Errand(p, f),
           proc[p].results = <<"ok">>, Unpacking(p, f), Run(p)
    PROVE  proc'[p].results = <<"ok">> /\ Unpacking(p, f)'
<1> DEFINE z == Lzo[f]
<1>1. /\ Job(p) = Plainly("decompress", z) /\ z # Dash /\ At(p, "idle")
      /\ UNCHANGED <<dir, node, scenario>>
  BY ErrandFacts DEF Run, Errand
<1> HIDE DEF z
<1>2. /\ Job(p).op = "decompress" /\ Job(p).output = None /\ ~Job(p).raw /\ Job(p).files = <<z>>
  BY <1>1 DEF Plainly
<1>3. Len(Job(p).files) = 1 /\ ~FromStdin(Job(p).files)
  <2>1. Len(<<z>>) = 1 /\ <<z>> # <<>> /\ <<z>>[1] = z /\ <<Dash>>[1] = Dash
    OBVIOUS
  <2>2. <<z>> # <<Dash>>
    BY <1>1, <2>1
  <2> QED BY <1>2, <2>1, <2>2 DEF FromStdin
<1> DEFINE c == [pc |-> "next", left |-> <<z>>]
<1>4. Become(p, c)
  BY <1>2, <1>3 DEF Run
<1>5. DOMAIN c = {"pc", "left"} /\ c.pc = "next" /\ c.left = <<z>>
  OBVIOUS
<1> HIDE DEF c
<1>6. proc'[p].pc = "next" /\ proc'[p].left = <<Lzo[f]>> /\ proc'[p].results = <<"ok">>
  BY <1>1, <1>4, <1>5, OwnState DEF ProcFields, z
<1>7. Archived(f)' /\ ~Exists(f)'
  BY <1>1, ArchivedStays DEF Unpacking, Exists
<1> QED BY <1>6, <1>7 DEF Unpacking, At, FilePcs, Moving

\* What came back stays, as long as nobody touches it.
LEMMA BackStays ==
    ASSUME NEW f, Back(f), UNCHANGED <<dir, node, scenario>>
    PROVE  Back(f)'
BY SameHeader DEF Back, Exists, Cells, TimeOf, May

LEMMA PairMade ==
    ASSUME NEW x, NEW y
    PROVE  Append(<<x>>, y) = <<x, y>>
<1>1. <<x>> \in Seq({x, y}) /\ <<x, y>> \in Seq({x, y}) /\ Len(<<x>>) = 1 /\ Len(<<x, y>>) = 2
  OBVIOUS
<1>2. IsSeq(<<x>>) /\ IsSeq(<<x, y>>)
  BY <1>1, SeqOf
<1>3. /\ IsSeq(Append(<<x>>, y)) /\ Len(Append(<<x>>, y)) = 2
      /\ Append(<<x>>, y)[1] = x /\ Append(<<x>>, y)[2] = y
  <2>1. 1 \in 1 .. Len(<<x>>) /\ <<x>>[1] = x /\ Len(<<x>>) + 1 = 2
    BY <1>1
  <2> QED BY <1>2, <2>1, SeqAppend
<1>4. \A k \in 1 .. Len(Append(<<x>>, y)) : Append(<<x>>, y)[k] = <<x, y>>[k]
  <2> SUFFICES ASSUME NEW k \in 1 .. 2
               PROVE  Append(<<x>>, y)[k] = <<x, y>>[k]
    BY <1>3
  <2>1. k = 1 \/ k = 2
    OBVIOUS
  <2> QED BY <1>3, <2>1
<1> QED BY <1>1, <1>2, <1>3, <1>4, SeqsEqual

LEMMA UnpackingEachFile ==
    ASSUME TypeInv, NEW p \in Procs, NEW f \in DOMAIN Lzo, Errand(p, f),
           proc[p].results = <<"ok">>, Unpacking(p, f), EachFile(p)
    PROVE  \/ proc'[p].results = <<"ok">> /\ Unpacking(p, f)'
           \/ proc'[p].results = <<"ok", "ok">> /\ Back(f)'
           \/ proc'[p].results = <<"ok", "err">>
<1>1. At(p, "next") /\ UNCHANGED <<dir, node, scenario>> /\ ~Compressing(p)
  BY ErrandFacts DEF EachFile, Compressing, Plainly
<1>2. CASE proc[p].left = <<Lzo[f]>> /\ Archived(f) /\ ~Exists(f)
  <2>1. proc[p].left # <<>> /\ File(p) = Lzo[f]
    BY <1>2 DEF File
  <2> DEFINE c == [pc |-> "open"]
  <2>2. Become(p, c)
    BY <1>1, <2>1 DEF EachFile, Suffixed
  <2>3. DOMAIN c = {"pc"} /\ c.pc = "open"
    OBVIOUS
  <2> HIDE DEF c
  <2> QED BY <1>1, <1>2, <2>2, <2>3, UnpackingOnItsOwn DEF ProcFields
<1>3. CASE proc[p].left = <<>> /\ (proc[p].errs \/ Back(f))
  <2> DEFINE r == IF proc[p].errs THEN "err" ELSE "ok"
  <2>1. Return(p, r) /\ r \in {"ok", "err"}
    BY <1>1, <1>3 DEF EachFile
  <2>2. r = "ok" => Back(f)
    BY <1>3
  <2> HIDE DEF r
  <2>3. proc'[p].results = Append(<<"ok">>, r)
    BY <2>1, CommandEnds
  <2>4. Append(<<"ok">>, r) = <<"ok", r>>
    BY PairMade
  <2>5. CASE r = "err"
    BY <2>3, <2>4, <2>5
  <2>6. CASE r = "ok"
    BY <1>1, <2>2, <2>3, <2>4, <2>6, BackStays
  <2> QED BY <2>1, <2>5, <2>6
<1> QED BY <1>1, <1>2, <1>3 DEF Unpacking

LEMMA UnpackingReads ==
    ASSUME TypeInv, NEW p \in Procs, NEW f \in DOMAIN Lzo, Errand(p, f), InHand(p),
           proc[p].results = <<"ok">>, Unpacking(p, f), Open(p) \/ ReadHeader(p) \/ Check(p)
    PROVE  proc'[p].results = <<"ok">> /\ Unpacking(p, f)'
<1>1. /\ proc[p].pc \in {"open", "header", "check"} /\ UNCHANGED <<dir, node, scenario>>
      /\ DOMAIN proc = Procs /\ DOMAIN proc[p] = ProcFields
  BY DEF TypeInv, Well, Open, ReadHeader, Check, At
<1>2. /\ File(p) = Lzo[f] /\ ~Compressing(p) /\ ~ToStdout(p) /\ proc[p].left = <<Lzo[f]>>
      /\ Archived(f) /\ ~Exists(f)
  BY <1>1, UnpackingFacts DEF FilePcs, Unpacking
<1>3. CASE NextFile(p, TRUE)
  BY <1>2, <1>3, FileEnds, GivenUp
<1>4. CASE Open(p) /\ ~NextFile(p, TRUE)
  <2> DEFINE c == [pc |-> "header", in |-> dir[Lzo[f]]]
  <2>1. Become(p, c)
    BY <1>2, <1>4 DEF Open
  <2>2. DOMAIN c = {"pc", "in"} /\ c.pc = "header"
    OBVIOUS
  <2> HIDE DEF c
  <2> QED BY <1>1, <1>2, <2>1, <2>2, UnpackingOnItsOwn DEF ProcFields
<1>5. CASE ReadHeader(p) /\ ~NextFile(p, TRUE)
  <2>1. Input(p) = Cells(Lzo[f])
    BY <1>2, <1>5 DEF ReadHeader, At, InHand, Input, Cells
  <2>2. Head(Input(p)) = HeaderOf(f)
    BY <1>2, <2>1 DEF Archived, Packed
  <2> DEFINE m == initial[f].mode
             t == Seconds(initial[f].mtime)
  <2>3. Head(Input(p))[2] = m /\ Head(Input(p))[3] = t
    BY <2>2 DEF HeaderOf
  <2>4. PICK k : Become(p, [pc |-> "check", seen |-> SubSeq(Input(p), 1, k), used |-> 1,
                            mode |-> Head(Input(p))[2], mtime |-> Head(Input(p))[3]])
    BY <1>2, <1>5 DEF ReadHeader
  <2> DEFINE c == [pc |-> "check", seen |-> SubSeq(Input(p), 1, k), used |-> 1,
                   mode |-> m, mtime |-> t]
  <2>5. Become(p, c)
    BY <2>3, <2>4
  <2>6. DOMAIN c = {"pc", "seen", "used", "mode", "mtime"} /\ c.pc = "check" /\ c.mode = m /\ c.mtime = t
    OBVIOUS
  <2> HIDE DEF c
  <2>7. Heading(p)' = HeaderOf(f)
    <3>1. proc'[p].mode = m /\ proc'[p].mtime = t
      BY <1>1, <2>5, <2>6, OwnState DEF ProcFields
    <3> QED BY <3>1 DEF Heading, HeaderOf
  <2> QED BY <1>1, <1>2, <2>5, <2>6, <2>7, UnpackingOnItsOwn DEF ProcFields
<1>6. CASE Check(p) /\ ~NextFile(p, TRUE)
  <2> DEFINE c == [pc |-> "create"]
  <2>1. Become(p, c)
    BY <1>6 DEF Check
  <2>2. DOMAIN c = {"pc"} /\ c.pc = "create"
    OBVIOUS
  <2> HIDE DEF c
  <2>3. Heading(p)' = Heading(p)
    BY <1>1, <2>1, <2>2, OwnState, SameHeading DEF ProcFields
  <2>4. Heading(p) = HeaderOf(f)
    BY <1>6 DEF Check, At, Unpacking, Moving
  <2> QED BY <1>1, <1>2, <2>1, <2>2, <2>3, <2>4, UnpackingOnItsOwn DEF ProcFields
<1> QED BY <1>3, <1>4, <1>5, <1>6

\* A write leaves a file its mode and gives it the time.
LEMMA SpilledAttributes ==
    ASSUME TypeInv, NEW p \in Procs, NEW then, Spilled(p, then), proc[p].tgt \in Inodes,
           proc[p].tgt # None
    PROVE  node'[proc[p].tgt].mode = node[proc[p].tgt].mode /\ node'[proc[p].tgt].mtime = NOW
<1>1. PICK t \in Inodes : t = proc[p].tgt
  OBVIOUS
<1>2. DOMAIN node = Inodes /\ DOMAIN node[t] = {"cells", "mode", "mtime"}
  BY DEF TypeInv, FilesInv, IsFile
<1> DEFINE w == Written(node[t].cells, proc[p].wpos, proc[p].buf)
<1>3. node' = [node EXCEPT ![t].cells = w, ![t].mtime = NOW]
  BY <1>1 DEF Spilled
<1> HIDE DEF w
<1>4. node'[t].mode = node[t].mode /\ node'[t].mtime = NOW
  BY <1>2, <1>3
<1> QED BY <1>1, <1>4

LEMMA UnpackingMakes ==
    ASSUME ToolInv, NEW p \in Procs, NEW f \in DOMAIN Lzo, Errand(p, f), InHand(p),
           proc[p].results = <<"ok">>, Unpacking(p, f),
           \/ Create(p) \/ CopyBlock(p) \/ CopyEnd(p) \/ Spill(p) \/ Flush(p) \/ Restore(p)
           \/ CopyFails(p)
    PROVE  proc'[p].results = <<"ok">> /\ Unpacking(p, f)'
<1> DEFINE z == Lzo[f]
           t == proc[p].tgt
<1>1. /\ proc[p].pc \in {"create", "copy", "flush", "mode", "mtime"} /\ scenario' = scenario
      /\ DOMAIN proc = Procs /\ DOMAIN proc[p] = ProcFields /\ TypeInv /\ FilesInv
      /\ Unforced /\ Alone /\ f \in Names /\ z # f /\ z \in Names /\ ~Failing
  BY ErrandFacts, CopyFailsTypes
     DEF ToolInv, TypeInv, Well, Create, CopyBlock, CopyEnd, Spill, Flush, Restore, CopyFails, At,
         Errand
<1>2. /\ File(p) = z /\ ~Compressing(p) /\ ~ToStdout(p) /\ Target(p) = f /\ proc[p].left = <<z>>
      /\ Archived(f) /\ f \in DOMAIN initial /\ Heading(p) = HeaderOf(f)
  BY <1>1, UnpackingFacts DEF FilePcs, Unpacking, Moving
<1>3. /\ dir[z] \in Inodes /\ dir[z] = proc[p].in
      /\ ~At(p, "create") => t \in Inodes /\ t # None /\ t # dir[z] /\ dir[f] = t
  BY <1>1, <1>2, InAndOut DEF Moving, At
<1> HIDE DEF z, t
<1>4. ASSUME dir'[z] = dir[z], node'[dir[z]] = node[dir[z]],
             \A x \in {"results", "left", "mode", "mtime"} : proc'[p][x] = proc[p][x]
      PROVE  /\ Archived(f)' /\ proc'[p].left = <<Lzo[f]>> /\ proc'[p].results = <<"ok">>
             /\ Heading(p)' = HeaderOf(f)' /\ ModeOf(f)' = ModeOf(f)
  BY <1>1, <1>2, <1>4, ArchivedStays, SameHeading, SameHeader DEF z
<1>5. CASE NextFile(p, TRUE)
  BY <1>1, <1>2, <1>5, FileEnds, GivenUp
<1>6. CASE Create(p) /\ ~NextFile(p, TRUE)
  <2>1. /\ proc'[p].pc = "copy" /\ \A x \in ProcFields \ {"pc", "tgt"} : proc'[p][x] = proc[p][x]
        /\ node'[proc'[p].tgt] = NewFile
        /\ \A n \in Names : dir[n] # proc'[p].tgt
        /\ \A n \in Names \ {f} : dir'[n] = dir[n]
        /\ \A j \in Inodes \ {proc'[p].tgt} : node'[j] = node[j]
    BY <1>1, <1>2, <1>6, NewlyMade
  <2>2. dir'[z] = dir[z] /\ node'[dir[z]] = node[dir[z]]
    BY <1>1, <1>3, <2>1
  <2>3. node'[proc'[p].tgt].mode = DEFAULT_MODE /\ node'[proc'[p].tgt].mtime = NOW
    BY <2>1 DEF NewFile
  <2> QED BY <1>4, <2>1, <2>2, <2>3 DEF Unpacking, At, FilePcs, ProcFields
<1>7. CASE CopyBlock(p) \/ CopyEnd(p)
  <2>1. UNCHANGED <<dir, node>>
    BY <1>7 DEF CopyBlock, CopyEnd
  <2>2. proc'[p].pc \in {"copy", "flush"} /\ proc'[p].tgt = t
        /\ \A x \in {"results", "left", "mode", "mtime"} : proc'[p][x] = proc[p][x]
    BY <1>1, <1>7 DEF CopyBlock, CopyEnd, Become, ++, ProcFields, At, t
  <2>3. node[t].mode = DEFAULT_MODE /\ node[t].mtime = NOW
    BY <1>7 DEF Unpacking, CopyBlock, CopyEnd, At, t
  <2> QED BY <1>4, <2>1, <2>2, <2>3 DEF Unpacking, At, FilePcs
<1>8. CASE Spill(p) \/ Flush(p)
  <2>1. proc[p].tgt \in Inodes /\ proc[p].tgt # None /\ t # dir[z]
    BY <1>3, <1>8 DEF Spill, Flush, At, t
  <2>2. PICK q \in {"copy", "mode"} : Spilled(p, [pc |-> q]) /\ dir' = dir
    BY <1>8, <2>1 DEF Spill, Flush, Flushed
  <2>3. node'[dir[z]] = node[dir[z]]
    BY <1>1, <1>3, <2>1, <2>2, SpilledFiles DEF t
  <2>4. proc'[p].pc = q /\ proc'[p].tgt = t
        /\ \A x \in {"results", "left", "mode", "mtime"} : proc'[p][x] = proc[p][x]
    BY <1>1, <2>2, SpilledFields DEF ProcFields, t
  <2>5. node'[t].mode = DEFAULT_MODE /\ node'[t].mtime = NOW
    <3>1. node[t].mode = DEFAULT_MODE
      BY <1>8 DEF Unpacking, Spill, Flush, At, t
    <3> QED BY <1>1, <2>1, <2>2, <3>1, SpilledAttributes DEF t
  <2> QED BY <1>4, <2>2, <2>3, <2>4, <2>5 DEF Unpacking, At, FilePcs
<1>9. CASE Restore(p)
  <2>1. /\ proc[p].pc \in {"mode", "mtime"} /\ dir' = dir /\ proc'[p].tgt = t
        /\ \A x \in {"results", "left", "mode", "mtime"} : proc'[p][x] = proc[p][x]
    BY <1>1, <1>9, RestoreFields DEF ProcFields, t
  <2>2. dir[Target(p)] = t /\ t \in Inodes /\ t # dir[z]
    BY <1>2, <1>3, <2>1 DEF At
  <2>3. /\ \A j \in Inodes \ {t} : node'[j] = node[j]
        /\ At(p, "mode") =>
              /\ proc'[p].pc = "mtime"
              /\ node'[t].mode = IF proc[p].mode # 0 THEN proc[p].mode ELSE node[t].mode
              /\ node'[t].mtime = node[t].mtime
        /\ At(p, "mtime") =>
              /\ proc'[p].pc = "remove" /\ node'[t].mode = node[t].mode
              /\ node'[t].mtime = IF proc[p].mtime # 0 /\ May("write", t) THEN Time(proc[p].mtime)
                                  ELSE node[t].mtime
    BY <1>1, <1>2, <1>9, <2>2, AttributesSet
  <2>4. node'[dir[z]] = node[dir[z]]
    BY <1>3, <2>2, <2>3
  <2>5. proc[p].mode = initial[f].mode /\ proc[p].mtime = Seconds(initial[f].mtime)
    BY <1>2 DEF Heading, HeaderOf
  <2>6. CASE At(p, "mode")
    <3>1. node[t].mode = DEFAULT_MODE /\ node[t].mtime = NOW
      BY <2>6 DEF Unpacking, At, t
    <3>2. proc'[p].pc = "mtime" /\ node'[t].mode = ModeOf(f) /\ node'[t].mtime = NOW
      BY <2>3, <2>5, <2>6, <3>1 DEF ModeOf
    <3> QED BY <1>4, <2>1, <2>4, <3>2 DEF Unpacking, At, FilePcs, Moving
  <2>7. CASE At(p, "mtime")
    <3>1. node[t].mode = ModeOf(f) /\ node[t].mtime = NOW
      BY <2>7 DEF Unpacking, At, t
    <3>2. proc'[p].pc = "remove" /\ node'[t].mode = ModeOf(f) /\ node'[t].mtime = TimeOf(f, t)
      BY <2>3, <2>5, <2>7, <3>1 DEF TimeOf
    <3>3. TimeOf(f, proc[p].tgt)' = TimeOf(f, t)
      BY <1>1, <2>1, <2>3, <2>7, SameHeader DEF TimeOf, May
    <3> QED BY <1>4, <2>1, <2>4, <3>2, <3>3 DEF Unpacking, At, FilePcs, Moving
  <2> QED BY <2>1, <2>6, <2>7 DEF At
<1>10. CASE CopyFails(p)
  BY <1>5, <1>10 DEF CopyFails
<1> QED BY <1>5, <1>6, <1>7, <1>8, <1>9, <1>10

\* Unpacking what was packed gives what was packed.
LEMMA SameAgain ==
    ASSUME NEW h, NEW a, NEW c, NEW w, IsSeq(a), IsSeq(c), IsSeq(w), Packed(h, c, w), Unpacked(a, c)
    PROVE  a = w
<1>1. Len(w) \in Nat /\ Len(c) = Len(w) + 2
  BY SeqFacts DEF Packed
<1>2. PICK k \in 1 .. Len(c) - 1 : UnpackedTo(a, c, k) /\ c[k + 1][1] = "end"
  BY DEF Unpacked
<1>3. ~(k \in 1 .. Len(w))
  <2> SUFFICES ASSUME k \in 1 .. Len(w)
               PROVE  FALSE
    OBVIOUS
  <2>1. c[k + 1] = <<"block", w[k]>>
    BY DEF Packed
  <2> QED BY <1>2, <2>1
<1>4. k = Len(w) + 1
  BY <1>1, <1>2, <1>3
<1>5. Len(a) = Len(w) /\ \A j \in 1 .. Len(w) : a[j] = c[j + 1][2]
  BY <1>1, <1>2, <1>4 DEF UnpackedTo
<1>6. \A j \in 1 .. Len(w) : c[j + 1] = <<"block", w[j]>>
  BY DEF Packed
<1>7. \A j \in 1 .. Len(a) : a[j] = w[j]
  BY <1>5, <1>6
<1> QED BY <1>5, <1>7, SeqsEqual

LEMMA UnpackingEnds ==
    ASSUME TypeInv, SeqsInv, NEW p \in Procs, NEW f \in DOMAIN Lzo, Errand(p, f), InHand(p),
           proc[p].results = <<"ok">>, Unpacking(p, f), Remove(p)
    PROVE  proc'[p].results = <<"ok">> /\ Unpacking(p, f)'
<1>1. /\ At(p, "remove") /\ UNCHANGED <<node, scenario>> /\ FilesInv /\ f \in Names /\ Lzo[f] # f
      /\ Lzo[f] \in Names /\ (f \in DOMAIN initial => IsSeq(initial[f].cells))
  BY ErrandFacts DEF Remove, TypeInv
<1>2. /\ File(p) = Lzo[f] /\ ~Compressing(p) /\ Target(p) = f /\ ~Keeps(p)
      /\ proc[p].left = <<Lzo[f]>> /\ f \in DOMAIN initial /\ Archived(f)
  BY <1>1, UnpackingFacts DEF FilePcs, At
<1>3. CASE NextFile(p, TRUE)
  BY <1>2, <1>3, FileEnds, GivenUp
<1>4. CASE NextFile(p, FALSE) /\ dir' = [dir EXCEPT ![Lzo[f]] = None]
  <2>1. proc'[p].pc = "next" /\ proc'[p].left = <<>> /\ proc'[p].results = <<"ok">>
    BY <1>2, <1>4, FileEnds
  <2>2. /\ proc[p].tgt # None /\ dir[f] = proc[p].tgt
        /\ IsSeq(Cells(f)) /\ IsSeq(Cells(Lzo[f])) /\ Unpacked(Cells(f), Cells(Lzo[f]))
    BY <1>1, <1>2, MadeInFull
  <2>3. Cells(f) = initial[f].cells
    <3>1. PICK a, c, w : a = Cells(f) /\ c = Cells(Lzo[f]) /\ w = initial[f].cells
      OBVIOUS
    <3>2. Packed(HeaderOf(f), c, w)
      BY <1>2, <3>1 DEF Archived
    <3>3. IsSeq(a) /\ IsSeq(c) /\ IsSeq(w) /\ Unpacked(a, c)
      BY <1>1, <1>2, <2>2, <3>1
    <3>4. a = w
      BY <3>2, <3>3, SameAgain
    <3> QED BY <3>1, <3>4
  <2>4. node[dir[f]].mode = ModeOf(f) /\ node[dir[f]].mtime = TimeOf(f, dir[f])
    BY <1>1, <2>2 DEF Unpacking
  <2>5. dir'[f] = dir[f]
    BY <1>1, <1>4 DEF FilesInv
  <2>6. Back(f)'
    <3>1. Exists(f)' /\ Cells(f)' = initial[f].cells
      BY <1>1, <2>2, <2>3, <2>5 DEF Exists, Cells
    <3>2. TimeOf(f, dir[f])' = TimeOf(f, dir[f])
      BY <1>1, <2>5, SameHeader DEF TimeOf, May
    <3>3. f \in (DOMAIN initial)'
      BY <1>1, <1>2 DEF initial
    <3> QED BY <1>1, <2>4, <2>5, <3>1, <3>2, <3>3, SameHeader DEF Back
  <2> QED BY <2>1, <2>6 DEF Unpacking, At, FilePcs, Moving
<1> QED BY <1>2, <1>3, <1>4 DEF Remove
-----------------------------------------------------------------------------
\* The result of a command is added to those before it.
LEMMA ResultsGrow ==
    ASSUME TypeInv, NEW p \in Procs, Step(p) \/ Killed(p)
    PROVE  \/ proc'[p].results = proc[p].results
           \/ proc'[p].results = Append(proc[p].results, "ok")
           \/ proc'[p].results = Append(proc[p].results, "err")
<1>1. DOMAIN proc = Procs /\ DOMAIN proc[p] = ProcFields
  BY DEF TypeInv, Well
<1>2. \A failed : NextFile(p, failed) => proc'[p].results = proc[p].results
  BY <1>1, NextFileFields DEF Advances
<1>3. ASSUME NEW r \in {"ok", "err"}, Return(p, r)
      PROVE  proc'[p].results = Append(proc[p].results, r)
  BY <1>3, CommandEnds
<1>4. ASSUME NEW s, Become(p, [stdout |-> s, results |-> Append(proc[p].results, "ok")] ++ Idle)
      PROVE  proc'[p].results = Append(proc[p].results, "ok")
  <2> DEFINE c == [stdout |-> s, results |-> Append(proc[p].results, "ok")]
  <2>1. DOMAIN c = {"results", "stdout"} /\ c.results = Append(proc[p].results, "ok")
    OBVIOUS
  <2>2. Become(p, c ++ Idle)
    BY <1>4
  <2> HIDE DEF c
  <2> QED BY <1>1, <2>1, <2>2, ReturnFields
<1>5. ASSUME NEW c, Become(p, c), "results" \notin DOMAIN c
      PROVE  proc'[p].results = proc[p].results
  BY <1>1, <1>5 DEF Become, ++, ProcFields
<1>6. CASE Run(p)
  BY <1>3, <1>5, <1>6 DEF Run
<1>7. CASE Report(p)
  BY <1>3, <1>5, <1>7 DEF Report
<1>8. CASE EachFile(p)
  BY <1>2, <1>3, <1>5, <1>8 DEF EachFile
<1>9. CASE RawRead(p)
  BY <1>3, <1>4, <1>5, <1>9 DEF RawRead
<1>10. CASE Filter(p)
  BY <1>3, <1>4, <1>5, <1>10 DEF Filter
<1>11. CASE Stat(p)
  BY <1>2, <1>5, <1>11 DEF Stat
<1>12. CASE Open(p)
  BY <1>2, <1>5, <1>12 DEF Open
<1>13. CASE ReadHeader(p)
  BY <1>2, <1>5, <1>13 DEF ReadHeader
<1>14. CASE Check(p)
  BY <1>2, <1>5, <1>14 DEF Check
<1>15. CASE Create(p)
  BY <1>2, <1>5, <1>15 DEF Create
<1>16. CASE CopyBlock(p)
  BY <1>5, <1>16 DEF CopyBlock
<1>17. CASE CopyEnd(p)
  BY <1>5, <1>17 DEF CopyEnd
<1>18. CASE RawCreate(p)
  BY <1>3, <1>5, <1>18 DEF RawCreate
<1>19. CASE Spill(p)
  BY SpilledFields, <1>19 DEF Spill, ProcFields
<1>20. CASE Flush(p)
  BY SpilledFields, FlushedFields, <1>20 DEF Flush, Flushed, Advances, ProcFields
<1>21. CASE CopyFails(p) \/ Remove(p) \/ CallFails(p)
  BY <1>2, <1>21 DEF CopyFails, Remove, CallFails
<1>22. CASE Restore(p) \/ Killed(p)
  BY RestoreFields, KilledFields, <1>22 DEF ProcFields
<1>23. CASE RawWrite(p) \/ RawFails(p)
  BY <1>3, <1>23 DEF RawWrite, RawFails
<1> QED BY <1>6, <1>7, <1>8, <1>9, <1>10, <1>11, <1>12, <1>13, <1>14, <1>15,
           <1>16, <1>17, <1>18, <1>19, <1>20, <1>21, <1>22, <1>23 DEF Step

LEMMA ResultsDiffer ==
    /\ <<>> # <<"ok">> /\ <<>> # <<"err">> /\ <<>> # <<"ok", "ok">> /\ <<"ok">> # <<"err">>
    /\ <<"ok">> # <<"ok", "ok">> /\ <<"err">> # <<"ok", "ok">>
    /\ <<"ok", "err">> \notin {<<>>, <<"ok">>, <<"ok", "ok">>}
    /\ \A r : <<"err", r>> \notin {<<>>, <<"ok">>, <<"ok", "ok">>}
OBVIOUS

LEMMA ErrandStep ==
    ASSUME ToolInv, SeqsInv, NEW p \in Procs, NEW f \in DOMAIN Lzo, Errand(p, f), InHand(p),
           Step(p) \/ Killed(p)
    PROVE  /\ proc[p].results = <<>> /\ Packing(p, f) =>
                 \/ proc'[p].results = <<>> /\ Packing(p, f)'
                 \/ proc'[p].results = <<"ok">> /\ Unpacking(p, f)'
                 \/ proc'[p].results = <<"err">>
           /\ proc[p].results = <<"ok">> /\ Unpacking(p, f) =>
                 \/ proc'[p].results = <<"ok">> /\ Unpacking(p, f)'
                 \/ proc'[p].results = <<"ok", "ok">> /\ Back(f)'
                 \/ proc'[p].results = <<"ok", "err">>
<1>1. TypeInv /\ Placed(p)
  BY DEF ToolInv, TypeInv
<1>2. ASSUME proc[p].results = <<>>, Packing(p, f)
      PROVE  \/ proc'[p].results = <<>> /\ Packing(p, f)'
             \/ proc'[p].results = <<"ok">> /\ Unpacking(p, f)'
             \/ proc'[p].results = <<"err">>
  <2>1. proc[p].pc \in {"idle", "next"} \cup FilePcs
    BY <1>2 DEF Packing
  <2>2. CASE At(p, "idle")
    BY <1>1, <1>2, <2>2, CallMade, PackingBegins
  <2>3. CASE At(p, "next")
    BY <1>1, <1>2, <2>3, CallMade, PackingEachFile
  <2>4. CASE proc[p].pc \in FilePcs
    <3>1. Compressing(p) /\ ~At(p, "header")
      BY <1>1, <1>2, <2>4, PackingFacts
    <3>2. CASE proc[p].pc \in {"stat", "open", "check"}
      BY <1>1, <1>2, <3>2, CallMade, PackingReads DEF At
    <3>3. CASE proc[p].pc \in {"create", "copy", "flush", "mode", "mtime"}
      BY <1>1, <1>2, <3>1, <3>3, CallMade, PackingMakes DEF At
    <3>4. CASE proc[p].pc = "remove"
      BY <1>1, <1>2, <3>4, CallMade, PackingEnds DEF At
    <3> QED BY <2>4, <3>1, <3>2, <3>3, <3>4 DEF FilePcs, At
  <2> QED BY <2>1, <2>2, <2>3, <2>4 DEF At
<1>3. ASSUME proc[p].results = <<"ok">>, Unpacking(p, f)
      PROVE  \/ proc'[p].results = <<"ok">> /\ Unpacking(p, f)'
             \/ proc'[p].results = <<"ok", "ok">> /\ Back(f)'
             \/ proc'[p].results = <<"ok", "err">>
  <2>1. proc[p].pc \in {"idle", "next"} \cup FilePcs
    BY <1>3 DEF Unpacking
  <2>2. CASE At(p, "idle")
    BY <1>1, <1>3, <2>2, CallMade, UnpackingBegins
  <2>3. CASE At(p, "next")
    BY <1>1, <1>3, <2>3, CallMade, UnpackingEachFile
  <2>4. CASE proc[p].pc \in FilePcs
    <3>1. ~At(p, "stat")
      BY <1>1, <1>3, <2>4, UnpackingFacts
    <3>2. CASE proc[p].pc \in {"open", "header", "check"}
      BY <1>1, <1>3, <3>2, CallMade, UnpackingReads DEF At
    <3>3. CASE proc[p].pc \in {"create", "copy", "flush", "mode", "mtime"}
      BY <1>1, <1>3, <3>3, CallMade, UnpackingMakes DEF At
    <3>4. CASE proc[p].pc = "remove"
      BY <1>1, <1>3, <3>4, CallMade, UnpackingEnds DEF At
    <3> QED BY <2>4, <3>1, <3>2, <3>3, <3>4 DEF FilePcs, At
  <2> QED BY <2>1, <2>2, <2>3, <2>4 DEF At
<1> QED BY <1>2, <1>3

LEMMA ErrandBegins ==
    ASSUME Init
    PROVE  ErrandInv
<1> SUFFICES ASSUME NEW p \in Procs, NEW f \in DOMAIN Lzo, Errand(p, f)
             PROVE  proc[p].results = <<>> /\ Packing(p, f)
  BY DEF ErrandInv
<1>1. TypeInv /\ proc[p].pc = "idle" /\ proc[p].results = <<>>
  BY InitTypes, InitFields
<1>2. f \in Names /\ (f \in DOMAIN initial => f \in Inodes)
  BY <1>1, ErrandFacts
<1>3. Original(f)
  BY <1>2 DEF Init, Original
<1> QED BY <1>1, <1>3 DEF Packing, At, FilePcs

LEMMA ErrandStays ==
    ASSUME ToolInv, ContentsInv, ErrandInv, [Next]_vars
    PROVE  ErrandInv'
<1>1. /\ TypeInv /\ scenario' = scenario /\ \A p \in Procs : proc'[p].jobs = proc[p].jobs
      /\ (Alone' <=> Alone)
  BY JobsStay DEF ToolInv
<1> SUFFICES ASSUME NEW p \in Procs, NEW f \in DOMAIN Lzo, Errand(p, f)
             PROVE  /\ proc'[p].results = <<>> => Packing(p, f)'
                    /\ proc'[p].results = <<"ok">> => Unpacking(p, f)'
                    /\ proc'[p].results = <<"ok", "ok">> => Back(f)'
  BY <1>1 DEF ErrandInv, Errand
<1>2. /\ proc[p].results = <<>> => Packing(p, f)
      /\ proc[p].results = <<"ok">> => Unpacking(p, f)
      /\ proc[p].results = <<"ok", "ok">> => Back(f)
  BY DEF ErrandInv
<1>3. CASE UNCHANGED vars
  <2>1. Packing(p, f)' <=> Packing(p, f)
    BY <1>3 DEF vars, Packing, At, Original, Archived, Exists, Cells, Heading, HeaderOf, initial
  <2>2. Unpacking(p, f)' <=> Unpacking(p, f)
    BY <1>3 DEF vars, Unpacking, At, Archived, Exists, Cells, Heading, HeaderOf, initial, Back,
                ModeOf, TimeOf, May
  <2>3. Back(f)' <=> Back(f)
    BY <1>3 DEF vars, Back, Exists, Cells, ModeOf, TimeOf, May, initial
  <2> QED BY <1>2, <1>3, <2>1, <2>2, <2>3 DEF vars
<1>4. ASSUME NEW self \in Procs, Step(self) \/ Killed(self)
      PROVE  /\ proc'[p].results = <<>> => Packing(p, f)'
             /\ proc'[p].results = <<"ok">> => Unpacking(p, f)'
             /\ proc'[p].results = <<"ok", "ok">> => Back(f)'
  <2>1. self = p /\ Len(proc[p].results) < 2 /\ Unforced /\ Alone
    <3>1. Len(proc[p].jobs) = 2 /\ Unforced
      BY <1>1, ErrandFacts
    <3>2. proc[p].jobs # <<>> /\ proc[self].jobs # <<>>
      BY <1>1, <1>4, <3>1, ActorHasJobs
    <3>3. self = p
      BY <3>2 DEF Errand, Alone
    <3> QED BY <1>1, <1>4, <3>1, <3>3, ActorHasJobs DEF Errand
  <2>2. SeqsInv /\ InHand(p)
    BY <2>1 DEF ContentsInv
  <2>3. \/ proc[p].results = <<>> \/ proc[p].results = <<"ok">> \/ proc[p].results = <<"err">>
    <3>1. proc[p].results \in Seq({"ok", "err"})
      BY <1>1 DEF TypeInv, Well
    <3>2. Len(proc[p].results) \in Nat
      BY <3>1
    <3>3. \A n \in Nat : n < 2 => n = 0 \/ n = 1
      OBVIOUS
    <3>4. Len(proc[p].results) = 0 \/ Len(proc[p].results) = 1
      BY <2>1, <3>2, <3>3
    <3>5. CASE Len(proc[p].results) = 0
      BY <3>1, <3>5
    <3>6. CASE Len(proc[p].results) = 1
      <4>1. proc[p].results = <<proc[p].results[1]>> /\ proc[p].results[1] \in {"ok", "err"}
        BY <3>1, <3>6
      <4> QED BY <4>1
    <3> QED BY <3>4, <3>5, <3>6
  <2>4. CASE proc[p].results = <<>>
    BY <1>2, <1>4, <2>1, <2>2, <2>4, ErrandStep, ResultsDiffer
  <2>5. CASE proc[p].results = <<"ok">>
    BY <1>2, <1>4, <2>1, <2>2, <2>5, ErrandStep, ResultsDiffer
  <2>6. CASE proc[p].results = <<"err">>
    <3>1. \/ proc'[p].results = <<"err">> \/ proc'[p].results = <<"err", "ok">>
          \/ proc'[p].results = <<"err", "err">>
      BY <1>1, <1>4, <2>1, <2>6, ResultsGrow, PairMade
    <3> QED BY <3>1, ResultsDiffer
  <2> QED BY <2>3, <2>4, <2>5, <2>6
<1> QED BY <1>3, <1>4 DEF Next

\* lzo1x FILE and lzo1x -d FILE.lzo, run to a good end by a process that works
\* alone, give FILE back: its contents, its mode unless that was zero, and its
\* time cut to a whole second, unless it was before the first second after
\* UNIX_EPOCH or the mode forbids to set it.
THEOREM FileComesBack == Spec => []GivesBack
<1>1. Init => ToolInv /\ ContentsInv /\ ErrandInv
  BY InitIsFine, InitContents, ErrandBegins
<1>2. ToolInv /\ ContentsInv /\ ErrandInv /\ [Next]_vars => ToolInv' /\ ContentsInv' /\ ErrandInv'
  BY FineStays, ContentsStay, ErrandStays
<1>3. ToolInv /\ ErrandInv => GivesBack
  <2> SUFFICES ASSUME ToolInv, ErrandInv, NEW p \in Procs, NEW f \in DOMAIN Lzo, ThereAndBack(p, f)
               PROVE  LET was == initial[f]
                          is == node[dir[f]]
                      IN  /\ Exists(f) /\ is.cells = was.cells
                          /\ is.mode = IF was.mode = 0 THEN DEFAULT_MODE ELSE was.mode
                          /\ IF was.mtime >= EPOCH + SECOND /\ May("write", dir[f])
                             THEN /\ is.mtime <= was.mtime /\ was.mtime < is.mtime + SECOND
                                  /\ (is.mtime - EPOCH) % SECOND = 0
                             ELSE is.mtime = NOW
    BY DEF GivesBack
  <2>1. Back(f)
    BY DEF ErrandInv, ThereAndBack, Errand
  <2>2. initial[f].mtime \in Nat
    BY <2>1, ToolAssumption DEF ToolInv, TypeInv, FilesInv, Back, initial
  <2>3. CASE initial[f].mtime >= EPOCH + SECOND
    BY <2>1, <2>2, <2>3, SecondsCut DEF Back, ModeOf, TimeOf, Cells
  <2>4. CASE ~(initial[f].mtime >= EPOCH + SECOND)
    BY <2>1, <2>2, <2>4, SecondsCut DEF Back, ModeOf, TimeOf, Cells
  <2> QED BY <2>3, <2>4
<1> QED BY <1>1, <1>2, <1>3, PTL DEF Spec
=============================================================================
