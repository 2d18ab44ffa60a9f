----------------------------- MODULE MCFileTool -----------------------------
EXTENDS FileTool, TLC

SomeNames == {"f", "f.lzo", "g", "-"}
SomeInodes == SomeNames \cup {"i1", "i2", "i3", "i4"}
Suffix == [n \in {"f"} |-> "f.lzo"]

D(n) == [k \in 1 .. n |-> <<"data", k>>]
A(n) == <<<<"header", 6, 8>>>> \o Blocks(D(n)) \o <<<<"end">>>>

\* A modification time is in ticks, two to a second; UNIX_EPOCH is tick 5.  A
\* header has it in seconds.
Plain2 == [cells |-> D(2), mode |-> 6, mtime |-> 21]
Packed2 == [cells |-> A(2), mode |-> 4, mtime |-> 22]
Damaged == [Packed2 EXCEPT !.cells[3] = <<"bad", 2>>]
CutShort == [Packed2 EXCEPT !.cells = SubSeq(@, 1, 2)]
Other == [cells |-> <<<<"data", 7>>>>, mode |-> 6, mtime |-> 6]

\* What standard input holds: a file, an archive.
Input1 == <<<<"data", 3>>>>
Packed1 == <<<<"header", 0, 0>>>> \o Blocks(Input1) \o <<<<"end">>, <<"data", 4>>>>

\* Only the first two bits of a mode matter: the owner's.
ByMode == [m \in 0 .. 7 |-> IF m >= 6 THEN {"read", "write"} ELSE IF m >= 4 THEN {"read"} ELSE {}]

J(op, file) == [op |-> op, raw |-> FALSE, files |-> <<file>>, output |-> None,
                keep |-> FALSE, force |-> FALSE, stdout |-> FALSE, sized |-> FALSE]
Pack == J("compress", "f")
Unpack == J("decompress", "f.lzo")
NoFile == [Pack EXCEPT !.files = <<>>]
Both == [J("compress", "f") EXCEPT !.files = <<"f", "g">>, !.stdout = TRUE]

\* Every option, alone and with -f; -k and -c with -o, onto the input itself
\* too; command lines in a row; a usage error.
OneCommand ==
    { [j EXCEPT !.keep = k, !.force = f] : j \in {Pack, Unpack}, k \in BOOLEAN, f \in BOOLEAN }
    \cup { [j EXCEPT !.stdout = TRUE] : j \in {Pack, Unpack, Both, NoFile} }
    \cup { [j EXCEPT !.output = "g"] : j \in {Pack, Unpack, Both} }
    \cup { [j EXCEPT !.output = o, !.keep = k, !.stdout = ~k, !.force = f] :
           j \in {Pack, Unpack}, o \in {"f", "f.lzo", "g"}, k \in BOOLEAN, f \in BOOLEAN }
    \cup { [j EXCEPT !.op = "decompress"] : j \in {NoFile, Pack} }
    \cup { J(op, file) : op \in {"list", "test"}, file \in {"f", "f.lzo", Dash} }
    \cup { [NoFile EXCEPT !.op = "list"], J("compress", Dash),
           [J("compress", Dash) EXCEPT !.output = "g"] }
SomeCommands ==
    { <<j>> : j \in OneCommand } \cup { <<i, j>> : i, j \in {Pack, Unpack} }
    \cup { <<[j EXCEPT !.raw = TRUE, !.output = o, !.force = TRUE]>> :
           j \in {Pack, NoFile, Both, J("decompress", "f")}, o \in {None, "g"} }
    \cup { <<[Pack EXCEPT !.raw = TRUE, !.output = o, !.keep = TRUE],
             [J("decompress", o) EXCEPT !.raw = TRUE, !.sized = s]>> :
           o \in {"f", "g"}, s \in BOOLEAN }

Given1(files, commands, trouble) ==
    [files |-> files, jobs |-> [p \in Procs |-> IF p = "p" THEN commands ELSE <<>>],
     stdin |-> Input1, trouble |-> trouble]

In(name, file) == [n \in {name} |-> file]
SomeFiles == { In("f", Plain2), In("f.lzo", Packed2), In("f", Plain2) @@ In("f.lzo", Damaged),
               In("f.lzo", Damaged), In("f.lzo", CutShort), In("f.lzo", Packed2) @@ In("g", Other) }

\* One process: without trouble, with calls that fail, the clean-up among
\* them or not, and killed.
SingleScenarios ==
    { Given1(d, c, t) : d \in SomeFiles, c \in SomeCommands,
                        t \in { {}, {"calls fail"}, {"calls fail", "clean-up fails"},
                                {"calls fail", "killed"} } }
    \cup { [Given1(In("f", Plain2), <<c>>, t) EXCEPT !.stdin = Packed1] :
           c \in { [NoFile EXCEPT !.op = op] : op \in {"compress", "decompress", "list", "test"} },
           t \in { {}, {"calls fail"} } }

\* Modes and times that mean something else, or forbid something: before the
\* epoch, less than a second after it, between two seconds.
ModeScenarios ==
    { Given1(In("f", [Plain2 EXCEPT !.mode = m, !.mtime = t]), <<Pack, Unpack>>, r) :
      m \in {0, 4, 6}, t \in {4, 5, 6, 7, 21, 22}, r \in { {}, {"not root"} } }
    \cup { Given1(In("f.lzo", Packed2) @@ In("g", [Other EXCEPT !.mode = 4]),
                  <<[Unpack EXCEPT !.output = "g", !.force = TRUE, !.raw = raw]>>, {"not root"}) :
           raw \in BOOLEAN }

\* Two processes on the same file, without trouble.
TwoScenarios == { [files |-> d, jobs |-> j, stdin |-> Input1, trouble |-> {}] :
                  d \in { In("f", Plain2), In("f.lzo", Packed2) },
                  j \in [{"p", "q"} -> { <<[c EXCEPT !.keep = k]>> : c \in {Pack, Unpack}, k \in BOOLEAN }] }
AllScenarios == SingleScenarios \cup ModeScenarios \cup TwoScenarios

\* Two processes compress the same file, without -f.
RaceScenarios == { [files |-> In("f", Plain2), jobs |-> [p \in {"p", "q"} |-> <<Pack>>],
                    stdin |-> Input1, trouble |-> {}] }

\* A file that its owner may only read, compressed and decompressed.
ReadOnlyScenarios ==
    { Given1(In("f", [Plain2 EXCEPT !.mode = 4]), <<Pack, Unpack>>, {"not root"}) }
=============================================================================
