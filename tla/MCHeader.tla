------------------------------ MODULE MCHeader ------------------------------
EXTENDS Header

\* What a header may be: this crate's, whatever it is given; another program's,
\* of either layout, with a filter and an extra field.
Plain == [writer |-> "this", version |-> 7, method |-> 1, level |-> 5, flags |-> 0, mode |-> 15,
          mtime |-> 37, name |-> <<15, 14>>, extra |-> 0]

SomeHeaders ==
    { [Plain EXCEPT !.flags = f, !.name = n, !.mtime = t] :
      f \in 0 .. 1, n \in {<<>>, <<15, 15, 3>>, <<1, 15, 15, 15>>}, t \in {0, 255} }
    \cup { [Plain EXCEPT !.writer = "other", !.flags = f, !.version = v, !.extra = x] :
           f \in {0, 1, 4, 8, 13}, v \in {3, 5}, x \in {0, 2} }
    \cup { [Plain EXCEPT !.flags = 2], [Plain EXCEPT !.method = 4], [Plain EXCEPT !.version = 4],
           [Plain EXCEPT !.flags = 4], [Plain EXCEPT !.flags = 8] }
=============================================================================
