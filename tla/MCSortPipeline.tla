--------------------------- MODULE MCSortPipeline ---------------------------
(* Instances of the sort pipeline for TLC: words of two bits.              *)
EXTENDS SortPipeline

Bits == {0, 1}
Numbers == 0..3
BigEndian == [v \in Numbers |-> <<v \div 2, v % 2>>]
FromBigEndian == [b \in [1..2 -> Bits] |-> 2 * b[1] + b[2]]

FileOf(s) == FlattenSeq([k \in 1..Len(s) |-> BigEndian[s[k]]])
Job(file, count, net) == [file |-> file, count |-> count, net |-> net]

\* Sorted where they are: three or four chunks, whole ones or not, and more
\* chunks than bytes.
LocalJobs == {Job(FileOf(<<3, 1, 0, 2, 1, 0>>), 3, FALSE), Job(FileOf(<<>>), 2, FALSE),
              Job(FileOf(<<2, 3, 1>>), 2, FALSE), Job(<<1>>, 2, FALSE),
              Job(FileOf(<<2, 0, 3, 0>>), 4, FALSE)}
\* Sorted behind connections.
NetJobs == {Job(FileOf(<<2, 1>>), 2, TRUE), Job(FileOf(<<3, 1, 2>>), 1, TRUE)}
AllJobs == LocalJobs \cup NetJobs
=============================================================================
