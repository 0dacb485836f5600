---------------------------- MODULE SortPipeline ----------------------------
(***************************************************************************)
(* The external sort of 016_ccmouse_sortdemo: a file is read in chunks,    *)
(* every chunk is sorted in memory, the chunks are merged two by two and   *)
(* the result is written and its beginning printed.  Each stage is a       *)
(* goroutine behind a bounded channel; in the net version (createNet-      *)
(* Pipeline) a TCP connection lies between sorting and merging.            *)
(*                                                                         *)
(* A channel keeps all that was ever sent on it and how much of that was   *)
(* received, so that what lies in between is its buffer.                   *)
(*                                                                         *)
(* No stage looks at an error: a Read that fails is the end of the data,   *)
(* and a Write or Flush that fails loses what it was given.                *)
(***************************************************************************)
EXTENDS Integers, FiniteSets, Sequences, SequencesExt

CONSTANTS
    Cap,       \* the capacity of a channel (1024)
    Window,    \* how many bytes a connection holds before its sender blocks
    PrintMax,  \* how many values printFile prints (200)
    Word,      \* how many bytes a value takes (8)
    Byte, Zero,          \* the bytes, and the one make clears a buffer with
    Values,              \* the values
    Encode, Decode,      \* binary.BigEndian: PutUint64 and Uint64
    Jobs       \* the calls: [file, count, net], the file's bytes, the chunks

Buffers == [1..Word -> Byte]

ASSUME SortAssumption ==
    /\ Cap \in Nat \ {0} /\ Word \in Nat \ {0} /\ Window \in Nat /\ Window >= Word
    /\ PrintMax \in Nat \ {0}
    /\ Zero \in Byte /\ Values \subseteq Int
    /\ Encode \in [Values -> Buffers] /\ Decode \in [Buffers -> Values]
    /\ \A v \in Values : Decode[Encode[v]] = v
    /\ Jobs \subseteq [file : Seq(Byte), count : Nat \ {0}, net : BOOLEAN]

VARIABLES
    job,      \* the call, which stays what it is
    ch,       \* the channels
    reader,   \* the ReaderSource goroutine that feeds a channel
    sorted,   \* the InMemSort goroutine of each chunk
    conn,     \* the connection of each chunk, and the bytes on their way
    head,     \* the Merge goroutines: v1, ok1 and v2, ok2
    main,     \* "write", "print" or "done"
    disk,     \* large.out
    short,    \* a Read has returned less than a word from a connection
    failed    \* a Read or a Write has failed

vars == <<job, ch, reader, sorted, conn, head, main, disk, short, failed>>

-----------------------------------------------------------------------------
(* The goroutines and their channels.                                      *)

Chunks == 0..job.count - 1
chunckSize == Len(job.file) \div job.count

\* MergeN splits inputs[lo..hi) in the middle until one input is left.
Spans(n) == {p \in (0..n) \X (0..n) : p[1] < p[2]}
Mid(lo, hi) == lo + (hi - lo) \div 2
MergeN(n) ==
    LET t[p \in Spans(n)] ==
            IF p[2] - p[1] = 1 THEN {}
            ELSE {p} \cup t[<<p[1], Mid(p[1], p[2])>>] \cup t[<<Mid(p[1], p[2]), p[2]>>]
    IN  t[<<0, n>>]
Merges == {p \in Spans(job.count) : p[2] - p[1] > 1 /\ p \in MergeN(job.count)}

Source(i) == <<"source", i, i + 1>>
Sort(i)   == <<"sort", i, i + 1>>
Recv(i)   == <<"recv", i, i + 1>>
Net(i)    == <<"net", i, i + 1>>
Merge(p)  == <<"merge", p[1], p[2]>>
Shown     == <<"print", 0, 0>>

Readers  == {Source(i) : i \in Chunks} \cup {Recv(i) : i \in Chunks} \cup {Shown}
Channels == Readers \cup {Sort(i) : i \in Chunks} \cup {Net(i) : i \in Chunks}
                    \cup {Merge(p) : p \in Spans(job.count)}

\* The channel MergeN returns for inputs[lo..hi).
Result(lo, hi) == IF hi - lo > 1 THEN Merge(<<lo, hi>>)
                  ELSE IF job.net THEN Net(lo) ELSE Sort(lo)
Input(p, s) == IF s = 1 THEN Result(p[1], Mid(p[1], p[2])) ELSE Result(Mid(p[1], p[2]), p[2])
Root == Result(0, job.count)

\* NetWorkSource's channel has no buffer: what is in it is in its sender's hand.
Room(c)    == Len(ch[c].sent) - ch[c].got < IF c \in {Net(i) : i \in Chunks} THEN 1 ELSE Cap
HasNext(c) == ch[c].got < Len(ch[c].sent)
Drained(c) == ch[c].closed /\ ~HasNext(c)
NextOf(c)  == ch[c].sent[ch[c].got + 1]

Open == [sent |-> <<>>, got |-> 0, closed |-> FALSE]
Send(c, v) == ch' = [ch EXCEPT ![c].sent = Append(@, v)]
Take(c)    == ch' = [ch EXCEPT ![c].got = @ + 1]
Pass(c, d) == ch' = [ch EXCEPT ![c].got = @ + 1, ![d].sent = Append(@, NextOf(c))]
Close(c)   == ch' = [ch EXCEPT ![c].closed = TRUE]

-----------------------------------------------------------------------------
(* ReaderSource, over a file, a connection, or large.out.                  *)

Rest(c) ==
    CASE c[1] = "source" -> SubSeq(job.file, c[2] * chunckSize + reader[c].read + 1, Len(job.file))
      [] c[1] = "recv"   -> conn[c[2]].wire
      [] c[1] = "print"  -> SubSeq(disk, reader[c].read + 1, Len(disk))

\* How many bytes a Read may return: a file fills the buffer as far as it
\* can, a connection returns what has arrived.
Counts(c) ==
    LET n == IF Len(Rest(c)) < Word THEN Len(Rest(c)) ELSE Word
    IN  IF c[1] = "recv" THEN 1..n ELSE {n} \ {0}

\* The limit is checked after each value; -1 means none.
Limited(c) == c[1] = "source" /\ reader[c].read >= chunckSize /\ reader[c].read > 0

\* Read and send one value.  A short read leaves old bytes in the buffer.
ReadValue(c) ==
    /\ ~ch[c].closed /\ ~Limited(c) /\ Room(c)
    /\ c = Shown => main = "print"
    /\ \E n \in Counts(c) :
        LET rest == Rest(c)
            buf  == [k \in 1..Word |-> IF k <= n THEN rest[k] ELSE reader[c].buf[k]]
        IN  /\ reader' = [reader EXCEPT ![c] = [read |-> @.read + n, buf |-> buf]]
            /\ Send(c, Decode[buf])
            /\ IF c[1] = "recv"
               THEN /\ conn' = [conn EXCEPT ![c[2]].wire = SubSeq(rest, n + 1, Len(rest))]
                    /\ short' = (short \/ n < Word)
               ELSE UNCHANGED <<conn, short>>
    /\ UNCHANGED <<job, sorted, head, main, disk, failed>>

\* End of file, or the chunk is complete.  The error of a broken connection
\* ends the loop as the end of a closed one does.
EndSource(c) ==
    /\ ~ch[c].closed
    /\ c = Shown => main = "print"
    /\ Limited(c) \/ (Rest(c) = <<>> /\ (c[1] = "recv" => conn[c[2]].state \in {"closed", "broken"}))
    /\ Close(c)
    /\ UNCHANGED <<job, reader, sorted, conn, head, main, disk, short, failed>>

\* A Read of a file fails, wherever the reader is in it.
ReadFails(c) ==
    /\ ~ch[c].closed /\ ~Limited(c)
    /\ c = Shown => main = "print"
    /\ Close(c) /\ failed' = TRUE
    /\ UNCHANGED <<job, reader, sorted, conn, head, main, disk, short>>

-----------------------------------------------------------------------------
(* InMemSort: collect everything, sort, send.                              *)

Ascending(s) == \A j, k \in 1..Len(s) : j <= k => s[j] <= s[k]
Count(s, v)  == Cardinality({k \in 1..Len(s) : s[k] = v})

\* sort.Ints
SortsOf(s) == {t \in [1..Len(s) -> ToSet(s)] :
                  Ascending(t) /\ \A v \in ToSet(s) : Count(t, v) = Count(s, v)}

Collect(i) ==
    /\ HasNext(Source(i))
    /\ Take(Source(i))
    /\ UNCHANGED <<job, reader, sorted, conn, head, main, disk, short, failed>>

SortInts(i) ==
    /\ Drained(Source(i)) /\ ~sorted[i].done
    /\ \E a \in SortsOf(ch[Source(i)].sent) : sorted' = [sorted EXCEPT ![i] = [done |-> TRUE, a |-> a]]
    /\ UNCHANGED <<job, ch, reader, conn, head, main, disk, short, failed>>

SendSorted(i) ==
    /\ sorted[i].done /\ Len(ch[Sort(i)].sent) < Len(sorted[i].a) /\ Room(Sort(i))
    /\ Send(Sort(i), sorted[i].a[Len(ch[Sort(i)].sent) + 1])
    /\ UNCHANGED <<job, reader, sorted, conn, head, main, disk, short, failed>>

EndSort(i) ==
    /\ sorted[i].done /\ Len(ch[Sort(i)].sent) = Len(sorted[i].a) /\ ~ch[Sort(i)].closed
    /\ Close(Sort(i))
    /\ UNCHANGED <<job, reader, sorted, conn, head, main, disk, short, failed>>

-----------------------------------------------------------------------------
(* NetWorkSink, NetWorkSource and the connection between them.             *)

Dial(i) ==
    /\ job.net /\ conn[i].state = "listen"
    /\ conn' = [conn EXCEPT ![i].state = "open"]
    /\ UNCHANGED <<job, ch, reader, sorted, head, main, disk, short, failed>>

SinkValue(i) ==
    /\ conn[i].state = "open" /\ HasNext(Sort(i)) /\ Len(conn[i].wire) + Word <= Window
    /\ conn' = [conn EXCEPT ![i].wire = @ \o Encode[NextOf(Sort(i))]]
    /\ Take(Sort(i))
    /\ UNCHANGED <<job, reader, sorted, head, main, disk, short, failed>>

\* The connection breaks.  What was on its way arrives in part or not at all,
\* and may end in the middle of a value.
Breaks(i) ==
    /\ conn[i].state \in {"open", "closed"}
    /\ \E n \in 0..Len(conn[i].wire) :
        conn' = [conn EXCEPT ![i] = [state |-> "broken", wire |-> SubSeq(@.wire, 1, n)]]
    /\ failed' = TRUE
    /\ UNCHANGED <<job, ch, reader, sorted, head, main, disk, short>>

\* The writer has failed once and drops all it is given.
DropValue(i) ==
    /\ conn[i].state = "broken" /\ HasNext(Sort(i))
    /\ Take(Sort(i))
    /\ UNCHANGED <<job, reader, sorted, conn, head, main, disk, short, failed>>

\* The deferred Flush and Close of the connection.
EndSink(i) ==
    /\ conn[i].state = "open" /\ Drained(Sort(i))
    /\ conn' = [conn EXCEPT ![i].state = "closed"]
    /\ UNCHANGED <<job, ch, reader, sorted, head, main, disk, short, failed>>

Relay(i) ==
    /\ HasNext(Recv(i)) /\ Room(Net(i))
    /\ Pass(Recv(i), Net(i))
    /\ UNCHANGED <<job, reader, sorted, conn, head, main, disk, short, failed>>

EndRelay(i) ==
    /\ Drained(Recv(i)) /\ ~HasNext(Net(i)) /\ ~ch[Net(i)].closed
    /\ Close(Net(i))
    /\ UNCHANGED <<job, reader, sorted, conn, head, main, disk, short, failed>>

-----------------------------------------------------------------------------
(* Merge.  A head is what the last receive from an input returned: a       *)
(* value, that the input is closed, or nothing yet.                        *)

Has(v) == [state |-> "has", v |-> v]
End    == [state |-> "end", v |-> 0]
None   == [state |-> "none", v |-> 0]

Receive(p, s) ==
    /\ head[p][s] = None
    /\ s = 2 => head[p][1] # None
    /\ \/ /\ HasNext(Input(p, s))
          /\ head' = [head EXCEPT ![p][s] = Has(NextOf(Input(p, s)))]
          /\ Take(Input(p, s))
       \/ /\ Drained(Input(p, s))
          /\ head' = [head EXCEPT ![p][s] = End]
          /\ UNCHANGED ch
    /\ UNCHANGED <<job, reader, sorted, conn, main, disk, short, failed>>

\* Mutant: ok1 is not looked at.
TakesFirstAnyway(h1, h2) == h2 = End \/ h1.v <= h2.v

\* !ok2 || (ok1 && v1 <= v2)
TakesFirst(h1, h2) == h2 = End \/ (h1 # End /\ h1.v <= h2.v)

SendSmaller(p) ==
    LET s == IF TakesFirst(head[p][1], head[p][2]) THEN 1 ELSE 2
    IN  /\ head[p][1] # None /\ head[p][2] # None
        /\ head[p][1] # End \/ head[p][2] # End
        /\ Room(Merge(p))
        /\ Send(Merge(p), head[p][s].v)
        /\ head' = [head EXCEPT ![p][s] = None]
        /\ UNCHANGED <<job, reader, sorted, conn, main, disk, short, failed>>

\* Mutant: out is not closed.
LeaveMerge(p) ==
    /\ head[p][1] = End /\ head[p][2] = End /\ ~ch[Merge(p)].closed
    /\ UNCHANGED vars

EndMerge(p) ==
    /\ head[p][1] = End /\ head[p][2] = End /\ ~ch[Merge(p)].closed
    /\ Close(Merge(p))
    /\ UNCHANGED <<job, reader, sorted, conn, head, main, disk, short, failed>>

-----------------------------------------------------------------------------
(* main: writeToFile, then printFile, which stops after PrintMax values.   *)

Written == SubSeq(ch[Root].sent, 1, ch[Root].got)
Printed == SubSeq(ch[Shown].sent, 1, ch[Shown].got)
Bytes(s) == FlattenSeq([k \in 1..Len(s) |-> Encode[s[k]]])

WriteValue ==
    /\ main = "write" /\ HasNext(Root)
    /\ Take(Root)
    /\ UNCHANGED <<job, reader, sorted, conn, head, main, disk, short, failed>>

\* Mutant: the writer is not flushed.
EndWriteUnflushed ==
    /\ main = "write" /\ Drained(Root)
    /\ main' = "print"
    /\ UNCHANGED <<job, ch, reader, sorted, conn, head, disk, short, failed>>

\* WriterSink returns, then the deferred Flush and Close.
EndWrite ==
    /\ main = "write" /\ Drained(Root)
    /\ disk' = Bytes(Written)
    /\ main' = "print"
    /\ UNCHANGED <<job, ch, reader, sorted, conn, head, short, failed>>

\* The disk takes only a part of it.
WriteFails ==
    /\ main = "write" /\ Drained(Root)
    /\ \E n \in 0..Len(Bytes(Written)) - 1 : disk' = SubSeq(Bytes(Written), 1, n)
    /\ main' = "print" /\ failed' = TRUE
    /\ UNCHANGED <<job, ch, reader, sorted, conn, head, short>>

PrintValue ==
    /\ main = "print" /\ HasNext(Shown)
    /\ Take(Shown)
    /\ main' = IF ch[Shown].got + 1 >= PrintMax THEN "done" ELSE main
    /\ UNCHANGED <<job, reader, sorted, conn, head, disk, short, failed>>

EndPrint ==
    /\ main = "print" /\ Drained(Shown)
    /\ main' = "done"
    /\ UNCHANGED <<job, ch, reader, sorted, conn, head, disk, short, failed>>

-----------------------------------------------------------------------------
Init ==
    /\ job \in Jobs
    /\ ch = [c \in Channels |-> Open]
    /\ reader = [c \in Readers |-> [read |-> 0, buf |-> [k \in 1..Word |-> Zero]]]
    /\ sorted = [i \in Chunks |-> [done |-> FALSE, a |-> <<>>]]
    /\ conn = [i \in Chunks |-> [state |-> "listen", wire |-> <<>>]]
    /\ head = [p \in Merges |-> [s \in {1, 2} |-> None]]
    /\ main = "write" /\ disk = <<>> /\ short = FALSE /\ failed = FALSE

Reading(c)  == ReadValue(c) \/ EndSource(c)
Sorting(i)  == Collect(i) \/ SortInts(i) \/ SendSorted(i) \/ EndSort(i)
Sinking(i)  == Dial(i) \/ SinkValue(i) \/ DropValue(i) \/ EndSink(i)
Relaying(i) == Relay(i) \/ EndRelay(i)
Merging(p)  == Receive(p, 1) \/ Receive(p, 2) \/ SendSmaller(p) \/ EndMerge(p)
Writing     == WriteValue \/ EndWrite \/ PrintValue \/ EndPrint

Files == {Source(i) : i \in Chunks} \cup {Shown}

\* When main returns the process and with it every goroutine ends.
Works ==
    /\ main # "done"
    /\ \/ \E c \in Readers : Reading(c)
       \/ \E i \in Chunks : Sorting(i) \/ Sinking(i) \/ Relaying(i)
       \/ \E p \in Merges : Merging(p)
       \/ Writing

Fails ==
    /\ main # "done"
    /\ (\E c \in Files : ReadFails(c)) \/ (\E i \in Chunks : Breaks(i)) \/ WriteFails

Next == Works \/ Fails

Spec == Init /\ [][Next]_vars

\* Some goroutine that can go on does, which is all the pipeline needs: nothing
\* has to fail.
FairSpec == Spec /\ WF_vars(Works)

-----------------------------------------------------------------------------
(* Properties.                                                             *)

\* Merge's promise (node.go:54-59): whatever the lengths of the chunks, the
\* order in which goroutines run, where the channels fill up and whatever fails
\* on the way, the values that reach writeToFile come in order -- unless a Read
\* from a connection cut one in two.
OutputSorted == ~short => Ascending(Written)

FileValues == [k \in 1..(Len(job.file) \div Word) |->
                  Decode[SubSeq(job.file, (k - 1) * Word + 1, k * Word)]]
Aligned    == Len(job.file) % (job.count * Word) = 0

\* When the chunks are whole (sort.go:86 says products must see to the rest)
\* and no Read cut a value in two, no value ever reaches writeToFile more often
\* than it is in the input: the errors that nobody looks at (node.go:85 and
\* :98) lose values and make up none.  And when nothing fails the file that
\* writeToFile leaves holds every value of the input exactly as often, and
\* printFile shows its first PrintMax values.
ResultExact ==
    Aligned /\ ~short =>
        /\ \A v \in ToSet(Written) : Count(Written, v) <= Count(FileValues, v)
        /\ main # "write" /\ ~failed =>
            /\ Len(Written) = Len(FileValues)
            /\ \A v \in ToSet(FileValues) : Count(Written, v) = Count(FileValues, v)
            /\ disk = Bytes(Written)
            /\ IsPrefix(Printed, Written)
            /\ main = "done" => Len(Printed) = IF Len(Written) < PrintMax THEN Len(Written) ELSE PrintMax

\* No stage waits for ever on a full channel, an empty one or a connection,
\* broken or not: main returns, also when printFile leaves its reader behind.
MainReturns == <>(main = "done")
=============================================================================
