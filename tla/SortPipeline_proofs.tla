------------------------ MODULE SortPipeline_proofs ------------------------
(***************************************************************************)
(* What reaches writeToFile is in order, for any file, any number of       *)
(* chunks and any capacity of the channels, unless a Read from a           *)
(* connection cut a value in two (Sorted).  The order is carried from      *)
(* stage to stage: a sorter sends what sort.Ints left, a connection and    *)
(* its relay hand on what they were given, and a Merge sends nothing       *)
(* smaller than what it sent before.                                       *)
(*                                                                         *)
(* And nothing is made up on the way, or lost unless a Read or a Write     *)
(* fails (Exact): how many values of a kind a stage has taken in is how    *)
(* many it has sent or holds, a stage that has left has taken in all that  *)
(* it was sent, and so, from the chunks up to the root of the tree that    *)
(* MergeN builds, a result has no more values of the kind than the part of *)
(* the file it stands for, and as many when nothing failed.                *)
(***************************************************************************)
EXTENDS SortPipeline, SequenceTheorems, FiniteSetTheorems, WellFoundedInduction, TLAPS

Channel == [sent : Seq(Values), got : Nat, closed : BOOLEAN]
Heads   == {None, End} \cup {Has(v) : v \in Values}

\* The channels a Merge or main may read: nothing but these feeds another stage.
Feeds == {Merge(q) : q \in Spans(job.count)} \cup
         (IF job.net THEN {Net(i) : i \in Chunks} ELSE {Sort(i) : i \in Chunks})

-----------------------------------------------------------------------------
(* The stages and their channels.                                          *)

LEMMA Constants ==
    /\ Cap \in Nat \ {0} /\ Word \in Nat \ {0} /\ Zero \in Byte /\ Values \subseteq Int
    /\ Encode \in [Values -> Buffers] /\ Decode \in [Buffers -> Values]
    /\ \A v \in Values : Decode[Encode[v]] = v
    /\ \A j \in Jobs : j.file \in Seq(Byte) /\ j.count \in Nat \ {0} /\ j.net \in BOOLEAN
BY SortAssumption DEF Buffers

LEMMA Distinct ==
    /\ \A i, j : /\ Source(i) = Source(j) => i = j
                 /\ Sort(i) = Sort(j) => i = j
                 /\ Recv(i) = Recv(j) => i = j
                 /\ Net(i) = Net(j) => i = j
                 /\ Source(i) # Sort(j) /\ Source(i) # Recv(j) /\ Source(i) # Net(j)
                 /\ Sort(i) # Recv(j) /\ Sort(i) # Net(j) /\ Recv(i) # Net(j)
    /\ \A i, p : /\ Source(i) # Merge(p) /\ Sort(i) # Merge(p)
                 /\ Recv(i) # Merge(p) /\ Net(i) # Merge(p)
    /\ \A i : Source(i) # Shown /\ Sort(i) # Shown /\ Recv(i) # Shown /\ Net(i) # Shown
    /\ \A p : Merge(p) # Shown
    /\ \A n \in Nat : \A p, q \in Spans(n) : Merge(p) = Merge(q) => p = q
BY DEF Source, Sort, Recv, Net, Merge, Shown, Spans

\* The names of the channels do not depend on the state but on the job alone.
LEMMA JobStays ==
    ASSUME job' = job
    PROVE  /\ Chunks' = Chunks /\ Merges' = Merges /\ Channels' = Channels /\ Readers' = Readers
           /\ Feeds' = Feeds /\ Root' = Root
           /\ \A p, s : Input(p, s)' = Input(p, s)
BY DEF Chunks, Merges, Channels, Readers, Feeds, Root, Input, Result

LEMMA ChannelsOf ==
    /\ \A i \in Chunks : {Source(i), Sort(i), Recv(i), Net(i)} \subseteq Channels \ {Shown}
    /\ \A p \in Spans(job.count) : Merge(p) \in Channels \ {Shown}
    /\ Feeds \subseteq Channels \ {Shown} /\ Shown \in Channels /\ Readers \subseteq Channels
    /\ \A c \in Readers \ {Shown} : \E i \in Chunks : c = Source(i) \/ c = Recv(i)
BY Distinct DEF Channels, Readers, Feeds

LEMMA ResultFeeds ==
    ASSUME job \in Jobs, NEW lo \in Nat, NEW hi \in Nat, lo < hi, hi <= job.count
    PROVE  Result(lo, hi) \in Feeds
<1>1. job.count \in Nat
  BY Constants
<1>2. CASE hi - lo > 1
  <2>1. <<lo, hi>> \in Spans(job.count)
    BY <1>1 DEF Spans
  <2> QED
    BY <1>2, <2>1 DEF Result, Feeds
<1>3. CASE ~(hi - lo > 1)
  <2>1. lo \in Chunks
    BY <1>1 DEF Chunks
  <2> QED
    BY <1>3, <2>1 DEF Result, Feeds
<1> QED
  BY <1>2, <1>3

LEMMA InputFeeds ==
    ASSUME job \in Jobs, NEW p \in Merges
    PROVE  p \in Spans(job.count) /\ Input(p, 1) \in Feeds /\ Input(p, 2) \in Feeds
<1>1. /\ p \in Spans(job.count) /\ job.count \in Nat
      /\ p[1] \in Nat /\ p[2] \in Nat /\ p[2] <= job.count /\ p[2] - p[1] > 1
  BY Constants DEF Merges, Spans
<1>2. Mid(p[1], p[2]) \in Nat /\ p[1] < Mid(p[1], p[2]) /\ Mid(p[1], p[2]) < p[2]
  BY <1>1 DEF Mid
<1> QED
  BY <1>1, <1>2, ResultFeeds DEF Input

LEMMA RootFeeds == job \in Jobs => Root \in Feeds
<1> SUFFICES ASSUME job \in Jobs PROVE Root \in Feeds
  OBVIOUS
<1>1. job.count \in Nat /\ 0 < job.count
  BY Constants
<1> QED
  BY <1>1, ResultFeeds DEF Root

-----------------------------------------------------------------------------
(* The invariant.  The channel that printFile reads is left out of it: what *)
(* it carries is not typed, for it depends on what FlattenSeq computes.     *)

ChOK ==
    /\ DOMAIN ch = Channels
    /\ \A c \in Channels \ {Shown} : ch[c] \in Channel /\ ch[c].got <= Len(ch[c].sent)

ReaderOK ==
    /\ DOMAIN reader = Readers
    /\ \A c \in Readers \ {Shown} : reader[c] \in [read : Nat, buf : Buffers]

ConnOK == conn \in [Chunks -> [state : {"listen", "open", "closed", "broken"}, wire : Seq(Byte)]]

HeadType == head \in [Merges -> [{1, 2} -> Heads]]

\* A sorter has sent the beginning of what it sorted.
SortedOK ==
    /\ DOMAIN sorted = Chunks
    /\ \A i \in Chunks :
          /\ sorted[i].done \in BOOLEAN /\ sorted[i].a \in Seq(Values) /\ Ascending(sorted[i].a)
          /\ ~sorted[i].done => ch[Sort(i)].sent = <<>>
          /\ Len(ch[Sort(i)].sent) <= Len(sorted[i].a)
          /\ \A k \in 1..Len(ch[Sort(i)].sent) : ch[Sort(i)].sent[k] = sorted[i].a[k]

\* What NetWorkSource has read is the beginning of what NetWorkSink took, and
\* the rest is on the wire, word by word, or the beginning of the rest when the
\* connection is broken.
OnWire(r, s, g, w) ==
    LET m == Len(r) IN
    /\ m <= g
    /\ \A k \in 1..m : r[k] = s[k]
    /\ Len(w) <= (g - m) * Word
    /\ \A j \in 1..g - m : \A k \in 1..Word :
          (j - 1) * Word + k <= Len(w) => w[(j - 1) * Word + k] = Encode[s[m + j]][k]
WireOf(i) ==
    /\ OnWire(ch[Recv(i)].sent, ch[Sort(i)].sent, ch[Sort(i)].got, conn[i].wire)
    /\ conn[i].state # "broken" => Len(conn[i].wire) = (ch[Sort(i)].got - Len(ch[Recv(i)].sent)) * Word
WireOK ==
    /\ job.net /\ ~short => \A i \in Chunks : WireOf(i)
    /\ ~job.net => \A i \in Chunks : conn[i] = [state |-> "listen", wire |-> <<>>]

\* The relay has passed on what it took.
NetOK ==
    \A i \in Chunks :
        /\ Len(ch[Net(i)].sent) = ch[Recv(i)].got
        /\ \A k \in 1..Len(ch[Net(i)].sent) : ch[Net(i)].sent[k] = ch[Recv(i)].sent[k]

\* A head is a value that was received, and nothing larger was sent; where the
\* head was sent on, what was sent is not larger than something received.
HeadOf(p, s) ==
    LET in == ch[Input(p, s)]  out == ch[Merge(p)].sent  h == head[p][s] IN
    /\ h.state = "has" => /\ \E j \in 1..in.got : h.v = in.sent[j]
                          /\ \A k \in 1..Len(out) : out[k] <= h.v
    /\ h.state = "none" => out = <<>> \/ \E j \in 1..in.got : \A k \in 1..Len(out) : out[k] <= in.sent[j]
MergeOK ==
    ~short => /\ \A p \in Spans(job.count) : Ascending(ch[Merge(p)].sent)
              /\ \A p \in Merges : HeadOf(p, 1) /\ HeadOf(p, 2)

TypeInv == job \in Jobs /\ short \in BOOLEAN /\ ChOK /\ ReaderOK /\ ConnOK /\ HeadType

OrderInv == TypeInv /\ SortedOK /\ WireOK /\ NetOK /\ MergeOK

-----------------------------------------------------------------------------
(* What the operations do to the channels.                                 *)

LEMMA ChannelShape ==
    ASSUME NEW r \in Channel
    PROVE  /\ r.sent \in Seq(Values) /\ r.got \in Nat
           /\ \A t \in Seq(Values) : LET q == [r EXCEPT !.sent = t] IN
                 q \in Channel /\ q.sent = t /\ q.got = r.got
           /\ \A n \in Nat : LET q == [r EXCEPT !.got = n] IN
                 q \in Channel /\ q.sent = r.sent /\ q.got = n
BY DEF Channel

LEMMA SendEffect ==
    ASSUME ChOK, NEW c \in Channels \ {Shown}, NEW v \in Values, Send(c, v), job' = job
    PROVE  /\ ChOK'
           /\ ch'[c].sent = Append(ch[c].sent, v) /\ ch'[c].got = ch[c].got
           /\ \A d \in Channels \ {c} : ch'[d] = ch[d]
<1>1. /\ ch[c] \in Channel /\ ch[c].got <= Len(ch[c].sent) /\ DOMAIN ch = Channels
  BY DEF ChOK
<1>2. /\ DOMAIN ch' = Channels
      /\ \A d \in Channels \ {c} : ch'[d] = ch[d]
      /\ ch'[c] = [ch[c] EXCEPT !.sent = Append(ch[c].sent, v)]
  BY <1>1 DEF Send
<1>3. ch'[c] \in Channel /\ ch'[c].sent = Append(ch[c].sent, v) /\ ch'[c].got = ch[c].got
  <2> DEFINE t == Append(ch[c].sent, v)  r == ch[c]
  <2>1. r \in Channel /\ t \in Seq(Values) /\ ch'[c] = [r EXCEPT !.sent = t]
    BY <1>1, <1>2, ChannelShape
  <2> HIDE DEF t, r
  <2>2. ch'[c] \in Channel /\ ch'[c].sent = t /\ ch'[c].got = r.got
    BY <2>1, ChannelShape
  <2> QED
    BY <2>2 DEF t, r
<1>4. ch'[c].got <= Len(ch'[c].sent)
  BY <1>1, <1>3 DEF Channel
<1> QED
  BY <1>2, <1>3, <1>4, JobStays DEF ChOK

LEMMA TakeEffect ==
    ASSUME ChOK, NEW c \in Channels \ {Shown}, HasNext(c), Take(c), job' = job
    PROVE  /\ ChOK'
           /\ ch'[c].sent = ch[c].sent /\ ch'[c].got = ch[c].got + 1
           /\ \A d \in Channels \ {c} : ch'[d] = ch[d]
<1>1. /\ ch[c] \in Channel /\ ch[c].got < Len(ch[c].sent) /\ DOMAIN ch = Channels
  BY DEF ChOK, HasNext
<1>2. /\ DOMAIN ch' = Channels
      /\ \A d \in Channels \ {c} : ch'[d] = ch[d]
      /\ ch'[c] = [ch[c] EXCEPT !.got = ch[c].got + 1]
  BY <1>1 DEF Take
<1>3. ch'[c] \in Channel /\ ch'[c].sent = ch[c].sent /\ ch'[c].got = ch[c].got + 1
  BY <1>1, <1>2 DEF Channel
<1>4. ch'[c].got <= Len(ch'[c].sent)
  BY <1>1, <1>3 DEF Channel
<1> QED
  BY <1>2, <1>3, <1>4, JobStays DEF ChOK

LEMMA PassEffect ==
    ASSUME ChOK, NEW c \in Channels \ {Shown}, NEW d \in Channels \ {Shown, c},
           HasNext(c), Pass(c, d), job' = job
    PROVE  /\ ChOK'
           /\ ch'[c].sent = ch[c].sent /\ ch'[c].got = ch[c].got + 1
           /\ NextOf(c) \in Values
           /\ ch'[d].sent = Append(ch[d].sent, NextOf(c)) /\ ch'[d].got = ch[d].got
           /\ \A e \in Channels \ {c, d} : ch'[e] = ch[e]
<1>1. /\ ch[c] \in Channel /\ ch[c].got < Len(ch[c].sent) /\ DOMAIN ch = Channels
      /\ ch[d] \in Channel /\ ch[d].got <= Len(ch[d].sent)
  BY DEF ChOK, HasNext
<1>2. NextOf(c) \in Values
  BY <1>1 DEF NextOf, Channel
<1>3. /\ DOMAIN ch' = Channels
      /\ \A e \in Channels \ {c, d} : ch'[e] = ch[e]
      /\ ch'[c] = [ch[c] EXCEPT !.got = ch[c].got + 1]
      /\ ch'[d] = [ch[d] EXCEPT !.sent = Append(ch[d].sent, NextOf(c))]
  BY <1>1 DEF Pass
<1>4. ch'[c] \in Channel /\ ch'[c].sent = ch[c].sent /\ ch'[c].got = ch[c].got + 1
  <2>1. ch[c].got + 1 \in Nat
    BY <1>1, ChannelShape
  <2> QED
    BY <1>1, <1>3, <2>1, ChannelShape
<1>5. ch'[d] \in Channel /\ ch'[d].sent = Append(ch[d].sent, NextOf(c)) /\ ch'[d].got = ch[d].got
  <2> DEFINE t == Append(ch[d].sent, NextOf(c))  r == ch[d]
  <2>1. r \in Channel /\ t \in Seq(Values) /\ ch'[d] = [r EXCEPT !.sent = t]
    BY <1>1, <1>2, <1>3, ChannelShape
  <2> HIDE DEF t, r
  <2>2. ch'[d] \in Channel /\ ch'[d].sent = t /\ ch'[d].got = r.got
    BY <2>1, ChannelShape
  <2> QED
    BY <2>2 DEF t, r
<1>6. ch'[c].got <= Len(ch'[c].sent) /\ ch'[d].got <= Len(ch'[d].sent)
  BY <1>1, <1>2, <1>4, <1>5 DEF Channel
<1> QED
  BY <1>2, <1>3, <1>4, <1>5, <1>6, JobStays DEF ChOK

LEMMA CloseEffect ==
    ASSUME ChOK, NEW c \in Channels \ {Shown}, Close(c), job' = job
    PROVE  /\ ChOK'
           /\ \A d \in Channels \ {Shown} : ch'[d].sent = ch[d].sent /\ ch'[d].got = ch[d].got
<1>1. /\ ch[c] \in Channel /\ DOMAIN ch = Channels
  BY DEF ChOK
<1>2. /\ DOMAIN ch' = Channels
      /\ \A d \in Channels \ {c} : ch'[d] = ch[d]
      /\ ch'[c] = [ch[c] EXCEPT !.closed = TRUE]
  BY <1>1 DEF Close
<1>3. ch'[c] \in Channel /\ ch'[c].sent = ch[c].sent /\ ch'[c].got = ch[c].got
  BY <1>1, <1>2 DEF Channel
<1> QED
  BY <1>2, <1>3, JobStays DEF ChOK

LEMMA ShownEffect ==
    ASSUME ChOK, NEW v, Send(Shown, v) \/ Take(Shown) \/ Close(Shown), job' = job
    PROVE  ChOK' /\ \A d \in Channels \ {Shown} : ch'[d] = ch[d]
<1>1. DOMAIN ch' = Channels /\ \A d \in Channels \ {Shown} : ch'[d] = ch[d]
  BY DEF ChOK, Send, Take, Close
<1> QED
  BY <1>1, JobStays DEF ChOK

-----------------------------------------------------------------------------
(* What keeps each part of the invariant.                                  *)

\* A channel only grows: nothing that was sent or received is taken back.
Grows(c) ==
    /\ ch'[c].got \in Nat /\ ch'[c].got >= ch[c].got
    /\ Len(ch'[c].sent) >= Len(ch[c].sent)
    /\ \A k \in 1..Len(ch[c].sent) : ch'[c].sent[k] = ch[c].sent[k]

LEMMA SameGrows == ASSUME ChOK, NEW c \in Channels \ {Shown},
                          ch'[c].sent = ch[c].sent,
                          ch'[c].got \in Nat, ch'[c].got >= ch[c].got
                   PROVE  Grows(c)
BY DEF Grows, ChOK, Channel

LEMMA OtherGrows == ASSUME ChOK, NEW c \in Channels \ {Shown}, ch'[c] = ch[c]
                    PROVE  Grows(c)
BY DEF Grows, ChOK, Channel

LEMMA SendGrows == ASSUME ChOK, NEW c \in Channels \ {Shown}, NEW v \in Values,
                          ch'[c].sent = Append(ch[c].sent, v), ch'[c].got = ch[c].got
                   PROVE  Grows(c)
<1>1. ch[c].sent \in Seq(Values) /\ ch[c].got \in Nat
  BY DEF ChOK, Channel
<1> QED
  BY <1>1 DEF Grows

LEMMA SortedKept ==
    ASSUME SortedOK, job' = job, sorted' = sorted,
           \A i \in Chunks : ch'[Sort(i)].sent = ch[Sort(i)].sent
    PROVE  SortedOK'
BY JobStays DEF SortedOK

SameWire(i) ==
    /\ conn'[i].wire = conn[i].wire
    /\ conn'[i].state # "broken" => conn[i].state # "broken"

LEMMA WireKept ==
    ASSUME TypeInv, WireOK, job' = job, ~short' => ~short,
           job.net => \A i \in Chunks : SameWire(i), ~job.net => conn' = conn,
           \A i \in Chunks : ch'[Recv(i)].sent = ch[Recv(i)].sent,
           \A i \in Chunks : Grows(Sort(i)),
           job.net => \A i \in Chunks : ch'[Sort(i)].got = ch[Sort(i)].got
    PROVE  WireOK'
<1>1. CASE ~job.net
  BY <1>1, JobStays DEF WireOK
<1>2. CASE job.net
  <2> SUFFICES ASSUME ~short', NEW i \in Chunks PROVE WireOf(i)'
    BY <1>2, JobStays DEF WireOK
  <2> DEFINE m == Len(ch[Recv(i)].sent)  g == ch[Sort(i)].got
             r == ch[Recv(i)].sent  s == ch[Sort(i)].sent  t == ch'[Sort(i)].sent
             w == conn[i].wire
  <2>1. /\ m <= g /\ (\A k \in 1..m : r[k] = s[k])
        /\ Len(w) <= (g - m) * Word
        /\ \A j \in 1..g - m : \A k \in 1..Word :
              (j - 1) * Word + k <= Len(w) => w[(j - 1) * Word + k] = Encode[s[m + j]][k]
        /\ conn[i].state # "broken" => Len(w) = (g - m) * Word
    BY <1>2 DEF WireOK, WireOf, OnWire
  <2>2. m \in Nat /\ g \in Nat /\ Len(s) \in Nat /\ g <= Len(s)
    BY ChannelsOf DEF TypeInv, ChOK, Channel
  <2>3. \A k \in 1..g : t[k] = s[k]
    BY <2>2 DEF Grows
  <2>4. /\ ch'[Recv(i)].sent = r /\ ch'[Sort(i)].got = g /\ conn'[i].wire = w
        /\ conn'[i].state # "broken" => Len(w) = (g - m) * Word
    BY <1>2, <2>1 DEF SameWire
  <2> HIDE DEF m, g, r, s, t, w
  <2>5. \A k \in 1..m : r[k] = t[k]
    BY <2>1, <2>2, <2>3
  <2>6. \A j \in 1..g - m : m + j \in 1..g
    BY <2>1, <2>2
  <2>7. \A j \in 1..g - m : \A k \in 1..Word :
           (j - 1) * Word + k <= Len(w) => w[(j - 1) * Word + k] = Encode[t[m + j]][k]
    BY <2>1, <2>3, <2>6
  <2> QED
    BY <2>1, <2>4, <2>5, <2>7 DEF WireOf, OnWire, m, g, r, s, t, w
<1> QED
  BY <1>1, <1>2

LEMMA SameConn == ASSUME conn' = conn PROVE \A i : SameWire(i)
BY DEF SameWire

LEMMA NetKept ==
    ASSUME TypeInv, NetOK, job' = job,
           \A i \in Chunks : ch'[Net(i)].sent = ch[Net(i)].sent /\ ch'[Recv(i)].got = ch[Recv(i)].got,
           \A i \in Chunks : Grows(Recv(i))
    PROVE  NetOK'
<1> SUFFICES ASSUME NEW i \in Chunks
             PROVE  /\ Len(ch'[Net(i)].sent) = ch'[Recv(i)].got
                    /\ \A k \in 1..Len(ch'[Net(i)].sent) : ch'[Net(i)].sent[k] = ch'[Recv(i)].sent[k]
  BY JobStays DEF NetOK
<1>1. /\ Len(ch[Net(i)].sent) = ch[Recv(i)].got
      /\ \A k \in 1..Len(ch[Net(i)].sent) : ch[Net(i)].sent[k] = ch[Recv(i)].sent[k]
  BY DEF NetOK
<1>2. ch[Recv(i)].got \in Nat /\ Len(ch[Recv(i)].sent) \in Nat /\ ch[Recv(i)].got <= Len(ch[Recv(i)].sent)
  BY ChannelsOf DEF TypeInv, ChOK, Channel
<1> QED
  BY <1>1, <1>2 DEF Grows

LEMMA HeadKept ==
    ASSUME TypeInv, job' = job, NEW p \in Merges, NEW s \in {1, 2},
           head'[p][s] = head[p][s], ch'[Merge(p)].sent = ch[Merge(p)].sent,
           Grows(Input(p, s)), HeadOf(p, s)
    PROVE  HeadOf(p, s)'
<1> DEFINE c == Input(p, s)
<1>1. c \in Channels \ {Shown} /\ c' = c
  BY InputFeeds, ChannelsOf, JobStays DEF TypeInv
<1>2. ch[c].got \in Nat /\ Len(ch[c].sent) \in Nat /\ ch[c].got <= Len(ch[c].sent)
  BY <1>1 DEF TypeInv, ChOK, Channel
<1> HIDE DEF c
<1>3. Grows(c)
  BY DEF c
<1>4. \A j \in 1..ch[c].got : j \in 1..ch'[c].got /\ ch'[c].sent[j] = ch[c].sent[j]
  BY <1>2, <1>3 DEF Grows
<1> QED
  BY <1>1, <1>4 DEF HeadOf, c

LEMMA MergeKept ==
    ASSUME TypeInv, MergeOK, job' = job, head' = head, ~short' => ~short,
           \A p \in Spans(job.count) : ch'[Merge(p)].sent = ch[Merge(p)].sent,
           \A c \in Feeds : Grows(c)
    PROVE  MergeOK'
<1> SUFFICES ASSUME ~short'
             PROVE  /\ \A p \in Spans(job.count) : Ascending(ch'[Merge(p)].sent)
                    /\ \A p \in Merges : HeadOf(p, 1)' /\ HeadOf(p, 2)'
  BY JobStays DEF MergeOK
<1>1. /\ \A p \in Spans(job.count) : Ascending(ch[Merge(p)].sent)
      /\ \A p \in Merges : HeadOf(p, 1) /\ HeadOf(p, 2)
  BY DEF MergeOK
<1>2. \A p \in Merges : p \in Spans(job.count) /\ Grows(Input(p, 1)) /\ Grows(Input(p, 2))
  BY InputFeeds DEF TypeInv
<1> QED
  BY <1>1, <1>2, HeadKept

-----------------------------------------------------------------------------
(* ReaderSource.                                                           *)

LEMMA RestBytes ==
    ASSUME TypeInv, NEW i \in Chunks
    PROVE  /\ Rest(Source(i)) \in Seq(Byte) /\ Rest(Recv(i)) \in Seq(Byte)
           /\ Rest(Recv(i)) = conn[i].wire
<1>1. Rest(Recv(i)) = conn[i].wire
  BY DEF Rest, Recv
<1>2. conn[i].wire \in Seq(Byte)
  BY DEF TypeInv, ConnOK
<1>3. Rest(Source(i)) \in Seq(Byte)
  <2> DEFINE from == i * chunckSize + reader[Source(i)].read + 1  file == job.file
  <2>1. Rest(Source(i)) = SubSeq(file, from, Len(file))
    BY DEF Rest, Source
  <2>2. file \in Seq(Byte) /\ job.count \in Nat \ {0}
    BY Constants DEF TypeInv
  <2>3. chunckSize \in Nat /\ i \in Nat
    <3>1. Len(file) \in Nat
      BY <2>2
    <3>2. \A a \in Nat : \A b \in Nat \ {0} : a \div b \in Nat
      OBVIOUS
    <3> QED
      BY <2>2, <3>1, <3>2 DEF chunckSize, Chunks
  <2>4. reader[Source(i)].read \in Nat
    <3>1. Source(i) \in Readers \ {Shown}
      BY Distinct DEF Readers
    <3> QED
      BY <3>1 DEF TypeInv, ReaderOK
  <2>5. i * chunckSize \in Nat
    BY <2>3
  <2>6. from \in Nat \ {0}
    BY <2>4, <2>5
  <2> HIDE DEF from
  <2>7. \A k \in from..Len(file) : file[k] \in Byte
    BY <2>2, <2>6
  <2> QED
    BY <2>1, <2>2, <2>6, <2>7, SubSeqProperties
<1> QED
  BY <1>1, <1>2, <1>3

\* What one turn of ReaderSource's loop does.
LEMMA ReadOne ==
    ASSUME TypeInv, NEW i \in Chunks, NEW c \in {Source(i), Recv(i)}, ReadValue(c)
    PROVE  \E n \in 1..Word : \E buf \in Buffers :
              /\ n <= Len(Rest(c)) /\ \A k \in 1..n : buf[k] = Rest(c)[k]
              /\ Send(c, Decode[buf]) /\ ReaderOK'
              /\ c = Recv(i) =>
                    /\ conn' = [conn EXCEPT ![i].wire = SubSeq(Rest(c), n + 1, Len(Rest(c)))]
                    /\ short' = (short \/ n < Word)
              /\ c = Source(i) => UNCHANGED <<conn, short>>
              /\ UNCHANGED <<job, sorted, head>>
<1>1. Rest(c) \in Seq(Byte)
  BY RestBytes
<1>2. c \in Readers \ {Shown}
  BY Distinct DEF Readers
<1>3. (c[1] = "recv" <=> c = Recv(i)) /\ c[2] = i
  BY DEF Source, Recv
<1>4. PICK n \in Counts(c) :
        LET rest == Rest(c)
            buf  == [k \in 1..Word |-> IF k <= n THEN rest[k] ELSE reader[c].buf[k]]
        IN  /\ reader' = [reader EXCEPT ![c] = [read |-> @.read + n, buf |-> buf]]
            /\ Send(c, Decode[buf])
            /\ IF c[1] = "recv"
               THEN /\ conn' = [conn EXCEPT ![c[2]].wire = SubSeq(rest, n + 1, Len(rest))]
                    /\ short' = (short \/ n < Word)
               ELSE UNCHANGED <<conn, short>>
  BY DEF ReadValue
<1>5. Word \in Nat \ {0} /\ Len(Rest(c)) \in Nat
  BY <1>1, Constants
<1>6. n \in 1..Word /\ n <= Len(Rest(c))
  <2>1. n \in 1..(IF Len(Rest(c)) < Word THEN Len(Rest(c)) ELSE Word)
    BY <1>4, <1>5 DEF Counts
  <2> QED
    BY <1>5, <2>1
<1> DEFINE buf == [k \in 1..Word |-> IF k <= n THEN Rest(c)[k] ELSE reader[c].buf[k]]
<1>7. reader[c].read \in Nat /\ reader[c].buf \in Buffers
  BY <1>2 DEF TypeInv, ReaderOK
<1>8. buf \in Buffers
  <2>1. ASSUME NEW k \in 1..Word PROVE (IF k <= n THEN Rest(c)[k] ELSE reader[c].buf[k]) \in Byte
    BY <1>1, <1>5, <1>6, <1>7 DEF Buffers
  <2> QED
    BY <2>1 DEF Buffers
<1>9. \A k \in 1..n : buf[k] = Rest(c)[k]
  BY <1>5, <1>6
<1>10. Send(c, Decode[buf]) /\ reader' = [reader EXCEPT ![c] = [read |-> @.read + n, buf |-> buf]]
  BY <1>4
<1> HIDE DEF buf
<1>11. job' = job /\ sorted' = sorted /\ head' = head
  BY DEF ReadValue
<1>12. ReaderOK'
  <2>1. reader[c].read + n \in Nat
    BY <1>6, <1>7
  <2>2. DOMAIN reader = Readers
    BY DEF TypeInv, ReaderOK
  <2>3. /\ DOMAIN reader' = Readers /\ \A d \in Readers \ {c} : reader'[d] = reader[d]
        /\ reader'[c] = [read |-> reader[c].read + n, buf |-> buf]
    BY <1>2, <1>10, <2>2
  <2>4. reader'[c] \in [read : Nat, buf : Buffers]
    BY <1>8, <2>1, <2>3
  <2> QED
    BY <1>11, <2>3, <2>4, JobStays DEF TypeInv, ReaderOK
<1>13. c = Recv(i) => /\ conn' = [conn EXCEPT ![i].wire = SubSeq(Rest(c), n + 1, Len(Rest(c)))]
                      /\ short' = (short \/ n < Word)
  BY <1>3, <1>4
<1>14. c = Source(i) => UNCHANGED <<conn, short>>
  BY <1>3, <1>4, Distinct
<1> QED
  BY <1>6, <1>8, <1>9, <1>10, <1>11, <1>12, <1>13, <1>14

LEMMA ReadSource ==
    ASSUME OrderInv, NEW i \in Chunks, ReadValue(Source(i))
    PROVE  OrderInv'
<1>0. TypeInv /\ SortedOK /\ WireOK /\ NetOK /\ MergeOK /\ ChOK
  BY DEF OrderInv, TypeInv
<1>1. PICK buf \in Buffers :
        Send(Source(i), Decode[buf]) /\ ReaderOK' /\ UNCHANGED <<conn, short, job, sorted, head>>
  BY <1>0, ReadOne
<1>2. Decode[buf] \in Values /\ Source(i) \in Channels \ {Shown}
  BY Constants, ChannelsOf
<1>3. /\ ChOK' /\ \A d \in Channels \ {Source(i)} : ch'[d] = ch[d]
  BY <1>0, <1>1, <1>2, SendEffect
<1>4. \A j \in Chunks : /\ ch'[Sort(j)] = ch[Sort(j)] /\ ch'[Recv(j)] = ch[Recv(j)]
                        /\ ch'[Net(j)] = ch[Net(j)]
                        /\ Grows(Sort(j)) /\ Grows(Recv(j))
  <2>1. ASSUME NEW c \in Channels \ {Shown, Source(i)} PROVE Grows(c)
    BY <1>0, <1>3, OtherGrows
  <2> QED
    BY <1>3, <2>1, ChannelsOf, Distinct
<1>5. /\ \A p \in Spans(job.count) : ch'[Merge(p)].sent = ch[Merge(p)].sent
      /\ \A c \in Feeds : Grows(c)
  <2>1. ASSUME NEW c \in Feeds PROVE c \in Channels \ {Shown, Source(i)}
    BY ChannelsOf, Distinct DEF Feeds
  <2>2. \A p \in Spans(job.count) : Merge(p) \in Channels \ {Shown, Source(i)}
    BY ChannelsOf, Distinct
  <2> QED
    BY <1>0, <1>3, <2>1, <2>2, OtherGrows
<1>6. TypeInv'
  BY <1>0, <1>1, <1>3, JobStays DEF TypeInv, ConnOK, HeadType
<1> QED
  BY <1>0, <1>1, <1>4, <1>5, <1>6, SortedKept, WireKept, SameConn, NetKept, MergeKept DEF OrderInv

-----------------------------------------------------------------------------
(* Steps that send nothing but what printFile reads.                       *)

LEMMA QuietStep ==
    ASSUME OrderInv, job' = job, ChOK', ReaderOK', ConnOK', sorted' = sorted, head' = head, short' = short,
           job.net => \A i \in Chunks : SameWire(i), ~job.net => conn' = conn,
           \A c \in Channels \ {Shown} : ch'[c].sent = ch[c].sent /\ ch'[c].got >= ch[c].got,
           \A i \in Chunks : ch'[Recv(i)].got = ch[Recv(i)].got,
           job.net => \A i \in Chunks : ch'[Sort(i)].got = ch[Sort(i)].got
    PROVE  OrderInv'
<1>0. TypeInv /\ SortedOK /\ WireOK /\ NetOK /\ MergeOK /\ ChOK
  BY DEF OrderInv, TypeInv
<1>1. ASSUME NEW c \in Channels \ {Shown} PROVE Grows(c)
  <2>1. ch'[c].got \in Nat
    BY JobStays DEF ChOK, Channel
  <2> QED
    BY <1>0, <2>1, SameGrows
<1>2. TypeInv'
  BY <1>0, JobStays DEF TypeInv, HeadType
<1>3. SortedOK'
  BY <1>0, ChannelsOf, SortedKept
<1>4. WireOK'
  BY <1>0, <1>1, ChannelsOf, WireKept, SameConn
<1>5. NetOK'
  BY <1>0, <1>1, ChannelsOf, NetKept
<1>6. MergeOK'
  BY <1>0, <1>1, ChannelsOf, MergeKept
<1> QED
  BY <1>2, <1>3, <1>4, <1>5, <1>6 DEF OrderInv

LEMMA SameParts ==
    ASSUME OrderInv, job' = job
    PROVE  /\ reader' = reader => ReaderOK'
           /\ conn' = conn => ConnOK' /\ \A i : SameWire(i)
           /\ ch' = ch => ChOK'
           /\ \A c \in Channels \ {Shown} : ch[c].got >= ch[c].got
BY JobStays DEF OrderInv, TypeInv, ReaderOK, ConnOK, ChOK, Channel, SameWire

LEMMA QuietClose ==
    ASSUME OrderInv, NEW c \in Channels \ {Shown}, Close(c),
           UNCHANGED <<job, reader, conn, sorted, head, short>>
    PROVE  OrderInv'
<1>1. ChOK
  BY DEF OrderInv, TypeInv
<1>2. ChOK' /\ \A d \in Channels \ {Shown} : ch'[d].sent = ch[d].sent /\ ch'[d].got = ch[d].got
  BY <1>1, CloseEffect
<1> QED
  BY <1>2, ChannelsOf, SameParts, QuietStep

LEMMA QuietTake ==
    ASSUME OrderInv, NEW c \in Channels \ {Shown}, HasNext(c), Take(c),
           \A i \in Chunks : c # Recv(i) /\ (job.net => c # Sort(i)),
           UNCHANGED <<job, reader, conn, sorted, head, short>>
    PROVE  OrderInv'
<1>1. ChOK
  BY DEF OrderInv, TypeInv
<1>2. /\ ChOK' /\ ch'[c].sent = ch[c].sent /\ ch'[c].got = ch[c].got + 1
      /\ \A d \in Channels \ {c} : ch'[d] = ch[d]
  BY <1>1, TakeEffect
<1>3. \A d \in Channels \ {Shown} : ch'[d].sent = ch[d].sent /\ ch'[d].got >= ch[d].got
  BY <1>1, <1>2 DEF ChOK, Channel
<1>4. /\ \A i \in Chunks : ch'[Recv(i)].got = ch[Recv(i)].got
      /\ job.net => \A i \in Chunks : ch'[Sort(i)].got = ch[Sort(i)].got
  BY <1>2, ChannelsOf
<1> QED
  BY <1>2, <1>3, <1>4, SameParts, QuietStep

LEMMA QuietShown ==
    ASSUME OrderInv, NEW v, ch' = ch \/ Send(Shown, v) \/ Take(Shown) \/ Close(Shown),
           DOMAIN reader' = Readers, \A c \in Readers \ {Shown} : reader'[c] = reader[c],
           UNCHANGED <<job, conn, sorted, head, short>>
    PROVE  OrderInv'
<1>1. ChOK /\ ReaderOK
  BY DEF OrderInv, TypeInv
<1>2. ChOK' /\ \A d \in Channels \ {Shown} : ch'[d] = ch[d]
  BY <1>1, ShownEffect, SameParts
<1>3. ReaderOK'
  BY <1>1, JobStays DEF ReaderOK
<1> QED
  BY <1>2, <1>3, ChannelsOf, SameParts, QuietStep

LEMMA QuietConn ==
    ASSUME OrderInv, NEW i \in Chunks, NEW st \in {"open", "closed"}, job.net, conn[i].state # "broken",
           conn' = [conn EXCEPT ![i].state = st],
           UNCHANGED <<job, ch, reader, sorted, head, short>>
    PROVE  OrderInv'
<1>1. ConnOK
  BY DEF OrderInv, TypeInv
<1>2. ConnOK' /\ \A j \in Chunks : SameWire(j)
  BY <1>1, JobStays DEF ConnOK, SameWire
<1> QED
  BY <1>2, SameParts, QuietStep

-----------------------------------------------------------------------------
(* InMemSort.                                                              *)

LEMMA SortsOfOK ==
    ASSUME NEW s \in Seq(Values), NEW a \in SortsOf(s)
    PROVE  a \in Seq(Values) /\ Ascending(a)
<1>1. a \in [1..Len(s) -> ToSet(s)] /\ Ascending(a)
  BY DEF SortsOf
<1>2. ToSet(s) \subseteq Values /\ Len(s) \in Nat
  BY DEF ToSet
<1> QED
  BY <1>1, <1>2

LEMMA SortIntsStep == ASSUME OrderInv, NEW i \in Chunks, SortInts(i) PROVE OrderInv'
<1>0. TypeInv /\ SortedOK /\ WireOK /\ NetOK /\ MergeOK /\ ChOK
  BY DEF OrderInv, TypeInv
<1>1. UNCHANGED <<job, ch, reader, conn, head, main, disk, short>> /\ ~sorted[i].done
  BY DEF SortInts
<1>2. ch[Source(i)].sent \in Seq(Values) /\ Source(i) \in Channels
  BY <1>0, ChannelsOf DEF ChOK, Channel
<1>3. PICK a \in SortsOf(ch[Source(i)].sent) : sorted' = [sorted EXCEPT ![i] = [done |-> TRUE, a |-> a]]
  BY DEF SortInts
<1>4. a \in Seq(Values) /\ Ascending(a)
  BY <1>2, <1>3, SortsOfOK
<1>5. /\ DOMAIN sorted' = Chunks /\ sorted'[i] = [done |-> TRUE, a |-> a]
      /\ \A j \in Chunks \ {i} : sorted'[j] = sorted[j]
  BY <1>0, <1>3 DEF SortedOK
<1>6. ch[Sort(i)].sent = <<>>
  BY <1>0, <1>1 DEF SortedOK
<1>7. SortedOK'
  <2> SUFFICES ASSUME NEW j \in Chunks
               PROVE  /\ sorted'[j].done \in BOOLEAN /\ sorted'[j].a \in Seq(Values) /\ Ascending(sorted'[j].a)
                      /\ ~sorted'[j].done => ch'[Sort(j)].sent = <<>>
                      /\ Len(ch'[Sort(j)].sent) <= Len(sorted'[j].a)
                      /\ \A k \in 1..Len(ch'[Sort(j)].sent) : ch'[Sort(j)].sent[k] = sorted'[j].a[k]
    BY <1>1, <1>5, JobStays DEF SortedOK
  <2>1. CASE j = i
    <3>1. sorted'[j].done = TRUE /\ sorted'[j].a = a /\ ch'[Sort(j)].sent = <<>>
      BY <1>1, <1>5, <1>6, <2>1
    <3> DEFINE sj == sorted'[j]  t == ch'[Sort(j)].sent
    <3> HIDE DEF sj, t
    <3>2. Len(t) = 0 /\ Len(a) \in Nat /\ sj.done = TRUE /\ sj.a = a /\ t = <<>>
      BY <1>4, <3>1 DEF sj, t
    <3>3. sj.done \in BOOLEAN
      BY <3>2
    <3>4. sj.a \in Seq(Values) /\ Ascending(sj.a) /\ (~sj.done => t = <<>>)
      BY <1>4, <3>2
    <3>5. Len(t) <= Len(sj.a) /\ \A k \in 1..Len(t) : t[k] = sj.a[k]
      BY <3>2
    <3> QED
      BY <3>3, <3>4, <3>5 DEF sj, t
  <2>2. CASE j # i
    BY <1>0, <1>1, <1>5, <2>2 DEF SortedOK
  <2> QED
    BY <2>1, <2>2
<1>8. TypeInv'
  BY <1>0, <1>1, SameParts, JobStays DEF TypeInv, HeadType
<1>9. WireOK' /\ NetOK' /\ MergeOK'
  <2>1. \A c \in Channels \ {Shown} : Grows(c)
    BY <1>0, <1>1, OtherGrows
  <2> QED
    BY <1>0, <1>1, <2>1, ChannelsOf, WireKept, SameConn, NetKept, MergeKept
<1> QED
  BY <1>7, <1>8, <1>9 DEF OrderInv

LEMMA SendSortedStep == ASSUME OrderInv, NEW i \in Chunks, SendSorted(i) PROVE OrderInv'
<1>0. TypeInv /\ SortedOK /\ WireOK /\ NetOK /\ MergeOK /\ ChOK
  BY DEF OrderInv, TypeInv
<1> DEFINE a == sorted[i].a  s == ch[Sort(i)].sent  n == Len(ch[Sort(i)].sent)
<1>1. /\ UNCHANGED <<job, reader, sorted, conn, head, main, disk, short>> /\ sorted[i].done
      /\ n < Len(a) /\ Send(Sort(i), a[n + 1])
  BY DEF SendSorted
<1>2. Sort(i) \in Channels \ {Shown} /\ s \in Seq(Values) /\ n \in Nat /\ a \in Seq(Values)
  BY <1>0, ChannelsOf DEF ChOK, Channel, SortedOK
<1>3. a[n + 1] \in Values
  BY <1>1, <1>2
<1>4. /\ ChOK' /\ ch'[Sort(i)].sent = Append(s, a[n + 1]) /\ ch'[Sort(i)].got = ch[Sort(i)].got
      /\ \A d \in Channels \ {Sort(i)} : ch'[d] = ch[d]
  BY <1>0, <1>1, <1>2, <1>3, SendEffect
<1>5. ASSUME NEW c \in Channels \ {Shown} PROVE Grows(c)
  BY <1>0, <1>2, <1>3, <1>4, OtherGrows, SendGrows
<1>6. SortedOK'
  <2> SUFFICES ASSUME NEW j \in Chunks
               PROVE  /\ sorted[j].done \in BOOLEAN /\ sorted[j].a \in Seq(Values) /\ Ascending(sorted[j].a)
                      /\ ~sorted[j].done => ch'[Sort(j)].sent = <<>>
                      /\ Len(ch'[Sort(j)].sent) <= Len(sorted[j].a)
                      /\ \A k \in 1..Len(ch'[Sort(j)].sent) : ch'[Sort(j)].sent[k] = sorted[j].a[k]
    BY <1>0, <1>1, JobStays DEF SortedOK
  <2>1. CASE j = i
    <3>1. sorted[j].done /\ a \in Seq(Values) /\ Ascending(a) /\ \A k \in 1..n : s[k] = a[k]
      BY <1>0, <1>1, <2>1 DEF SortedOK
    <3> DEFINE t == Append(s, a[n + 1])
    <3>2. Len(t) = n + 1 /\ t[n + 1] = a[n + 1] /\ \A k \in 1..n : t[k] = s[k]
      BY <1>2, <1>3
    <3>3. sorted[j].a = a /\ ch'[Sort(j)].sent = t
      BY <1>4, <2>1
    <3> HIDE DEF t, a, s, n
    <3>4. \A k \in 1..Len(t) : t[k] = a[k]
      BY <1>2, <3>1, <3>2
    <3>5. Len(t) <= Len(a)
      BY <1>1, <1>2, <3>2
    <3> QED
      BY <2>1, <3>1, <3>3, <3>4, <3>5
  <2>2. CASE j # i
    <3>1. ch'[Sort(j)] = ch[Sort(j)]
      BY <1>4, <2>2, ChannelsOf, Distinct
    <3> QED
      BY <1>0, <3>1 DEF SortedOK
  <2> QED
    BY <2>1, <2>2
<1>7. TypeInv'
  BY <1>0, <1>1, <1>4, SameParts, JobStays DEF TypeInv, HeadType
<1>8. /\ \A j \in Chunks : /\ ch'[Recv(j)] = ch[Recv(j)] /\ ch'[Net(j)] = ch[Net(j)]
                           /\ ch'[Sort(j)].got = ch[Sort(j)].got
      /\ \A p \in Spans(job.count) : ch'[Merge(p)] = ch[Merge(p)]
  BY <1>4, ChannelsOf, Distinct
<1>9. WireOK' /\ NetOK' /\ MergeOK'
  BY <1>0, <1>1, <1>5, <1>8, ChannelsOf, WireKept, SameConn, NetKept, MergeKept
<1> QED
  BY <1>6, <1>7, <1>9 DEF OrderInv

-----------------------------------------------------------------------------
(* The connection: the words on the wire.                                  *)

LEMMA Words ==
    ASSUME NEW w \in Nat \ {0}
    PROVE  /\ \A q \in Nat : q * w \in Nat /\ (q + 1) * w = q * w + w /\ (q * w = 0 => q = 0)
           /\ \A p, q \in Nat : p <= q => p * w <= q * w
           /\ \A q \in Nat : \A j \in 1..q : \A k \in 1..w :
                 /\ (j - 1) * w + k \in 1..q * w
                 /\ w + ((j - 1) * w + k) = j * w + k
<1>1. ASSUME NEW q \in Nat PROVE q * w \in Nat /\ (q + 1) * w = q * w + w /\ (q * w = 0 => q = 0)
  OBVIOUS
<1>2. ASSUME NEW p \in Nat, NEW q \in Nat, p <= q PROVE p * w <= q * w
  <2>1. q - p \in Nat /\ q = p + (q - p)
    BY <1>2
  <2>2. (q - p) * w \in Nat
    BY <1>1, <2>1
  <2>3. (p + (q - p)) * w = p * w + (q - p) * w
    BY <2>1
  <2>4. p * w \in Nat
    BY <1>1
  <2> QED
    BY <2>1, <2>2, <2>3, <2>4
<1>3. ASSUME NEW q \in Nat, NEW j \in 1..q, NEW k \in 1..w
      PROVE  /\ (j - 1) * w + k \in 1..q * w
             /\ w + ((j - 1) * w + k) = j * w + k
  <2>1. j - 1 \in Nat /\ (j - 1) + 1 = j /\ j \in Nat /\ j <= q
    OBVIOUS
  <2>2. (j - 1) * w \in Nat /\ j * w = (j - 1) * w + w /\ j * w <= q * w /\ q * w \in Nat
    BY <1>1, <1>2, <2>1
  <2> DEFINE x == (j - 1) * w  y == j * w  z == q * w
  <2> HIDE DEF x, y, z
  <2>3. x \in Nat /\ y = x + w /\ y <= z /\ z \in Nat
    BY <2>2 DEF x, y, z
  <2>4. x + k \in 1..z /\ w + (x + k) = y + k
    BY <2>3
  <2> QED
    BY <2>4 DEF x, y, z
<1> QED
  BY <1>1, <1>2, <1>3

\* NetWorkSource takes the first word from the wire.
LEMMA DropWord ==
    ASSUME NEW w \in Nat \ {0}, NEW B, NEW x \in Seq(B), NEW q \in Nat \ {0}, w <= Len(x), Len(x) <= q * w
    PROVE  LET y == SubSeq(x, w + 1, Len(x)) IN
           /\ y \in Seq(B) /\ Len(y) <= (q - 1) * w /\ (Len(x) = q * w => Len(y) = (q - 1) * w)
           /\ \A j \in 1..q - 1 : \A k \in 1..w : (j - 1) * w + k <= Len(y) =>
                  /\ ((j + 1) - 1) * w + k <= Len(x)
                  /\ y[(j - 1) * w + k] = x[((j + 1) - 1) * w + k]
<1> DEFINE y == SubSeq(x, w + 1, Len(x))
<1>1. q - 1 \in Nat /\ (q - 1) + 1 = q
  OBVIOUS
<1>2. q * w \in Nat /\ (q - 1) * w \in Nat /\ q * w = (q - 1) * w + w
  BY <1>1, Words
<1> DEFINE z == q * w  z1 == (q - 1) * w  l == Len(x)
<1> HIDE DEF z, z1
<1>3. l \in Nat /\ w <= l /\ l <= z /\ z \in Nat /\ z1 \in Nat /\ z = z1 + w
  BY <1>2 DEF z, z1
<1>4. \A k \in w + 1..Len(x) : x[k] \in B
  BY <1>3
<1>5. /\ y \in Seq(B) /\ Len(y) = IF w + 1 <= l THEN l - (w + 1) + 1 ELSE 0
      /\ \A k \in 1..l - (w + 1) + 1 : y[k] = x[w + 1 + k - 1]
  BY <1>3, <1>4, SubSeqProperties
<1> HIDE DEF y, l
<1>6. Len(y) = l - w /\ \A k \in 1..Len(y) : y[k] = x[w + k]
  <2>1. l - (w + 1) + 1 = l - w /\ \A k \in 1..l - w : w + 1 + k - 1 = w + k
    BY <1>3
  <2>2. \A k \in 1..l - w : y[k] = x[w + k]
    BY <1>5, <2>1
  <2>3. Len(y) = l - w
    <3>1. CASE l = w
      BY <1>3, <1>5, <3>1
    <3>2. CASE w < l
      <4>1. w + 1 <= l
        BY <1>3, <3>2
      <4> QED
        BY <1>5, <2>1, <4>1
    <3> QED
      BY <1>3, <3>1, <3>2
  <2> QED
    BY <2>2, <2>3
<1>7. ASSUME NEW j \in 1..q - 1, NEW k \in 1..w, (j - 1) * w + k <= Len(y)
      PROVE  /\ ((j + 1) - 1) * w + k <= l
             /\ y[(j - 1) * w + k] = x[((j + 1) - 1) * w + k]
  <2>1. (j - 1) * w + k \in 1..(q - 1) * w /\ w + ((j - 1) * w + k) = j * w + k
    BY <1>1, Words
  <2>2. (j + 1) - 1 = j
    OBVIOUS
  <2> DEFINE u == (j - 1) * w + k
  <2>0. u <= Len(y)
    BY <1>7
  <2> HIDE DEF u
  <2>3. u \in 1..z1 /\ w + u = j * w + k
    BY <2>1 DEF u, z1
  <2>4. u \in 1..Len(y) /\ w + u <= l
    BY <1>3, <1>6, <2>0, <2>3
  <2>5. y[u] = x[j * w + k] /\ j * w + k <= l
    BY <1>6, <2>3, <2>4
  <2> QED
    BY <2>2, <2>5 DEF u
<1>8. Len(y) <= z1 /\ (l = z => Len(y) = z1)
  BY <1>3, <1>6
<1> QED
  BY <1>5, <1>7, <1>8 DEF y, z, z1, l

\* NetWorkSink puts a word behind the others.
IsAdded(x, q, b, y) ==
    /\ y \in Seq(Byte) /\ Len(y) = (q + 1) * Word
    /\ \A j \in 1..q : \A k \in 1..Word : y[(j - 1) * Word + k] = x[(j - 1) * Word + k]
    /\ \A k \in 1..Word : y[((q + 1) - 1) * Word + k] = b[k]

LEMMA AddWord ==
    ASSUME NEW x \in Seq(Byte), NEW q \in Nat, Len(x) = q * Word,
           NEW b \in Seq(Byte), Len(b) = Word, NEW y, y = x \o b
    PROVE  IsAdded(x, q, b, y)
<1>0. Word \in Nat \ {0}
  BY Constants
<1> DEFINE z == q * Word
<1>1. z \in Nat /\ (q + 1) * Word = z + Word
  BY <1>0, Words
<1>2. \A j \in 1..q : \A k \in 1..Word : (j - 1) * Word + k \in 1..z
  BY <1>0, Words
<1> HIDE DEF z
<1>3. Len(x) = z
  BY DEF z
<1>4. /\ y \in Seq(Byte) /\ Len(y) = z + Word
      /\ \A u \in 1..z + Word : y[u] = IF u <= z THEN x[u] ELSE b[u - z]
  BY <1>0, <1>3, ConcatProperties
<1>5. \A u \in 1..z : y[u] = x[u]
  BY <1>0, <1>1, <1>4
<1>6. \A k \in 1..Word : y[z + k] = b[k]
  <2>1. ASSUME NEW k \in 1..Word PROVE z + k \in 1..z + Word /\ ~(z + k <= z) /\ (z + k) - z = k
    BY <1>0, <1>1
  <2> QED
    BY <1>4, <2>1
<1>7. (q + 1) - 1 = q
  OBVIOUS
<1>8. \A k \in 1..Word : y[((q + 1) - 1) * Word + k] = b[k]
  BY <1>6, <1>7 DEF z
<1>9. \A j \in 1..q : \A k \in 1..Word : y[(j - 1) * Word + k] = x[(j - 1) * Word + k]
  BY <1>2, <1>5
<1> QED
  BY <1>1, <1>4, <1>8, <1>9 DEF IsAdded

LEMMA SameBuffer ==
    ASSUME NEW b \in Buffers, NEW e \in Buffers, \A k \in 1..Word : b[k] = e[k]
    PROVE  b = e
<1>1. b = [k \in 1..Word |-> b[k]] /\ e = [k \in 1..Word |-> e[k]]
  BY DEF Buffers
<1>2. [k \in 1..Word |-> b[k]] = [k \in 1..Word |-> e[k]]
  OBVIOUS
<1> QED
  BY <1>1, <1>2, Zenon

\* A whole word is read: it is the next of the values that NetWorkSink took.
LEMMA WireRead ==
    ASSUME OrderInv, job.net, ~short, NEW i \in Chunks, NEW buf \in Buffers,
           Word <= Len(conn[i].wire), \A k \in 1..Word : buf[k] = conn[i].wire[k],
           ch'[Recv(i)].sent = Append(ch[Recv(i)].sent, Decode[buf]),
           ch'[Sort(i)] = ch[Sort(i)],
           conn'[i].wire = SubSeq(conn[i].wire, Word + 1, Len(conn[i].wire)),
           conn'[i].state = conn[i].state
    PROVE  WireOf(i)'
<1> DEFINE r == ch[Recv(i)].sent  s == ch[Sort(i)].sent  g == ch[Sort(i)].got  w == conn[i].wire
           m == Len(r)
<1>1. /\ m <= g /\ (\A k \in 1..m : r[k] = s[k]) /\ Len(w) <= (g - m) * Word
      /\ \A j \in 1..g - m : \A k \in 1..Word :
            (j - 1) * Word + k <= Len(w) => w[(j - 1) * Word + k] = Encode[s[m + j]][k]
      /\ conn'[i].state # "broken" => Len(w) = (g - m) * Word
  BY DEF OrderInv, WireOK, WireOf, OnWire
<1>2. r \in Seq(Values) /\ s \in Seq(Values) /\ g \in Nat /\ g <= Len(s)
  BY ChannelsOf DEF OrderInv, TypeInv, ChOK, Channel
<1>3. w \in Seq(Byte)
  BY DEF OrderInv, TypeInv, ConnOK
<1>4. Word \in Nat \ {0}
  BY Constants
<1>5. ch'[Recv(i)].sent = Append(r, Decode[buf]) /\ ch'[Sort(i)].sent = s /\ ch'[Sort(i)].got = g
      /\ conn'[i].wire = SubSeq(w, Word + 1, Len(w)) /\ Word <= Len(w)
      /\ \A k \in 1..Word : buf[k] = w[k]
  OBVIOUS
<1> HIDE DEF r, s, g, w
<1>6. m \in Nat
  BY <1>2
<1> DEFINE q == g - m
<1>7. q \in Nat \ {0}
  <2>1. q \in Nat
    BY <1>1, <1>2, <1>6
  <2>2. q # 0
    <3>1. 0 * Word = 0
      BY <1>4
    <3>2. Len(w) \in Nat
      BY <1>3
    <3> QED
      BY <1>1, <1>4, <1>5, <3>1, <3>2
  <2> QED
    BY <2>1, <2>2
<1>8. Decode[buf] = s[m + 1]
  <2>1. s[m + 1] \in Values
    BY <1>2, <1>6, <1>7
  <2>2. Encode[s[m + 1]] \in Buffers
    BY <2>1, Constants
  <2>3. ASSUME NEW k \in 1..Word PROVE buf[k] = Encode[s[m + 1]][k]
    <3>0. (1 - 1) * Word + k = k /\ k <= Len(w)
      BY <1>3, <1>4, <1>5
    <3>1. w[(1 - 1) * Word + k] = Encode[s[m + 1]][k]
      BY <1>1, <1>7, <3>0
    <3>2. (1 - 1) * Word + k = k
      BY <3>0
    <3> QED
      BY <1>5, <3>1, <3>2
  <2>4. buf = Encode[s[m + 1]]
    BY <2>2, <2>3, SameBuffer
  <2> QED
    BY <2>1, <2>4, Constants
<1> DEFINE t == Append(r, Decode[buf])  y == SubSeq(w, Word + 1, Len(w))
<1>9. Len(t) = m + 1 /\ (\A k \in 1..m : t[k] = r[k]) /\ t[m + 1] = s[m + 1]
  BY <1>2, <1>8, Constants
<1>10. /\ Len(y) <= (q - 1) * Word /\ (Len(w) = q * Word => Len(y) = (q - 1) * Word)
       /\ \A j \in 1..q - 1 : \A k \in 1..Word : (j - 1) * Word + k <= Len(y) =>
              /\ ((j + 1) - 1) * Word + k <= Len(w)
              /\ y[(j - 1) * Word + k] = w[((j + 1) - 1) * Word + k]
  <2>1. Len(w) <= q * Word /\ Word <= Len(w)
    BY <1>1, <1>5
  <2> HIDE DEF q
  <2> QED
    BY <1>3, <1>4, <1>7, <2>1, DropWord
<1> HIDE DEF t, y
<1>11. Len(t) <= g /\ g - Len(t) = q - 1
  BY <1>2, <1>6, <1>7, <1>9
<1>12. \A k \in 1..Len(t) : t[k] = s[k]
  BY <1>1, <1>6, <1>9
<1>13. ASSUME NEW j \in 1..q - 1, NEW k \in 1..Word, (j - 1) * Word + k <= Len(y)
       PROVE  y[(j - 1) * Word + k] = Encode[s[Len(t) + j]][k]
  <2>1. j + 1 \in 1..q /\ m + (j + 1) = Len(t) + j
    BY <1>6, <1>7, <1>9
  <2>3. /\ ((j + 1) - 1) * Word + k <= Len(w)
        /\ y[(j - 1) * Word + k] = w[((j + 1) - 1) * Word + k]
    BY <1>10, <1>13
  <2>2. w[((j + 1) - 1) * Word + k] = Encode[s[m + (j + 1)]][k]
    BY <1>1, <2>1, <2>3
  <2> QED
    BY <2>1, <2>2, <2>3
<1>14. ch'[Recv(i)].sent = t /\ conn'[i].wire = y
  BY <1>5 DEF t, y
<1>17. conn'[i].state # "broken" => Len(y) = (g - Len(t)) * Word
  BY <1>1, <1>10, <1>11
<1> HIDE DEF m, q
<1>15. OnWire(t, s, g, y)
  BY <1>10, <1>11, <1>12, <1>13 DEF OnWire
<1>16. /\ ch'[Recv(i)].sent = t /\ ch'[Sort(i)].sent = s /\ ch'[Sort(i)].got = g
       /\ conn'[i].wire = y
  BY <1>5, <1>14
<1> QED
  BY <1>15, <1>16, <1>17 DEF WireOf

LEMMA WireStays ==
    ASSUME NEW i \in Chunks, WireOf(i), ch'[Recv(i)] = ch[Recv(i)], ch'[Sort(i)] = ch[Sort(i)],
           conn'[i] = conn[i]
    PROVE  WireOf(i)'
BY DEF WireOf

LEMMA ReadRecv == ASSUME OrderInv, NEW i \in Chunks, ReadValue(Recv(i)) PROVE OrderInv'
<1>0. TypeInv /\ SortedOK /\ WireOK /\ NetOK /\ MergeOK /\ ChOK /\ ConnOK /\ Word \in Nat \ {0}
  BY Constants DEF OrderInv, TypeInv
<1> DEFINE w == conn[i].wire
<1>1. w \in Seq(Byte) /\ Rest(Recv(i)) = w
  BY <1>0, RestBytes
<1>2. PICK n \in 1..Word, buf \in Buffers :
        /\ n <= Len(w) /\ \A k \in 1..n : buf[k] = w[k]
        /\ Send(Recv(i), Decode[buf]) /\ ReaderOK'
        /\ conn' = [conn EXCEPT ![i].wire = SubSeq(w, n + 1, Len(w))]
        /\ short' = (short \/ n < Word)
        /\ UNCHANGED <<job, sorted, head>>
  BY <1>0, <1>1, ReadOne
<1>3. job.net
  <2> SUFFICES ASSUME ~job.net PROVE FALSE
    OBVIOUS
  <2>1. w = <<>>
    BY <1>0 DEF WireOK
  <2>2. Len(w) = 0
    BY <2>1
  <2> QED
    BY <1>0, <1>2, <2>2
<1>4. Decode[buf] \in Values /\ Recv(i) \in Channels \ {Shown}
  BY Constants, ChannelsOf
<1>5. /\ ChOK' /\ \A d \in Channels \ {Recv(i)} : ch'[d] = ch[d]
      /\ ch'[Recv(i)].sent = Append(ch[Recv(i)].sent, Decode[buf]) /\ ch'[Recv(i)].got = ch[Recv(i)].got
  BY <1>0, <1>2, <1>4, SendEffect
<1>6. \A j \in Chunks : /\ ch'[Sort(j)] = ch[Sort(j)] /\ ch'[Net(j)] = ch[Net(j)]
                        /\ ch'[Recv(j)].got = ch[Recv(j)].got
                        /\ j # i => ch'[Recv(j)] = ch[Recv(j)]
  BY <1>5, ChannelsOf, Distinct
<1>7. \A c \in Channels \ {Shown} : Grows(c)
  BY <1>0, <1>4, <1>5, OtherGrows, SendGrows
<1>8. \A p \in Spans(job.count) : ch'[Merge(p)].sent = ch[Merge(p)].sent
  BY <1>5, ChannelsOf, Distinct
<1>9. /\ \A j \in Chunks \ {i} : conn'[j] = conn[j]
      /\ conn'[i].wire = SubSeq(w, n + 1, Len(w)) /\ conn'[i].state = conn[i].state
      /\ ConnOK'
  <2>1. \A k \in n + 1..Len(w) : w[k] \in Byte
    BY <1>1
  <2>2. SubSeq(w, n + 1, Len(w)) \in Seq(Byte)
    BY <1>1, <2>1, SubSeqProperties
  <2> DEFINE y == SubSeq(w, n + 1, Len(w))
  <2>3. y \in Seq(Byte) /\ conn' = [conn EXCEPT ![i].wire = y]
    BY <1>2, <2>2
  <2> HIDE DEF y
  <2>4. /\ \A j \in Chunks \ {i} : conn'[j] = conn[j]
        /\ conn'[i].wire = y /\ conn'[i].state = conn[i].state
        /\ ConnOK'
    BY <1>0, <1>2, <2>3, JobStays DEF ConnOK
  <2> QED
    BY <2>4 DEF y
<1>10. short' \in BOOLEAN
  <2>1. short \in BOOLEAN
    BY <1>0 DEF TypeInv
  <2> QED
    BY <1>2, <2>1
<1>11. TypeInv'
  BY <1>0, <1>2, <1>5, <1>9, <1>10, JobStays DEF TypeInv, HeadType
<1>12. ~short' => ~short /\ n = Word
  <2>1. ~short' => ~short /\ ~(n < Word)
    BY <1>2, Zenon
  <2>2. ~(n < Word) => n = Word
    BY <1>0
  <2> QED
    BY <2>1, <2>2, Zenon
<1>13. WireOK'
  <2> SUFFICES ASSUME ~short', NEW j \in Chunks PROVE WireOf(j)'
    BY <1>2, <1>3, JobStays DEF WireOK
  <2>1. CASE j = i
    BY <1>2, <1>3, <1>5, <1>6, <1>9, <1>12, <2>1, WireRead
  <2>2. CASE j # i
    <3>1. WireOf(j)
      BY <1>0, <1>3, <1>12 DEF WireOK
    <3>2. ch'[Recv(j)] = ch[Recv(j)] /\ ch'[Sort(j)] = ch[Sort(j)] /\ conn'[j] = conn[j]
      BY <1>6, <1>9, <2>2
    <3> QED
      BY <3>1, <3>2, WireStays
  <2> QED
    BY <2>1, <2>2
<1>14. SortedOK' /\ NetOK' /\ MergeOK'
  <2>1. ~short' => ~short
    BY <1>12
  <2> QED
    BY <1>0, <1>2, <1>6, <1>7, <1>8, <2>1, ChannelsOf, SortedKept, NetKept, MergeKept
<1> QED
  BY <1>11, <1>13, <1>14 DEF OrderInv

\* NetWorkSink sends the next value of the sorter.
LEMMA WireWritten ==
    ASSUME OrderInv, job.net, ~short, NEW i \in Chunks, HasNext(Sort(i)),
           ch'[Recv(i)] = ch[Recv(i)],
           ch'[Sort(i)].sent = ch[Sort(i)].sent, ch'[Sort(i)].got = ch[Sort(i)].got + 1,
           conn'[i].wire = conn[i].wire \o Encode[NextOf(Sort(i))], conn[i].state # "broken"
    PROVE  WireOf(i)'
<1> DEFINE r == ch[Recv(i)].sent  s == ch[Sort(i)].sent  g == ch[Sort(i)].got  w == conn[i].wire
           m == Len(r)  q == g - m  e == Encode[s[g + 1]]  y == w \o e
<1>1. OnWire(r, s, g, w) /\ Len(w) = (g - Len(r)) * Word
  BY DEF OrderInv, WireOK, WireOf
<1>2. r \in Seq(Values) /\ s \in Seq(Values) /\ g \in Nat /\ g < Len(s)
  BY ChannelsOf DEF OrderInv, TypeInv, ChOK, Channel, HasNext
<1>3. w \in Seq(Byte)
  BY DEF OrderInv, TypeInv, ConnOK
<1>4. Word \in Nat \ {0}
  BY Constants
<1>5. /\ ch'[Recv(i)].sent = r /\ ch'[Sort(i)].sent = s /\ ch'[Sort(i)].got = g + 1
      /\ conn'[i].wire = y
  BY DEF NextOf
<1> HIDE DEF r, s, g, w
<1>6. m \in Nat
  BY <1>2
<1> HIDE DEF m
<1>7. /\ m <= g /\ (\A k \in 1..m : r[k] = s[k]) /\ Len(w) = q * Word
      /\ \A j \in 1..q : \A k \in 1..Word : w[(j - 1) * Word + k] = Encode[s[m + j]][k]
  <2>1. /\ m <= g /\ (\A k \in 1..m : r[k] = s[k]) /\ Len(w) = (g - m) * Word
        /\ \A j \in 1..g - m : \A k \in 1..Word :
              (j - 1) * Word + k <= Len(w) => w[(j - 1) * Word + k] = Encode[s[m + j]][k]
    BY <1>1 DEF OnWire, m
  <2>2. g - m \in Nat
    BY <1>2, <1>6, <2>1
  <2>3. \A j \in 1..g - m : \A k \in 1..Word : (j - 1) * Word + k \in 1..(g - m) * Word
    BY <1>4, <2>2, Words
  <2>4. Len(w) \in Nat
    BY <1>3
  <2>5. \A j \in 1..g - m : \A k \in 1..Word : (j - 1) * Word + k <= Len(w)
    BY <2>1, <2>3, <2>4
  <2> QED
    BY <2>1, <2>5
<1>8. e \in Seq(Byte) /\ Len(e) = Word
  <2>1. s[g + 1] \in Values
    BY <1>2
  <2>2. e \in [1..Word -> Byte]
    BY <2>1, Constants DEF Buffers
  <2> HIDE DEF e
  <2> QED
    BY <1>4, <2>2
<1>9. q \in Nat /\ (g + 1) - m = q + 1 /\ m + (q + 1) = g + 1
  BY <1>2, <1>6, <1>7
<1> HIDE DEF q, e
<1>10. IsAdded(w, q, e, y)
  <2>1. Len(w) = q * Word /\ q \in Nat
    BY <1>7, <1>9
  <2>2. y = w \o e
    BY DEF y
  <2> HIDE DEF y
  <2> QED
    BY <1>3, <1>8, <2>1, <2>2, AddWord
<1> HIDE DEF y
<1>11. ASSUME NEW j \in 1..q + 1, NEW k \in 1..Word
       PROVE  y[(j - 1) * Word + k] = Encode[s[m + j]][k]
  <2>1. CASE j = q + 1
    BY <1>9, <1>10, <2>1 DEF IsAdded, e
  <2>2. CASE j # q + 1
    <3>1. j \in 1..q
      BY <1>9, <2>2
    <3> QED
      BY <1>7, <1>10, <3>1 DEF IsAdded
  <2> QED
    BY <2>1, <2>2
<1>12. m <= g + 1
  BY <1>2, <1>6, <1>7
<1>13. OnWire(r, s, g + 1, y) /\ Len(y) = ((g + 1) - Len(r)) * Word
  <2>1. Len(y) = ((g + 1) - m) * Word /\ Len(y) \in Nat
    BY <1>9, <1>10 DEF IsAdded
  <2> QED
    BY <1>7, <1>9, <1>11, <1>12, <2>1 DEF OnWire, m
<1> QED
  BY <1>5, <1>13 DEF WireOf

LEMMA SinkValueStep == ASSUME OrderInv, NEW i \in Chunks, SinkValue(i) PROVE OrderInv'
<1>0. TypeInv /\ SortedOK /\ WireOK /\ NetOK /\ MergeOK /\ ChOK /\ ConnOK /\ Word \in Nat \ {0}
  BY Constants DEF OrderInv, TypeInv
<1> DEFINE w == conn[i].wire  e == Encode[NextOf(Sort(i))]
<1>1. /\ UNCHANGED <<job, reader, sorted, head, main, disk, short>>
      /\ conn[i].state = "open" /\ HasNext(Sort(i)) /\ Take(Sort(i))
      /\ conn' = [conn EXCEPT ![i].wire = w \o e]
  BY DEF SinkValue
<1>2. job.net
  BY <1>0, <1>1 DEF WireOK
<1>3. Sort(i) \in Channels \ {Shown} /\ NextOf(Sort(i)) \in Values
  BY <1>0, <1>1, ChannelsOf DEF ChOK, Channel, HasNext, NextOf
<1>4. /\ ChOK' /\ ch'[Sort(i)].sent = ch[Sort(i)].sent /\ ch'[Sort(i)].got = ch[Sort(i)].got + 1
      /\ \A d \in Channels \ {Sort(i)} : ch'[d] = ch[d]
  BY <1>0, <1>1, <1>3, TakeEffect
<1>5. /\ \A j \in Chunks : /\ ch'[Recv(j)] = ch[Recv(j)] /\ ch'[Net(j)] = ch[Net(j)]
                           /\ ch'[Sort(j)].sent = ch[Sort(j)].sent
                           /\ j # i => ch'[Sort(j)] = ch[Sort(j)]
      /\ \A p \in Spans(job.count) : ch'[Merge(p)].sent = ch[Merge(p)].sent
  BY <1>4, ChannelsOf, Distinct
<1>6. \A c \in Channels \ {Shown} : Grows(c)
  <2>1. ch[Sort(i)].got \in Nat
    BY <1>0, <1>3 DEF ChOK, Channel
  <2>2. Grows(Sort(i))
    BY <1>0, <1>3, <1>4, <2>1, SameGrows
  <2> QED
    BY <1>0, <1>4, <2>2, OtherGrows
<1>7. /\ \A j \in Chunks \ {i} : conn'[j] = conn[j]
      /\ conn'[i].wire = w \o e
      /\ ConnOK'
  <2> DEFINE y == w \o e
  <2>1. y \in Seq(Byte) /\ conn' = [conn EXCEPT ![i].wire = y]
    <3>1. e \in [1..Word -> Byte]
      BY <1>3, Constants DEF Buffers
    <3>2. w \in Seq(Byte)
      BY <1>0 DEF ConnOK
    <3>3. e \in Seq(Byte)
      BY <1>0, <3>1
    <3> HIDE DEF e, w
    <3>4. w \o e \in Seq(Byte)
      BY <3>2, <3>3, ConcatProperties
    <3> QED
      BY <1>1, <3>4
  <2> HIDE DEF y
  <2>2. /\ \A j \in Chunks \ {i} : conn'[j] = conn[j]
        /\ conn'[i].wire = y
        /\ ConnOK'
    BY <1>0, <1>1, <2>1, JobStays DEF ConnOK
  <2> QED
    BY <2>2 DEF y
<1>8. TypeInv'
  BY <1>0, <1>1, <1>4, <1>7, SameParts, JobStays DEF TypeInv, HeadType
<1>9. WireOK'
  <2> SUFFICES ASSUME ~short, NEW j \in Chunks PROVE WireOf(j)'
    BY <1>1, <1>2, JobStays DEF WireOK
  <2>1. CASE j = i
    BY <1>1, <1>2, <1>4, <1>5, <1>7, <2>1, WireWritten
  <2>2. CASE j # i
    <3>1. WireOf(j)
      BY <1>0, <1>2 DEF WireOK
    <3> QED
      BY <1>5, <1>7, <2>2, <3>1, WireStays
  <2> QED
    BY <2>1, <2>2
<1>10. SortedOK' /\ NetOK' /\ MergeOK'
  BY <1>0, <1>1, <1>5, <1>6, ChannelsOf, SortedKept, NetKept, MergeKept
<1> QED
  BY <1>8, <1>9, <1>10 DEF OrderInv

\* A writer that has failed drops the next value of the sorter.
LEMMA WireDropped ==
    ASSUME OrderInv, job.net, ~short, NEW i \in Chunks, HasNext(Sort(i)),
           ch'[Recv(i)] = ch[Recv(i)],
           ch'[Sort(i)].sent = ch[Sort(i)].sent, ch'[Sort(i)].got = ch[Sort(i)].got + 1,
           conn'[i] = conn[i], conn[i].state = "broken"
    PROVE  WireOf(i)'
<1> DEFINE r == ch[Recv(i)].sent  s == ch[Sort(i)].sent  g == ch[Sort(i)].got  w == conn[i].wire
           m == Len(r)  q == g - m
<1>1. /\ m <= g /\ (\A k \in 1..m : r[k] = s[k]) /\ Len(w) <= (g - m) * Word
      /\ \A j \in 1..g - m : \A k \in 1..Word :
            (j - 1) * Word + k <= Len(w) => w[(j - 1) * Word + k] = Encode[s[m + j]][k]
  BY DEF OrderInv, WireOK, WireOf, OnWire
<1>2. g \in Nat /\ m \in Nat
  BY ChannelsOf DEF OrderInv, TypeInv, ChOK, Channel
<1>3. Len(w) \in Nat /\ Word \in Nat \ {0}
  BY Constants DEF OrderInv, TypeInv, ConnOK
<1>4. ch'[Recv(i)].sent = r /\ ch'[Sort(i)].sent = s /\ ch'[Sort(i)].got = g + 1 /\ conn'[i].wire = w
  OBVIOUS
<1>5. conn'[i].state = "broken"
  OBVIOUS
<1> HIDE DEF r, s, g, w, m
<1>6. q \in Nat /\ (g + 1) - m = q + 1 /\ m <= g + 1
  BY <1>1, <1>2
<1>7. q * Word \in Nat /\ (q + 1) * Word = q * Word + Word
  BY <1>3, <1>6, Words
<1>8. Len(w) <= q * Word /\ Len(w) <= (q + 1) * Word
  <2> DEFINE z == q * Word  z1 == (q + 1) * Word
  <2>1. z \in Nat /\ z1 = z + Word /\ Len(w) <= z
    BY <1>1, <1>7
  <2> HIDE DEF z, z1
  <2>2. Len(w) <= z /\ Len(w) <= z1
    BY <1>3, <2>1
  <2> QED
    BY <2>2 DEF z, z1
<1>9. ASSUME NEW j \in 1..q + 1, NEW k \in 1..Word, (j - 1) * Word + k <= Len(w)
      PROVE  w[(j - 1) * Word + k] = Encode[s[m + j]][k]
  <2>1. CASE j \in 1..q
    BY <1>1, <1>9, <2>1
  <2>2. CASE j = q + 1
    <3>1. (j - 1) * Word = q * Word
      BY <1>6, <2>2
    <3> DEFINE z == q * Word
    <3>2. z + k <= Len(w) /\ Len(w) <= z /\ z \in Nat
      BY <1>7, <1>8, <1>9, <3>1
    <3> HIDE DEF z
    <3>3. FALSE
      BY <1>3, <3>2
    <3> QED
      BY <3>3
  <2> QED
    BY <1>6, <2>1, <2>2
<1>10. OnWire(r, s, g + 1, w)
  BY <1>1, <1>6, <1>8, <1>9 DEF OnWire, m
<1> QED
  BY <1>4, <1>5, <1>10 DEF WireOf

LEMMA DropValueStep == ASSUME OrderInv, NEW i \in Chunks, DropValue(i) PROVE OrderInv'
<1>0. TypeInv /\ SortedOK /\ WireOK /\ NetOK /\ MergeOK /\ ChOK /\ ConnOK
  BY DEF OrderInv, TypeInv
<1>1. /\ UNCHANGED <<job, reader, sorted, conn, head, main, disk, short>>
      /\ conn[i].state = "broken" /\ HasNext(Sort(i)) /\ Take(Sort(i))
  BY DEF DropValue
<1>2. job.net
  BY <1>0, <1>1 DEF WireOK
<1>3. Sort(i) \in Channels \ {Shown}
  BY ChannelsOf
<1>4. /\ ChOK' /\ ch'[Sort(i)].sent = ch[Sort(i)].sent /\ ch'[Sort(i)].got = ch[Sort(i)].got + 1
      /\ \A d \in Channels \ {Sort(i)} : ch'[d] = ch[d]
  BY <1>0, <1>1, <1>3, TakeEffect
<1>5. /\ \A j \in Chunks : /\ ch'[Recv(j)] = ch[Recv(j)] /\ ch'[Net(j)] = ch[Net(j)]
                           /\ ch'[Sort(j)].sent = ch[Sort(j)].sent
                           /\ j # i => ch'[Sort(j)] = ch[Sort(j)]
      /\ \A p \in Spans(job.count) : ch'[Merge(p)].sent = ch[Merge(p)].sent
  BY <1>4, ChannelsOf, Distinct
<1>6. \A c \in Channels \ {Shown} : Grows(c)
  <2>1. ch[Sort(i)].got \in Nat
    BY <1>0, <1>3 DEF ChOK, Channel
  <2>2. Grows(Sort(i))
    BY <1>0, <1>3, <1>4, <2>1, SameGrows
  <2> QED
    BY <1>0, <1>4, <2>2, OtherGrows
<1>8. TypeInv'
  BY <1>0, <1>1, <1>4, SameParts, JobStays DEF TypeInv, HeadType
<1>9. WireOK'
  <2> SUFFICES ASSUME ~short, NEW j \in Chunks PROVE WireOf(j)'
    BY <1>1, <1>2, JobStays DEF WireOK
  <2>1. CASE j = i
    BY <1>1, <1>2, <1>4, <1>5, <2>1, WireDropped
  <2>2. CASE j # i
    <3>1. WireOf(j)
      BY <1>0, <1>2 DEF WireOK
    <3> QED
      BY <1>1, <1>5, <2>2, <3>1, WireStays
  <2> QED
    BY <2>1, <2>2
<1>10. SortedOK' /\ NetOK' /\ MergeOK'
  BY <1>0, <1>1, <1>5, <1>6, ChannelsOf, SortedKept, NetKept, MergeKept
<1> QED
  BY <1>8, <1>9, <1>10 DEF OrderInv

\* What is left on the wire of a broken connection is the beginning of what was.
LEMMA WireBroken ==
    ASSUME OrderInv, job.net, ~short, NEW i \in Chunks, ch' = ch, NEW n \in 0..Len(conn[i].wire),
           conn'[i].wire = SubSeq(conn[i].wire, 1, n), conn'[i].state = "broken"
    PROVE  WireOf(i)'
<1> DEFINE r == ch[Recv(i)].sent  s == ch[Sort(i)].sent  g == ch[Sort(i)].got  w == conn[i].wire
           m == Len(r)  z == (g - m) * Word  y == SubSeq(w, 1, n)
<1>1. /\ m <= g /\ (\A k \in 1..m : r[k] = s[k]) /\ Len(w) <= z
      /\ \A j \in 1..g - m : \A k \in 1..Word :
            (j - 1) * Word + k <= Len(w) => w[(j - 1) * Word + k] = Encode[s[m + j]][k]
  BY DEF OrderInv, WireOK, WireOf, OnWire
<1>2. g \in Nat /\ m \in Nat /\ Word \in Nat \ {0} /\ w \in Seq(Byte)
  BY ChannelsOf, Constants DEF OrderInv, TypeInv, ChOK, Channel, ConnOK
<1>3. ch'[Recv(i)].sent = r /\ ch'[Sort(i)].sent = s /\ ch'[Sort(i)].got = g /\ conn'[i].wire = y
  OBVIOUS
<1>4. n \in Nat /\ n <= Len(w) /\ Len(w) \in Nat
  BY <1>2
<1>5. conn'[i].state = "broken"
  OBVIOUS
<1> HIDE DEF r, s, g, w, m
<1>6. Len(y) = n /\ \A k \in 1..n : y[k] = w[k]
  BY <1>2, <1>4
<1> HIDE DEF y
<1>7. g - m \in Nat /\ z \in Nat
  BY <1>1, <1>2
<1>8. \A j \in 1..g - m : \A k \in 1..Word : (j - 1) * Word + k \in 1..z
  BY <1>2, <1>7, Words
<1> HIDE DEF z
<1>9. ASSUME NEW j \in 1..g - m, NEW k \in 1..Word, (j - 1) * Word + k <= Len(y)
      PROVE  y[(j - 1) * Word + k] = Encode[s[m + j]][k]
  <2> DEFINE u == (j - 1) * Word + k
  <2>1. u \in 1..z /\ u <= n
    BY <1>6, <1>8, <1>9
  <2> HIDE DEF u
  <2>2. u \in 1..n /\ u <= Len(w)
    BY <1>4, <1>7, <2>1
  <2>3. y[u] = w[u]
    BY <1>6, <2>2
  <2>4. w[u] = Encode[s[m + j]][k]
    BY <1>1, <2>2 DEF u
  <2> QED
    BY <2>3, <2>4 DEF u
<1>10. Len(y) <= z
  BY <1>1, <1>4, <1>6, <1>7
<1>11. OnWire(r, s, g, y)
  BY <1>1, <1>9, <1>10 DEF OnWire, m, z
<1> QED
  BY <1>3, <1>5, <1>11 DEF WireOf

LEMMA BreaksStep == ASSUME OrderInv, NEW i \in Chunks, Breaks(i) PROVE OrderInv'
<1>0. TypeInv /\ SortedOK /\ WireOK /\ NetOK /\ MergeOK /\ ChOK /\ ConnOK
  BY DEF OrderInv, TypeInv
<1>1. /\ UNCHANGED <<job, ch, reader, sorted, head, main, disk, short>>
      /\ conn[i].state \in {"open", "closed"}
  BY DEF Breaks
<1> DEFINE w == conn[i].wire
<1>2. PICK n \in 0..Len(w) : conn' = [conn EXCEPT ![i] = [state |-> "broken", wire |-> SubSeq(w, 1, n)]]
  BY DEF Breaks
<1>3. job.net
  BY <1>0, <1>1 DEF WireOK
<1>4. /\ \A j \in Chunks \ {i} : conn'[j] = conn[j]
      /\ conn'[i].wire = SubSeq(w, 1, n) /\ conn'[i].state = "broken"
      /\ ConnOK'
  <2> DEFINE y == SubSeq(w, 1, n)
  <2>1. w \in Seq(Byte)
    BY <1>0 DEF ConnOK
  <2>2. y \in Seq(Byte)
    BY <2>1
  <2> HIDE DEF y
  <2>3. conn' = [conn EXCEPT ![i] = [state |-> "broken", wire |-> y]]
    BY <1>2 DEF y
  <2>4. /\ \A j \in Chunks \ {i} : conn'[j] = conn[j]
        /\ conn'[i].wire = y /\ conn'[i].state = "broken"
        /\ ConnOK'
    BY <1>0, <1>1, <2>2, <2>3, JobStays DEF ConnOK
  <2> QED
    BY <2>4 DEF y
<1>5. /\ ChOK' /\ \A c \in Channels \ {Shown} : Grows(c)
  BY <1>0, <1>1, SameParts, OtherGrows
<1>6. TypeInv'
  BY <1>0, <1>1, <1>4, <1>5, SameParts, JobStays DEF TypeInv, HeadType
<1>7. WireOK'
  <2> SUFFICES ASSUME ~short, NEW j \in Chunks PROVE WireOf(j)'
    BY <1>1, <1>3, JobStays DEF WireOK
  <2>1. CASE j = i
    BY <1>1, <1>3, <1>4, <2>1, WireBroken
  <2>2. CASE j # i
    <3>1. WireOf(j)
      BY <1>0, <1>3 DEF WireOK
    <3> QED
      BY <1>1, <1>4, <2>2, <3>1, WireStays
  <2> QED
    BY <2>1, <2>2
<1>8. SortedOK' /\ NetOK' /\ MergeOK'
  BY <1>0, <1>1, <1>5, ChannelsOf, SortedKept, NetKept, MergeKept
<1> QED
  BY <1>6, <1>7, <1>8 DEF OrderInv

LEMMA SinkingStep == ASSUME OrderInv, NEW i \in Chunks, Sinking(i) PROVE OrderInv'
<1>1. CASE Dial(i)
  BY <1>1, QuietConn DEF Dial
<1>2. CASE SinkValue(i)
  BY <1>2, SinkValueStep
<1>3. CASE EndSink(i)
  <2>1. job.net
    BY <1>3 DEF OrderInv, WireOK, EndSink
  <2> QED
    BY <1>3, <2>1, QuietConn DEF EndSink
<1>4. CASE DropValue(i)
  BY <1>4, DropValueStep
<1> QED
  BY <1>1, <1>2, <1>3, <1>4 DEF Sinking

-----------------------------------------------------------------------------
(* The relay, and the ends of the stages.                                  *)

LEMMA RelayStep == ASSUME OrderInv, NEW i \in Chunks, Relay(i) PROVE OrderInv'
<1>0. TypeInv /\ SortedOK /\ WireOK /\ NetOK /\ MergeOK /\ ChOK
  BY DEF OrderInv, TypeInv
<1>1. /\ UNCHANGED <<job, reader, sorted, conn, head, main, disk, short>>
      /\ HasNext(Recv(i)) /\ Pass(Recv(i), Net(i))
  BY DEF Relay
<1>2. Recv(i) \in Channels \ {Shown} /\ Net(i) \in Channels \ {Shown, Recv(i)}
  BY ChannelsOf, Distinct
<1>3. /\ ChOK'
      /\ ch'[Recv(i)].sent = ch[Recv(i)].sent /\ ch'[Recv(i)].got = ch[Recv(i)].got + 1
      /\ NextOf(Recv(i)) \in Values
      /\ ch'[Net(i)].sent = Append(ch[Net(i)].sent, NextOf(Recv(i))) /\ ch'[Net(i)].got = ch[Net(i)].got
      /\ \A e \in Channels \ {Recv(i), Net(i)} : ch'[e] = ch[e]
  BY <1>0, <1>1, <1>2, PassEffect
<1>4. /\ \A j \in Chunks : /\ ch'[Sort(j)] = ch[Sort(j)] /\ ch'[Recv(j)].sent = ch[Recv(j)].sent
                           /\ j # i => ch'[Recv(j)] = ch[Recv(j)] /\ ch'[Net(j)] = ch[Net(j)]
      /\ \A p \in Spans(job.count) : ch'[Merge(p)].sent = ch[Merge(p)].sent
  BY <1>3, ChannelsOf, Distinct
<1>5. \A c \in Channels \ {Shown} : Grows(c)
  <2>1. ch[Recv(i)].got \in Nat
    BY <1>0, <1>2 DEF ChOK, Channel
  <2>2. Grows(Recv(i)) /\ Grows(Net(i))
    BY <1>0, <1>2, <1>3, <2>1, SameGrows, SendGrows
  <2> QED
    BY <1>0, <1>3, <2>2, OtherGrows
<1>6. TypeInv'
  BY <1>0, <1>1, <1>3, SameParts, JobStays DEF TypeInv, HeadType
<1>7. NetOK'
  <2> SUFFICES ASSUME NEW j \in Chunks
               PROVE  /\ Len(ch'[Net(j)].sent) = ch'[Recv(j)].got
                      /\ \A k \in 1..Len(ch'[Net(j)].sent) : ch'[Net(j)].sent[k] = ch'[Recv(j)].sent[k]
    BY <1>1, JobStays DEF NetOK
  <2>1. /\ Len(ch[Net(j)].sent) = ch[Recv(j)].got
        /\ \A k \in 1..Len(ch[Net(j)].sent) : ch[Net(j)].sent[k] = ch[Recv(j)].sent[k]
    BY <1>0 DEF NetOK
  <2>2. CASE j = i
    <3> DEFINE n == ch[Net(i)].sent  r == ch[Recv(i)].sent  g == ch[Recv(i)].got  t == Append(n, r[g + 1])
    <3>1. n \in Seq(Values) /\ g \in Nat /\ r[g + 1] \in Values /\ ch'[Net(j)].sent = t
          /\ ch'[Recv(j)].sent = r /\ ch'[Recv(j)].got = g + 1 /\ Len(n) = g
          /\ \A k \in 1..g : n[k] = r[k]
      BY <1>0, <1>2, <1>3, <2>1, <2>2 DEF ChOK, Channel, NextOf
    <3> HIDE DEF n, r, g
    <3>2. Len(t) = g + 1 /\ \A k \in 1..g + 1 : t[k] = r[k]
      BY <3>1
    <3> HIDE DEF t
    <3> QED
      BY <3>1, <3>2
  <2>3. CASE j # i
    BY <1>4, <2>1, <2>3
  <2> QED
    BY <2>2, <2>3
<1>8. SortedOK' /\ WireOK' /\ MergeOK'
  BY <1>0, <1>1, <1>4, <1>5, ChannelsOf, SortedKept, WireKept, SameConn, MergeKept
<1> QED
  BY <1>6, <1>7, <1>8 DEF OrderInv

LEMMA RelayingStep == ASSUME OrderInv, NEW i \in Chunks, Relaying(i) PROVE OrderInv'
<1>1. CASE Relay(i)
  BY <1>1, RelayStep
<1>2. CASE EndRelay(i)
  BY <1>2, ChannelsOf, QuietClose DEF EndRelay
<1> QED
  BY <1>1, <1>2 DEF Relaying

LEMMA SortingStep == ASSUME OrderInv, NEW i \in Chunks, Sorting(i) PROVE OrderInv'
<1>1. CASE Collect(i)
  BY <1>1, ChannelsOf, Distinct, QuietTake DEF Collect
<1>2. CASE SortInts(i)
  BY <1>2, SortIntsStep
<1>3. CASE SendSorted(i)
  BY <1>3, SendSortedStep
<1>4. CASE EndSort(i)
  BY <1>4, ChannelsOf, QuietClose DEF EndSort
<1> QED
  BY <1>1, <1>2, <1>3, <1>4 DEF Sorting

LEMMA ReadingStep == ASSUME OrderInv, NEW c \in Readers, Reading(c) PROVE OrderInv'
<1>0. DOMAIN reader = Readers /\ Readers \subseteq Channels
  BY ChannelsOf DEF OrderInv, TypeInv, ReaderOK
<1>1. CASE ReadValue(c) /\ c # Shown
  BY <1>1, ChannelsOf, ReadSource, ReadRecv
<1>2. CASE ReadValue(c) /\ c = Shown
  <2>1. c[1] # "recv"
    BY <1>2 DEF Shown
  <2>2. \E v : Send(Shown, v)
    BY <1>2 DEF ReadValue
  <2>3. DOMAIN reader' = Readers /\ \A d \in Readers \ {Shown} : reader'[d] = reader[d]
    BY <1>0, <1>2 DEF ReadValue
  <2>4. UNCHANGED <<job, conn, sorted, head, short>>
    BY <1>2, <2>1 DEF ReadValue
  <2> QED
    BY <2>2, <2>3, <2>4, QuietShown
<1>3. CASE EndSource(c) /\ c # Shown
  BY <1>0, <1>3, QuietClose DEF EndSource
<1>4. CASE EndSource(c) /\ c = Shown
  <2>1. Close(Shown) /\ UNCHANGED <<job, reader, conn, sorted, head, short>>
    BY <1>4 DEF EndSource
  <2> QED
    BY <1>0, <2>1, QuietShown
<1> QED
  BY <1>1, <1>2, <1>3, <1>4 DEF Reading

LEMMA ReadFailsStep == ASSUME OrderInv, NEW c \in Files, ReadFails(c) PROVE OrderInv'
<1>0. DOMAIN reader = Readers /\ Files \subseteq Channels
  BY ChannelsOf DEF OrderInv, TypeInv, ReaderOK, Files
<1>1. Close(c) /\ UNCHANGED <<job, reader, conn, sorted, head, short>>
  BY DEF ReadFails
<1>2. CASE c # Shown
  BY <1>0, <1>1, <1>2, QuietClose
<1>3. CASE c = Shown
  BY <1>0, <1>1, <1>3, QuietShown
<1> QED
  BY <1>2, <1>3

LEMMA WritingStep == ASSUME OrderInv, Writing \/ WriteFails PROVE OrderInv'
<1>0. DOMAIN reader = Readers /\ job \in Jobs
  BY DEF OrderInv, TypeInv, ReaderOK
<1>1. CASE WriteValue
  <2>1. Root \in Feeds
    BY <1>0, RootFeeds
  <2>2. Root \in Channels \ {Shown} /\ \A i \in Chunks : Root # Recv(i) /\ (job.net => Root # Sort(i))
    BY <2>1, ChannelsOf, Distinct DEF Feeds
  <2> QED
    BY <1>1, <2>2, QuietTake DEF WriteValue
<1>2. CASE EndWrite
  BY <1>0, <1>2, QuietShown DEF EndWrite
<1>3. CASE PrintValue
  BY <1>0, <1>3, QuietShown DEF PrintValue
<1>4. CASE EndPrint
  BY <1>0, <1>4, QuietShown DEF EndPrint
<1>5. CASE WriteFails
  BY <1>0, <1>5, QuietShown DEF WriteFails
<1> QED
  BY <1>1, <1>2, <1>3, <1>4, <1>5 DEF Writing

-----------------------------------------------------------------------------
(* Merge.                                                                  *)

\* The beginning of a sequence in order is in order.
LEMMA Beginning ==
    ASSUME NEW a \in Seq(Values), NEW b \in Seq(Values), Ascending(a), Len(b) <= Len(a),
           \A k \in 1..Len(b) : b[k] = a[k]
    PROVE  Ascending(b)
BY DEF Ascending

\* Whatever feeds a Merge is in order.
LEMMA FeedsAscending ==
    ASSUME OrderInv, ~short, NEW c \in Feeds
    PROVE  Ascending(ch[c].sent)
<1>0. ChOK /\ SortedOK /\ NetOK /\ WireOK /\ MergeOK
  BY DEF OrderInv, TypeInv
<1>1. ASSUME NEW i \in Chunks PROVE Ascending(ch[Sort(i)].sent)
  <2>1. ch[Sort(i)].sent \in Seq(Values)
    BY <1>0, ChannelsOf DEF ChOK, Channel
  <2> QED
    BY <1>0, <2>1, Beginning DEF SortedOK
<1>2. ASSUME NEW i \in Chunks, job.net PROVE Ascending(ch[Net(i)].sent)
  <2> DEFINE n == ch[Net(i)].sent  r == ch[Recv(i)].sent  s == ch[Sort(i)].sent
             g == ch[Sort(i)].got  h == ch[Recv(i)].got
  <2>1. n \in Seq(Values) /\ r \in Seq(Values) /\ s \in Seq(Values)
    BY <1>0, ChannelsOf DEF ChOK, Channel
  <2>2. g \in Nat /\ g <= Len(s) /\ h \in Nat /\ h <= Len(r)
    BY <1>0, ChannelsOf DEF ChOK, Channel
  <2>3. Len(n) = h /\ \A k \in 1..Len(n) : n[k] = r[k]
    BY <1>0 DEF NetOK
  <2>4. Len(r) <= g /\ \A k \in 1..Len(r) : r[k] = s[k]
    BY <1>0, <1>2 DEF WireOK, WireOf, OnWire
  <2>5. Ascending(s)
    BY <1>1
  <2> HIDE DEF n, r, s, g, h
  <2>6. Len(n) <= Len(s) /\ \A k \in 1..Len(n) : n[k] = s[k]
    BY <2>1, <2>2, <2>3, <2>4
  <2>7. Ascending(n)
    BY <2>1, <2>5, <2>6, Beginning
  <2> QED
    BY <2>7 DEF n
<1>3. \A p \in Spans(job.count) : Ascending(ch[Merge(p)].sent)
  BY <1>0 DEF MergeOK
<1> QED
  BY <1>1, <1>2, <1>3 DEF Feeds

LEMMA HeadEffect ==
    ASSUME TypeInv, NEW p \in Merges, NEW s \in {1, 2}, NEW x \in Heads,
           head' = [head EXCEPT ![p][s] = x], job' = job
    PROVE  /\ HeadType' /\ head'[p][s] = x
           /\ \A q \in Merges : \A u \in {1, 2} : (q # p \/ u # s) => head'[q][u] = head[q][u]
<1>1. HeadType
  BY DEF TypeInv
<1> HIDE DEF Heads
<1> QED
  BY <1>1, JobStays DEF HeadType

LEMMA HeadShape ==
    /\ \A v \in Values : Has(v).state = "has" /\ Has(v).v = v
    /\ End.state = "end" /\ None.state = "none" /\ End # None
    /\ End \in Heads /\ None \in Heads /\ \A v \in Values : Has(v) \in Heads
    /\ \A h \in Heads : /\ h = None \/ h = End \/ (h.v \in Values /\ h = Has(h.v) /\ h.state = "has")
                        /\ h.state = "none" => h = None
<1>1. \A v \in Values : Has(v).state = "has" /\ Has(v).v = v
  BY DEF Has
<1>2. End.state = "end" /\ None.state = "none"
  BY DEF End, None
<1>3. End # None
  BY <1>2
<1>4. End \in Heads /\ None \in Heads /\ \A v \in Values : Has(v) \in Heads
  BY DEF Heads
<1>5. ASSUME NEW h \in Heads
      PROVE  /\ h = None \/ h = End \/ (h.v \in Values /\ h = Has(h.v) /\ h.state = "has")
             /\ h.state = "none" => h = None
  <2>1. CASE h \in {None, End}
    BY <1>2, <2>1
  <2>2. CASE \E v \in Values : h = Has(v)
    BY <1>1, <2>2
  <2> QED
    BY <2>1, <2>2 DEF Heads
<1> QED
  BY <1>1, <1>2, <1>3, <1>4, <1>5

LEMMA ReceiveEnd ==
    ASSUME OrderInv, NEW p \in Merges, NEW s \in {1, 2}, head' = [head EXCEPT ![p][s] = End],
           UNCHANGED <<job, ch, reader, sorted, conn, short>>
    PROVE  OrderInv'
<1>0. TypeInv /\ SortedOK /\ WireOK /\ NetOK /\ MergeOK /\ ChOK
  BY DEF OrderInv, TypeInv
<1>1. /\ HeadType' /\ head'[p][s] = End
      /\ \A q \in Merges : \A u \in {1, 2} : (q # p \/ u # s) => head'[q][u] = head[q][u]
  <2>1. End \in Heads
    BY HeadShape
  <2> QED
    BY <1>0, <2>1, HeadEffect
<1>2. \A c \in Channels \ {Shown} : Grows(c)
  BY <1>0, OtherGrows
<1>3. TypeInv'
  BY <1>0, <1>1, SameParts, JobStays DEF TypeInv
<1>4. MergeOK'
  <2> SUFFICES ASSUME ~short
               PROVE  /\ \A q \in Spans(job.count) : Ascending(ch[Merge(q)].sent)
                      /\ \A q \in Merges : HeadOf(q, 1)' /\ HeadOf(q, 2)'
    BY JobStays DEF MergeOK
  <2>1. /\ \A q \in Spans(job.count) : Ascending(ch[Merge(q)].sent)
        /\ \A q \in Merges : \A u \in {1, 2} : HeadOf(q, u)
    BY <1>0 DEF MergeOK
  <2>2. ASSUME NEW q \in Merges, NEW u \in {1, 2} PROVE HeadOf(q, u)'
    <3>1. CASE q = p /\ u = s
      BY <1>1, <3>1, HeadShape DEF HeadOf
    <3>2. CASE q # p \/ u # s
      <4>1. Grows(Input(q, u))
        BY <1>0, <1>2, InputFeeds, ChannelsOf DEF TypeInv
      <4> QED
        BY <1>0, <1>1, <2>1, <3>2, <4>1, HeadKept
    <3> QED
      BY <3>1, <3>2
  <2> QED
    BY <2>1, <2>2
<1>5. SortedOK' /\ WireOK' /\ NetOK'
  BY <1>0, <1>2, ChannelsOf, SortedKept, WireKept, SameConn, NetKept
<1> QED
  BY <1>3, <1>4, <1>5 DEF OrderInv

LEMMA ReceiveValue ==
    ASSUME OrderInv, NEW p \in Merges, NEW s \in {1, 2}, head[p][s] = None, HasNext(Input(p, s)),
           head' = [head EXCEPT ![p][s] = Has(NextOf(Input(p, s)))], Take(Input(p, s)),
           UNCHANGED <<job, reader, sorted, conn, short>>
    PROVE  OrderInv'
<1>0. TypeInv /\ SortedOK /\ WireOK /\ NetOK /\ MergeOK /\ ChOK
  BY DEF OrderInv, TypeInv
<1> DEFINE c == Input(p, s)  v == NextOf(c)
<1>1. c \in Feeds /\ c \in Channels \ {Shown} /\ c' = c /\ p \in Spans(job.count)
  BY <1>0, InputFeeds, ChannelsOf, JobStays DEF TypeInv
<1>2. /\ ch[c].sent \in Seq(Values) /\ ch[c].got \in Nat /\ ch[c].got < Len(ch[c].sent)
      /\ v = ch[c].sent[ch[c].got + 1] /\ v \in Values
  BY <1>0, <1>1 DEF ChOK, Channel, HasNext, NextOf
<1>3. /\ ChOK' /\ ch'[c].sent = ch[c].sent /\ ch'[c].got = ch[c].got + 1
      /\ \A d \in Channels \ {c} : ch'[d] = ch[d]
  BY <1>0, <1>1, TakeEffect
<1>4. \A d \in Channels \ {Shown} : Grows(d) /\ ch'[d].sent = ch[d].sent
  <2>1. Grows(c)
    BY <1>0, <1>1, <1>2, <1>3, SameGrows
  <2> QED
    BY <1>0, <1>3, <2>1, OtherGrows
<1>5. /\ HeadType' /\ head'[p][s] = Has(v)
      /\ \A q \in Merges : \A u \in {1, 2} : (q # p \/ u # s) => head'[q][u] = head[q][u]
  <2>1. Has(v) \in Heads
    BY <1>2, HeadShape
  <2> QED
    BY <1>0, <2>1, HeadEffect
<1>6. TypeInv'
  BY <1>0, <1>3, <1>5, SameParts, JobStays DEF TypeInv
<1>7. ASSUME ~short PROVE HeadOf(p, s)'
  <2> DEFINE in == ch[c].sent  g == ch[c].got  out == ch[Merge(p)].sent
  <2>1. HeadOf(p, s)
    BY <1>0, <1>7 DEF MergeOK
  <2>2. out = <<>> \/ \E j \in 1..g : \A k \in 1..Len(out) : out[k] <= in[j]
    BY <2>1, HeadShape DEF HeadOf
  <2>3. Ascending(in)
    BY <1>1, <1>7, FeedsAscending
  <2>4. out \in Seq(Values) /\ Values \subseteq Int
    BY <1>0, <1>1, ChannelsOf, Constants DEF ChOK, Channel
  <2>5. ch'[Merge(p)].sent = out /\ ch'[c].sent = in /\ ch'[c].got = g + 1
    BY <1>1, <1>3, <1>4, ChannelsOf
  <2>6. in \in Seq(Values) /\ g \in Nat /\ g < Len(in) /\ v = in[g + 1] /\ v \in Values
    BY <1>2
  <2>7. /\ head'[p][s].state = "has" /\ head'[p][s].v = v
    BY <1>2, <1>5, HeadShape
  <2> HIDE DEF c, v, in, g, out
  <2>8. \A k \in 1..Len(out) : out[k] <= v
    <3>1. CASE out = <<>>
      <4>1. Len(out) = 0
        BY <3>1
      <4> QED
        BY <4>1
    <3>2. CASE \E j \in 1..g : \A k \in 1..Len(out) : out[k] <= in[j]
      <4>1. PICK j \in 1..g : \A k \in 1..Len(out) : out[k] <= in[j]
        BY <3>2
      <4>2. in[j] <= in[g + 1] /\ in[j] \in Values
        BY <2>3, <2>6 DEF Ascending
      <4>3. ASSUME NEW k \in 1..Len(out) PROVE out[k] <= v
        <5>1. out[k] \in Int /\ in[j] \in Int /\ v \in Int
          BY <2>4, <2>6, <4>2
        <5> QED
          BY <2>6, <4>1, <4>2, <5>1
      <4> QED
        BY <4>3
    <3> QED
      BY <2>2, <3>1, <3>2
  <2>9. \E j \in 1..g + 1 : v = in[j]
    BY <2>6
  <2>10. "has" # "none"
    OBVIOUS
  <2>11. Input(p, s) = c /\ Input(p, s)' = c
    BY <1>1 DEF c
  <2> QED
    BY <2>5, <2>7, <2>8, <2>9, <2>10, <2>11 DEF HeadOf
<1>8. MergeOK'
  <2> SUFFICES ASSUME ~short
               PROVE  /\ \A q \in Spans(job.count) : Ascending(ch'[Merge(q)].sent)
                      /\ \A q \in Merges : HeadOf(q, 1)' /\ HeadOf(q, 2)'
    BY JobStays DEF MergeOK
  <2>1. /\ \A q \in Spans(job.count) : Ascending(ch[Merge(q)].sent)
        /\ \A q \in Merges : \A u \in {1, 2} : HeadOf(q, u)
    BY <1>0 DEF MergeOK
  <2>2. ASSUME NEW q \in Merges, NEW u \in {1, 2} PROVE HeadOf(q, u)'
    <3>1. CASE q = p /\ u = s
      BY <1>7, <3>1
    <3>2. CASE q # p \/ u # s
      <4>1. Grows(Input(q, u)) /\ ch'[Merge(q)].sent = ch[Merge(q)].sent
        BY <1>0, <1>4, InputFeeds, ChannelsOf DEF TypeInv
      <4> QED
        BY <1>0, <1>5, <2>1, <3>2, <4>1, HeadKept
    <3> QED
      BY <3>1, <3>2
  <2> QED
    BY <1>4, <2>1, <2>2, ChannelsOf
<1>9. \A i \in Chunks : /\ ch'[Recv(i)] = ch[Recv(i)]
                        /\ job.net => ch'[Sort(i)] = ch[Sort(i)]
  <2>1. \A i \in Chunks : c # Recv(i) /\ (job.net => c # Sort(i))
    BY <1>1, Distinct DEF Feeds
  <2> QED
    BY <1>3, <2>1, ChannelsOf
<1>10. SortedOK' /\ WireOK' /\ NetOK'
  BY <1>0, <1>4, <1>9, ChannelsOf, SortedKept, WireKept, SameConn, NetKept
<1> QED
  BY <1>6, <1>8, <1>10 DEF OrderInv

LEMMA SmallerSent ==
    ASSUME HeadType, NEW p \in Merges, SendSmaller(p)
    PROVE  \E s, o \in {1, 2} :
              /\ s # o /\ Send(Merge(p), head[p][s].v) /\ head' = [head EXCEPT ![p][s] = None]
              /\ head[p][s].v \in Values /\ head[p][s].state = "has"
              /\ head[p][o] = End \/ (/\ head[p][o].v \in Values /\ head[p][o].state = "has"
                                      /\ head[p][s].v <= head[p][o].v)
<1> DEFINE h1 == head[p][1]  h2 == head[p][2]
<1>1. h1 \in Heads /\ h2 \in Heads /\ h1 # None /\ h2 # None /\ (h1 # End \/ h2 # End)
  BY DEF HeadType, SendSmaller
<1>2. /\ h1 # End => h1.v \in Values /\ h1.state = "has"
      /\ h2 # End => h2.v \in Values /\ h2.state = "has"
  BY <1>1, HeadShape
<1>3. CASE TakesFirst(h1, h2)
  <2>1. Send(Merge(p), h1.v) /\ head' = [head EXCEPT ![p][1] = None]
    BY <1>3 DEF SendSmaller
  <2>2. h1 # End /\ (h2 = End \/ h1.v <= h2.v)
    BY <1>1, <1>3 DEF TakesFirst
  <2> QED
    BY <1>2, <2>1, <2>2
<1>4. CASE ~TakesFirst(h1, h2)
  <2>1. Send(Merge(p), h2.v) /\ head' = [head EXCEPT ![p][2] = None]
    BY <1>4 DEF SendSmaller
  <2>2. h2 # End /\ (h1 = End \/ ~(h1.v <= h2.v))
    BY <1>1, <1>4 DEF TakesFirst
  <2>3. h1 = End \/ h2.v <= h1.v
    <3> SUFFICES ASSUME h1 # End PROVE h2.v <= h1.v
      OBVIOUS
    <3> DEFINE a == h1.v  b == h2.v
    <3>1. a \in Int /\ b \in Int
      BY <1>2, <2>2, Constants
    <3>2. ~(a <= b)
      BY <2>2
    <3> HIDE DEF a, b, h1, h2
    <3>3. b <= a
      BY <3>1, <3>2
    <3> QED
      BY <3>3 DEF a, b
  <2> QED
    BY <1>2, <2>1, <2>2, <2>3
<1> QED
  BY <1>3, <1>4

LEMMA SendSmallerStep == ASSUME OrderInv, NEW p \in Merges, SendSmaller(p) PROVE OrderInv'
<1>0. TypeInv /\ SortedOK /\ WireOK /\ NetOK /\ MergeOK /\ ChOK /\ HeadType
  BY DEF OrderInv, TypeInv
<1>1. PICK s \in {1, 2}, o \in {1, 2} :
        /\ s # o /\ Send(Merge(p), head[p][s].v) /\ head' = [head EXCEPT ![p][s] = None]
        /\ head[p][s].v \in Values /\ head[p][s].state = "has"
        /\ head[p][o] = End \/ (/\ head[p][o].v \in Values /\ head[p][o].state = "has"
                                /\ head[p][s].v <= head[p][o].v)
  BY <1>0, SmallerSent
<1> DEFINE v == head[p][s].v  out == ch[Merge(p)].sent
<1>2. UNCHANGED <<job, reader, sorted, conn, short>>
  BY DEF SendSmaller
<1>3. Merge(p) \in Channels \ {Shown} /\ p \in Spans(job.count)
  BY <1>0, InputFeeds, ChannelsOf DEF TypeInv
<1>4. /\ ChOK' /\ ch'[Merge(p)].sent = Append(out, v) /\ ch'[Merge(p)].got = ch[Merge(p)].got
      /\ \A d \in Channels \ {Merge(p)} : ch'[d] = ch[d]
  BY <1>0, <1>1, <1>2, <1>3, SendEffect
<1>5. \A d \in Channels \ {Shown} : Grows(d)
  BY <1>0, <1>1, <1>3, <1>4, OtherGrows, SendGrows
<1>6. /\ HeadType' /\ head'[p][s] = None
      /\ \A q \in Merges : \A u \in {1, 2} : (q # p \/ u # s) => head'[q][u] = head[q][u]
  <2>1. None \in Heads
    BY HeadShape
  <2> QED
    BY <1>0, <1>1, <1>2, <2>1, HeadEffect
<1>7. TypeInv'
  BY <1>0, <1>2, <1>4, <1>6, SameParts, JobStays DEF TypeInv
<1> DEFINE t == Append(out, v)
<1>8. ASSUME ~short
      PROVE  /\ Ascending(t) /\ \A k \in 1..Len(t) : t[k] <= v
  <2>1. HeadOf(p, s) /\ Ascending(out)
    BY <1>0, <1>3, <1>8 DEF MergeOK
  <2>2. \A k \in 1..Len(out) : out[k] <= v
    BY <1>1, <2>1 DEF HeadOf
  <2>3. out \in Seq(Values) /\ Values \subseteq Int /\ v \in Values
    BY <1>0, <1>1, <1>3, Constants DEF ChOK, Channel
  <2> HIDE DEF out, v
  <2>4. /\ t \in Seq(Values) /\ Len(t) = Len(out) + 1 /\ t[Len(out) + 1] = v /\ Len(out) \in Nat
        /\ \A k \in 1..Len(out) : t[k] = out[k] /\ out[k] \in Values
    BY <2>3
  <2> HIDE DEF t
  <2>5. ASSUME NEW k \in 1..Len(t) PROVE t[k] <= v
    <3>1. CASE k = Len(out) + 1
      BY <2>3, <2>4, <3>1
    <3>2. CASE k # Len(out) + 1
      BY <2>2, <2>4, <3>2
    <3> QED
      BY <3>1, <3>2
  <2>6. ASSUME NEW j \in 1..Len(t), NEW k \in 1..Len(t), j <= k PROVE t[j] <= t[k]
    <3>1. CASE k = Len(out) + 1
      BY <2>4, <2>5, <3>1
    <3>2. CASE k # Len(out) + 1
      BY <2>1, <2>4, <2>6, <3>2 DEF Ascending
    <3> QED
      BY <3>1, <3>2
  <2> QED
    BY <2>5, <2>6 DEF Ascending
<1>9. ASSUME ~short PROVE HeadOf(p, s)'
  <2> DEFINE c == Input(p, s)
  <2>1. c \in Channels \ {Shown} /\ c' = c
    BY <1>0, <1>2, InputFeeds, ChannelsOf, JobStays DEF TypeInv
  <2>2. PICK j \in 1..ch[c].got : v = ch[c].sent[j]
    BY <1>0, <1>1, <1>9 DEF MergeOK, HeadOf
  <2>3. j \in 1..ch'[c].got /\ ch'[c].sent[j] = v
    <3>1. ch[c].got \in Nat /\ Len(ch[c].sent) \in Nat /\ ch[c].got <= Len(ch[c].sent)
      BY <1>0, <2>1 DEF ChOK, Channel
    <3>2. Grows(c)
      BY <1>5, <2>1
    <3> HIDE DEF c, v
    <3> QED
      BY <2>2, <3>1, <3>2 DEF Grows
  <2>4. ch'[Merge(p)].sent = t /\ \A k \in 1..Len(t) : t[k] <= v
    BY <1>4, <1>8, <1>9
  <2>5. head'[p][s].state = "none"
    BY <1>6, HeadShape
  <2>6. Input(p, s) = c /\ Input(p, s)' = c
    BY <2>1
  <2> HIDE DEF c, v, t
  <2> QED
    BY <2>3, <2>4, <2>5, <2>6 DEF HeadOf
<1>10. ASSUME ~short PROVE HeadOf(p, o)'
  <2> DEFINE c == Input(p, o)  x == head[p][o]
  <2>1. c \in Channels \ {Shown} /\ c' = c
    BY <1>0, <1>2, InputFeeds, ChannelsOf, JobStays DEF TypeInv
  <2>2. head'[p][o] = x
    BY <1>1, <1>6
  <2>3. CASE x = End
    BY <2>2, <2>3, HeadShape DEF HeadOf
  <2>4. CASE x # End
    <3>1. x.v \in Values /\ x.state = "has" /\ v <= x.v /\ v \in Values
      BY <1>1, <2>4
    <3>2. PICK j \in 1..ch[c].got : x.v = ch[c].sent[j]
      BY <1>0, <1>10, <3>1 DEF MergeOK, HeadOf
    <3>3. j \in 1..ch'[c].got /\ ch'[c].sent[j] = x.v
      <4>1. ch[c].got \in Nat /\ Len(ch[c].sent) \in Nat /\ ch[c].got <= Len(ch[c].sent)
        BY <1>0, <2>1 DEF ChOK, Channel
      <4>2. Grows(c)
        BY <1>5, <2>1
      <4> HIDE DEF c, x
      <4> QED
        BY <3>2, <4>1, <4>2 DEF Grows
    <3>4. ch'[Merge(p)].sent = t /\ \A k \in 1..Len(t) : t[k] <= v
      BY <1>4, <1>8, <1>10
    <3>5. Input(p, o) = c /\ Input(p, o)' = c
      BY <2>1
    <3>6. t \in Seq(Values) /\ Values \subseteq Int
      BY <1>0, <1>3, <3>1, Constants DEF ChOK, Channel
    <3> HIDE DEF c, v, t, x
    <3>7. \A k \in 1..Len(t) : t[k] <= x.v
      <4> DEFINE y == x.v
      <4> HIDE DEF y
      <4>1. y \in Int /\ v \in Int /\ v <= y
        BY <3>1, <3>6 DEF y
      <4>2. ASSUME NEW k \in 1..Len(t) PROVE t[k] <= y
        <5>1. t[k] \in Int
          <6>1. t[k] \in Values
            BY <3>6
          <6> QED
            BY <3>6, <6>1
        <5>2. t[k] <= v
          BY <3>4
        <5> QED
          BY <4>1, <5>1, <5>2
      <4> QED
        BY <4>2 DEF y
    <3> QED
      BY <2>2, <3>1, <3>3, <3>4, <3>5, <3>7 DEF HeadOf
  <2> QED
    BY <2>3, <2>4
<1>11. MergeOK'
  <2> SUFFICES ASSUME ~short
               PROVE  /\ \A q \in Spans(job.count) : Ascending(ch'[Merge(q)].sent)
                      /\ \A q \in Merges : HeadOf(q, 1)' /\ HeadOf(q, 2)'
    BY <1>2, JobStays DEF MergeOK
  <2>1. /\ \A q \in Spans(job.count) : Ascending(ch[Merge(q)].sent)
        /\ \A q \in Merges : \A u \in {1, 2} : HeadOf(q, u)
    BY <1>0 DEF MergeOK
  <2>2. job.count \in Nat
    BY <1>0, Constants DEF TypeInv
  <2>3. \A q \in Spans(job.count) : q # p => ch'[Merge(q)] = ch[Merge(q)]
    BY <1>3, <1>4, <2>2, ChannelsOf, Distinct
  <2>4. ASSUME NEW q \in Merges, NEW u \in {1, 2} PROVE HeadOf(q, u)'
    <3>1. CASE q = p
      BY <1>1, <1>9, <1>10, <3>1
    <3>2. CASE q # p
      <4>1. Grows(Input(q, u)) /\ ch'[Merge(q)].sent = ch[Merge(q)].sent
        BY <1>0, <1>5, <2>3, <3>2, InputFeeds, ChannelsOf DEF TypeInv
      <4> QED
        BY <1>0, <1>2, <1>6, <2>1, <3>2, <4>1, HeadKept
    <3> QED
      BY <3>1, <3>2
  <2>5. Ascending(ch'[Merge(p)].sent)
    BY <1>4, <1>8
  <2> QED
    BY <2>1, <2>3, <2>4, <2>5
<1>12. /\ \A i \in Chunks : /\ ch'[Recv(i)] = ch[Recv(i)] /\ ch'[Net(i)] = ch[Net(i)]
                            /\ ch'[Sort(i)] = ch[Sort(i)]
  BY <1>4, ChannelsOf, Distinct
<1>13. SortedOK' /\ WireOK' /\ NetOK'
  BY <1>0, <1>2, <1>5, <1>12, ChannelsOf, SortedKept, WireKept, SameConn, NetKept
<1> QED
  BY <1>7, <1>11, <1>13 DEF OrderInv

LEMMA MergingStep == ASSUME OrderInv, NEW p \in Merges, Merging(p) PROVE OrderInv'
<1>1. CASE \E s \in {1, 2} : Receive(p, s)
  <2>1. PICK s \in {1, 2} : Receive(p, s)
    BY <1>1
  <2>2. CASE HasNext(Input(p, s)) /\ Take(Input(p, s))
             /\ head' = [head EXCEPT ![p][s] = Has(NextOf(Input(p, s)))]
    BY <2>1, <2>2, ReceiveValue DEF Receive
  <2>3. CASE head' = [head EXCEPT ![p][s] = End] /\ UNCHANGED ch
    BY <2>1, <2>3, ReceiveEnd DEF Receive
  <2> QED
    BY <2>1, <2>2, <2>3 DEF Receive
<1>2. CASE SendSmaller(p)
  BY <1>2, SendSmallerStep
<1>3. CASE EndMerge(p)
  <2>1. Merge(p) \in Channels \ {Shown}
    BY InputFeeds, ChannelsOf DEF OrderInv, TypeInv
  <2> QED
    BY <1>3, <2>1, QuietClose DEF EndMerge
<1> QED
  BY <1>1, <1>2, <1>3 DEF Merging

-----------------------------------------------------------------------------
(* The theorem.                                                            *)

LEMMA InitOrder == Init => OrderInv
<1> SUFFICES ASSUME Init PROVE OrderInv
  OBVIOUS
<1>1. /\ job \in Jobs /\ short = FALSE
      /\ DOMAIN ch = Channels /\ \A c \in Channels : ch[c] = Open
      /\ DOMAIN reader = Readers /\ DOMAIN sorted = Chunks
      /\ \A c \in Readers : reader[c] = [read |-> 0, buf |-> [k \in 1..Word |-> Zero]]
      /\ \A i \in Chunks : sorted[i] = [done |-> FALSE, a |-> <<>>]
      /\ conn = [i \in Chunks |-> [state |-> "listen", wire |-> <<>>]]
      /\ head = [p \in Merges |-> [s \in {1, 2} |-> None]]
  BY DEF Init
<1>2. Word \in Nat \ {0} /\ Zero \in Byte
  BY Constants
<1>3. Open \in Channel /\ Open.sent = <<>> /\ Open.got = 0 /\ Len(<<>>) = 0
  BY DEF Open, Channel
<1>4. ChOK
  BY <1>1, <1>3 DEF ChOK
<1>5. ReaderOK
  <2>1. [k \in 1..Word |-> Zero] \in Buffers
    BY <1>2 DEF Buffers
  <2> DEFINE b == [k \in 1..Word |-> Zero]
  <2>2. b \in Buffers /\ \A c \in Readers : reader[c] = [read |-> 0, buf |-> b]
    BY <1>1, <2>1
  <2> HIDE DEF b
  <2>3. [read |-> 0, buf |-> b] \in [read : Nat, buf : Buffers]
    BY <2>2
  <2> QED
    BY <1>1, <2>2, <2>3 DEF ReaderOK
<1>6. ConnOK /\ (\A i \in Chunks : conn[i] = [state |-> "listen", wire |-> <<>>])
  BY <1>1 DEF ConnOK
<1>7. HeadType /\ \A p \in Merges : \A s \in {1, 2} : head[p][s] = None
  <2>1. None \in Heads
    BY HeadShape
  <2> QED
    BY <1>1, <2>1 DEF HeadType
<1>8. /\ \A i \in Chunks : /\ ch[Sort(i)] = Open /\ ch[Recv(i)] = Open /\ ch[Net(i)] = Open
      /\ \A p \in Spans(job.count) : ch[Merge(p)] = Open
  BY <1>1, ChannelsOf
<1>9. SortedOK
  <2>1. <<>> \in Seq(Values) /\ Ascending(<<>>)
    BY <1>3 DEF Ascending
  <2>2. ASSUME NEW i \in Chunks
        PROVE  /\ sorted[i].done \in BOOLEAN /\ sorted[i].a \in Seq(Values) /\ Ascending(sorted[i].a)
               /\ ~sorted[i].done => ch[Sort(i)].sent = <<>>
               /\ Len(ch[Sort(i)].sent) <= Len(sorted[i].a)
               /\ \A k \in 1..Len(ch[Sort(i)].sent) : ch[Sort(i)].sent[k] = sorted[i].a[k]
    <3> DEFINE t == ch[Sort(i)].sent  x == sorted[i]
    <3>1. x = [done |-> FALSE, a |-> <<>>] /\ t = <<>>
      BY <1>1, <1>3, <1>8
    <3>2. x.done = FALSE /\ x.a = <<>>
      BY <3>1
    <3>3. x.done \in BOOLEAN
      BY <3>2
    <3> HIDE DEF t, x
    <3>4. Len(t) = 0 /\ Len(x.a) = 0 /\ x.a \in Seq(Values) /\ Ascending(x.a)
      BY <1>3, <2>1, <3>1, <3>2
    <3>5. Len(t) <= Len(x.a) /\ \A k \in 1..Len(t) : t[k] = x.a[k]
      BY <3>4
    <3> QED
      BY <3>1, <3>3, <3>4, <3>5 DEF t, x
  <2> QED
    BY <1>1, <2>2 DEF SortedOK
<1>10. WireOK
  <2>1. OnWire(<<>>, <<>>, 0, <<>>)
    <3>1. (0 - 0) * Word = 0
      BY <1>2
    <3> QED
      BY <1>2, <1>3, <3>1 DEF OnWire
  <2>2. \A i \in Chunks : WireOf(i)
    <3>1. (0 - 0) * Word = 0
      BY <1>2
    <3> QED
      BY <1>3, <1>6, <1>8, <2>1, <3>1 DEF WireOf
  <2> QED
    BY <1>6, <2>2 DEF WireOK
<1>11. NetOK
  BY <1>3, <1>8 DEF NetOK
<1>12. MergeOK
  <2>1. Ascending(<<>>)
    BY <1>3 DEF Ascending
  <2>2. \A p \in Merges : p \in Spans(job.count)
    BY <1>1, InputFeeds
  <2>3. \A p \in Merges : HeadOf(p, 1) /\ HeadOf(p, 2)
    BY <1>3, <1>7, <1>8, <2>2, HeadShape DEF HeadOf
  <2> QED
    BY <1>3, <1>8, <2>1, <2>3 DEF MergeOK
<1>13. short \in BOOLEAN
  BY <1>1
<1> QED
  BY <1>1, <1>4, <1>5, <1>6, <1>7, <1>9, <1>10, <1>11, <1>12, <1>13 DEF OrderInv, TypeInv

LEMMA StepOrder == OrderInv /\ [Next]_vars => OrderInv'
<1> SUFFICES ASSUME OrderInv, [Next]_vars PROVE OrderInv'
  OBVIOUS
<1>1. CASE \E c \in Readers : Reading(c)
  BY <1>1, ReadingStep
<1>2. CASE \E i \in Chunks : Sorting(i) \/ Sinking(i) \/ Relaying(i)
  BY <1>2, SortingStep, SinkingStep, RelayingStep
<1>3. CASE \E p \in Merges : Merging(p)
  BY <1>3, MergingStep
<1>4. CASE Writing \/ WriteFails
  BY <1>4, WritingStep
<1>5. CASE UNCHANGED vars
  <2>1. UNCHANGED <<job, ch, reader, conn, sorted, head, short>>
    BY <1>5 DEF vars
  <2> QED
    BY <2>1, SameParts, QuietStep
<1>6. CASE (\E c \in Files : ReadFails(c)) \/ (\E i \in Chunks : Breaks(i))
  BY <1>6, ReadFailsStep, BreaksStep
<1> QED
  BY <1>1, <1>2, <1>3, <1>4, <1>5, <1>6 DEF Next, Works, Fails

\* What writeToFile received is in order.
LEMMA OrderSorted == OrderInv => OutputSorted
<1> SUFFICES ASSUME OrderInv, ~short PROVE Ascending(Written)
  BY DEF OutputSorted
<1> DEFINE s == ch[Root].sent  g == ch[Root].got
<1>1. Root \in Feeds /\ Root \in Channels \ {Shown}
  BY RootFeeds, ChannelsOf DEF OrderInv, TypeInv
<1>2. s \in Seq(Values) /\ g \in Nat /\ g <= Len(s)
  BY <1>1 DEF OrderInv, TypeInv, ChOK, Channel
<1>3. Ascending(s)
  BY <1>1, FeedsAscending
<1>4. Written = SubSeq(s, 1, g)
  BY DEF Written
<1> HIDE DEF s, g
<1>5. \A k \in 1..g : s[k] \in Values
  BY <1>2
<1> DEFINE t == SubSeq(s, 1, g)
<1>6. /\ t \in Seq(Values) /\ Len(t) = (IF 1 <= g THEN g - 1 + 1 ELSE 0)
      /\ \A k \in 1..g - 1 + 1 : t[k] = s[1 + k - 1]
  BY <1>2, <1>5, SubSeqProperties
<1> HIDE DEF t
<1>7. Len(t) <= Len(s) /\ \A k \in 1..Len(t) : t[k] = s[k]
  BY <1>2, <1>6
<1> QED
  BY <1>2, <1>3, <1>4, <1>6, <1>7, Beginning DEF t

\* The values that reach writeToFile come in ascending order, for every file,
\* every number of chunks, both versions of the pipeline and any capacity of
\* the channels, unless a Read from a connection was short.
THEOREM Sorted == Spec => []OutputSorted
<1>1. Init => OrderInv
  BY InitOrder
<1>2. OrderInv /\ [Next]_vars => OrderInv'
  BY StepOrder
<1>3. OrderInv => OutputSorted
  BY OrderSorted
<1> QED
  BY <1>1, <1>2, <1>3, PTL DEF Spec

-----------------------------------------------------------------------------
(* Numbers, sequences defined step by step, and counting.                  *)

LEMMA Least ==
    ASSUME NEW T, T \subseteq Nat, T # {}
    PROVE  \E n \in T : \A m \in T : n <= m
<1> DEFINE R == {p \in Nat \X Nat : p[1] < p[2]}
<1>1. R = OpToRel(<, Nat)
  BY DEF OpToRel
<1>2. IsWellFoundedOn(R, Nat)
  BY NatLessThanWellFounded, <1>1
<1>3. \A m, n \in Nat : m < n => <<m, n>> \in R
  OBVIOUS
<1> HIDE DEF R
<1>4. PICK n \in T : \A m \in T : ~(<<m, n>> \in R)
  BY <1>2, WFMin
<1>5. ASSUME NEW m \in T PROVE n <= m
  <2>1. m \in Nat /\ n \in Nat
    OBVIOUS
  <2>2. ~(m < n)
    BY <1>3, <1>4, <2>1
  <2> QED
    BY <2>1, <2>2
<1> QED
  BY <1>5

\* f starts with a, and step i takes it on by G[i].
Follows(f, n, a, G) == f[0] = a /\ \A i \in 1..n : f[i] = G[i][f[i - 1]]

LEMMA Descent ==
    ASSUME NEW T, T \subseteq Nat, \A i \in T : i - 1 \in T
    PROVE  T = {}
<1> SUFFICES ASSUME T # {} PROVE FALSE
  OBVIOUS
<1>1. PICK i \in T : \A k \in T : i <= k
  BY Least
<1>2. i - 1 \in T /\ i \in Nat
  OBVIOUS
<1> QED
  BY <1>1, <1>2

LEMMA StepsExist ==
    ASSUME NEW S, NEW n \in Nat, NEW a \in S, NEW G \in [1..n -> [S -> S]]
    PROVE  \E f \in [0..n -> S] : Follows(f, n, a, G)
<1> DEFINE Runs(m, f) == f[0] = a /\ \A i \in 1..m : f[i] = G[i][f[i - 1]]
           T == {m \in 0..n : ~ \E f \in [0..m -> S] : Runs(m, f)}
<1>1. 0 \notin T
  <2>1. [i \in 0..0 |-> a] \in [0..0 -> S] /\ Runs(0, [i \in 0..0 |-> a])
    OBVIOUS
  <2> QED
    BY <2>1
<1>2. ASSUME NEW m \in T, m # 0, m - 1 \notin T PROVE FALSE
  <2>1. m \in 1..n /\ m - 1 \in 0..n
    BY <1>2
  <2>2. PICK f \in [0..(m - 1) -> S] : Runs(m - 1, f)
    BY <1>2, <2>1
  <2> DEFINE g == [i \in 0..m |-> IF i = m THEN G[m][f[m - 1]] ELSE f[i]]
  <2>3. m - 1 \in 0..(m - 1) /\ f[m - 1] \in S
    BY <2>1
  <2>4. G[m][f[m - 1]] \in S
    BY <2>1, <2>3
  <2>5. g \in [0..m -> S]
    BY <2>1, <2>4
  <2>6. ASSUME NEW i \in 1..m PROVE g[i] = G[i][g[i - 1]]
    <3>1. i - 1 \in 0..m /\ i - 1 # m /\ i \in 0..m
      BY <2>1
    <3>2. CASE i = m
      BY <3>1, <3>2
    <3>3. CASE i # m
      <4>1. i \in 1..(m - 1)
        BY <2>1, <3>3
      <4>2. f[i] = G[i][f[i - 1]]
        BY <2>2, <4>1
      <4> QED
        BY <3>1, <3>3, <4>2
    <3> QED
      BY <3>2, <3>3
  <2>7. g[0] = a
    BY <2>1, <2>2
  <2>8. Runs(m, g)
    BY <2>6, <2>7
  <2> HIDE DEF g
  <2> QED
    BY <2>5, <2>8
<1> HIDE DEF Runs
<1>3. T = {}
  <2>1. T \subseteq Nat
    OBVIOUS
  <2> HIDE DEF T
  <2>2. \A m \in T : m - 1 \in T
    BY <1>1, <1>2
  <2> QED
    BY <2>1, <2>2, Descent
<1>4. n \notin T /\ n \in 0..n
  BY <1>3
<1> QED
  BY <1>4 DEF Runs, Follows

-----------------------------------------------------------------------------
(* Counting.                                                               *)

\* How many of the first n values of s are in V.
Num(s, n, V) == Cardinality({k \in 1..n : s[k] \in V})

LEMMA NumType == ASSUME NEW s, NEW n \in Nat, NEW V
                 PROVE  Num(s, n, V) \in Nat /\ IsFiniteSet({k \in 1..n : s[k] \in V})
<1>1. IsFiniteSet(1..n)
  BY FS_Interval
<1>2. IsFiniteSet({k \in 1..n : s[k] \in V})
  BY <1>1, FS_Subset
<1> QED
  BY <1>2, FS_CardinalityType DEF Num

LEMMA NumZero == ASSUME NEW s, NEW V PROVE Num(s, 0, V) = 0
<1>1. {k \in 1..0 : s[k] \in V} = {}
  OBVIOUS
<1> QED
  BY <1>1, FS_EmptySet DEF Num

LEMMA NumNext == ASSUME NEW s, NEW n \in Nat, NEW V
                 PROVE  Num(s, n + 1, V) = Num(s, n, V) + (IF s[n + 1] \in V THEN 1 ELSE 0)
<1> DEFINE A == {k \in 1..n : s[k] \in V}  B == {k \in 1..n + 1 : s[k] \in V}
<1>1. IsFiniteSet(A) /\ Cardinality(A) \in Nat
  BY NumType DEF Num
<1>2. CASE s[n + 1] \in V
  <2>1. B = A \cup {n + 1} /\ n + 1 \notin A
    BY <1>2
  <2> HIDE DEF A, B
  <2>2. Cardinality(B) = Cardinality(A) + 1
    BY <1>1, <2>1, FS_AddElement
  <2> QED
    BY <1>2, <2>2 DEF A, B, Num
<1>3. CASE s[n + 1] \notin V
  <2>1. B = A
    BY <1>3
  <2> HIDE DEF A, B
  <2>2. Cardinality(B) = Cardinality(A) + 0
    BY <1>1, <2>1
  <2> QED
    BY <1>3, <2>2 DEF A, B, Num
<1> QED
  BY <1>2, <1>3

LEMMA NumSame == ASSUME NEW s, NEW t, NEW n \in Nat, NEW V, \A k \in 1..n : s[k] = t[k]
                 PROVE  Num(s, n, V) = Num(t, n, V)
<1>1. {k \in 1..n : s[k] \in V} = {k \in 1..n : t[k] \in V}
  OBVIOUS
<1> QED
  BY <1>1 DEF Num

LEMMA NumAll == ASSUME NEW s, NEW n \in Nat, NEW V, \A k \in 1..n : s[k] \in V
                PROVE  Num(s, n, V) = n
<1>1. {k \in 1..n : s[k] \in V} = 1..n
  OBVIOUS
<1>2. Cardinality(1..n) = n
  BY FS_Interval
<1> QED
  BY <1>1, <1>2 DEF Num

\* What follows a beginning is counted on its own.
LEMMA NumSplit ==
    ASSUME NEW s, NEW t, NEW a \in Nat, NEW n \in Nat, NEW V, \A k \in 1..n : s[a + k] = t[k]
    PROVE  Num(s, a + n, V) = Num(s, a, V) + Num(t, n, V)
<1> DEFINE T == {m \in 0..n : Num(s, a + m, V) # Num(s, a, V) + Num(t, m, V)}
<1>1. 0 \notin T
  <2>1. Num(s, a, V) \in Nat
    BY NumType
  <2>2. Num(t, 0, V) = 0
    BY NumZero
  <2>3. a + 0 = a
    OBVIOUS
  <2>4. Num(s, a + 0, V) = Num(s, a, V) + Num(t, 0, V)
    BY <2>1, <2>2, <2>3
  <2> QED
    BY <2>4
<1>2. ASSUME NEW m \in T PROVE m - 1 \in T
  <2>1. m \in 1..n /\ m - 1 \in 0..n
    BY <1>1
  <2>2. Num(s, a + (m - 1) + 1, V) = Num(s, a + (m - 1), V) + (IF s[a + (m - 1) + 1] \in V THEN 1 ELSE 0)
    <3>1. a + (m - 1) \in Nat
      BY <2>1
    <3> QED
      BY <3>1, NumNext
  <2>3. Num(t, (m - 1) + 1, V) = Num(t, m - 1, V) + (IF t[(m - 1) + 1] \in V THEN 1 ELSE 0)
    <3>1. m - 1 \in Nat
      BY <2>1
    <3> QED
      BY <3>1, NumNext
  <2>4. a + (m - 1) + 1 = a + m /\ (m - 1) + 1 = m /\ s[a + m] = t[m]
    BY <2>1
  <2>5. Num(s, a, V) \in Nat /\ Num(t, m - 1, V) \in Nat /\ Num(s, a + (m - 1), V) \in Nat
    <3>1. a \in Nat /\ m - 1 \in Nat /\ a + (m - 1) \in Nat
      BY <2>1
    <3> QED
      BY <3>1, NumType
  <2>6. Num(s, a + (m - 1), V) # Num(s, a, V) + Num(t, m - 1, V)
    <3> SUFFICES ASSUME Num(s, a + (m - 1), V) = Num(s, a, V) + Num(t, m - 1, V) PROVE FALSE
      OBVIOUS
    <3> DEFINE e == IF t[m] \in V THEN 1 ELSE 0
    <3>1. Num(s, a + m, V) = Num(s, a + (m - 1), V) + e /\ Num(t, m, V) = Num(t, m - 1, V) + e /\ e \in Nat
      BY <2>2, <2>3, <2>4
    <3>2. Num(s, a + m, V) # Num(s, a, V) + Num(t, m, V)
      OBVIOUS
    <3> HIDE DEF e
    <3> QED
      BY <2>5, <3>1, <3>2
  <2> QED
    BY <2>1, <2>6
<1>3. T = {}
  <2>1. T \subseteq Nat
    OBVIOUS
  <2> HIDE DEF T
  <2> QED
    BY <1>2, <2>1, Descent
<1>4. n \in 0..n
  OBVIOUS
<1> QED
  BY <1>3, <1>4

-----------------------------------------------------------------------------
(* The file writeToFile writes.                                            *)

LEMMA FlattenIs ==
    ASSUME NEW e, Len(e) # 0, NEW h, h = [i \in 1..Len(e) |-> IF i = 1 THEN e[i] ELSE h[i - 1] \o e[i]]
    PROVE  \E f : /\ f = [i \in 1..Len(e) |-> IF i = 1 THEN e[i] ELSE f[i - 1] \o e[i]]
                  /\ FlattenSeq(e) = f[Len(e)]
<1> DEFINE g == CHOOSE f : f = [i \in 1..Len(e) |-> IF i = 1 THEN e[i] ELSE f[i - 1] \o e[i]]
<1>1. g = [i \in 1..Len(e) |-> IF i = 1 THEN e[i] ELSE g[i - 1] \o e[i]]
  OBVIOUS
<1>2. FlattenSeq(e) = g[Len(e)]
  BY DEF FlattenSeq
<1> QED
  BY <1>1, <1>2

-----------------------------------------------------------------------------
(* MergeN.                                                                 *)

\* What the recursion of MergeN computes.
IsTree(f, n) == f = [p \in Spans(n) |->
    IF p[2] - p[1] = 1 THEN {}
    ELSE {p} \cup f[<<p[1], Mid(p[1], p[2])>>] \cup f[<<Mid(p[1], p[2]), p[2]>>]]

LEMMA TreeIs ==
    ASSUME NEW n \in Nat, NEW h, IsTree(h, n)
    PROVE  \E f : IsTree(f, n) /\ MergeN(n) = f[<<0, n>>]
<1> DEFINE g == CHOOSE f : IsTree(f, n)
<1>1. IsTree(g, n)
  OBVIOUS
<1>2. MergeN(n) = g[<<0, n>>]
  BY DEF MergeN, IsTree
<1> QED
  BY <1>1, <1>2

\* The halves of a span.
Half(p, s) == IF s = 1 THEN <<p[1], Mid(p[1], p[2])>> ELSE <<Mid(p[1], p[2]), p[2]>>

LEMMA Halves ==
    ASSUME NEW n \in Nat, NEW p \in Spans(n)
    PROVE  /\ p = <<p[1], p[2]>> /\ p[1] \in Nat /\ p[2] \in Nat /\ p[1] < p[2] /\ p[2] <= n
           /\ p[2] - p[1] # 1 =>
                /\ Half(p, 1) \in Spans(n) /\ Half(p, 2) \in Spans(n)
                /\ p[1] < Mid(p[1], p[2]) /\ Mid(p[1], p[2]) < p[2] /\ Mid(p[1], p[2]) \in Nat
                /\ Half(p, 1)[1] = p[1] /\ Half(p, 1)[2] = Mid(p[1], p[2])
                /\ Half(p, 2)[1] = Mid(p[1], p[2]) /\ Half(p, 2)[2] = p[2]
<1>1. p = <<p[1], p[2]>> /\ p[1] \in Nat /\ p[2] \in Nat /\ p[1] < p[2] /\ p[2] <= n
  BY DEF Spans
<1>2. ASSUME p[2] - p[1] # 1
      PROVE  p[1] < Mid(p[1], p[2]) /\ Mid(p[1], p[2]) < p[2] /\ Mid(p[1], p[2]) \in Nat
  BY <1>1, <1>2 DEF Mid
<1>3. ASSUME p[2] - p[1] # 1 PROVE Half(p, 1) \in Spans(n) /\ Half(p, 2) \in Spans(n)
  BY <1>1, <1>2, <1>3 DEF Half, Spans
<1>4. /\ Half(p, 1)[1] = p[1] /\ Half(p, 1)[2] = Mid(p[1], p[2])
      /\ Half(p, 2)[1] = Mid(p[1], p[2]) /\ Half(p, 2)[2] = p[2]
  BY DEF Half
<1> QED
  BY <1>1, <1>2, <1>3, <1>4

\* A claim that holds of a span whenever it holds of its halves holds of all.
LEMMA ByHalves ==
    ASSUME NEW n \in Nat, NEW B, B \subseteq Spans(n),
           \A p \in B : p[2] - p[1] # 1 /\ (Half(p, 1) \in B \/ Half(p, 2) \in B)
    PROVE  B = {}
<1> SUFFICES ASSUME B # {} PROVE FALSE
  OBVIOUS
<1> DEFINE T == {p[2] - p[1] : p \in B}
<1>1. T \subseteq Nat
  BY Halves
<1>2. T # {}
  OBVIOUS
<1>3. PICK m \in T : \A k \in T : m <= k
  <2> HIDE DEF T
  <2> QED
    BY <1>1, <1>2, Least
<1>4. PICK p \in B : m = p[2] - p[1]
  OBVIOUS
<1>5. PICK q \in B : q = Half(p, 1) \/ q = Half(p, 2)
  OBVIOUS
<1>6. q[2] - q[1] \in T
  OBVIOUS
<1>7. q[2] - q[1] < p[2] - p[1]
  <2>1. p \in Spans(n) /\ p[2] - p[1] # 1
    OBVIOUS
  <2>2. /\ p[1] \in Nat /\ p[2] \in Nat /\ p[1] < p[2]
        /\ p[1] < Mid(p[1], p[2]) /\ Mid(p[1], p[2]) < p[2] /\ Mid(p[1], p[2]) \in Nat
        /\ Half(p, 1)[1] = p[1] /\ Half(p, 1)[2] = Mid(p[1], p[2])
        /\ Half(p, 2)[1] = Mid(p[1], p[2]) /\ Half(p, 2)[2] = p[2]
    BY <2>1, Halves
  <2> QED
    BY <1>5, <2>2
<1>8. m <= q[2] - q[1] /\ m \in Nat /\ q[2] - q[1] \in Nat
  BY <1>1, <1>3, <1>6
<1> QED
  BY <1>4, <1>7, <1>8

LEMMA TreeExists == ASSUME NEW n \in Nat \ {0} PROVE \E h : IsTree(h, n)
<1> DEFINE S == [Spans(n) -> SUBSET Spans(n)]
           Whole(f) == [p \in Spans(n) |-> IF p[2] - p[1] = 1 THEN {} ELSE {p} \cup f[Half(p, 1)] \cup f[Half(p, 2)]]
           G == [i \in 1..n |-> [f \in S |-> Whole(f)]]
           a == [p \in Spans(n) |-> {}]
<1>1. ASSUME NEW f \in S PROVE Whole(f) \in S
  <2>1. ASSUME NEW p \in Spans(n)
        PROVE  (IF p[2] - p[1] = 1 THEN {} ELSE {p} \cup f[Half(p, 1)] \cup f[Half(p, 2)]) \in SUBSET Spans(n)
    BY Halves
  <2> QED
    BY <2>1
<1>2. a \in S /\ G \in [1..n -> [S -> S]]
  BY <1>1
<1>3. \A i \in 1..n : \A f \in S : G[i][f] = Whole(f)
  OBVIOUS
<1> HIDE DEF S, G, a
<1>4. PICK F \in [0..n -> S] : Follows(F, n, a, G)
  BY <1>2, StepsExist
<1>5. \A i \in 1..n : F[i] = Whole(F[i - 1]) /\ F[i - 1] \in S /\ F[i] \in S
  <2>1. \A i \in 1..n : i - 1 \in 0..n /\ i \in 0..n
    OBVIOUS
  <2> QED
    BY <1>3, <1>4, <2>1 DEF Follows
<1> DEFINE B == {p \in Spans(n) : \E i \in (p[2] - p[1])..(n - 1) : F[i + 1][p] # F[i][p]}
<1>6. ASSUME NEW p \in B PROVE p[2] - p[1] # 1 /\ (Half(p, 1) \in B \/ Half(p, 2) \in B)
  <2>1. PICK i \in (p[2] - p[1])..(n - 1) : F[i + 1][p] # F[i][p]
    OBVIOUS
  <2>2. p \in Spans(n) /\ p[1] \in Nat /\ p[2] \in Nat /\ p[1] < p[2]
    BY Halves
  <2>3. i \in 1..n /\ i + 1 \in 1..n /\ (i + 1) - 1 = i
    BY <2>2
  <2>4. F[i + 1] = Whole(F[i]) /\ F[i] = Whole(F[i - 1])
    BY <1>5, <2>3
  <2>5. Whole(F[i])[p] # Whole(F[i - 1])[p]
    BY <2>1, <2>4
  <2>6. p[2] - p[1] # 1 /\ \E s \in {1, 2} : F[i][Half(p, s)] # F[i - 1][Half(p, s)]
    BY <2>2, <2>5
  <2>7. PICK s \in {1, 2} : F[i][Half(p, s)] # F[i - 1][Half(p, s)]
    BY <2>6
  <2> DEFINE q == Half(p, s)
  <2>8. q \in Spans(n) /\ q[2] - q[1] \in Nat /\ q[2] - q[1] < p[2] - p[1]
    BY <2>2, <2>6, Halves
  <2>9. i - 1 \in (q[2] - q[1])..(n - 1) /\ (i - 1) + 1 = i
    <3> HIDE DEF q
    <3> QED
      BY <2>2, <2>3, <2>8
  <2>10. q \in B
    BY <2>7, <2>8, <2>9
  <2> QED
    BY <2>6, <2>10
<1>7. B = {}
  <2>1. B \subseteq Spans(n)
    OBVIOUS
  <2> HIDE DEF B
  <2> QED
    BY <1>6, <2>1, ByHalves
<1>8. F[n] = Whole(F[n])
  <2>1. n \in 1..n
    OBVIOUS
  <2>2. F[n] = Whole(F[n - 1])
    BY <1>5, <2>1
  <2>3. ASSUME NEW p \in Spans(n), p[2] - p[1] # 1, NEW s \in {1, 2} PROVE F[n][Half(p, s)] = F[n - 1][Half(p, s)]
    <3> DEFINE q == Half(p, s)
    <3>1. q \in Spans(n) /\ q[2] - q[1] \in Nat /\ q[2] - q[1] <= n - 1
      BY <2>3, Halves
    <3>2. n - 1 \in (q[2] - q[1])..(n - 1) /\ (n - 1) + 1 = n
      <4> HIDE DEF q
      <4> QED
        BY <3>1
    <3> QED
      BY <1>7, <3>1, <3>2
  <2>4. Whole(F[n - 1]) = Whole(F[n])
    BY <2>3
  <2> QED
    BY <2>2, <2>4
<1>9. \A p : Half(p, 1) = <<p[1], Mid(p[1], p[2])>> /\ Half(p, 2) = <<Mid(p[1], p[2]), p[2]>>
  BY DEF Half
<1> DEFINE h == F[n]
<1>10. h = Whole(h)
  BY <1>8
<1> HIDE DEF h
<1>11. \A p \in Spans(n) : h[p] = IF p[2] - p[1] = 1 THEN {}
          ELSE {p} \cup h[<<p[1], Mid(p[1], p[2])>>] \cup h[<<Mid(p[1], p[2]), p[2]>>]
  <2>1. \A p \in Spans(n) : Whole(h)[p] = IF p[2] - p[1] = 1 THEN {} ELSE {p} \cup h[Half(p, 1)] \cup h[Half(p, 2)]
    OBVIOUS
  <2> HIDE DEF Whole
  <2> QED
    BY <1>9, <1>10, <2>1
<1>12. h = [p \in Spans(n) |-> h[p]]
  BY <1>10
<1> HIDE DEF Whole
<1>13. IsTree(h, n)
  BY <1>11, <1>12 DEF IsTree
<1> QED
  BY <1>13

LEMMA TreeStep ==
    ASSUME NEW n \in Nat, NEW f, IsTree(f, n)
    PROVE  \A p \in Spans(n) : /\ p[2] - p[1] = 1 => f[p] = {}
                               /\ p[2] - p[1] # 1 => f[p] = {p} \cup f[Half(p, 1)] \cup f[Half(p, 2)]
<1> SUFFICES ASSUME NEW p \in Spans(n)
             PROVE  /\ p[2] - p[1] = 1 => f[p] = {}
                    /\ p[2] - p[1] # 1 => f[p] = {p} \cup f[Half(p, 1)] \cup f[Half(p, 2)]
  OBVIOUS
<1>1. Half(p, 1) = <<p[1], Mid(p[1], p[2])>> /\ Half(p, 2) = <<Mid(p[1], p[2]), p[2]>>
  BY DEF Half
<1>2. f[p] = IF p[2] - p[1] = 1 THEN {}
             ELSE {p} \cup f[<<p[1], Mid(p[1], p[2])>>] \cup f[<<Mid(p[1], p[2]), p[2]>>]
  BY DEF IsTree
<1> QED
  BY <1>1, <1>2

\* The spans of a tree lie in its root's and are merges: more than one input.
LEMMA TreeInside ==
    ASSUME NEW n \in Nat, NEW f, IsTree(f, n), NEW p \in Spans(n), NEW q \in f[p]
    PROVE  q \in Spans(n) /\ p[1] <= q[1] /\ q[2] <= p[2] /\ q[2] - q[1] # 1
<1> DEFINE In(r, x) == x \in Spans(n) /\ r[1] <= x[1] /\ x[2] <= r[2] /\ x[2] - x[1] # 1
           B == {r \in Spans(n) : \E x \in f[r] : ~In(r, x)}
<1>0. \A x \in Spans(n) : /\ x[2] - x[1] = 1 => f[x] = {}
                          /\ x[2] - x[1] # 1 => f[x] = {x} \cup f[Half(x, 1)] \cup f[Half(x, 2)]
  BY TreeStep
<1>1. ASSUME NEW r \in B PROVE r[2] - r[1] # 1 /\ (Half(r, 1) \in B \/ Half(r, 2) \in B)
  <2>1. PICK x \in f[r] : ~In(r, x)
    OBVIOUS
  <2>2. r[2] - r[1] # 1
    BY <1>0
  <2>3. /\ r[1] \in Nat /\ r[2] \in Nat /\ r[1] < r[2]
        /\ Half(r, 1) \in Spans(n) /\ Half(r, 2) \in Spans(n)
        /\ r[1] < Mid(r[1], r[2]) /\ Mid(r[1], r[2]) < r[2] /\ Mid(r[1], r[2]) \in Nat
        /\ Half(r, 1)[1] = r[1] /\ Half(r, 1)[2] = Mid(r[1], r[2])
        /\ Half(r, 2)[1] = Mid(r[1], r[2]) /\ Half(r, 2)[2] = r[2]
    BY <2>2, Halves
  <2>4. ~(x = r)
    BY <2>1, <2>2, <2>3
  <2>5. x \in f[Half(r, 1)] \/ x \in f[Half(r, 2)]
    BY <2>2, <2>4, <1>0
  <2>6. ASSUME NEW s \in {1, 2}, x \in f[Half(r, s)], In(Half(r, s), x) PROVE FALSE
    <3>1. x[1] \in Nat /\ x[2] \in Nat
      BY <2>6, Halves
    <3> QED
      BY <2>1, <2>3, <2>6, <3>1
  <2>7. ASSUME NEW s \in {1, 2}, x \in f[Half(r, s)] PROVE Half(r, s) \in B
    BY <2>3, <2>6, <2>7
  <2> QED
    BY <2>2, <2>5, <2>7
<1>2. B = {}
  <2>1. B \subseteq Spans(n)
    OBVIOUS
  <2> HIDE DEF B
  <2> QED
    BY <1>1, <2>1, ByHalves
<1> QED
  BY <1>2

\* A merge's inputs are single ones or results of merges of the tree.
LEMMA TreeClosed ==
    ASSUME NEW n \in Nat, NEW f, IsTree(f, n), NEW p \in Spans(n), NEW q \in f[p], NEW s \in {1, 2},
           Half(q, s)[2] - Half(q, s)[1] # 1
    PROVE  Half(q, s) \in f[p]
<1> DEFINE B == {r \in Spans(n) : q \in f[r] /\ Half(q, s) \notin f[r]}
<1>0. \A x \in Spans(n) : /\ x[2] - x[1] = 1 => f[x] = {}
                          /\ x[2] - x[1] # 1 => f[x] = {x} \cup f[Half(x, 1)] \cup f[Half(x, 2)]
  BY TreeStep
<1>1. ASSUME NEW r \in B PROVE r[2] - r[1] # 1 /\ (Half(r, 1) \in B \/ Half(r, 2) \in B)
  <2>1. r[2] - r[1] # 1
    BY <1>0
  <2>2. Half(r, 1) \in Spans(n) /\ Half(r, 2) \in Spans(n)
    BY <2>1, Halves
  <2>3. f[r] = {r} \cup f[Half(r, 1)] \cup f[Half(r, 2)]
    BY <2>1, <1>0
  <2>4. q # r
    <3> SUFFICES ASSUME q = r PROVE FALSE
      OBVIOUS
    <3>1. Half(q, s) \in f[Half(q, s)]
      <4>1. Half(q, s) \in Spans(n)
        BY <2>2
      <4> QED
        BY <4>1, <1>0
    <3> QED
      BY <2>3, <3>1
  <2> QED
    BY <2>1, <2>2, <2>3, <2>4
<1>2. B = {}
  <2>1. B \subseteq Spans(n)
    OBVIOUS
  <2> HIDE DEF B
  <2> QED
    BY <1>1, <2>1, ByHalves
<1> QED
  BY <1>2

\* No two merges of a tree have an input in common.
LEMMA TreeOnce ==
    ASSUME NEW n \in Nat, NEW f, IsTree(f, n), NEW p \in Spans(n), NEW q \in f[p], NEW r \in f[p],
           NEW s \in {1, 2}, NEW u \in {1, 2}, Half(q, s) = Half(r, u)
    PROVE  q = r /\ s = u
<1> DEFINE B == {x \in Spans(n) : q \in f[x] /\ r \in f[x] /\ q # r}
<1>0. \A x \in Spans(n) : /\ x[2] - x[1] = 1 => f[x] = {}
                          /\ x[2] - x[1] # 1 => f[x] = {x} \cup f[Half(x, 1)] \cup f[Half(x, 2)]
  BY TreeStep
<1>1. /\ q \in Spans(n) /\ q[1] \in Nat /\ q[2] \in Nat /\ q[1] < q[2]
      /\ q[1] < Mid(q[1], q[2]) /\ Mid(q[1], q[2]) < q[2] /\ Mid(q[1], q[2]) \in Nat
      /\ Half(q, 1)[1] = q[1] /\ Half(q, 1)[2] = Mid(q[1], q[2])
      /\ Half(q, 2)[1] = Mid(q[1], q[2]) /\ Half(q, 2)[2] = q[2]
  BY TreeInside, Halves
<1>2. /\ r \in Spans(n) /\ r[1] \in Nat /\ r[2] \in Nat /\ r[1] < r[2]
      /\ r[1] < Mid(r[1], r[2]) /\ Mid(r[1], r[2]) < r[2] /\ Mid(r[1], r[2]) \in Nat
      /\ Half(r, 1)[1] = r[1] /\ Half(r, 1)[2] = Mid(r[1], r[2])
      /\ Half(r, 2)[1] = Mid(r[1], r[2]) /\ Half(r, 2)[2] = r[2]
  BY TreeInside, Halves
<1>3. ASSUME NEW x \in B PROVE x[2] - x[1] # 1 /\ (Half(x, 1) \in B \/ Half(x, 2) \in B)
  <2>1. x[2] - x[1] # 1
    BY <1>0
  <2>2. /\ x[1] \in Nat /\ x[2] \in Nat /\ x[1] < x[2]
        /\ Half(x, 1) \in Spans(n) /\ Half(x, 2) \in Spans(n)
        /\ x[1] < Mid(x[1], x[2]) /\ Mid(x[1], x[2]) < x[2] /\ Mid(x[1], x[2]) \in Nat
        /\ Half(x, 1)[1] = x[1] /\ Half(x, 1)[2] = Mid(x[1], x[2])
        /\ Half(x, 2)[1] = Mid(x[1], x[2]) /\ Half(x, 2)[2] = x[2]
    BY <2>1, Halves
  <2>3. f[x] = {x} \cup f[Half(x, 1)] \cup f[Half(x, 2)]
    BY <2>1, <1>0
  <2> DEFINE m == Mid(x[1], x[2])
  <2>4. /\ q \in f[Half(x, 1)] => x[1] <= q[1] /\ q[2] <= m
        /\ q \in f[Half(x, 2)] => m <= q[1] /\ q[2] <= x[2]
        /\ r \in f[Half(x, 1)] => x[1] <= r[1] /\ r[2] <= m
        /\ r \in f[Half(x, 2)] => m <= r[1] /\ r[2] <= x[2]
    BY <2>2, TreeInside
  <2>5. /\ Half(q, s)[1] = Half(r, u)[1] /\ Half(q, s)[2] = Half(r, u)[2]
        /\ s \in {1, 2} /\ u \in {1, 2} /\ q # r
    OBVIOUS
  <2>6. q # x /\ r # x
    BY <1>1, <1>2, <2>2, <2>3, <2>4, <2>5
  <2>7. ~(q \in f[Half(x, 1)] /\ r \in f[Half(x, 2)]) /\ ~(q \in f[Half(x, 2)] /\ r \in f[Half(x, 1)])
    BY <1>1, <1>2, <2>2, <2>4, <2>5
  <2> QED
    BY <2>1, <2>2, <2>3, <2>6, <2>7
<1>4. B = {}
  <2>1. B \subseteq Spans(n)
    OBVIOUS
  <2> HIDE DEF B
  <2> QED
    BY <1>3, <2>1, ByHalves
<1>5. q = r
  BY <1>4
<1>6. s = u
  BY <1>1, <1>5
<1> QED
  BY <1>5, <1>6

\* A channel is the result of one span only.
LEMMA ResultOnce ==
    ASSUME NEW n \in Nat, NEW p \in Spans(n), NEW q \in Spans(n), Result(p[1], p[2]) = Result(q[1], q[2])
    PROVE  p = q
<1>1. /\ p = <<p[1], p[2]>> /\ p[1] \in Nat /\ p[2] \in Nat /\ p[1] < p[2]
      /\ q = <<q[1], q[2]>> /\ q[1] \in Nat /\ q[2] \in Nat /\ q[1] < q[2]
  BY Halves
<1>2. \A r : r[2] - r[1] > 1 => Result(r[1], r[2]) = <<"merge", r[1], r[2]>>
  BY DEF Result, Merge
<1>3. \A r : ~(r[2] - r[1] > 1) => Result(r[1], r[2]) = <<IF job.net THEN "net" ELSE "sort", r[1], r[1] + 1>>
  BY DEF Result, Net, Sort
<1>4. CASE p[2] - p[1] > 1 /\ q[2] - q[1] > 1
  BY <1>1, <1>2, <1>4
<1>5. CASE ~(p[2] - p[1] > 1) /\ ~(q[2] - q[1] > 1)
  <2>1. p[1] = q[1]
    BY <1>3, <1>5
  <2>2. p[2] = q[2]
    BY <1>1, <1>5, <2>1
  <2> QED
    BY <1>1, <2>1, <2>2
<1>6. ASSUME NEW x, NEW y, x[2] - x[1] > 1, ~(y[2] - y[1] > 1) PROVE Result(x[1], x[2]) # Result(y[1], y[2])
  BY <1>2, <1>3, <1>6
<1> QED
  BY <1>4, <1>5, <1>6

\* Every channel a Merge reads is read by it alone, and main reads one that no
\* Merge reads.
LEMMA MergesFacts ==
    ASSUME job \in Jobs
    PROVE  /\ job.count \in Nat \ {0} /\ <<0, job.count>> \in Spans(job.count)
           /\ job.count # 1 => <<0, job.count>> \in Merges
           /\ \A p \in Merges : \A s \in {1, 2} :
                 /\ p \in Spans(job.count) /\ p[2] - p[1] > 1 /\ Half(p, s) \in Spans(job.count)
                 /\ Half(p, s)[2] - Half(p, s)[1] # 1 => Half(p, s) \in Merges
                 /\ Input(p, s) = Result(Half(p, s)[1], Half(p, s)[2]) /\ Input(p, s) # Root
           /\ \A p, q \in Merges : \A s, u \in {1, 2} : Input(p, s) = Input(q, u) => p = q /\ s = u
<1> DEFINE n == job.count  top == <<0, n>>
<1>1. n \in Nat \ {0} /\ top \in Spans(n) /\ top[1] = 0 /\ top[2] = n
  BY Constants DEF Spans
<1>2. PICK f : IsTree(f, n) /\ MergeN(n) = f[top]
  BY <1>1, TreeExists, TreeIs
<1>3. ASSUME NEW p \in Spans(n), p \in f[top] PROVE p \in Merges
  <2>1. p[2] - p[1] # 1 /\ p[1] \in Nat /\ p[2] \in Nat /\ p[1] < p[2]
    BY <1>1, <1>2, <1>3, TreeInside, Halves
  <2> QED
    BY <1>2, <1>3, <2>1 DEF Merges
<1>4. ASSUME NEW p \in Merges PROVE p \in Spans(n) /\ p[2] - p[1] > 1 /\ p \in f[top]
  BY <1>2 DEF Merges
<1>5. ASSUME n # 1 PROVE top \in Merges
  <2>1. top \in f[top]
    BY <1>1, <1>2, <1>5, TreeStep
  <2> QED
    BY <1>1, <1>3, <2>1
<1>6. ASSUME NEW p \in Merges, NEW s \in {1, 2}
      PROVE  /\ Half(p, s) \in Spans(n)
             /\ Half(p, s)[2] - Half(p, s)[1] # 1 => Half(p, s) \in Merges
             /\ Input(p, s) = Result(Half(p, s)[1], Half(p, s)[2])
             /\ Half(p, s) # top
  <2>1. p \in Spans(n) /\ p[2] - p[1] # 1 /\ p \in f[top]
    BY <1>4
  <2>2. /\ Half(p, s) \in Spans(n)
        /\ p[1] \in Nat /\ p[2] \in Nat /\ p[1] < p[2] /\ p[2] <= n
        /\ p[1] < Mid(p[1], p[2]) /\ Mid(p[1], p[2]) < p[2] /\ Mid(p[1], p[2]) \in Nat
        /\ Half(p, 1)[1] = p[1] /\ Half(p, 1)[2] = Mid(p[1], p[2])
        /\ Half(p, 2)[1] = Mid(p[1], p[2]) /\ Half(p, 2)[2] = p[2]
    BY <1>1, <2>1, Halves
  <2>3. Half(p, s)[2] - Half(p, s)[1] # 1 => Half(p, s) \in Merges
    BY <1>1, <1>2, <1>3, <2>1, <2>2, TreeClosed
  <2>4. Input(p, s) = Result(Half(p, s)[1], Half(p, s)[2])
    BY <2>2 DEF Input
  <2>5. Half(p, s) # top
    BY <1>1, <2>2
  <2> QED
    BY <2>2, <2>3, <2>4, <2>5
<1>7. ASSUME NEW p \in Merges, NEW s \in {1, 2} PROVE Input(p, s) # Root
  <2>1. Root = Result(top[1], top[2])
    BY <1>1 DEF Root
  <2> QED
    BY <1>1, <1>6, <2>1, ResultOnce
<1>8. ASSUME NEW p \in Merges, NEW q \in Merges, NEW s \in {1, 2}, NEW u \in {1, 2}, Input(p, s) = Input(q, u)
      PROVE  p = q /\ s = u
  <2>1. Half(p, s) = Half(q, u)
    BY <1>1, <1>6, <1>8, ResultOnce
  <2> QED
    BY <1>1, <1>2, <1>4, <2>1, TreeOnce
<1> QED
  BY <1>1, <1>4, <1>5, <1>6, <1>7, <1>8

\* The bytes of y are the first n values of s, a word each.
Spells(y, s, n) ==
    /\ y \in Seq(Byte) /\ Len(y) = n * Word
    /\ \A k \in 1..n : \A j \in 1..Word : y[(k - 1) * Word + j] = Encode[s[k]][j]

LEMMA SpellOne ==
    ASSUME NEW s \in Seq(Values), NEW k \in 1..Len(s)
    PROVE  Encode[s[k]] \in Seq(Byte) /\ Len(Encode[s[k]]) = Word
<1>1. s[k] \in Values
  OBVIOUS
<1>2. Encode[s[k]] \in Buffers /\ Word \in Nat
  BY <1>1, Constants
<1> QED
  BY <1>2 DEF Buffers

LEMMA SpellNext ==
    ASSUME NEW s \in Seq(Values), NEW n \in Nat, n + 1 \in 1..Len(s), NEW x, Spells(x, s, n)
    PROVE  Spells(x \o Encode[s[n + 1]], s, n + 1)
<1> DEFINE b == Encode[s[n + 1]]  y == x \o b
<1>1. b \in Seq(Byte) /\ Len(b) = Word
  BY SpellOne
<1>2. IsAdded(x, n, b, y)
  <2> HIDE DEF b
  <2> QED
    BY <1>1, AddWord DEF Spells
<1>3. ASSUME NEW k \in 1..n + 1, NEW j \in 1..Word PROVE y[(k - 1) * Word + j] = Encode[s[k]][j]
  <2> HIDE DEF y
  <2>1. CASE k = n + 1
    BY <1>2, <2>1 DEF IsAdded
  <2>2. CASE k # n + 1
    <3>1. k \in 1..n
      BY <2>2
    <3> QED
      BY <1>2, <3>1 DEF IsAdded, Spells
  <2> QED
    BY <2>1, <2>2
<1> QED
  BY <1>2, <1>3 DEF IsAdded, Spells

\* What writeToFile leaves in the file.
LEMMA BytesSpell == ASSUME NEW s \in Seq(Values) PROVE Spells(Bytes(s), s, Len(s))
<1> DEFINE n == Len(s)
           e == [k \in 1..n |-> Encode[s[k]]]
           B == Seq(Byte)
<1>0. n \in Nat /\ Word \in Nat /\ Len(e) = n /\ Bytes(s) = FlattenSeq(e)
  BY Constants DEF Bytes
<1>1. CASE n = 0
  <2>1. e = <<>> /\ Bytes(s) = e
    BY <1>0, <1>1 DEF FlattenSeq
  <2>2. Len(<<>>) = 0 * Word
    BY <1>0
  <2> QED
    BY <1>1, <2>1, <2>2 DEF Spells
<1>2. CASE n # 0
  <2> DEFINE G == [i \in 1..n - 1 |-> [x \in B |-> x \o e[i + 1]]]
             a == e[1]
  <2>1. \A k \in 1..n : e[k] = Encode[s[k]] /\ e[k] \in B
    BY SpellOne
  <2>2. a \in B /\ G \in [1..n - 1 -> [B -> B]] /\ n - 1 \in Nat
    <3> HIDE DEF e
    <3> QED
      BY <1>0, <1>2, <2>1
  <2>3. \A i \in 1..n - 1 : \A x \in B : G[i][x] = x \o e[i + 1]
    OBVIOUS
  <2> HIDE DEF G, a, B
  <2>4. PICK F \in [0..n - 1 -> B] : Follows(F, n - 1, a, G)
    BY <2>2, StepsExist
  <2> DEFINE h == [i \in 1..n |-> F[i - 1]]
  <2>5. h = [i \in 1..n |-> IF i = 1 THEN e[i] ELSE h[i - 1] \o e[i]]
    <3>1. ASSUME NEW i \in 1..n PROVE F[i - 1] = IF i = 1 THEN e[i] ELSE h[i - 1] \o e[i]
      <4>1. CASE i = 1
        BY <2>4, <4>1 DEF Follows, a
      <4>2. CASE i # 1
        <5>1. i - 1 \in 1..n /\ i - 1 \in 1..n - 1 /\ (i - 1) - 1 \in 0..n - 1 /\ (i - 1) + 1 = i
          BY <1>0, <4>2
        <5>2. F[i - 1] = G[i - 1][F[(i - 1) - 1]] /\ F[(i - 1) - 1] \in B
          BY <2>4, <5>1 DEF Follows
        <5>3. F[i - 1] = F[(i - 1) - 1] \o e[i]
          BY <2>3, <5>1, <5>2
        <5> QED
          BY <4>2, <5>1, <5>3
      <4> QED
        BY <4>1, <4>2
    <3> QED
      BY <3>1
  <2> HIDE DEF h
  <2>6. PICK f : /\ f = [i \in 1..n |-> IF i = 1 THEN e[i] ELSE f[i - 1] \o e[i]]
                 /\ Bytes(s) = f[n]
    <3> HIDE DEF e
    <3> QED
      BY <1>0, <1>2, <2>5, FlattenIs
  <2>7. \A i \in 1..n : f[i] = IF i = 1 THEN e[i] ELSE f[i - 1] \o e[i]
    BY <2>6
  <2> DEFINE T == {i \in 1..n : ~Spells(f[i], s, i)}
  <2>8. ASSUME NEW i \in T PROVE i - 1 \in T
    <3>1. CASE i = 1
      <4>1. f[1] = <<>> \o Encode[s[0 + 1]]
        <5>1. f[1] = Encode[s[1]] /\ Encode[s[1]] \in Seq(Byte) /\ 0 + 1 = 1
          BY <1>0, <1>2, <2>1, <2>7, SpellOne
        <5> QED
          BY <5>1
      <4>2. Spells(<<>>, s, 0)
        BY <1>0 DEF Spells
      <4>3. 0 + 1 \in 1..Len(s)
        BY <1>0, <1>2
      <4>4. Spells(f[1], s, 0 + 1)
        BY <4>1, <4>2, <4>3, SpellNext
      <4> QED
        BY <3>1, <4>4
    <3>2. CASE i # 1
      <4>1. i - 1 \in 1..n /\ i - 1 \in Nat /\ (i - 1) + 1 = i
        BY <1>0, <3>2
      <4>2. f[i] = f[i - 1] \o Encode[s[(i - 1) + 1]]
        BY <2>1, <2>7, <3>2, <4>1
      <4>3. Spells(f[i - 1], s, i - 1) => Spells(f[i], s, i)
        BY <4>1, <4>2, SpellNext
      <4> QED
        BY <4>1, <4>3
    <3> QED
      BY <3>1, <3>2
  <2>9. T = {}
    <3>1. T \subseteq Nat
      OBVIOUS
    <3> HIDE DEF T
    <3> QED
      BY <2>8, <3>1, Descent
  <2>10. n \in 1..n
    BY <1>0, <1>2
  <2> QED
    BY <2>6, <2>9, <2>10
<1> QED
  BY <1>1, <1>2

-----------------------------------------------------------------------------
(* The words of the file and of its chunks.                                *)

LEMMA Multiples ==
    ASSUME NEW b \in Nat \ {0}, NEW q \in Nat
    PROVE  (b * q) \div b = q /\ (b * q) \div b \in Nat
OBVIOUS

LEMMA Division ==
    ASSUME NEW a \in Nat, NEW b \in Nat \ {0}
    PROVE  a \div b \in Nat /\ b * (a \div b) <= a /\ (a % b = 0 => a = b * (a \div b))
OBVIOUS

\* How many words a chunk has.
Size == chunckSize \div Word

LEMMA Sizes ==
    ASSUME job \in Jobs, Aligned
    PROVE  /\ Size \in Nat /\ chunckSize = Size * Word
           /\ Len(job.file) = (job.count * Size) * Word
           /\ Len(job.file) \div Word = job.count * Size
<1> DEFINE n == Len(job.file)  c == job.count  w == Word
<1>1. n \in Nat /\ c \in Nat \ {0} /\ w \in Nat \ {0}
  BY Constants
<1>2. n % (c * w) = 0 /\ chunckSize = n \div c /\ Size = chunckSize \div w
  BY DEF Aligned, chunckSize, Size
<1> HIDE DEF n, c, w
<1>3. PICK q \in Nat : n = (c * w) * q
  <2>1. c * w \in Nat \ {0}
    BY <1>1
  <2> QED
    BY <1>1, <1>2, <2>1, Division
<1>4. n = c * (w * q) /\ n = w * (c * q) /\ w * q \in Nat /\ c * q \in Nat /\ n = (c * q) * w /\ w * q = q * w
  BY <1>1, <1>3
<1>5. n \div c = w * q /\ n \div w = c * q
  <2>1. (c * (w * q)) \div c = w * q
    BY <1>1, <1>4, Multiples
  <2>2. (w * (c * q)) \div w = c * q
    BY <1>1, <1>4, Multiples
  <2> QED
    BY <1>4, <2>1, <2>2
<1>6. Size = q
  BY <1>1, <1>2, <1>5, Multiples
<1> QED
  BY <1>2, <1>4, <1>5, <1>6 DEF n, c, w

\* Where word j of chunk i is in the file.
LEMMA Places ==
    ASSUME NEW c \in Nat, NEW z \in Nat, NEW w \in Nat \ {0}, NEW i \in 0..c - 1, NEW n \in 0..z - 1
    PROVE  /\ i * z + n + 1 \in 1..c * z /\ i * z \in Nat
           /\ (i * z + n) * w + w <= (c * z) * w
           /\ i * (z * w) + n * w = (i * z + n) * w /\ (i * z + n) * w \in Nat
<1>1. i \in Nat /\ n \in Nat /\ i + 1 <= c /\ n + 1 <= z /\ c \in Nat
  OBVIOUS
<1>2. i * z \in Nat /\ c * z \in Nat /\ (i + 1) * z = i * z + z
  BY <1>1
<1>3. (i + 1) * z <= c * z
  <2>1. z = 0 => FALSE
    BY <1>1
  <2> QED
    BY <1>1, <2>1, Words
<1>4. i * z + n + 1 \in 1..c * z /\ i * z + n \in Nat
  BY <1>1, <1>2, <1>3
<1>5. (i * z + n + 1) * w <= (c * z) * w /\ ((i * z + n) + 1) * w = (i * z + n) * w + w
      /\ (i * z + n) * w \in Nat
  BY <1>2, <1>4, Words
<1>6. i * (z * w) + n * w = (i * z + n) * w
  <2> DEFINE x == i * z
  <2>1. i * (z * w) = x * w
    BY <1>1
  <2>2. (x + n) * w = x * w + n * w
    BY <1>1, <1>2
  <2> QED
    BY <2>1, <2>2
<1> QED
  BY <1>2, <1>4, <1>5, <1>6

\* The k-th value of the file is what its k-th word says.
WordAt(k) == [j \in 1..Word |-> job.file[(k - 1) * Word + j]]

LEMMA ValuesOfFile ==
    ASSUME job \in Jobs
    PROVE  /\ FileValues \in Seq(Values) /\ Len(FileValues) = Len(job.file) \div Word
           /\ \A k \in 1..Len(FileValues) : /\ WordAt(k) \in Buffers /\ FileValues[k] = Decode[WordAt(k)]
<1> DEFINE file == job.file  n == Len(file) \div Word
<1>1. file \in Seq(Byte) /\ Len(file) \in Nat /\ Word \in Nat \ {0}
  BY Constants
<1>2. n \in Nat /\ Word * n <= Len(file)
  BY <1>1, Division
<1>3. ASSUME NEW k \in 1..n
      PROVE  WordAt(k) \in Buffers /\ SubSeq(file, (k - 1) * Word + 1, k * Word) = WordAt(k)
  <2>1. k \in Nat /\ k - 1 \in Nat /\ (k - 1) * Word \in Nat /\ k * Word = (k - 1) * Word + Word
        /\ k * Word <= n * Word /\ n * Word = Word * n
    <3>1. k \in Nat /\ k - 1 \in Nat /\ (k - 1) + 1 = k /\ k <= n
      OBVIOUS
    <3> HIDE DEF n
    <3> QED
      BY <1>1, <1>2, <3>1, Words
  <2> DEFINE a == (k - 1) * Word
  <2>2. a \in Nat /\ a + Word <= Len(file) /\ k * Word = a + Word
    <3> DEFINE b == k * Word  z == n * Word  l == Len(file)
    <3>1. a \in Nat /\ b = a + Word /\ b <= z /\ z = Word * n
      BY <2>1
    <3>3. z <= l /\ l \in Nat /\ z \in Nat
      <4> HIDE DEF n
      <4>1. n * Word \in Nat
        BY <1>1, <1>2
      <4> QED
        BY <1>1, <1>2, <3>1, <4>1
    <3>2. a \in Nat /\ a + Word <= l /\ b = a + Word
      <4>1. a \in Nat /\ b = a + Word /\ b <= z /\ z <= l /\ l \in Nat /\ z \in Nat /\ Word \in Nat
        BY <1>1, <3>1, <3>3
      <4> HIDE DEF a, b, z, l
      <4> QED
        BY <4>1
    <3> QED
      BY <3>2
  <2> HIDE DEF a, n
  <2>3. WordAt(k) = [j \in 1..Word |-> file[a + j]]
    BY DEF WordAt, a
  <2>4. \A j \in 1..Word : file[a + j] \in Byte
    BY <1>1, <2>2
  <2>5. SubSeq(file, a + 1, a + Word) = [j \in 1..Word |-> file[a + j]]
    BY <1>1, <2>2, <2>4
  <2> QED
    BY <2>2, <2>3, <2>4, <2>5 DEF Buffers, a
<1>4. FileValues = [k \in 1..n |-> Decode[WordAt(k)]]
  BY <1>3 DEF FileValues
<1>5. \A k \in 1..n : Decode[WordAt(k)] \in Values
  BY <1>3, Constants
<1> HIDE DEF n
<1>6. FileValues \in Seq(Values) /\ Len(FileValues) = n
  BY <1>2, <1>4, <1>5
<1> QED
  BY <1>3, <1>4, <1>6 DEF n

\* How many of the values of a kind a channel carried, and how many of them were
\* received; the kinds are each value, and all of them.
Kinds     == {Values} \cup {{v} : v \in Values}
All(c, V) == Num(ch[c].sent, Len(ch[c].sent), V)
Got(c, V) == Num(ch[c].sent, ch[c].got, V)

\* A chunk is read from its place in the file, a word at a time, to its end if
\* no Read failed.
SourceOf(i) ==
    LET s == ch[Source(i)].sent  n == Len(s) IN
    /\ reader[Source(i)].read = n * Word /\ n <= Size
    /\ \A k \in 1..n : s[k] = FileValues[i * Size + k]
    /\ ch[Source(i)].closed /\ ~failed => n = Size
SourceExact == Aligned => \A i \in Chunks : SourceOf(i)

\* A sorter starts when its chunk is complete and leaves when all is sent.
SortOf(i) ==
    /\ sorted[i].done =>
          /\ Drained(Source(i)) /\ Len(sorted[i].a) = Len(ch[Source(i)].sent)
          /\ \A v \in Values : Count(sorted[i].a, v) = Count(ch[Source(i)].sent, v)
    /\ ch[Sort(i)].closed => sorted[i].done /\ Len(ch[Sort(i)].sent) = Len(sorted[i].a)
SortExact == \A i \in Chunks : SortOf(i)

\* Nothing is left behind in a connection that did not break.
ConnOf(i) ==
    /\ conn[i].state = "closed" => Drained(Sort(i))
    /\ conn[i].state = "broken" => failed
    /\ ch[Recv(i)].closed => conn[i].state \in {"closed", "broken"} /\ conn[i].wire = <<>>
    /\ ch[Net(i)].closed => Drained(Recv(i))
ConnExact == \A i \in Chunks : ConnOf(i)

\* What a Merge received it has sent on or holds.
Held(h, V) == IF h.state = "has" /\ h.v \in V THEN 1 ELSE 0
MergeSum(p) == \A V \in Kinds :
    All(Merge(p), V) + Held(head[p][1], V) + Held(head[p][2], V) = Got(Input(p, 1), V) + Got(Input(p, 2), V)
MergeEnds(p) ==
    /\ \A s \in {1, 2} : head[p][s] = End => Drained(Input(p, s))
    /\ ch[Merge(p)].closed => head[p][1] = End /\ head[p][2] = End
MergeExact == \A p \in Merges : MergeSum(p) /\ MergeEnds(p)

WriteExact == main # "write" => Drained(Root) /\ (~failed => disk = Bytes(Written))

\* What printFile was sent is the beginning of what was written, if nothing
\* failed.
Shows(r, read, w, at) ==
    LET n == Len(r.sent) IN
    /\ n <= Len(w) /\ read = n * Word /\ r.got <= n
    /\ \A k \in 1..n : r.sent[k] = w[k]
    /\ r.closed => n = Len(w)
    /\ at = "print" => r.got < PrintMax
    /\ at = "done" => r.got = IF Len(w) < PrintMax THEN Len(w) ELSE PrintMax
ShownExact ==
    /\ main \in {"write", "print", "done"}
    /\ ~failed =>
        /\ ch[Shown] \in Channel /\ reader[Shown] \in [read : Nat, buf : Buffers]
        /\ main = "write" => ch[Shown] = Open /\ reader[Shown].read = 0
        /\ main # "write" => Shows(ch[Shown], reader[Shown].read, Written, main)

ExactInv == SourceExact /\ SortExact /\ ConnExact /\ MergeExact /\ WriteExact /\ ShownExact

-----------------------------------------------------------------------------
(* A closed channel carries nothing more, and a drained one rests.         *)

Calm(c) ==
    /\ Grows(c)
    /\ ch[c].closed => ch'[c].closed /\ ch'[c].sent = ch[c].sent
    /\ ch[c].got = Len(ch[c].sent) => ch'[c].got = ch[c].got

LEMMA Rests ==
    ASSUME ChOK, NEW c \in Channels \ {Shown}, Calm(c), Drained(c)
    PROVE  /\ ch'[c].closed /\ ch'[c].sent = ch[c].sent /\ ch'[c].got = ch[c].got
           /\ ~(ch'[c].got < Len(ch'[c].sent))
<1>1. ch[c].got = Len(ch[c].sent)
  BY DEF ChOK, Channel, Drained, HasNext
<1> QED
  BY <1>1 DEF Calm, Drained, HasNext

LEMMA OtherCalm == ASSUME ChOK, NEW c \in Channels \ {Shown}, ch'[c] = ch[c] PROVE Calm(c)
BY OtherGrows DEF Calm

LEMMA SendCalm ==
    ASSUME ChOK, NEW c \in Channels \ {Shown}, NEW v \in Values, Send(c, v), ~ch[c].closed, job' = job
    PROVE  /\ ChOK' /\ ch'[c].sent = Append(ch[c].sent, v)
           /\ \A d \in Channels \ {Shown} : Calm(d) /\ ch'[d].closed = ch[d].closed /\ ch'[d].got = ch[d].got
           /\ \A d \in Channels \ {c} : ch'[d] = ch[d]
<1>1. /\ ChOK' /\ ch'[c].sent = Append(ch[c].sent, v) /\ ch'[c].got = ch[c].got
      /\ \A d \in Channels \ {c} : ch'[d] = ch[d]
  BY SendEffect
<1>2. ch'[c].closed = ch[c].closed
  BY DEF Send, ChOK, Channel
<1>3. Calm(c)
  BY <1>1, SendGrows DEF Calm
<1> QED
  BY <1>1, <1>2, <1>3, OtherCalm

LEMMA TakeCalm ==
    ASSUME ChOK, NEW c \in Channels \ {Shown}, HasNext(c), Take(c), job' = job
    PROVE  /\ ChOK' /\ ch'[c].got = ch[c].got + 1
           /\ \A d \in Channels \ {Shown} : Calm(d) /\ ch'[d].closed = ch[d].closed /\ ch'[d].sent = ch[d].sent
           /\ \A d \in Channels \ {c} : ch'[d] = ch[d]
<1>1. /\ ChOK' /\ ch'[c].sent = ch[c].sent /\ ch'[c].got = ch[c].got + 1
      /\ \A d \in Channels \ {c} : ch'[d] = ch[d]
  BY TakeEffect
<1>2. ch'[c].closed = ch[c].closed
  BY DEF Take, ChOK, Channel
<1>3. ch[c].got \in Nat /\ ch[c].got < Len(ch[c].sent) /\ Len(ch[c].sent) \in Nat
  BY DEF ChOK, Channel, HasNext
<1>4. Calm(c)
  BY <1>1, <1>2, <1>3, SameGrows DEF Calm
<1> QED
  BY <1>1, <1>2, <1>4, OtherCalm

LEMMA PassCalm ==
    ASSUME ChOK, NEW c \in Channels \ {Shown}, NEW d \in Channels \ {Shown, c},
           HasNext(c), ~ch[d].closed, Pass(c, d), job' = job
    PROVE  /\ ChOK'
           /\ \A e \in Channels \ {Shown} : Calm(e) /\ ch'[e].closed = ch[e].closed
           /\ \A e \in Channels \ {c, d} : ch'[e] = ch[e]
<1>1. /\ ChOK'
      /\ ch'[c].sent = ch[c].sent /\ ch'[c].got = ch[c].got + 1
      /\ NextOf(c) \in Values
      /\ ch'[d].sent = Append(ch[d].sent, NextOf(c)) /\ ch'[d].got = ch[d].got
      /\ \A e \in Channels \ {c, d} : ch'[e] = ch[e]
  BY PassEffect
<1>2. ch'[c].closed = ch[c].closed /\ ch'[d].closed = ch[d].closed
  BY DEF Pass, ChOK, Channel
<1>3. ch[c].got \in Nat /\ ch[c].got < Len(ch[c].sent) /\ Len(ch[c].sent) \in Nat
  BY DEF ChOK, Channel, HasNext
<1>4. Calm(c)
  BY <1>1, <1>2, <1>3, SameGrows DEF Calm
<1>5. Calm(d)
  BY <1>1, SendGrows DEF Calm
<1> QED
  BY <1>1, <1>2, <1>4, <1>5, OtherCalm

LEMMA CloseCalm ==
    ASSUME ChOK, NEW c \in Channels \ {Shown}, Close(c), job' = job
    PROVE  /\ ChOK' /\ ch'[c].closed
           /\ \A d \in Channels \ {Shown} : Calm(d) /\ ch'[d].sent = ch[d].sent /\ ch'[d].got = ch[d].got
           /\ \A d \in Channels \ {c} : ch'[d] = ch[d]
<1>1. /\ ChOK'
      /\ \A d \in Channels \ {Shown} : ch'[d].sent = ch[d].sent /\ ch'[d].got = ch[d].got
  BY CloseEffect
<1>2. /\ DOMAIN ch = Channels /\ ch[c] \in Channel
  BY DEF ChOK
<1>3. ch'[c].closed /\ \A d \in Channels \ {c} : ch'[d] = ch[d]
  BY <1>2 DEF Close, Channel
<1>4. Calm(c)
  <2>1. ch[c].got \in Nat
    BY <1>2 DEF Channel
  <2> QED
    BY <1>1, <1>3, <2>1, SameGrows DEF Calm
<1> QED
  BY <1>1, <1>3, <1>4, OtherCalm

LEMMA ShownCalm ==
    ASSUME ChOK, NEW v, ch' = ch \/ Send(Shown, v) \/ Take(Shown) \/ Close(Shown), job' = job
    PROVE  ChOK' /\ \A d \in Channels \ {Shown} : Calm(d) /\ ch'[d] = ch[d]
<1>1. CASE ch' = ch
  BY <1>1, JobStays, OtherCalm DEF ChOK
<1>2. CASE Send(Shown, v) \/ Take(Shown) \/ Close(Shown)
  BY <1>2, ShownEffect, OtherCalm
<1> QED
  BY <1>1, <1>2

-----------------------------------------------------------------------------
(* What keeps each part of it.                                             *)

AllCalm == \A c \in Channels \ {Shown} : Calm(c)

LEMMA Typed ==
    ASSUME OrderInv
    PROVE  /\ TypeInv /\ ChOK /\ job \in Jobs
           /\ \A c \in Channels \ {Shown} :
                 /\ ch[c].sent \in Seq(Values) /\ ch[c].got \in Nat /\ Len(ch[c].sent) \in Nat
                 /\ ch[c].got <= Len(ch[c].sent)
           /\ Root \in Channels \ {Shown}
           /\ \A i \in Chunks : /\ Source(i) \in Channels \ {Shown} /\ Sort(i) \in Channels \ {Shown}
                                /\ Recv(i) \in Channels \ {Shown} /\ Net(i) \in Channels \ {Shown}
           /\ \A p \in Merges : \A s \in {1, 2} :
                 /\ Merge(p) \in Channels \ {Shown} /\ Input(p, s) \in Channels \ {Shown}
                 /\ Input(p, s) \in Feeds
<1>1. TypeInv /\ ChOK /\ job \in Jobs
  BY DEF OrderInv, TypeInv
<1>2. \A c \in Channels \ {Shown} :
         /\ ch[c].sent \in Seq(Values) /\ ch[c].got \in Nat /\ Len(ch[c].sent) \in Nat
         /\ ch[c].got <= Len(ch[c].sent)
  BY <1>1 DEF ChOK, Channel
<1>3. Root \in Channels \ {Shown}
  BY <1>1, RootFeeds, ChannelsOf
<1>4. \A i \in Chunks : /\ Source(i) \in Channels \ {Shown} /\ Sort(i) \in Channels \ {Shown}
                        /\ Recv(i) \in Channels \ {Shown} /\ Net(i) \in Channels \ {Shown}
  BY ChannelsOf
<1>5. \A p \in Merges : \A s \in {1, 2} :
         /\ Merge(p) \in Channels \ {Shown} /\ Input(p, s) \in Channels \ {Shown}
         /\ Input(p, s) \in Feeds
  BY <1>1, InputFeeds, ChannelsOf
<1> QED
  BY <1>1, <1>2, <1>3, <1>4, <1>5

\* The file and the chunks do not depend on the state but on the job alone.
LEMMA FileStays ==
    ASSUME job' = job
    PROVE  Size' = Size /\ chunckSize' = chunckSize /\ FileValues' = FileValues /\ (Aligned' <=> Aligned)
BY DEF Size, chunckSize, FileValues, Aligned

LEMMA SourceKept ==
    ASSUME SourceExact, job' = job, failed => failed',
           \A i \in Chunks : /\ reader'[Source(i)] = reader[Source(i)]
                             /\ ch'[Source(i)].sent = ch[Source(i)].sent
                             /\ ch'[Source(i)].closed = ch[Source(i)].closed
    PROVE  SourceExact'
<1>1. ASSUME NEW i \in Chunks, SourceOf(i) PROVE SourceOf(i)'
  BY <1>1, FileStays DEF SourceOf
<1> QED
  BY <1>1, FileStays, JobStays DEF SourceExact

LEMMA SortOneKept ==
    ASSUME OrderInv, NEW i \in Chunks, SortOf(i), sorted' = sorted, Calm(Source(i)), Calm(Sort(i)),
           ch'[Sort(i)].closed = ch[Sort(i)].closed
    PROVE  SortOf(i)'
<1>1. Drained(Source(i)) => Drained(Source(i))' /\ ch'[Source(i)].sent = ch[Source(i)].sent
  BY Typed, Rests DEF Drained, HasNext
<1>2. ch[Sort(i)].closed => ch'[Sort(i)].sent = ch[Sort(i)].sent
  BY DEF Calm
<1> QED
  BY <1>1, <1>2 DEF SortOf

LEMMA SortKept ==
    ASSUME OrderInv, SortExact, job' = job, sorted' = sorted, AllCalm,
           \A i \in Chunks : ch'[Sort(i)].closed = ch[Sort(i)].closed
    PROVE  SortExact'
BY Typed, SortOneKept, JobStays DEF SortExact, AllCalm

LEMMA ConnOneKept ==
    ASSUME OrderInv, NEW i \in Chunks, ConnOf(i), failed => failed',
           conn'[i] = conn[i], Calm(Sort(i)), Calm(Recv(i)),
           ch'[Recv(i)].closed = ch[Recv(i)].closed, ch'[Net(i)].closed = ch[Net(i)].closed
    PROVE  ConnOf(i)'
<1>1. /\ Drained(Sort(i)) => Drained(Sort(i))'
      /\ Drained(Recv(i)) => Drained(Recv(i))'
  BY Typed, Rests DEF Drained, HasNext
<1> QED
  BY <1>1 DEF ConnOf

LEMMA ConnKept ==
    ASSUME OrderInv, ConnExact, failed => failed', job' = job, conn' = conn, AllCalm,
           \A i \in Chunks : /\ ch'[Recv(i)].closed = ch[Recv(i)].closed
                             /\ ch'[Net(i)].closed = ch[Net(i)].closed
    PROVE  ConnExact'
BY Typed, ConnOneKept, JobStays DEF ConnExact, AllCalm

LEMMA GotStays ==
    ASSUME OrderInv, NEW c \in Channels \ {Shown}, Calm(c), ch'[c].got = ch[c].got, NEW V
    PROVE  Num(ch'[c].sent, ch'[c].got, V) = Got(c, V)
<1> DEFINE x == ch[c].sent  y == ch'[c].sent  n == ch[c].got
<1>1. /\ n \in Nat /\ Len(x) \in Nat /\ n <= Len(x)
      /\ \A k \in 1..Len(x) : y[k] = x[k]
  BY Typed DEF Calm, Grows
<1> HIDE DEF x, y, n
<1>2. \A k \in 1..n : y[k] = x[k]
  BY <1>1
<1>3. Num(y, n, V) = Num(x, n, V)
  BY <1>1, <1>2, NumSame
<1> QED
  BY <1>3 DEF x, y, n, Got

\* Receiving and sending elsewhere changes no sum.
LEMMA MergeOneKept ==
    ASSUME OrderInv, NEW p \in Merges, job' = job, MergeSum(p), MergeEnds(p), head'[p] = head[p],
           \A s \in {1, 2} : Calm(Input(p, s)) /\ ch'[Input(p, s)].got = ch[Input(p, s)].got,
           ch'[Merge(p)].sent = ch[Merge(p)].sent, ch'[Merge(p)].closed = ch[Merge(p)].closed
    PROVE  MergeSum(p)' /\ MergeEnds(p)'
<1>1. \A s \in {1, 2} : Input(p, s)' = Input(p, s)
  BY JobStays
<1>2. \A s \in {1, 2} : Drained(Input(p, s)) => ch'[Input(p, s)].closed /\ ~(ch'[Input(p, s)].got < Len(ch'[Input(p, s)].sent))
  BY Typed, Rests
<1>3. MergeEnds(p)'
  BY <1>1, <1>2 DEF MergeEnds, Drained, HasNext
<1>4. ASSUME NEW s \in {1, 2}, NEW V PROVE Got(Input(p, s), V)' = Got(Input(p, s), V)
  BY <1>1, Typed, GotStays DEF Got
<1>5. \A V : All(Merge(p), V)' = All(Merge(p), V)
  BY DEF All, Merge
<1>6. MergeSum(p)'
  BY <1>1, <1>4, <1>5 DEF MergeSum, Kinds
<1> QED
  BY <1>3, <1>6

LEMMA MergesKept ==
    ASSUME OrderInv, MergeExact, job' = job, head' = head, AllCalm,
           \A p \in Merges : /\ ch'[Merge(p)].sent = ch[Merge(p)].sent
                             /\ ch'[Merge(p)].closed = ch[Merge(p)].closed
                             /\ \A s \in {1, 2} : ch'[Input(p, s)].got = ch[Input(p, s)].got
    PROVE  MergeExact'
<1>1. \A p \in Merges : \A s \in {1, 2} : Calm(Input(p, s))
  BY Typed DEF AllCalm
<1> QED
  BY <1>1, MergeOneKept, JobStays DEF MergeExact

\* When everything is received nothing changes any more.
LEMMA WrittenStays ==
    ASSUME OrderInv, job' = job, AllCalm, Drained(Root)
    PROVE  Written' = Written /\ Drained(Root)'
<1>1. Root' = Root /\ Root \in Channels \ {Shown}
  BY Typed, JobStays
<1> QED
  BY <1>1, Typed, Rests DEF AllCalm, Written, Drained, HasNext

LEMMA WriteKept ==
    ASSUME OrderInv, WriteExact, failed => failed', job' = job, AllCalm, main' = main, disk' = disk
    PROVE  WriteExact'
<1> SUFFICES ASSUME main # "write" PROVE Drained(Root)' /\ (~failed' => disk' = Bytes(Written)')
  BY DEF WriteExact
<1>1. Drained(Root) /\ (~failed => disk = Bytes(Written))
  BY DEF WriteExact
<1>2. Written' = Written /\ Drained(Root)'
  BY <1>1, WrittenStays
<1> QED
  BY <1>1, <1>2 DEF Bytes

LEMMA ShownKept ==
    ASSUME OrderInv, WriteExact, ShownExact, failed => failed', job' = job, AllCalm, main' = main,
           ch'[Shown] = ch[Shown], reader'[Shown] = reader[Shown]
    PROVE  ShownExact'
<1>1. main # "write" => Written' = Written
  BY WrittenStays DEF WriteExact
<1> QED
  BY <1>1 DEF ShownExact, Shows, Shown, Open

-----------------------------------------------------------------------------
(* Reading the file and large.out: whole words.                            *)

LEMMA RestOf ==
    ASSUME NEW y \in Seq(Byte), NEW a \in Nat
    PROVE  LET r == SubSeq(y, a + 1, Len(y)) IN
           /\ r \in Seq(Byte)
           /\ (r = <<>>) <=> (Len(y) <= a)
           /\ a <= Len(y) => Len(r) = Len(y) - a
           /\ \A k \in 1..Len(y) - a : r[k] = y[a + k]
<1> DEFINE r == SubSeq(y, a + 1, Len(y))  n == Len(y)
<1>1. n \in Nat /\ \A k \in a + 1..n : y[k] \in Byte
  OBVIOUS
<1>2. /\ r \in Seq(Byte)
      /\ Len(r) = IF a + 1 <= n THEN n - (a + 1) + 1 ELSE 0
      /\ \A k \in 1..n - (a + 1) + 1 : r[k] = y[(a + 1) + k - 1]
  BY <1>1, SubSeqProperties
<1> HIDE DEF r, n
<1>3. \A k \in 1..n - a : k \in 1..n - (a + 1) + 1 /\ (a + 1) + k - 1 = a + k
  BY <1>1
<1>4. \A k \in 1..n - a : r[k] = y[a + k]
  BY <1>2, <1>3
<1>5. (r = <<>>) <=> (Len(r) = 0)
  BY <1>2
<1>6. a <= n => Len(r) = n - a
  BY <1>1, <1>2
<1>7. (Len(r) = 0) <=> (n <= a)
  BY <1>1, <1>2
<1> QED
  BY <1>2, <1>4, <1>5, <1>6, <1>7 DEF r, n

WordIn(y, a) == [j \in 1..Word |-> y[a + j]]

LEMMA ReadWord ==
    ASSUME NEW c \in Readers, c[1] # "recv", ReadValue(c), reader[c] \in [read : Nat, buf : Buffers],
           NEW y \in Seq(Byte), NEW a \in Nat, Rest(c) = SubSeq(y, a + 1, Len(y)), a + Word <= Len(y),
           DOMAIN reader = Readers
    PROVE  /\ WordIn(y, a) \in Buffers /\ Send(c, Decode[WordIn(y, a)]) /\ ~ch[c].closed
           /\ reader'[c] = [read |-> reader[c].read + Word, buf |-> WordIn(y, a)]
           /\ \A d \in Readers \ {c} : reader'[d] = reader[d]
           /\ UNCHANGED <<job, sorted, conn, head, main, disk, short, failed>>
<1>1. Word \in Nat \ {0} /\ Len(y) \in Nat
  BY Constants
<1>2. Len(Rest(c)) = Len(y) - a /\ \A k \in 1..Len(y) - a : Rest(c)[k] = y[a + k]
  BY <1>1, RestOf
<1>3. Counts(c) = {Word}
  BY <1>1, <1>2 DEF Counts
<1>4. LET rest == Rest(c)
          buf  == [k \in 1..Word |-> IF k <= Word THEN rest[k] ELSE reader[c].buf[k]]
      IN  /\ reader' = [reader EXCEPT ![c] = [read |-> @.read + Word, buf |-> buf]]
          /\ Send(c, Decode[buf])
          /\ IF c[1] = "recv"
             THEN /\ conn' = [conn EXCEPT ![c[2]].wire = SubSeq(rest, Word + 1, Len(rest))]
                  /\ short' = (short \/ Word < Word)
             ELSE UNCHANGED <<conn, short>>
  BY <1>3 DEF ReadValue
<1>5. [k \in 1..Word |-> IF k <= Word THEN Rest(c)[k] ELSE reader[c].buf[k]] = WordIn(y, a)
  BY <1>1, <1>2 DEF WordIn
<1>6. WordIn(y, a) \in Buffers
  BY <1>1 DEF WordIn, Buffers
<1>7. Send(c, Decode[WordIn(y, a)]) /\ reader' = [reader EXCEPT ![c] = [read |-> @.read + Word, buf |-> WordIn(y, a)]]
  BY <1>4, <1>5
<1>8. UNCHANGED <<conn, short>>
  BY <1>4
<1>9. UNCHANGED <<job, sorted, head, main, disk, failed>> /\ ~ch[c].closed
  BY DEF ReadValue
<1> QED
  BY <1>6, <1>7, <1>8, <1>9

LEMMA ReadMore == ASSUME NEW c, c[1] # "recv", ReadValue(c) PROVE Len(Rest(c)) # 0
<1>1. Counts(c) # {}
  BY DEF ReadValue
<1>2. Len(Rest(c)) = 0 => Counts(c) = {}
  BY Constants DEF Counts
<1> QED
  BY <1>1, <1>2

\* A product is larger when one factor is.
LEMMA Larger ==
    ASSUME NEW m \in Nat, NEW n \in Nat, NEW w \in Nat \ {0}
    PROVE  /\ m * w \in Nat /\ (m * w < n * w <=> m < n) /\ (m * w = 0 <=> m = 0)
           /\ (m < n => m * w + w <= n * w) /\ (m + 1) * w = m * w + w
<1>1. m * w \in Nat /\ n * w \in Nat /\ (m + 1) * w = m * w + w
  BY Words
<1>2. m < n => m * w + w <= n * w
  BY Words
<1>3. n <= m => n * w <= m * w
  BY Words
<1>4. m # 0 => m * w # 0
  <2>1. m # 0 => (m - 1) + 1 = m /\ m - 1 \in Nat
    OBVIOUS
  <2>2. m # 0 => m * w = (m - 1) * w + w /\ (m - 1) * w \in Nat
    BY <2>1, Words
  <2> QED
    BY <2>2
<1> QED
  BY <1>1, <1>2, <1>3, <1>4

-----------------------------------------------------------------------------
(* ReaderSource over a chunk.                                              *)

LEMMA ExactParts ==
    ExactInv <=> SourceExact /\ SortExact /\ ConnExact /\ MergeExact /\ WriteExact /\ ShownExact
BY DEF ExactInv

\* Where Source(i) is in the file.
LEMMA SourcePlace ==
    ASSUME OrderInv, Aligned, NEW i \in Chunks, SourceOf(i)
    PROVE  LET n == Len(ch[Source(i)].sent)  a == (i * Size + n) * Word IN
           /\ n \in Nat /\ a \in Nat /\ Size \in Nat /\ job.file \in Seq(Byte) /\ Word \in Nat \ {0}
           /\ i * Size \in Nat /\ chunckSize = Size * Word
           /\ Rest(Source(i)) = SubSeq(job.file, a + 1, Len(job.file))
           /\ n < Size => a + Word <= Len(job.file) /\ i * Size + n + 1 \in 1..Len(FileValues)
           /\ a < Len(job.file) => Size # 0
<1> DEFINE n == Len(ch[Source(i)].sent)  a == (i * Size + n) * Word
<1>1. job \in Jobs /\ n \in Nat /\ job.file \in Seq(Byte) /\ Word \in Nat \ {0} /\ job.count \in Nat \ {0}
  BY Typed, Constants
<1>2. /\ Size \in Nat /\ chunckSize = Size * Word /\ Len(job.file) = (job.count * Size) * Word
      /\ Len(FileValues) = job.count * Size
  BY <1>1, Sizes, ValuesOfFile
<1>3. i \in 0..job.count - 1
  BY DEF Chunks
<1>4. reader[Source(i)].read = n * Word
  BY DEF SourceOf
<1> HIDE DEF n
<1>5. Rest(Source(i)) = SubSeq(job.file, i * (Size * Word) + n * Word + 1, Len(job.file))
  BY <1>2, <1>4 DEF Rest, Source
<1>6. /\ i * Size \in Nat /\ i * (Size * Word) + n * Word = (i * Size + n) * Word
      /\ (i * Size + n) * Word \in Nat
  <2> DEFINE z == Size
  <2>1. i \in Nat /\ z \in Nat
    BY <1>1, <1>2, <1>3
  <2> HIDE DEF z
  <2> DEFINE x == i * z
  <2>2. x \in Nat
    BY <2>1
  <2>3. i * (z * Word) = x * Word
    BY <1>1, <2>1
  <2> HIDE DEF x
  <2>4. (x + n) * Word = x * Word + n * Word /\ (x + n) * Word \in Nat
    BY <1>1, <2>2
  <2> QED
    BY <2>2, <2>3, <2>4 DEF x, z
<1>7. n < Size => a + Word <= Len(job.file) /\ i * Size + n + 1 \in 1..Len(FileValues)
  <2> SUFFICES ASSUME n < Size PROVE a + Word <= Len(job.file) /\ i * Size + n + 1 \in 1..Len(FileValues)
    OBVIOUS
  <2>1. n \in 0..Size - 1 /\ job.count \in Nat
    BY <1>1, <1>2
  <2> HIDE DEF a
  <2>2. /\ i * Size + n + 1 \in 1..job.count * Size
        /\ (i * Size + n) * Word + Word <= (job.count * Size) * Word
    BY <1>1, <1>2, <1>3, <2>1, Places
  <2> QED
    BY <1>2, <2>2 DEF a
<1>8. a < Len(job.file) => Size # 0
  <2>1. Size = 0 => job.count * Size = 0 /\ 0 * Word = 0
    BY <1>1
  <2>2. Size = 0 => Len(job.file) = 0
    BY <1>2, <2>1
  <2> QED
    BY <1>6, <2>2
<1> QED
  BY <1>1, <1>2, <1>5, <1>6, <1>7, <1>8 DEF n

LEMMA Appended ==
    ASSUME NEW s \in Seq(Values), NEW v \in Values
    PROVE  LET t == Append(s, v) IN
           t \in Seq(Values) /\ Len(t) = Len(s) + 1 /\ t[Len(s) + 1] = v /\ \A k \in 1..Len(s) : t[k] = s[k]
OBVIOUS

LEMMA SourceGrown ==
    ASSUME OrderInv, Aligned, NEW i \in Chunks, SourceOf(i), NEW v \in Values, job' = job,
           ch'[Source(i)].sent = Append(ch[Source(i)].sent, v), ~ch'[Source(i)].closed,
           Len(ch[Source(i)].sent) < Size, v = FileValues[i * Size + Len(ch[Source(i)].sent) + 1],
           reader'[Source(i)].read = reader[Source(i)].read + Word
    PROVE  SourceOf(i)'
<1> DEFINE s == ch[Source(i)].sent  n == Len(s)  t == Append(s, v)
<1>1. /\ reader[Source(i)].read = n * Word /\ \A k \in 1..n : s[k] = FileValues[i * Size + k]
  BY DEF SourceOf
<1>2. s \in Seq(Values) /\ n \in Nat /\ i \in Nat /\ Size \in Nat /\ Word \in Nat \ {0} /\ i * Size \in Nat
  BY Typed, SourcePlace DEF Chunks
<1> DEFINE x == i * Size
<1>3. x \in Nat /\ v = FileValues[x + n + 1] /\ n < Size
  BY <1>2
<1> HIDE DEF s, x
<1>4. Len(t) = n + 1 /\ t[n + 1] = v /\ \A k \in 1..n : t[k] = s[k]
  BY <1>2, Appended
<1>5. (n + 1) * Word = n * Word + Word
  BY <1>2, Larger
<1>6. \A k \in 1..n + 1 : t[k] = FileValues[x + k]
  <2>1. ASSUME NEW k \in 1..n + 1 PROVE t[k] = FileValues[x + k]
    <3>1. CASE k = n + 1
      <4>1. x + k = x + n + 1
        BY <1>2, <1>3, <3>1
      <4> QED
        BY <1>3, <1>4, <3>1, <4>1
    <3>2. CASE k # n + 1
      <4>1. k \in 1..n
        BY <1>2, <3>2
      <4>2. s[k] = FileValues[x + k]
        BY <1>1, <4>1 DEF x, s
      <4> QED
        BY <1>4, <3>2, <4>2
    <3> QED
      BY <3>1, <3>2
  <2> QED
    BY <2>1
<1>7. n + 1 <= Size
  BY <1>2, <1>3
<1>8. FileValues' = FileValues /\ Size' = Size
  BY FileStays
<1>9. reader'[Source(i)].read = (n + 1) * Word
  BY <1>1, <1>5 DEF s
<1>10. ch'[Source(i)].sent = t
  BY DEF s
<1> HIDE DEF t, n
<1>11. Source(i)' = Source(i)
  BY DEF Source
<1> QED
  BY <1>4, <1>6, <1>7, <1>8, <1>9, <1>10, <1>11 DEF SourceOf, x

LEMMA ReadSourceExact ==
    ASSUME OrderInv, ExactInv, NEW i \in Chunks, ReadValue(Source(i))
    PROVE  ExactInv'
<1> DEFINE c == Source(i)
<1>1. /\ c \in Channels \ {Shown} /\ c \in Readers \ {Shown} /\ ReaderOK /\ ChOK /\ c[1] = "source"
  BY Typed, Distinct DEF Readers, TypeInv, Source
<1>2. reader[c] \in [read : Nat, buf : Buffers] /\ DOMAIN reader = Readers
  BY <1>1 DEF ReaderOK
<1>3. PICK buf \in Buffers : Send(c, Decode[buf]) /\ UNCHANGED <<conn, short, job, sorted, head>>
  BY Typed, ReadOne
<1>4. main' = main /\ disk' = disk /\ failed' = failed /\ ~ch[c].closed
  BY DEF ReadValue
<1>5. Decode[buf] \in Values
  BY Constants
<1>0. ReadValue(c) /\ c[1] # "recv"
  BY <1>1
<1> HIDE DEF c
<1>6. /\ ChOK' /\ ch'[c].sent = Append(ch[c].sent, Decode[buf])
      /\ \A d \in Channels \ {Shown} : Calm(d) /\ ch'[d].closed = ch[d].closed /\ ch'[d].got = ch[d].got
      /\ \A d \in Channels \ {c} : ch'[d] = ch[d]
  BY <1>1, <1>3, <1>4, <1>5, SendCalm
<1>7. AllCalm
  BY <1>6 DEF AllCalm
<1>8. \A d \in Readers \ {c} : reader'[d] = reader[d]
  BY <1>0, <1>2 DEF ReadValue
<1>9. ASSUME NEW j \in Chunks, j # i PROVE Source(j) # c /\ Source(j) \in Readers
  BY <1>9, Distinct DEF c, Readers
<1>10. SourceExact'
  <2> SUFFICES ASSUME Aligned, NEW j \in Chunks PROVE SourceOf(j)'
    BY <1>3, FileStays, JobStays DEF SourceExact
  <2>1. SourceOf(j)
    BY DEF ExactInv, SourceExact
  <2>2. CASE j # i
    <3>1. reader'[Source(j)] = reader[Source(j)] /\ ch'[Source(j)] = ch[Source(j)]
      BY <1>6, <1>8, <1>9, <2>2, Typed
    <3> QED
      BY <1>3, <1>4, <2>1, <3>1, FileStays DEF SourceOf
  <2>3. CASE j = i
    <3> DEFINE n == Len(ch[c].sent)  a == (i * Size + n) * Word
    <3>1. /\ n \in Nat /\ a \in Nat /\ Size \in Nat /\ job.file \in Seq(Byte) /\ Word \in Nat \ {0}
          /\ i * Size \in Nat /\ chunckSize = Size * Word
          /\ Rest(c) = SubSeq(job.file, a + 1, Len(job.file))
          /\ n < Size => a + Word <= Len(job.file) /\ i * Size + n + 1 \in 1..Len(FileValues)
          /\ a < Len(job.file) => Size # 0
      BY <2>1, <2>3, SourcePlace DEF c
    <3>2. reader[c].read = n * Word /\ n <= Size
      BY <2>1, <2>3 DEF SourceOf, c
    <3> HIDE DEF n
    <3>3. n < Size
      <4>1. Len(Rest(c)) # 0
        BY <1>0, ReadMore
      <4>2. ~(Len(job.file) <= a)
        BY <3>1, <4>1, RestOf
      <4>3. Len(job.file) \in Nat
        BY <3>1
      <4> HIDE DEF a
      <4>4. Size # 0
        BY <3>1, <4>2, <4>3
      <4>5. n * Word < Size * Word \/ n * Word = 0
        <5>1. ~Limited(c) /\ n * Word \in Nat /\ Size * Word \in Nat
          BY <1>0, <3>1, Larger DEF ReadValue
        <5> QED
          BY <1>1, <3>1, <3>2, <5>1 DEF Limited
      <4> QED
        BY <3>1, <4>4, <4>5, Larger
    <3>4. WordIn(job.file, a) \in Buffers /\ Send(c, Decode[WordIn(job.file, a)])
          /\ reader'[c] = [read |-> reader[c].read + Word, buf |-> WordIn(job.file, a)]
      <4> HIDE DEF a
      <4> QED
        BY <1>0, <1>1, <1>2, <3>1, <3>3, ReadWord
    <3>5. Decode[WordIn(job.file, a)] = FileValues[i * Size + n + 1]
      <4> DEFINE k == i * Size + n + 1
      <4>1. k \in 1..Len(FileValues) /\ k - 1 = i * Size + n
        BY <3>1, <3>3
      <4>2. FileValues[k] = Decode[WordAt(k)]
        BY <4>1, Typed, ValuesOfFile
      <4>3. WordAt(k) = WordIn(job.file, a)
        BY <4>1 DEF WordAt, WordIn
      <4> QED
        BY <4>2, <4>3
    <3> DEFINE v == Decode[WordIn(job.file, a)]
    <3>6. v \in Values
      <4> HIDE DEF a
      <4> QED
        BY <3>4, Constants
    <3>7. ch'[c].sent = Append(ch[c].sent, v)
      <4> HIDE DEF a
      <4> QED
        BY <1>1, <1>3, <1>4, <3>4, <3>6, SendCalm
    <3>8. ~ch'[c].closed
      BY <1>1, <1>4, <1>6
    <3>9. v = FileValues[i * Size + Len(ch[c].sent) + 1] /\ Len(ch[c].sent) < Size
      BY <3>3, <3>5 DEF n
    <3>10. reader'[c].read = reader[c].read + Word
      BY <3>4
    <3> HIDE DEF v
    <3>11. SourceOf(i)'
      BY <1>3, <2>1, <2>3, <3>6, <3>7, <3>8, <3>9, <3>10, SourceGrown DEF c
    <3> QED
      BY <2>3, <3>11
  <2> QED
    BY <2>2, <2>3
<1>11. \A p \in Merges : /\ Merge(p) # c
                         /\ \A s \in {1, 2} : Merge(p) \in Channels \ {Shown} /\ Input(p, s) \in Channels \ {Shown}
  BY Typed, Distinct DEF c
<1>12. MergeExact'
  BY <1>3, <1>6, <1>7, <1>11, MergesKept DEF ExactInv
<1>13. SortExact' /\ ConnExact' /\ WriteExact'
  BY <1>3, <1>4, <1>6, <1>7, Typed, SortKept, ConnKept, WriteKept DEF ExactInv
<1>14. ShownExact'
  <2>1. Shown \in Readers /\ Shown # c /\ Shown \in Channels
    BY <1>1 DEF Readers, Channels
  <2> QED
    BY <1>3, <1>4, <1>6, <1>7, <1>8, <2>1, ShownKept DEF ExactInv
<1> QED
  BY <1>10, <1>12, <1>13, <1>14 DEF ExactInv

\* What a goroutine that is neither main nor a Merge leaves alone.
LEMMA MainKept ==
    ASSUME OrderInv, ExactInv, AllCalm, UNCHANGED <<job, main, disk>>, failed => failed',
           ch'[Shown] = ch[Shown], reader'[Shown] = reader[Shown]
    PROVE  WriteExact' /\ ShownExact'
BY WriteKept, ShownKept DEF ExactInv

LEMMA SumsKept ==
    ASSUME OrderInv, ExactInv, AllCalm, UNCHANGED <<job, head>>, NEW c \in Channels \ {Shown},
           \A p \in Merges : c # Merge(p),
           c \in Feeds => \A d \in Channels \ {Shown} : ch'[d].got = ch[d].got,
           \A d \in Channels \ {c} : ch'[d] = ch[d]
    PROVE  MergeExact'
<1>1. \A p \in Merges : \A s \in {1, 2} :
         Merge(p) \in Channels \ {Shown} /\ Input(p, s) \in Channels \ {Shown} /\ Input(p, s) \in Feeds
  BY Typed
<1>2. \A p \in Merges : /\ ch'[Merge(p)] = ch[Merge(p)]
                        /\ \A s \in {1, 2} : ch'[Input(p, s)].got = ch[Input(p, s)].got
  BY <1>1
<1> QED
  BY <1>2, MergesKept DEF ExactInv

\* The channels of the chunks are no Merge's, and those of their own are no input.
LEMMA Apart ==
    /\ \A i \in Chunks : \A p : /\ Source(i) # Merge(p) /\ Sort(i) # Merge(p)
                                /\ Recv(i) # Merge(p) /\ Net(i) # Merge(p)
    /\ \A i \in Chunks : Source(i) \notin Feeds /\ Recv(i) \notin Feeds /\ (job.net => Sort(i) \notin Feeds)
BY Distinct DEF Feeds

LEMMA SourceRests ==
    ASSUME ExactInv, UNCHANGED <<job, reader>>, failed => failed',
           \A i \in Chunks : ch'[Source(i)].sent = ch[Source(i)].sent /\ ch'[Source(i)].closed = ch[Source(i)].closed
    PROVE  SourceExact'
BY SourceKept DEF ExactInv

LEMMA EndSourceExact ==
    ASSUME OrderInv, ExactInv, NEW i \in Chunks, EndSource(Source(i))
    PROVE  ExactInv'
<1> DEFINE c == Source(i)
<1>0. /\ c \in Channels \ {Shown} /\ ChOK /\ c[1] = "source" /\ Shown \in Channels
      /\ Close(c) /\ UNCHANGED <<job, reader, sorted, conn, head, main, disk, short, failed>>
      /\ Limited(c) \/ Rest(c) = <<>>
  BY Typed, ChannelsOf DEF Source, EndSource
<1>1. \A p : c # Merge(p)
  BY Apart
<1>2. /\ \A j \in Chunks : j # i => Source(j) # c
      /\ \A j \in Chunks : c # Sort(j) /\ c # Recv(j) /\ c # Net(j)
  BY Distinct
<1> HIDE DEF c
<1>3. /\ ChOK' /\ ch'[c].closed
      /\ \A d \in Channels \ {Shown} : Calm(d) /\ ch'[d].sent = ch[d].sent /\ ch'[d].got = ch[d].got
      /\ \A d \in Channels \ {c} : ch'[d] = ch[d]
  BY <1>0, CloseCalm
<1>4. AllCalm
  BY <1>3 DEF AllCalm
<1>5. \A j \in Chunks : /\ ch'[Sort(j)] = ch[Sort(j)] /\ ch'[Recv(j)] = ch[Recv(j)] /\ ch'[Net(j)] = ch[Net(j)]
                        /\ j # i => ch'[Source(j)] = ch[Source(j)]
  BY <1>2, <1>3, Typed
<1>6. SourceExact'
  <2> SUFFICES ASSUME Aligned, NEW j \in Chunks PROVE SourceOf(j)'
    BY <1>0, FileStays, JobStays DEF SourceExact
  <2>1. SourceOf(j)
    BY DEF ExactInv, SourceExact
  <2>2. CASE j # i
    BY <1>0, <1>5, <2>1, <2>2, FileStays DEF SourceOf
  <2>3. CASE j = i
    <3> DEFINE n == Len(ch[c].sent)  a == (i * Size + n) * Word
    <3>1. /\ n \in Nat /\ a \in Nat /\ Size \in Nat /\ job.file \in Seq(Byte) /\ Word \in Nat \ {0}
          /\ chunckSize = Size * Word
          /\ Rest(c) = SubSeq(job.file, a + 1, Len(job.file))
          /\ n < Size => a + Word <= Len(job.file)
      BY <2>1, <2>3, SourcePlace DEF c
    <3>2. reader[c].read = n * Word /\ n <= Size
      BY <2>1, <2>3 DEF SourceOf, c
    <3> HIDE DEF n
    <3>3. ASSUME Limited(c) PROVE n = Size
      <4>1. n * Word >= Size * Word /\ n * Word \in Nat /\ Size * Word \in Nat
        BY <3>1, <3>2, <3>3, Larger DEF Limited
      <4>2. ~(n < Size)
        BY <3>1, <4>1, Larger
      <4> QED
        BY <3>1, <3>2, <4>2
    <3>4. ASSUME Rest(c) = <<>> PROVE n = Size
      <4> HIDE DEF a
      <4>1. Len(job.file) <= a /\ Len(job.file) \in Nat
        BY <3>1, <3>4, RestOf
      <4> QED
        BY <3>1, <3>2, <4>1
    <3>5. n = Size
      BY <1>0, <3>3, <3>4
    <3>6. ch'[c].sent = ch[c].sent /\ reader'[c] = reader[c]
      BY <1>0, <1>3
    <3>7. SourceOf(i)'
      BY <1>0, <2>1, <2>3, <3>5, <3>6, FileStays DEF SourceOf, c, n
    <3> QED
      BY <2>3, <3>7
  <2> QED
    BY <2>2, <2>3
<1>7. MergeExact'
  BY <1>0, <1>1, <1>3, <1>4, SumsKept
<1>8. SortExact' /\ ConnExact'
  BY <1>0, <1>4, <1>5, SortKept, ConnKept DEF ExactInv
<1>9. WriteExact' /\ ShownExact'
  BY <1>0, <1>3, <1>4, MainKept
<1> QED
  BY <1>6, <1>7, <1>8, <1>9 DEF ExactInv

-----------------------------------------------------------------------------
(* InMemSort.                                                              *)

LEMMA CollectExact == ASSUME OrderInv, ExactInv, NEW i \in Chunks, Collect(i) PROVE ExactInv'
<1> DEFINE c == Source(i)
<1>0. /\ c \in Channels \ {Shown} /\ ChOK /\ Shown \in Channels
      /\ HasNext(c) /\ Take(c) /\ UNCHANGED <<job, reader, sorted, conn, head, main, disk, short, failed>>
  BY Typed, ChannelsOf DEF Collect
<1>1. (\A p : c # Merge(p)) /\ c \notin Feeds
  BY Apart
<1> HIDE DEF c
<1>3. /\ \A d \in Channels \ {Shown} : Calm(d) /\ ch'[d].sent = ch[d].sent /\ ch'[d].closed = ch[d].closed
      /\ \A d \in Channels \ {c} : ch'[d] = ch[d]
  BY <1>0, TakeCalm
<1>4. AllCalm
  BY <1>3 DEF AllCalm
<1>5. SourceExact'
  BY <1>0, <1>3, Typed, SourceRests
<1>6. MergeExact'
  BY <1>0, <1>1, <1>3, <1>4, SumsKept
<1>7. SortExact' /\ ConnExact'
  BY <1>0, <1>3, <1>4, Typed, SortKept, ConnKept DEF ExactInv
<1>8. WriteExact' /\ ShownExact'
  BY <1>0, <1>3, <1>4, MainKept
<1> QED
  BY <1>5, <1>6, <1>7, <1>8 DEF ExactInv

\* sort.Ints leaves every value as often as it was there.
LEMMA SortKeepsCounts ==
    ASSUME NEW s \in Seq(Values), NEW a \in SortsOf(s)
    PROVE  Len(a) = Len(s) /\ \A v \in Values : Count(a, v) = Count(s, v)
<1>1. /\ a \in [1..Len(s) -> ToSet(s)] /\ \A v \in ToSet(s) : Count(a, v) = Count(s, v)
  BY DEF SortsOf
<1>2. Len(s) \in Nat
  OBVIOUS
<1>3. Len(a) = Len(s)
  BY <1>1, <1>2
<1>4. ASSUME NEW v \in Values, v \notin ToSet(s) PROVE Count(a, v) = Count(s, v)
  <2>1. {k \in 1..Len(s) : s[k] = v} = {}
    BY <1>4 DEF ToSet
  <2>2. {k \in 1..Len(a) : a[k] = v} = {}
    BY <1>1, <1>3, <1>4
  <2> QED
    BY <2>1, <2>2 DEF Count
<1> QED
  BY <1>1, <1>3, <1>4

LEMMA SortIntsExact == ASSUME OrderInv, ExactInv, NEW i \in Chunks, SortInts(i) PROVE ExactInv'
<1>0. /\ Drained(Source(i)) /\ ~sorted[i].done /\ ChOK /\ DOMAIN sorted = Chunks
      /\ UNCHANGED <<job, ch, reader, conn, head, main, disk, short, failed>>
  BY Typed DEF SortInts, OrderInv, SortedOK
<1>1. PICK a \in SortsOf(ch[Source(i)].sent) : sorted' = [sorted EXCEPT ![i] = [done |-> TRUE, a |-> a]]
  BY DEF SortInts
<1>2. Len(a) = Len(ch[Source(i)].sent) /\ \A v \in Values : Count(a, v) = Count(ch[Source(i)].sent, v)
  BY Typed, SortKeepsCounts
<1>3. /\ sorted'[i].done /\ sorted'[i].a = a
      /\ \A j \in Chunks : j # i => sorted'[j] = sorted[j]
  BY <1>0, <1>1
<1>4. AllCalm
  BY <1>0, OtherCalm DEF AllCalm
<1>5. SortExact'
  <2> SUFFICES ASSUME NEW j \in Chunks PROVE SortOf(j)'
    BY <1>0, JobStays DEF SortExact
  <2>1. SortOf(j)
    BY DEF ExactInv, SortExact
  <2>2. CASE j # i
    BY <1>0, <1>3, <2>1, <2>2 DEF SortOf, Drained, HasNext
  <2>3. CASE j = i
    BY <1>0, <1>2, <1>3, <2>1, <2>3 DEF SortOf, Drained, HasNext
  <2> QED
    BY <2>2, <2>3
<1>6. SourceExact' /\ ConnExact' /\ WriteExact' /\ ShownExact'
  BY <1>0, <1>4, SourceRests, ConnKept, MainKept DEF ExactInv
<1>7. MergeExact'
  BY <1>0, <1>4, MergesKept DEF ExactInv
<1> QED
  BY <1>5, <1>6, <1>7 DEF ExactInv

LEMMA SendSortedExact == ASSUME OrderInv, ExactInv, NEW i \in Chunks, SendSorted(i) PROVE ExactInv'
<1> DEFINE c == Sort(i)  v == sorted[i].a[Len(ch[Sort(i)].sent) + 1]
<1>0. /\ c \in Channels \ {Shown} /\ ChOK /\ Shown \in Channels /\ c \in Channels
      /\ sorted[i].done /\ Len(ch[c].sent) < Len(sorted[i].a) /\ Send(c, v)
      /\ UNCHANGED <<job, reader, sorted, conn, head, main, disk, short, failed>>
  BY Typed, ChannelsOf DEF SendSorted
<1>1. (\A p : c # Merge(p)) /\ \A j \in Chunks : c # Source(j)
  BY Apart, Distinct
<1>2. v \in Values
  <2>1. sorted[i].a \in Seq(Values) /\ Len(ch[c].sent) \in Nat
    BY <1>0, Typed DEF OrderInv, SortedOK
  <2> QED
    BY <1>0, <2>1
<1>3. ~ch[c].closed
  <2>1. SortOf(i) /\ Len(ch[c].sent) \in Nat /\ Len(sorted[i].a) \in Nat
    BY <1>0, Typed DEF ExactInv, SortExact, OrderInv, SortedOK
  <2> QED
    BY <1>0, <2>1 DEF SortOf
<1> HIDE DEF c, v
<1>4. /\ \A d \in Channels \ {Shown} : Calm(d) /\ ch'[d].closed = ch[d].closed /\ ch'[d].got = ch[d].got
      /\ \A d \in Channels \ {c} : ch'[d] = ch[d]
  BY <1>0, <1>2, <1>3, SendCalm
<1>5. AllCalm
  BY <1>4 DEF AllCalm
<1>6. SourceExact'
  BY <1>0, <1>1, <1>4, Typed, SourceRests
<1>7. MergeExact'
  BY <1>0, <1>1, <1>4, <1>5, SumsKept
<1>8. SortExact' /\ ConnExact'
  BY <1>0, <1>4, <1>5, Typed, SortKept, ConnKept DEF ExactInv
<1>9. WriteExact' /\ ShownExact'
  BY <1>0, <1>4, <1>5, MainKept
<1> QED
  BY <1>6, <1>7, <1>8, <1>9 DEF ExactInv

LEMMA EndSortExact == ASSUME OrderInv, ExactInv, NEW i \in Chunks, EndSort(i) PROVE ExactInv'
<1> DEFINE c == Sort(i)
<1>0. /\ c \in Channels \ {Shown} /\ ChOK /\ Shown \in Channels
      /\ sorted[i].done /\ Len(ch[c].sent) = Len(sorted[i].a) /\ Close(c)
      /\ UNCHANGED <<job, reader, sorted, conn, head, main, disk, short, failed>>
  BY Typed, ChannelsOf DEF EndSort
<1>1. /\ \A p : c # Merge(p)
      /\ \A j \in Chunks : c # Source(j) /\ c # Recv(j) /\ c # Net(j) /\ (j # i => c # Sort(j))
  BY Apart, Distinct
<1> HIDE DEF c
<1>3. /\ ch'[c].closed
      /\ \A d \in Channels \ {Shown} : Calm(d) /\ ch'[d].sent = ch[d].sent /\ ch'[d].got = ch[d].got
      /\ \A d \in Channels \ {c} : ch'[d] = ch[d]
  BY <1>0, CloseCalm
<1>4. AllCalm
  BY <1>3 DEF AllCalm
<1>5. \A j \in Chunks : /\ ch'[Source(j)] = ch[Source(j)] /\ ch'[Recv(j)] = ch[Recv(j)] /\ ch'[Net(j)] = ch[Net(j)]
                        /\ j # i => ch'[Sort(j)] = ch[Sort(j)]
  BY <1>1, <1>3, Typed
<1>6. SortExact'
  <2> SUFFICES ASSUME NEW j \in Chunks PROVE SortOf(j)'
    BY <1>0, JobStays DEF SortExact
  <2>1. SortOf(j)
    BY DEF ExactInv, SortExact
  <2>2. CASE j # i
    BY <1>0, <1>5, <2>1, <2>2 DEF SortOf, Drained, HasNext
  <2>3. CASE j = i
    <3>1. ch'[Sort(i)].sent = ch[Sort(i)].sent
      BY <1>0, <1>3 DEF c
    <3>2. Len(ch'[Sort(i)].sent) = Len(sorted'[i].a) /\ sorted'[i].done
      BY <1>0, <3>1 DEF c
    <3> QED
      BY <1>0, <1>5, <2>1, <2>3, <3>2 DEF SortOf, Drained, HasNext
  <2> QED
    BY <2>2, <2>3
<1>7. SourceExact'
  BY <1>0, <1>5, SourceRests
<1>8. MergeExact'
  BY <1>0, <1>1, <1>3, <1>4, SumsKept
<1>9. ConnExact' /\ WriteExact' /\ ShownExact'
  BY <1>0, <1>3, <1>4, <1>5, ConnKept, MainKept DEF ExactInv
<1> QED
  BY <1>6, <1>7, <1>8, <1>9 DEF ExactInv

-----------------------------------------------------------------------------
(* The connection.                                                         *)

LEMMA ConnUpdate ==
    ASSUME OrderInv, ExactInv, UNCHANGED job, AllCalm, NEW i \in Chunks, ConnOf(i)', failed => failed',
           \A j \in Chunks : j # i => /\ conn'[j] = conn[j]
                                      /\ ch'[Recv(j)].closed = ch[Recv(j)].closed
                                      /\ ch'[Net(j)].closed = ch[Net(j)].closed
    PROVE  ConnExact'
<1>1. ASSUME NEW j \in Chunks, j # i PROVE ConnOf(j)'
  BY <1>1, Typed, ConnOneKept DEF ExactInv, ConnExact, AllCalm
<1> QED
  BY <1>1, JobStays DEF ConnExact

LEMMA ConnShape ==
    ASSUME OrderInv, NEW i \in Chunks
    PROVE  /\ DOMAIN conn = Chunks /\ conn[i].wire \in Seq(Byte)
           /\ \A st : LET r == [conn EXCEPT ![i].state = st] IN
                 /\ r[i].state = st /\ r[i].wire = conn[i].wire /\ \A j \in Chunks \ {i} : r[j] = conn[j]
           /\ \A w : LET r == [conn EXCEPT ![i].wire = w] IN
                 /\ r[i].wire = w /\ r[i].state = conn[i].state /\ \A j \in Chunks \ {i} : r[j] = conn[j]
BY DEF OrderInv, TypeInv, ConnOK

LEMMA DialExact ==
    ASSUME OrderInv, ExactInv, NEW i \in Chunks, Dial(i) \/ EndSink(i)
    PROVE  ExactInv'
<1>0. /\ UNCHANGED <<job, ch, reader, sorted, head, main, disk, short, failed>> /\ ChOK
  BY Typed DEF Dial, EndSink
<1>1. AllCalm
  BY <1>0, OtherCalm, Typed DEF AllCalm
<1>2. ConnOf(i)
  BY DEF ExactInv, ConnExact
<1>3. ConnOf(i)'
  <2>1. CASE Dial(i)
    <3>1. conn[i].state = "listen" /\ conn' = [conn EXCEPT ![i].state = "open"]
      BY <2>1 DEF Dial
    <3>2. conn'[i].state = "open"
      BY <3>1, ConnShape
    <3> QED
      BY <1>0, <1>2, <3>1, <3>2 DEF ConnOf, Drained, HasNext
  <2>2. CASE EndSink(i)
    <3>1. conn[i].state = "open" /\ Drained(Sort(i)) /\ conn' = [conn EXCEPT ![i].state = "closed"]
      BY <2>2 DEF EndSink
    <3>2. conn'[i].state = "closed" /\ conn'[i].wire = conn[i].wire
      BY <3>1, ConnShape
    <3> QED
      BY <1>0, <1>2, <3>1, <3>2 DEF ConnOf, Drained, HasNext
  <2> QED
    BY <2>1, <2>2
<1>4. \A j \in Chunks : j # i => conn'[j] = conn[j]
  BY ConnShape DEF Dial, EndSink
<1>5. ConnExact'
  BY <1>0, <1>1, <1>3, <1>4, ConnUpdate
<1>6. SourceExact' /\ SortExact' /\ WriteExact' /\ ShownExact'
  BY <1>0, <1>1, SourceRests, SortKept, MainKept DEF ExactInv
<1>7. MergeExact'
  BY <1>0, <1>1, MergesKept DEF ExactInv
<1> QED
  BY <1>5, <1>6, <1>7 DEF ExactInv

LEMMA SinkValueExact == ASSUME OrderInv, ExactInv, NEW i \in Chunks, SinkValue(i) PROVE ExactInv'
<1> DEFINE c == Sort(i)  w == conn[i].wire \o Encode[NextOf(Sort(i))]
<1>0. /\ c \in Channels \ {Shown} /\ ChOK /\ Shown \in Channels
      /\ HasNext(c) /\ Take(c) /\ UNCHANGED <<job, reader, sorted, head, main, disk, short, failed>>
      /\ conn[i].state = "open" /\ conn' = [conn EXCEPT ![i].wire = w]
  BY Typed, ChannelsOf DEF SinkValue
<1>1. job.net
  <2>1. conn[i] # [state |-> "listen", wire |-> <<>>]
    BY <1>0
  <2> QED
    BY <2>1 DEF OrderInv, WireOK
<1>2. /\ (\A p : c # Merge(p)) /\ c \notin Feeds
      /\ \A j \in Chunks : c # Source(j) /\ c # Recv(j) /\ c # Net(j)
  BY <1>1, Apart, Distinct
<1> HIDE DEF c, w
<1>3. /\ \A d \in Channels \ {Shown} : Calm(d) /\ ch'[d].sent = ch[d].sent /\ ch'[d].closed = ch[d].closed
      /\ \A d \in Channels \ {c} : ch'[d] = ch[d]
  BY <1>0, TakeCalm
<1>4. AllCalm
  BY <1>3 DEF AllCalm
<1>5. ConnOf(i)'
  <2>1. ConnOf(i)
    BY DEF ExactInv, ConnExact
  <2>2. ch'[Recv(i)] = ch[Recv(i)] /\ ch'[Net(i)] = ch[Net(i)]
    BY <1>2, <1>3, Typed
  <2>3. conn'[i].state = "open"
    BY <1>0, ConnShape
  <2> QED
    BY <1>0, <2>1, <2>2, <2>3 DEF ConnOf, Drained, HasNext
<1>6. ConnExact'
  <2>1. \A j \in Chunks : j # i => conn'[j] = conn[j]
    BY <1>0, ConnShape
  <2> QED
    BY <1>0, <1>3, <1>4, <1>5, <2>1, Typed, ConnUpdate
<1>7. SourceExact' /\ SortExact'
  BY <1>0, <1>3, <1>4, Typed, SourceRests, SortKept DEF ExactInv
<1>8. MergeExact'
  BY <1>0, <1>2, <1>3, <1>4, SumsKept
<1>9. WriteExact' /\ ShownExact'
  BY <1>0, <1>3, <1>4, MainKept
<1> QED
  BY <1>6, <1>7, <1>8, <1>9 DEF ExactInv

LEMMA ReadRecvExact == ASSUME OrderInv, ExactInv, NEW i \in Chunks, ReadValue(Recv(i)) PROVE ExactInv'
<1> DEFINE c == Recv(i)
<1>0. /\ c \in Channels \ {Shown} /\ ChOK /\ Shown \in Channels /\ Shown # c /\ Shown \in Readers
      /\ ~ch[c].closed /\ UNCHANGED <<job, sorted, head, main, disk, failed>> /\ DOMAIN reader = Readers
  BY Typed, ChannelsOf DEF ReadValue, Readers, TypeInv, ReaderOK
<1>1. PICK n \in 1..Word, buf \in Buffers :
        /\ Send(c, Decode[buf])
        /\ conn' = [conn EXCEPT ![i].wire = SubSeq(Rest(c), n + 1, Len(Rest(c)))]
  BY Typed, ReadOne
<1>2. Decode[buf] \in Values
  BY Constants
<1>3. /\ (\A p : c # Merge(p)) /\ c \notin Feeds
      /\ \A j \in Chunks : c # Source(j) /\ c # Sort(j) /\ c # Net(j) /\ Source(j) \in Readers
  BY Apart, Distinct DEF Readers
<1>4. \A d \in Readers \ {c} : reader'[d] = reader[d]
  BY <1>0 DEF ReadValue
<1> HIDE DEF c
<1>5. /\ \A d \in Channels \ {Shown} : Calm(d) /\ ch'[d].closed = ch[d].closed /\ ch'[d].got = ch[d].got
      /\ \A d \in Channels \ {c} : ch'[d] = ch[d]
  BY <1>0, <1>1, <1>2, SendCalm
<1>6. AllCalm
  BY <1>5 DEF AllCalm
<1>7. ConnOf(i)'
  <2>1. ConnOf(i) /\ Calm(Sort(i))
    BY <1>6, Typed DEF ExactInv, ConnExact, AllCalm
  <2>2. conn'[i].state = conn[i].state
    BY <1>1, ConnShape
  <2>3. ~ch'[Recv(i)].closed /\ ~ch[Recv(i)].closed
    BY <1>0, <1>5 DEF c
  <2>4. ch'[Sort(i)] = ch[Sort(i)] /\ ch'[Net(i)] = ch[Net(i)]
    BY <1>3, <1>5, Typed
  <2> QED
    BY <1>0, <2>1, <2>2, <2>3, <2>4 DEF ConnOf, Drained, HasNext
<1>8. ConnExact'
  <2>1. \A j \in Chunks : j # i => conn'[j] = conn[j]
    BY <1>1, ConnShape
  <2> QED
    BY <1>0, <1>5, <1>6, <1>7, <2>1, Typed, ConnUpdate
<1>9. SourceExact' /\ SortExact'
  BY <1>0, <1>3, <1>4, <1>5, <1>6, Typed, SourceKept, SortKept DEF ExactInv
<1>10. MergeExact'
  BY <1>0, <1>3, <1>5, <1>6, SumsKept
<1>11. WriteExact' /\ ShownExact'
  BY <1>0, <1>4, <1>5, <1>6, MainKept
<1> QED
  BY <1>8, <1>9, <1>10, <1>11 DEF ExactInv

LEMMA EndRecvExact == ASSUME OrderInv, ExactInv, NEW i \in Chunks, EndSource(Recv(i)) PROVE ExactInv'
<1> DEFINE c == Recv(i)
<1>0. /\ c \in Channels \ {Shown} /\ ChOK /\ Shown \in Channels
      /\ Close(c) /\ UNCHANGED <<job, reader, sorted, conn, head, main, disk, short, failed>>
      /\ conn[i].state \in {"closed", "broken"} /\ conn[i].wire = <<>>
  BY Typed, ChannelsOf DEF EndSource, Recv, Limited, Rest
<1>1. /\ \A p : c # Merge(p)
      /\ \A j \in Chunks : c # Source(j) /\ c # Sort(j) /\ c # Net(j) /\ (j # i => c # Recv(j))
  BY Apart, Distinct
<1> HIDE DEF c
<1>3. /\ ch'[c].closed
      /\ \A d \in Channels \ {Shown} : Calm(d) /\ ch'[d].sent = ch[d].sent /\ ch'[d].got = ch[d].got
      /\ \A d \in Channels \ {c} : ch'[d] = ch[d]
  BY <1>0, CloseCalm
<1>4. AllCalm
  BY <1>3 DEF AllCalm
<1>5. \A j \in Chunks : /\ ch'[Source(j)] = ch[Source(j)] /\ ch'[Sort(j)] = ch[Sort(j)] /\ ch'[Net(j)] = ch[Net(j)]
                        /\ j # i => ch'[Recv(j)] = ch[Recv(j)]
  BY <1>1, <1>3, Typed
<1>6. ConnOf(i)'
  <2>1. ConnOf(i)
    BY DEF ExactInv, ConnExact
  <2>2. ch'[Recv(i)].closed /\ ch'[Recv(i)].sent = ch[Recv(i)].sent /\ ch'[Recv(i)].got = ch[Recv(i)].got
    BY <1>0, <1>3 DEF c
  <2> QED
    BY <1>0, <1>5, <2>1, <2>2 DEF ConnOf, Drained, HasNext
<1>7. ConnExact'
  BY <1>0, <1>4, <1>5, <1>6, ConnUpdate
<1>8. SourceExact' /\ SortExact'
  BY <1>0, <1>4, <1>5, SourceRests, SortKept DEF ExactInv
<1>9. MergeExact'
  BY <1>0, <1>1, <1>3, <1>4, SumsKept
<1>10. WriteExact' /\ ShownExact'
  BY <1>0, <1>3, <1>4, MainKept
<1> QED
  BY <1>7, <1>8, <1>9, <1>10 DEF ExactInv

LEMMA RelayExact == ASSUME OrderInv, ExactInv, NEW i \in Chunks, Relay(i) PROVE ExactInv'
<1> DEFINE c == Recv(i)  d == Net(i)
<1>0. /\ c \in Channels \ {Shown} /\ d \in Channels \ {Shown, c} /\ ChOK /\ Shown \in Channels
      /\ HasNext(c) /\ Pass(c, d)
      /\ UNCHANGED <<job, reader, sorted, conn, head, main, disk, short, failed>>
  BY Typed, ChannelsOf, Distinct DEF Relay
<1>1. ~ch[d].closed
  BY <1>0 DEF ExactInv, ConnExact, ConnOf, Drained
<1>2. /\ \A p : c # Merge(p) /\ d # Merge(p)
      /\ \A j \in Chunks : c # Source(j) /\ d # Source(j)
      /\ c \notin Feeds
  BY Apart, Distinct
<1> HIDE DEF c, d
<1>3. /\ \A e \in Channels \ {Shown} : Calm(e) /\ ch'[e].closed = ch[e].closed
      /\ \A e \in Channels \ {c, d} : ch'[e] = ch[e]
  BY <1>0, <1>1, PassCalm
<1>4. ch'[d].got = ch[d].got
  BY <1>0, PassEffect
<1>5. AllCalm
  BY <1>3 DEF AllCalm
<1>6. MergeExact'
  <2>1. \A p \in Merges : /\ ch'[Merge(p)] = ch[Merge(p)]
                          /\ \A s \in {1, 2} : ch'[Input(p, s)].got = ch[Input(p, s)].got
    BY <1>2, <1>3, <1>4, Typed
  <2> QED
    BY <1>0, <1>5, <2>1, MergesKept DEF ExactInv
<1>7. SourceExact'
  BY <1>0, <1>2, <1>3, Typed, SourceRests
<1>8. SortExact' /\ ConnExact'
  BY <1>0, <1>3, <1>5, Typed, SortKept, ConnKept DEF ExactInv
<1>9. WriteExact' /\ ShownExact'
  BY <1>0, <1>3, <1>5, MainKept
<1> QED
  BY <1>6, <1>7, <1>8, <1>9 DEF ExactInv

LEMMA EndRelayExact == ASSUME OrderInv, ExactInv, NEW i \in Chunks, EndRelay(i) PROVE ExactInv'
<1> DEFINE c == Net(i)
<1>0. /\ c \in Channels \ {Shown} /\ ChOK /\ Shown \in Channels
      /\ Close(c) /\ UNCHANGED <<job, reader, sorted, conn, head, main, disk, short, failed>>
      /\ Drained(Recv(i))
  BY Typed, ChannelsOf DEF EndRelay
<1>1. /\ \A p : c # Merge(p)
      /\ \A j \in Chunks : c # Source(j) /\ c # Sort(j) /\ c # Recv(j) /\ (j # i => c # Net(j))
  BY Apart, Distinct
<1> HIDE DEF c
<1>3. /\ \A d \in Channels \ {Shown} : Calm(d) /\ ch'[d].sent = ch[d].sent /\ ch'[d].got = ch[d].got
      /\ \A d \in Channels \ {c} : ch'[d] = ch[d]
  BY <1>0, CloseCalm
<1>4. AllCalm
  BY <1>3 DEF AllCalm
<1>5. \A j \in Chunks : /\ ch'[Source(j)] = ch[Source(j)] /\ ch'[Sort(j)] = ch[Sort(j)] /\ ch'[Recv(j)] = ch[Recv(j)]
                        /\ j # i => ch'[Net(j)] = ch[Net(j)]
  BY <1>1, <1>3, Typed
<1>6. ConnOf(i)'
  <2>1. ConnOf(i)
    BY DEF ExactInv, ConnExact
  <2> QED
    BY <1>0, <1>5, <2>1 DEF ConnOf, Drained, HasNext
<1>7. ConnExact'
  BY <1>0, <1>4, <1>5, <1>6, ConnUpdate
<1>8. SourceExact' /\ SortExact'
  BY <1>0, <1>4, <1>5, SourceRests, SortKept DEF ExactInv
<1>9. MergeExact'
  BY <1>0, <1>1, <1>3, <1>4, SumsKept
<1>10. WriteExact' /\ ShownExact'
  BY <1>0, <1>3, <1>4, MainKept
<1> QED
  BY <1>7, <1>8, <1>9, <1>10 DEF ExactInv

LEMMA DropValueExact == ASSUME OrderInv, ExactInv, NEW i \in Chunks, DropValue(i) PROVE ExactInv'
<1> DEFINE c == Sort(i)
<1>0. /\ c \in Channels \ {Shown} /\ ChOK /\ Shown \in Channels
      /\ HasNext(c) /\ Take(c) /\ UNCHANGED <<job, reader, sorted, conn, head, main, disk, short, failed>>
      /\ conn[i].state = "broken"
  BY Typed, ChannelsOf DEF DropValue
<1>1. job.net
  <2>1. conn[i] # [state |-> "listen", wire |-> <<>>]
    BY <1>0
  <2> QED
    BY <2>1 DEF OrderInv, WireOK
<1>2. /\ (\A p : c # Merge(p)) /\ c \notin Feeds
      /\ \A j \in Chunks : c # Source(j) /\ c # Recv(j) /\ c # Net(j)
  BY <1>1, Apart, Distinct
<1> HIDE DEF c
<1>3. /\ \A d \in Channels \ {Shown} : Calm(d) /\ ch'[d].sent = ch[d].sent /\ ch'[d].closed = ch[d].closed
      /\ \A d \in Channels \ {c} : ch'[d] = ch[d]
  BY <1>0, TakeCalm
<1>4. AllCalm
  BY <1>3 DEF AllCalm
<1>5. SourceExact' /\ SortExact' /\ ConnExact'
  BY <1>0, <1>3, <1>4, Typed, SourceRests, SortKept, ConnKept DEF ExactInv
<1>6. MergeExact'
  BY <1>0, <1>2, <1>3, <1>4, SumsKept
<1>7. WriteExact' /\ ShownExact'
  BY <1>0, <1>3, <1>4, MainKept
<1> QED
  BY <1>5, <1>6, <1>7 DEF ExactInv

-----------------------------------------------------------------------------
(* What fails.                                                             *)

\* Where something has failed, little is said of the end of the run.
LEMMA MainFailed ==
    ASSUME OrderInv, ExactInv, AllCalm, failed', UNCHANGED <<job, main>>
    PROVE  WriteExact' /\ ShownExact'
<1>1. main # "write" => Drained(Root)'
  BY WrittenStays DEF ExactInv, WriteExact
<1> QED
  BY <1>1 DEF ExactInv, WriteExact, ShownExact

LEMMA ReadFailsExact == ASSUME OrderInv, ExactInv, NEW c \in Files, ReadFails(c) PROVE ExactInv'
<1>0. /\ ChOK /\ Shown \in Channels /\ Close(c) /\ failed'
      /\ UNCHANGED <<job, reader, sorted, conn, head, main, disk, short>>
  BY Typed, ChannelsOf DEF ReadFails
<1>1. CASE c = Shown
  <2>1. \A d \in Channels \ {Shown} : Calm(d) /\ ch'[d] = ch[d]
    BY <1>0, <1>1, ShownCalm
  <2>2. AllCalm
    BY <2>1 DEF AllCalm
  <2>3. SourceExact' /\ SortExact' /\ ConnExact' /\ MergeExact'
    BY <1>0, <2>1, <2>2, Typed, SourceRests, SortKept, ConnKept, MergesKept DEF ExactInv
  <2> QED
    BY <1>0, <2>2, <2>3, MainFailed DEF ExactInv
<1>2. CASE c # Shown
  <2>1. PICK i \in Chunks : c = Source(i)
    BY <1>2 DEF Files
  <2>2. /\ c \in Channels \ {Shown} /\ (\A p : c # Merge(p))
        /\ \A j \in Chunks : c # Sort(j) /\ c # Recv(j) /\ c # Net(j) /\ (j # i => c # Source(j))
    BY <2>1, Typed, Apart, Distinct
  <2>3. /\ \A d \in Channels \ {Shown} : Calm(d) /\ ch'[d].sent = ch[d].sent /\ ch'[d].got = ch[d].got
        /\ \A d \in Channels \ {c} : ch'[d] = ch[d]
    BY <1>0, <2>2, CloseCalm
  <2>4. AllCalm
    BY <2>3 DEF AllCalm
  <2>5. \A j \in Chunks : ch'[Sort(j)] = ch[Sort(j)] /\ ch'[Recv(j)] = ch[Recv(j)] /\ ch'[Net(j)] = ch[Net(j)]
    BY <2>2, <2>3, Typed
  <2>6. SourceExact'
    <3>1. ASSUME NEW j \in Chunks, SourceOf(j) PROVE SourceOf(j)'
      <4>1. ch'[Source(j)].sent = ch[Source(j)].sent
        BY <2>3, Typed
      <4> QED
        BY <1>0, <3>1, <4>1, FileStays DEF SourceOf
    <3> QED
      BY <1>0, <3>1, FileStays, JobStays DEF ExactInv, SourceExact
  <2>7. SortExact' /\ ConnExact'
    BY <1>0, <2>4, <2>5, SortKept, ConnKept DEF ExactInv
  <2>8. MergeExact'
    BY <1>0, <2>2, <2>3, <2>4, SumsKept
  <2> QED
    BY <1>0, <2>4, <2>6, <2>7, <2>8, MainFailed DEF ExactInv
<1> QED
  BY <1>1, <1>2

LEMMA BreaksExact == ASSUME OrderInv, ExactInv, NEW i \in Chunks, Breaks(i) PROVE ExactInv'
<1>0. /\ UNCHANGED <<job, ch, reader, sorted, head, main, disk, short>> /\ ChOK /\ failed'
      /\ conn[i].state \in {"open", "closed"}
  BY Typed DEF Breaks
<1>1. PICK n \in 0..Len(conn[i].wire) :
        conn' = [conn EXCEPT ![i] = [state |-> "broken", wire |-> SubSeq(@.wire, 1, n)]]
  BY DEF Breaks
<1>2. AllCalm
  BY <1>0, OtherCalm, Typed DEF AllCalm
<1>3. /\ conn'[i].state = "broken" /\ conn'[i].wire = SubSeq(conn[i].wire, 1, n)
      /\ \A j \in Chunks : j # i => conn'[j] = conn[j]
  BY <1>1, ConnShape
<1>4. conn[i].wire = <<>> => conn'[i].wire = <<>>
  <2> SUFFICES ASSUME conn[i].wire = <<>> PROVE SubSeq(<<>>, 1, n) = <<>>
    BY <1>3
  <2>1. n = 0
    OBVIOUS
  <2> QED
    BY <2>1
<1>5. ConnOf(i)'
  <2>1. ConnOf(i)
    BY DEF ExactInv, ConnExact
  <2> QED
    BY <1>0, <1>3, <1>4, <2>1 DEF ConnOf, Drained, HasNext
<1>6. ConnExact'
  BY <1>0, <1>2, <1>3, <1>5, ConnUpdate
<1>7. SourceExact' /\ SortExact'
  BY <1>0, <1>2, SourceRests, SortKept DEF ExactInv
<1>8. MergeExact'
  BY <1>0, <1>2, MergesKept DEF ExactInv
<1> QED
  BY <1>0, <1>2, <1>6, <1>7, <1>8, MainFailed DEF ExactInv

LEMMA WriteFailsExact == ASSUME OrderInv, ExactInv, WriteFails PROVE ExactInv'
<1>0. /\ ChOK /\ UNCHANGED <<job, ch, reader, sorted, conn, head, short>>
      /\ main' = "print" /\ failed' /\ Drained(Root)
  BY Typed DEF WriteFails
<1>1. AllCalm
  BY <1>0, OtherCalm DEF AllCalm
<1>2. WriteExact' /\ ShownExact'
  BY <1>0, <1>1, WrittenStays DEF WriteExact, ShownExact
<1>3. SourceExact' /\ SortExact' /\ ConnExact' /\ MergeExact'
  BY <1>0, <1>1, SourceRests, SortKept, ConnKept, MergesKept DEF ExactInv
<1> QED
  BY <1>2, <1>3 DEF ExactInv

-----------------------------------------------------------------------------
(* Merge.                                                                  *)

\* The numbers that a sum is made of.
LEMMA Numbers ==
    ASSUME OrderInv, NEW p \in Merges, NEW V
    PROVE  /\ All(Merge(p), V) \in Nat /\ Got(Input(p, 1), V) \in Nat /\ Got(Input(p, 2), V) \in Nat
           /\ \A h : Held(h, V) \in {0, 1}
<1>1. All(Merge(p), V) \in Nat
  BY Typed, NumType DEF All
<1>2. Got(Input(p, 1), V) \in Nat /\ Got(Input(p, 2), V) \in Nat
  BY Typed, NumType DEF Got
<1> QED
  BY <1>1, <1>2 DEF Held

\* One term on each side grows alike.
LEMMA TakenIsHeld ==
    ASSUME OrderInv, NEW p \in Merges, MergeSum(p), job' = job, NEW s \in {1, 2}, NEW o \in {1, 2}, s # o,
           \A V \in Kinds : All(Merge(p), V)' = All(Merge(p), V),
           \A V \in Kinds : Held(head'[p][s], V) - Held(head[p][s], V) = Got(Input(p, s), V)' - Got(Input(p, s), V),
           \A V \in Kinds : Got(Input(p, s), V)' \in Nat,
           \A V \in Kinds : Got(Input(p, o), V)' = Got(Input(p, o), V),
           head'[p][o] = head[p][o]
    PROVE  MergeSum(p)'
<1> SUFFICES ASSUME NEW V \in Kinds
             PROVE  All(Merge(p), V)' + Held(head'[p][1], V) + Held(head'[p][2], V)
                        = Got(Input(p, 1), V)' + Got(Input(p, 2), V)'
  BY DEF MergeSum, Kinds, Held
<1> DEFINE a == All(Merge(p), V)
           x(u) == Held(head[p][u], V)  y(u) == Held(head'[p][u], V)
           g(u) == Got(Input(p, u), V)  h(u) == Got(Input(p, u), V)'
<1>1. /\ a \in Nat /\ \A u \in {1, 2} : x(u) \in Nat /\ y(u) \in Nat /\ g(u) \in Nat /\ h(u) \in Nat
      /\ All(Merge(p), V)' = a
      /\ a + x(1) + x(2) = g(1) + g(2)
      /\ y(s) - x(s) = h(s) - g(s) /\ h(o) = g(o) /\ y(o) = x(o)
  BY Numbers DEF MergeSum
<1> HIDE DEF a, x, y, g, h
<1>2. a + y(1) + y(2) = h(1) + h(2)
  <2>1. (s = 1 /\ o = 2) \/ (s = 2 /\ o = 1)
    OBVIOUS
  <2>2. CASE s = 1 /\ o = 2
    BY <1>1, <2>2
  <2>3. CASE s = 2 /\ o = 1
    BY <1>1, <2>3
  <2> QED
    BY <2>1, <2>2, <2>3
<1> QED
  BY <1>1, <1>2 DEF x, y, h

LEMMA ReceiveExact ==
    ASSUME OrderInv, ExactInv, NEW p \in Merges, NEW s \in {1, 2}, Receive(p, s)
    PROVE  ExactInv'
<1> DEFINE c == Input(p, s)
<1>0. /\ c \in Channels \ {Shown} /\ ChOK /\ Shown \in Channels /\ HeadType /\ TypeInv /\ job \in Jobs
      /\ UNCHANGED <<job, reader, sorted, conn, main, disk, short, failed>> /\ head[p][s] = None
  BY Typed, ChannelsOf DEF Receive, TypeInv
<1> DEFINE o == 3 - s
<1>1. o \in {1, 2} /\ s # o /\ \A u \in {1, 2} : u # s => u = o
  OBVIOUS
<1> HIDE DEF o
<1>2. /\ \A q \in Merges : \A u \in {1, 2} : (q # p \/ u # s) => Input(q, u) # c
      /\ \A q \in Merges : \A u \in {1, 2} : Input(q, u) \in Channels \ {Shown} /\ Merge(q) \in Channels \ {Shown}
      /\ \A q \in Merges : \A u \in {1, 2} : Input(q, u)' = Input(q, u)
  BY <1>0, MergesFacts, Typed, JobStays
<1>3. \A j \in Chunks : Source(j) \notin Feeds /\ Source(j) \in Channels \ {Shown} /\ c \in Feeds
  BY Apart, Typed
<1>4. MergeSum(p) /\ MergeEnds(p)
  BY DEF ExactInv, MergeExact
<1>5. ASSUME NEW x \in Heads, head' = [head EXCEPT ![p][s] = x], AllCalm, x # None,
             \A d \in Channels \ {Shown} : ch'[d].sent = ch[d].sent /\ ch'[d].closed = ch[d].closed,
             \A d \in Channels \ {c} : ch'[d] = ch[d],
             x = End => Drained(c) /\ ch'[c] = ch[c],
             \A V \in Kinds : Held(x, V) = Got(c, V)' - Got(c, V) /\ Got(c, V)' \in Nat
      PROVE  ExactInv'
  <2>1. /\ head'[p][s] = x
        /\ \A q \in Merges : \A u \in {1, 2} : (q # p \/ u # s) => head'[q][u] = head[q][u]
    <3>1. head' = [head EXCEPT ![p][s] = x]
      BY <1>5
    <3> HIDE DEF Heads
    <3> QED
      BY <1>0, <3>1 DEF HeadType
  <2>2. \A q \in Merges : q # p => head'[q] = head[q]
    <3>1. DOMAIN head = Merges
      BY <1>0 DEF HeadType
    <3> QED
      BY <1>5, <3>1
  <2>3. ASSUME NEW q \in Merges, q # p PROVE MergeSum(q)' /\ MergeEnds(q)'
    <3>1. \A u \in {1, 2} : Calm(Input(q, u)) /\ ch'[Input(q, u)].got = ch[Input(q, u)].got
      BY <1>2, <1>5, <2>3 DEF AllCalm
    <3>2. ch'[Merge(q)].sent = ch[Merge(q)].sent /\ ch'[Merge(q)].closed = ch[Merge(q)].closed
      BY <1>2, <1>5
    <3> QED
      BY <1>0, <2>2, <2>3, <3>1, <3>2, MergeOneKept DEF ExactInv, MergeExact
  <2>4. MergeSum(p)'
    <3>1. \A V \in Kinds : All(Merge(p), V)' = All(Merge(p), V)
      BY <1>2, <1>5 DEF All, Merge
    <3>2. \A V : Held(None, V) = 0
      BY HeadShape DEF Held
    <3>3. \A V \in Kinds : Held(head'[p][s], V) - Held(head[p][s], V) = Got(c, V)' - Got(c, V) /\ Got(c, V)' \in Nat
      <4>1. ASSUME NEW V \in Kinds
            PROVE Held(head'[p][s], V) - Held(head[p][s], V) = Got(c, V)' - Got(c, V) /\ Got(c, V)' \in Nat
        <5>1. Held(x, V) \in {0, 1}
          BY Numbers
        <5>2. Held(x, V) - 0 = Held(x, V)
          BY <5>1
        <5> QED
          BY <1>0, <1>5, <2>1, <3>2, <5>2
      <4> QED
        BY <4>1
    <3>4. \A V \in Kinds : Got(Input(p, o), V)' = Got(Input(p, o), V)
      <4>1. Input(p, o)' = Input(p, o) /\ ch'[Input(p, o)] = ch[Input(p, o)]
        BY <1>1, <1>2, <1>5
      <4> QED
        BY <4>1 DEF Got
    <3>5. head'[p][o] = head[p][o]
      BY <1>1, <2>1
    <3> QED
      BY <1>0, <1>1, <1>4, <3>1, <3>3, <3>4, <3>5, TakenIsHeld
  <2>5. MergeEnds(p)'
    <3>1. ~ch'[Merge(p)].closed
      <4>1. None # End
        BY HeadShape
      <4>2. head[p][1] # End \/ head[p][2] # End
        BY <1>0, <4>1
      <4> QED
        BY <1>2, <1>4, <1>5, <4>2 DEF MergeEnds
    <3>2. ASSUME NEW u \in {1, 2}, head'[p][u] = End PROVE Drained(Input(p, u))'
      <4>1. CASE u = s
        BY <1>2, <1>5, <2>1, <3>2, <4>1 DEF Drained, HasNext
      <4>2. CASE u # s
        <5>1. Drained(Input(p, u))
          BY <1>4, <2>1, <3>2, <4>2 DEF MergeEnds
        <5> QED
          BY <1>2, <1>5, <4>2, <5>1 DEF Drained, HasNext
      <4> QED
        BY <4>1, <4>2
    <3> QED
      BY <3>1, <3>2 DEF MergeEnds, Merge
  <2>6. MergeExact'
    BY <1>0, <2>3, <2>4, <2>5, JobStays DEF MergeExact
  <2>7. SourceExact' /\ SortExact' /\ ConnExact'
    BY <1>0, <1>5, Typed, SourceRests, SortKept, ConnKept DEF ExactInv
  <2>8. WriteExact' /\ ShownExact'
    BY <1>0, <1>5, MainKept
  <2> QED
    BY <2>6, <2>7, <2>8 DEF ExactInv
<1>6. CASE HasNext(c) /\ head' = [head EXCEPT ![p][s] = Has(NextOf(c))] /\ Take(c)
  <2> DEFINE x == Has(NextOf(c))  n == ch[c].got
  <2>1. /\ n \in Nat /\ n < Len(ch[c].sent) /\ Len(ch[c].sent) \in Nat /\ ch[c].sent \in Seq(Values)
    BY <1>0, <1>6, Typed DEF HasNext
  <2>2. NextOf(c) \in Values /\ NextOf(c) = ch[c].sent[n + 1]
    BY <2>1 DEF NextOf
  <2>3. /\ x \in Heads /\ x.state = "has" /\ x.v = NextOf(c) /\ x # None /\ x # End
    BY <2>2, HeadShape
  <2> HIDE DEF x
  <2>4. /\ ch'[c].got = n + 1
        /\ \A d \in Channels \ {Shown} : Calm(d) /\ ch'[d].closed = ch[d].closed /\ ch'[d].sent = ch[d].sent
        /\ \A d \in Channels \ {c} : ch'[d] = ch[d]
    BY <1>0, <1>6, TakeCalm
  <2>5. ASSUME NEW V \in Kinds PROVE Held(x, V) = Got(c, V)' - Got(c, V) /\ Got(c, V)' \in Nat
    <3>1. Got(c, V)' = Num(ch[c].sent, n + 1, V)
      BY <1>0, <1>2, <2>4 DEF Got
    <3>2. Got(c, V) = Num(ch[c].sent, n, V)
      BY DEF Got
    <3>3. Held(x, V) = IF ch[c].sent[n + 1] \in V THEN 1 ELSE 0
      BY <2>2, <2>3 DEF Held
    <3>4. Num(ch[c].sent, n + 1, V) = Num(ch[c].sent, n, V) + (IF ch[c].sent[n + 1] \in V THEN 1 ELSE 0)
      BY <2>1, NumNext
    <3>5. Num(ch[c].sent, n, V) \in Nat
      BY <2>1, NumType
    <3> DEFINE e == Num(ch[c].sent, n, V)  f == Num(ch[c].sent, n + 1, V)  h == Held(x, V)
    <3>6. e \in Nat /\ h \in {0, 1} /\ f = e + h
      BY <3>3, <3>4, <3>5
    <3> HIDE DEF e, f, h
    <3>7. h = f - e /\ f \in Nat
      BY <3>6
    <3> QED
      BY <3>1, <3>2, <3>7 DEF e, f, h
  <2>6. AllCalm
    BY <2>4 DEF AllCalm
  <2>7. head' = [head EXCEPT ![p][s] = x]
    BY <1>6 DEF x
  <2> HIDE DEF c
  <2> QED
    BY <1>5, <2>3, <2>4, <2>5, <2>6, <2>7
<1>7. CASE Drained(c) /\ head' = [head EXCEPT ![p][s] = End] /\ UNCHANGED ch
  <2>1. AllCalm
    BY <1>0, <1>7, OtherCalm DEF AllCalm
  <2>2. ASSUME NEW V \in Kinds PROVE Held(End, V) = Got(c, V)' - Got(c, V) /\ Got(c, V)' \in Nat
    <3>1. Got(c, V)' = Got(c, V)
      BY <1>2, <1>7 DEF Got
    <3>2. Got(c, V) \in Nat
      BY Numbers
    <3>3. Held(End, V) = 0
      BY HeadShape DEF Held
    <3> DEFINE g == Got(c, V)
    <3>4. g - g = 0
      <4>1. g \in Nat
        BY <3>2
      <4> HIDE DEF g
      <4> QED
        BY <4>1
    <3> QED
      BY <3>1, <3>2, <3>3, <3>4
  <2>3. End \in Heads /\ End # None
    BY HeadShape
  <2> HIDE DEF c
  <2> QED
    BY <1>5, <1>7, <2>1, <2>2, <2>3
<1> QED
  BY <1>6, <1>7 DEF Receive

LEMMA SendSmallerExact == ASSUME OrderInv, ExactInv, NEW p \in Merges, SendSmaller(p) PROVE ExactInv'
<1> DEFINE c == Merge(p)
<1>0. /\ c \in Channels \ {Shown} /\ ChOK /\ Shown \in Channels /\ HeadType /\ TypeInv /\ job \in Jobs
      /\ UNCHANGED <<job, reader, sorted, conn, main, disk, short, failed>> /\ p \in Spans(job.count) /\ job.count \in Nat
  BY Typed, ChannelsOf, MergesFacts DEF SendSmaller, TypeInv
<1>1. PICK s \in {1, 2}, o \in {1, 2} :
        /\ s # o /\ Send(c, head[p][s].v) /\ head' = [head EXCEPT ![p][s] = None]
        /\ head[p][s].v \in Values /\ head[p][s].state = "has"
  BY <1>0, SmallerSent
<1> DEFINE v == head[p][s].v
<1>2. MergeSum(p) /\ MergeEnds(p)
  BY DEF ExactInv, MergeExact
<1>3. head[p][s] # End
  BY <1>1, HeadShape
<1>4. ~ch[c].closed
  BY <1>1, <1>2, <1>3 DEF MergeEnds
<1>5. /\ \A q \in Merges : q # p => Merge(q) # c
      /\ \A j \in Chunks : c # Source(j) /\ c # Sort(j) /\ c # Recv(j) /\ c # Net(j)
      /\ \A q \in Merges : \A u \in {1, 2} : /\ Input(q, u) \in Channels \ {Shown}
                                             /\ Merge(q) \in Channels \ {Shown}
                                             /\ Input(q, u)' = Input(q, u)
  <2>1. \A q \in Merges : q \in Spans(job.count)
    BY <1>0, MergesFacts
  <2> QED
    BY <1>0, <2>1, Distinct, Typed, JobStays
<1>6. v \in Values /\ Send(c, v)
  BY <1>1
<1>15. head[p][s].state = "has" /\ head[p][s].v = v
  BY <1>1
<1> HIDE DEF c, v
<1>7. /\ ch'[c].sent = Append(ch[c].sent, v)
      /\ \A d \in Channels \ {Shown} : Calm(d) /\ ch'[d].closed = ch[d].closed /\ ch'[d].got = ch[d].got
      /\ \A d \in Channels \ {c} : ch'[d] = ch[d]
  BY <1>0, <1>4, <1>6, SendCalm
<1>8. AllCalm
  BY <1>7 DEF AllCalm
<1>9. /\ head'[p][s] = None /\ head'[p][o] = head[p][o]
      /\ \A q \in Merges : q # p => head'[q] = head[q]
  BY <1>0, <1>1 DEF HeadType
<1>10. ASSUME NEW q \in Merges, q # p PROVE MergeSum(q)' /\ MergeEnds(q)'
  <2>1. \A u \in {1, 2} : Calm(Input(q, u)) /\ ch'[Input(q, u)].got = ch[Input(q, u)].got
    BY <1>5, <1>7
  <2>2. ch'[Merge(q)].sent = ch[Merge(q)].sent /\ ch'[Merge(q)].closed = ch[Merge(q)].closed
    BY <1>5, <1>7, <1>10
  <2> QED
    BY <1>0, <1>9, <1>10, <2>1, <2>2, MergeOneKept DEF ExactInv, MergeExact
<1>11. MergeSum(p)'
  <2> SUFFICES ASSUME NEW V \in Kinds
               PROVE  All(Merge(p), V)' + Held(head'[p][1], V) + Held(head'[p][2], V)
                          = Got(Input(p, 1), V)' + Got(Input(p, 2), V)'
    BY DEF MergeSum, Kinds, Held
  <2> DEFINE a == All(Merge(p), V)  b == All(Merge(p), V)'
             x(u) == Held(head[p][u], V)  y(u) == Held(head'[p][u], V)
             g(u) == Got(Input(p, u), V)  h(u) == Got(Input(p, u), V)'
             e == IF v \in V THEN 1 ELSE 0
  <2>1. \A u \in {1, 2} : h(u) = g(u)
    BY <1>5, <1>7, GotStays DEF Got
  <2>2. b = a + e
    <3> DEFINE r == ch[c].sent  t == Append(r, v)  n == Len(r)
    <3>1. r \in Seq(Values) /\ n \in Nat
      BY <1>0, Typed
    <3>2. a = Num(r, n, V) /\ b = Num(t, Len(t), V)
      BY <1>7 DEF All, c, Merge
    <3> HIDE DEF r
    <3>3. Len(t) = n + 1 /\ t[n + 1] = v /\ \A k \in 1..n : t[k] = r[k]
      BY <1>6, <3>1, Appended
    <3> HIDE DEF t, n
    <3>4. Num(t, n + 1, V) = Num(t, n, V) + (IF t[n + 1] \in V THEN 1 ELSE 0)
      BY <3>1, NumNext
    <3>5. Num(t, n, V) = Num(r, n, V)
      BY <3>1, <3>3, NumSame
    <3> HIDE DEF a, b
    <3> QED
      BY <3>2, <3>3, <3>4, <3>5
  <2>3. x(s) = e /\ y(s) = 0 /\ y(o) = x(o)
    <3>1. x(s) = e
      BY <1>15 DEF Held
    <3>2. y(s) = 0
      BY <1>9, HeadShape DEF Held
    <3> QED
      BY <1>9, <3>1, <3>2
  <2>4. /\ a \in Nat /\ e \in {0, 1} /\ \A u \in {1, 2} : x(u) \in Nat /\ g(u) \in Nat
        /\ a + x(1) + x(2) = g(1) + g(2)
    BY <1>2, Numbers DEF MergeSum
  <2> HIDE DEF a, b, x, y, g, h, e
  <2>5. b + y(1) + y(2) = h(1) + h(2)
    <3>1. (s = 1 /\ o = 2) \/ (s = 2 /\ o = 1)
      BY <1>1
    <3>2. CASE s = 1 /\ o = 2
      BY <2>1, <2>2, <2>3, <2>4, <3>2
    <3>3. CASE s = 2 /\ o = 1
      BY <2>1, <2>2, <2>3, <2>4, <3>3
    <3> QED
      BY <3>1, <3>2, <3>3
  <2> QED
    BY <2>5 DEF b, y, h
<1>12. MergeEnds(p)'
  <2>1. ASSUME NEW u \in {1, 2}, head'[p][u] = End PROVE Drained(Input(p, u))'
    <3>1. None # End
      BY HeadShape
    <3>2. u # s
      BY <1>9, <2>1, <3>1
    <3>3. u = o
      BY <1>1, <3>2
    <3>4. Drained(Input(p, u))
      BY <1>2, <1>9, <2>1, <3>3 DEF MergeEnds
    <3>5. ch'[Input(p, u)].closed /\ ~(ch'[Input(p, u)].got < Len(ch'[Input(p, u)].sent))
      BY <1>0, <1>5, <1>7, <3>4, Rests
    <3> QED
      BY <1>5, <3>5 DEF Drained, HasNext
  <2>2. ~ch'[c].closed
    BY <1>0, <1>4, <1>7
  <2> QED
    BY <2>1, <2>2 DEF MergeEnds, c, Merge
<1>13. MergeExact'
  BY <1>0, <1>10, <1>11, <1>12, JobStays DEF MergeExact
<1>14. SourceExact' /\ SortExact' /\ ConnExact'
  BY <1>0, <1>5, <1>7, <1>8, Typed, SourceRests, SortKept, ConnKept DEF ExactInv
<1>16. WriteExact' /\ ShownExact'
  BY <1>0, <1>7, <1>8, MainKept
<1> QED
  BY <1>13, <1>14, <1>16 DEF ExactInv

LEMMA EndMergeExact == ASSUME OrderInv, ExactInv, NEW p \in Merges, EndMerge(p) PROVE ExactInv'
<1> DEFINE c == Merge(p)
<1>0. /\ c \in Channels \ {Shown} /\ ChOK /\ Shown \in Channels /\ job \in Jobs
      /\ UNCHANGED <<job, reader, sorted, conn, head, main, disk, short, failed>> /\ job.count \in Nat
      /\ head[p][1] = End /\ head[p][2] = End /\ Close(c) /\ p \in Spans(job.count)
  BY Typed, ChannelsOf, MergesFacts DEF EndMerge
<1>1. /\ \A q \in Merges : q # p => Merge(q) # c
      /\ \A j \in Chunks : c # Source(j) /\ c # Sort(j) /\ c # Recv(j) /\ c # Net(j)
      /\ \A q \in Merges : \A u \in {1, 2} : /\ Input(q, u) \in Channels \ {Shown}
                                             /\ Merge(q) \in Channels \ {Shown}
                                             /\ Input(q, u)' = Input(q, u)
  <2>1. \A q \in Merges : q \in Spans(job.count)
    BY <1>0, MergesFacts
  <2> QED
    BY <1>0, <2>1, Distinct, Typed, JobStays
<1> HIDE DEF c
<1>2. /\ \A d \in Channels \ {Shown} : Calm(d) /\ ch'[d].sent = ch[d].sent /\ ch'[d].got = ch[d].got
      /\ \A d \in Channels \ {c} : ch'[d] = ch[d]
  BY <1>0, CloseCalm
<1>3. AllCalm
  BY <1>2 DEF AllCalm
<1>4. ASSUME NEW q \in Merges PROVE MergeSum(q)' /\ MergeEnds(q)'
  <2>1. MergeSum(q) /\ MergeEnds(q)
    BY DEF ExactInv, MergeExact
  <2>2. MergeSum(q)'
    <3>1. \A u \in {1, 2} : /\ Input(q, u)' = Input(q, u)
                            /\ ch'[Input(q, u)].sent = ch[Input(q, u)].sent
                            /\ ch'[Input(q, u)].got = ch[Input(q, u)].got
      BY <1>1, <1>2
    <3>2. ch'[Merge(q)].sent = ch[Merge(q)].sent
      BY <1>1, <1>2
    <3>3. \A V : /\ All(Merge(q), V)' = All(Merge(q), V)
                 /\ \A u \in {1, 2} : Got(Input(q, u), V)' = Got(Input(q, u), V)
      BY <3>1, <3>2 DEF All, Got, Merge
    <3> QED
      BY <1>0, <2>1, <3>3 DEF MergeSum, Kinds, Held
  <2>3. MergeEnds(q)'
    <3>1. ASSUME NEW u \in {1, 2}, head[q][u] = End PROVE Drained(Input(q, u))'
      <4>1. Drained(Input(q, u))
        BY <2>1, <3>1 DEF MergeEnds
      <4>2. ch'[Input(q, u)].closed /\ ~(ch'[Input(q, u)].got < Len(ch'[Input(q, u)].sent))
        BY <1>0, <1>1, <1>2, <4>1, Rests
      <4> QED
        BY <1>1, <4>2 DEF Drained, HasNext
    <3>2. q # p => ch'[Merge(q)].closed = ch[Merge(q)].closed
      BY <1>1, <1>2
    <3>3. head' = head
      BY <1>0
    <3> QED
      BY <1>0, <2>1, <3>1, <3>2, <3>3 DEF MergeEnds, Merge
  <2> QED
    BY <2>2, <2>3
<1>5. MergeExact'
  BY <1>0, <1>4, JobStays DEF MergeExact
<1>6. SourceExact' /\ SortExact' /\ ConnExact'
  BY <1>0, <1>1, <1>2, <1>3, Typed, SourceRests, SortKept, ConnKept DEF ExactInv
<1>7. WriteExact' /\ ShownExact'
  BY <1>0, <1>2, <1>3, MainKept
<1> QED
  BY <1>5, <1>6, <1>7 DEF ExactInv

-----------------------------------------------------------------------------
(* main.                                                                   *)

LEMMA WrittenIs ==
    ASSUME OrderInv
    PROVE  /\ Written \in Seq(Values) /\ Len(Written) = ch[Root].got
           /\ \A k \in 1..ch[Root].got : Written[k] = ch[Root].sent[k]
<1> DEFINE s == ch[Root].sent  g == ch[Root].got  t == SubSeq(s, 1, g)
<1>1. s \in Seq(Values) /\ g \in Nat /\ g <= Len(s)
  BY Typed
<1>2. \A k \in 1..g : s[k] \in Values
  BY <1>1
<1>3. Written = t
  BY DEF Written
<1> HIDE DEF s, g
<1>4. /\ t \in Seq(Values) /\ Len(t) = (IF 1 <= g THEN g - 1 + 1 ELSE 0)
      /\ \A k \in 1..g - 1 + 1 : t[k] = s[1 + k - 1]
  BY <1>1, <1>2, SubSeqProperties
<1>5. Len(t) = g /\ \A k \in 1..g : t[k] = s[k]
  <2>1. Len(t) = g
    BY <1>1, <1>4
  <2>2. ASSUME NEW k \in 1..g PROVE t[k] = s[k]
    <3>1. k \in 1..g - 1 + 1 /\ 1 + k - 1 = k
      BY <1>1
    <3> QED
      BY <1>4, <3>1
  <2> QED
    BY <2>1, <2>2
<1> QED
  BY <1>3, <1>4, <1>5 DEF s, g

LEMMA WriteValueExact == ASSUME OrderInv, ExactInv, WriteValue PROVE ExactInv'
<1> DEFINE c == Root
<1>0. /\ c \in Channels \ {Shown} /\ ChOK /\ Shown \in Channels /\ job \in Jobs
      /\ HasNext(c) /\ Take(c) /\ UNCHANGED <<job, reader, sorted, conn, head, main, disk, short, failed>>
      /\ main = "write"
  BY Typed, ChannelsOf DEF WriteValue
<1>1. \A p \in Merges : \A s \in {1, 2} : Input(p, s) # c
  BY <1>0, MergesFacts
<1> HIDE DEF c
<1>2. /\ \A d \in Channels \ {Shown} : Calm(d) /\ ch'[d].sent = ch[d].sent /\ ch'[d].closed = ch[d].closed
      /\ \A d \in Channels \ {c} : ch'[d] = ch[d]
  BY <1>0, TakeCalm
<1>3. AllCalm
  BY <1>2 DEF AllCalm
<1>4. MergeExact'
  BY <1>0, <1>1, <1>2, <1>3, Typed, MergesKept DEF ExactInv
<1>5. SourceExact' /\ SortExact' /\ ConnExact'
  BY <1>0, <1>2, <1>3, Typed, SourceRests, SortKept, ConnKept DEF ExactInv
<1>6. WriteExact' /\ ShownExact'
  BY <1>0, <1>2, <1>3, MainKept
<1> QED
  BY <1>4, <1>5, <1>6 DEF ExactInv

LEMMA EndWriteExact == ASSUME OrderInv, ExactInv, EndWrite PROVE ExactInv'
<1>0. /\ ChOK /\ UNCHANGED <<job, ch, reader, sorted, conn, head, short, failed>>
      /\ main = "write" /\ main' = "print" /\ disk' = Bytes(Written) /\ Drained(Root)
  BY Typed DEF EndWrite
<1>1. AllCalm
  BY <1>0, OtherCalm DEF AllCalm
<1>2. Written' = Written /\ Drained(Root)'
  BY <1>0, <1>1, WrittenStays
<1>3. WriteExact'
  BY <1>0, <1>2 DEF WriteExact, Bytes
<1>4. ShownExact'
  <2>1. ~failed => /\ ch[Shown] \in Channel /\ reader[Shown] \in [read : Nat, buf : Buffers]
                   /\ ch[Shown] = Open /\ reader[Shown].read = 0
    BY <1>0 DEF ExactInv, ShownExact
  <2>2. Len(Written) \in Nat /\ Word \in Nat /\ PrintMax \in Nat \ {0} /\ 0 * Word = 0
    BY WrittenIs, SortAssumption
  <2>3. Shows(Open, 0, Written, "print")
    <3>1. Open.sent = <<>> /\ Open.got = 0 /\ Open.closed = FALSE /\ Len(<<>>) = 0
      BY DEF Open
    <3> QED
      BY <2>2, <3>1 DEF Shows
  <2> QED
    BY <1>0, <1>2, <2>1, <2>3 DEF ShownExact, Shows, Shown, Open
<1>5. SourceExact' /\ SortExact' /\ ConnExact' /\ MergeExact'
  BY <1>0, <1>1, SourceRests, SortKept, ConnKept, MergesKept DEF ExactInv
<1> QED
  BY <1>3, <1>4, <1>5 DEF ExactInv

\* What printFile and its reader do.
LEMMA ShownSteps ==
    ASSUME OrderInv, ExactInv, NEW v, ch' = ch \/ Send(Shown, v) \/ Take(Shown) \/ Close(Shown),
           UNCHANGED <<job, sorted, conn, head, disk, short>>, failed => failed',
           main = "print", main' \in {"print", "done"},
           \A c \in Readers \ {Shown} : reader'[c] = reader[c],
           ~failed' => /\ ch'[Shown] \in Channel /\ reader'[Shown] \in [read : Nat, buf : Buffers]
                       /\ Shows(ch'[Shown], reader'[Shown].read, Written, main')
    PROVE  ExactInv'
<1>1. ChOK /\ \A d \in Channels \ {Shown} : Calm(d) /\ ch'[d] = ch[d]
  BY Typed, ShownCalm
<1>2. AllCalm
  BY <1>1 DEF AllCalm
<1>3. Drained(Root) /\ (~failed => disk = Bytes(Written))
  BY DEF ExactInv, WriteExact
<1>4. Written' = Written /\ Drained(Root)'
  BY <1>2, <1>3, WrittenStays
<1>5. WriteExact'
  BY <1>3, <1>4 DEF WriteExact, Bytes
<1>6. ShownExact'
  BY <1>4 DEF ShownExact, Shows, Shown
<1>7. SourceExact'
  <2>1. \A i \in Chunks : Source(i) \in Readers \ {Shown}
    BY Distinct DEF Readers
  <2> QED
    BY <1>1, <2>1, Typed, SourceKept DEF ExactInv
<1>8. SortExact' /\ ConnExact' /\ MergeExact'
  BY <1>1, <1>2, Typed, SortKept, ConnKept, MergesKept DEF ExactInv
<1> QED
  BY <1>5, <1>6, <1>7, <1>8 DEF ExactInv

LEMMA ShownShape ==
    ASSUME OrderInv, ExactInv, main = "print", ~failed
    PROVE  /\ ch[Shown] \in Channel /\ reader[Shown] \in [read : Nat, buf : Buffers]
           /\ DOMAIN ch = Channels /\ DOMAIN reader = Readers /\ Shown \in Channels /\ Shown \in Readers
           /\ Shows(ch[Shown], reader[Shown].read, Written, "print")
           /\ Spells(disk, Written, Len(Written)) /\ Written \in Seq(Values)
           /\ Rest(Shown) = SubSeq(disk, reader[Shown].read + 1, Len(disk)) /\ Shown[1] = "print"
<1>1. /\ ch[Shown] \in Channel /\ reader[Shown] \in [read : Nat, buf : Buffers]
      /\ Shows(ch[Shown], reader[Shown].read, Written, "print")
  BY DEF ExactInv, ShownExact
<1>2. DOMAIN ch = Channels /\ DOMAIN reader = Readers
  BY Typed DEF ChOK, TypeInv, ReaderOK
<1>3. Written \in Seq(Values) /\ disk = Bytes(Written)
  BY WrittenIs DEF ExactInv, WriteExact
<1>4. Spells(disk, Written, Len(Written))
  BY <1>3, BytesSpell
<1>5. Shown \in Readers /\ Shown \in Channels /\ Shown[1] = "print"
  BY DEF Readers, Channels, Shown
<1>6. Rest(Shown) = SubSeq(disk, reader[Shown].read + 1, Len(disk))
  BY DEF Rest, Shown
<1> QED
  BY <1>1, <1>2, <1>3, <1>4, <1>5, <1>6

\* After a failure nothing more is said of what is shown.
LEMMA ShownFailed ==
    ASSUME OrderInv, ExactInv, failed, Reading(Shown) \/ PrintValue \/ EndPrint
    PROVE  ExactInv'
<1>1. PICK v : ch' = ch \/ Send(Shown, v) \/ Take(Shown) \/ Close(Shown)
  BY DEF Reading, ReadValue, EndSource, PrintValue, EndPrint
<1>2. main = "print" /\ main' \in {"print", "done"}
  BY DEF Reading, ReadValue, EndSource, PrintValue, EndPrint
<1>3. UNCHANGED <<job, sorted, conn, head, disk, short, failed>>
  BY DEF Reading, ReadValue, EndSource, PrintValue, EndPrint, Shown
<1>4. \A c \in Readers \ {Shown} : reader'[c] = reader[c]
  BY Typed DEF Reading, ReadValue, EndSource, PrintValue, EndPrint, TypeInv, ReaderOK
<1> QED
  BY <1>1, <1>2, <1>3, <1>4, ShownSteps

LEMMA ReadShownExact == ASSUME OrderInv, ExactInv, ReadValue(Shown) PROVE ExactInv'
<1> SUFFICES ASSUME ~failed PROVE ExactInv'
  BY ShownFailed DEF Reading
<1> DEFINE r == ch[Shown]  n == Len(r.sent)  a == n * Word  N == Len(Written)  w == Written
           b == WordIn(disk, a)  v == Decode[b]  t == Append(r.sent, v)
<1>0. main = "print" /\ main' = main /\ Word \in Nat \ {0}
  BY Constants DEF ReadValue
<1>1. /\ r \in Channel /\ reader[Shown] \in [read : Nat, buf : Buffers]
      /\ DOMAIN ch = Channels /\ DOMAIN reader = Readers /\ Shown \in Channels /\ Shown \in Readers
      /\ Shows(r, reader[Shown].read, w, "print")
      /\ Spells(disk, w, N) /\ w \in Seq(Values) /\ Shown[1] # "recv"
      /\ Rest(Shown) = SubSeq(disk, reader[Shown].read + 1, Len(disk))
  BY <1>0, ShownShape
<1>2. n \in Nat /\ N \in Nat /\ a \in Nat /\ reader[Shown].read = a /\ n <= N
  <2>1. n \in Nat /\ N \in Nat
    BY <1>1 DEF Channel
  <2> HIDE DEF r, n
  <2>2. a \in Nat
    BY <1>0, <2>1, Larger
  <2> QED
    BY <1>1, <2>1, <2>2 DEF Shows, n
<1>3. disk \in Seq(Byte) /\ Len(disk) = N * Word
  BY <1>1 DEF Spells
<1>4. n < N /\ a + Word <= Len(disk)
  <2>1. Len(Rest(Shown)) # 0
    BY <1>1, ReadMore
  <2> HIDE DEF a
  <2>2. ~(Len(disk) <= a)
    BY <1>1, <1>2, <1>3, <2>1, RestOf
  <2>3. Len(disk) \in Nat
    BY <1>3
  <2>4. a < N * Word
    BY <1>2, <1>3, <2>2, <2>3
  <2> HIDE DEF n, N
  <2>5. n < N /\ n * Word + Word <= N * Word
    BY <1>0, <1>2, <2>4, Larger DEF a
  <2> QED
    BY <1>3, <2>5 DEF a
<1>5. /\ b \in Buffers /\ Send(Shown, v) /\ ~r.closed
      /\ reader'[Shown] = [read |-> a + Word, buf |-> b]
      /\ \A d \in Readers \ {Shown} : reader'[d] = reader[d]
      /\ UNCHANGED <<job, sorted, conn, head, main, disk, short, failed>>
  <2> HIDE DEF a
  <2> QED
    BY <1>1, <1>2, <1>3, <1>4, ReadWord
<1>6. v = w[n + 1] /\ v \in Values
  <2> HIDE DEF n, N, a
  <2>1. n + 1 \in 1..N /\ (n + 1) - 1 = n
    BY <1>2, <1>4
  <2>2. w[n + 1] \in Values
    BY <1>1, <2>1 DEF N
  <2>3. Encode[w[n + 1]] \in Buffers /\ Decode[Encode[w[n + 1]]] = w[n + 1]
    BY <2>2, Constants
  <2>4. \A j \in 1..Word : b[j] = Encode[w[n + 1]][j]
    BY <1>1, <2>1 DEF WordIn, Spells, a
  <2> HIDE DEF b, w
  <2>5. b = Encode[w[n + 1]]
    BY <1>5, <2>3, <2>4, SameBuffer
  <2> QED
    BY <2>2, <2>3, <2>5
<1>7. ch'[Shown] = [r EXCEPT !.sent = t]
  BY <1>1, <1>5 DEF Send
<1>8. /\ r.sent \in Seq(Values) /\ t \in Seq(Values) /\ Len(t) = n + 1 /\ t[n + 1] = v
      /\ \A k \in 1..n : t[k] = r.sent[k]
  <2>1. r.sent \in Seq(Values)
    BY <1>1 DEF Channel
  <2> HIDE DEF v, r
  <2> QED
    BY <1>6, <2>1, Appended
<1> HIDE DEF t, v, b
<1>9. ch'[Shown] \in Channel /\ ch'[Shown].sent = t /\ ch'[Shown].got = r.got /\ ch'[Shown].closed = r.closed
  BY <1>1, <1>7, <1>8 DEF Channel
<1>10. Shows(ch'[Shown], a + Word, w, "print")
  <2>1. /\ reader[Shown].read = n * Word /\ r.got <= n /\ r.got \in Nat
        /\ (\A k \in 1..n : r.sent[k] = w[k]) /\ r.got < PrintMax
    BY <1>1 DEF Shows, Channel
  <2> HIDE DEF n, r, w, N
  <2>2. (n + 1) * Word = a + Word
    BY <1>0, <1>2, Larger
  <2>3. \A k \in 1..n + 1 : t[k] = w[k]
    <3>1. ASSUME NEW k \in 1..n + 1 PROVE t[k] = w[k]
      <4>1. CASE k = n + 1
        BY <1>6, <1>8, <4>1
      <4>2. CASE k # n + 1
        <5>1. k \in 1..n
          BY <1>2, <4>2
        <5> QED
          BY <1>8, <2>1, <5>1
      <4> QED
        BY <4>1, <4>2
    <3> QED
      BY <3>1
  <2>4. n + 1 <= N /\ r.got <= n + 1
    BY <1>2, <1>4, <2>1
  <2>5. ~ch'[Shown].closed
    BY <1>5, <1>9
  <2> HIDE DEF a
  <2> DEFINE q == ch'[Shown]  m == Len(q.sent)
  <2>6. m = n + 1 /\ q.sent = t /\ q.got = r.got /\ ~q.closed
    BY <1>8, <1>9, <2>5
  <2>7. a + Word = m * Word
    BY <2>2, <2>6
  <2>8. m <= N /\ q.got <= m /\ (\A k \in 1..m : q.sent[k] = w[k]) /\ q.got < PrintMax
    BY <2>1, <2>3, <2>4, <2>6
  <2> DEFINE x == a + Word  z == m * Word
  <2>9. x = z /\ m <= Len(w)
    BY <2>7, <2>8 DEF N, w
  <2> HIDE DEF x, z, q
  <2>10. z = Len(q.sent) * Word
    BY DEF z
  <2>11. Shows(q, x, w, "print")
    BY <2>6, <2>8, <2>9, <2>10 DEF Shows
  <2> QED
    BY <2>11 DEF q, x
<1>11. a + Word \in Nat /\ reader'[Shown] \in [read : Nat, buf : Buffers] /\ reader'[Shown].read = a + Word
  <2> HIDE DEF a
  <2>1. a + Word \in Nat
    BY <1>0, <1>2
  <2> QED
    BY <1>5, <2>1
<1> QED
  BY <1>0, <1>5, <1>9, <1>10, <1>11, ShownSteps

LEMMA EndShownExact == ASSUME OrderInv, ExactInv, EndSource(Shown) PROVE ExactInv'
<1> SUFFICES ASSUME ~failed PROVE ExactInv'
  BY ShownFailed DEF Reading
<1> DEFINE r == ch[Shown]  n == Len(r.sent)  N == Len(Written)  w == Written
<1>0. /\ main = "print" /\ main' = main /\ Word \in Nat \ {0} /\ Close(Shown) /\ Rest(Shown) = <<>>
      /\ UNCHANGED <<job, reader, sorted, conn, head, disk, short, failed>>
  BY Constants DEF EndSource, Limited, Shown
<1>1. /\ r \in Channel /\ reader[Shown] \in [read : Nat, buf : Buffers]
      /\ DOMAIN ch = Channels /\ Shown \in Channels
      /\ Shows(r, reader[Shown].read, w, "print")
      /\ Spells(disk, w, N) /\ w \in Seq(Values)
      /\ Rest(Shown) = SubSeq(disk, reader[Shown].read + 1, Len(disk))
  BY <1>0, ShownShape
<1>2. n = N
  <2>1. n \in Nat /\ N \in Nat /\ n <= N /\ reader[Shown].read = n * Word
    BY <1>1 DEF Channel, Shows
  <2>2. disk \in Seq(Byte) /\ Len(disk) = N * Word /\ reader[Shown].read \in Nat
    BY <1>1 DEF Spells
  <2>3. Len(disk) <= reader[Shown].read
    BY <1>0, <1>1, <2>2, RestOf
  <2> HIDE DEF n, N
  <2>4. ~(n < N)
    <3>1. ~(n * Word < N * Word)
      BY <2>1, <2>2, <2>3
    <3> QED
      BY <1>0, <2>1, <3>1, Larger
  <2> QED
    BY <2>1, <2>4
<1>3. ch'[Shown] \in Channel /\ ch'[Shown].sent = r.sent /\ ch'[Shown].got = r.got
  BY <1>0, <1>1 DEF Close, Channel
<1>4. Shows(ch'[Shown], reader'[Shown].read, w, "print")
  BY <1>0, <1>1, <1>2, <1>3 DEF Shows
<1> QED
  BY <1>0, <1>1, <1>3, <1>4, ShownSteps

LEMMA PrintExact == ASSUME OrderInv, ExactInv, PrintValue \/ EndPrint PROVE ExactInv'
<1> SUFFICES ASSUME ~failed PROVE ExactInv'
  BY ShownFailed
<1> DEFINE r == ch[Shown]  n == Len(r.sent)  N == Len(Written)  w == Written
<1>0. /\ main = "print" /\ Word \in Nat \ {0} /\ PrintMax \in Nat \ {0}
      /\ UNCHANGED <<job, reader, sorted, conn, head, disk, short, failed>>
  BY SortAssumption DEF PrintValue, EndPrint
<1>1. /\ r \in Channel /\ reader[Shown] \in [read : Nat, buf : Buffers]
      /\ DOMAIN ch = Channels /\ Shown \in Channels
      /\ Shows(r, reader[Shown].read, w, "print") /\ w \in Seq(Values)
  BY <1>0, ShownShape
<1>2. n \in Nat /\ N \in Nat /\ n <= N /\ r.got \in Nat /\ r.got <= n /\ r.got < PrintMax
  BY <1>1 DEF Channel, Shows
<1>3. CASE PrintValue
  <2>1. r.got < n /\ Take(Shown) /\ main' = IF r.got + 1 >= PrintMax THEN "done" ELSE main
    BY <1>3 DEF PrintValue, HasNext
  <2>2. ch'[Shown] \in Channel /\ ch'[Shown].sent = r.sent /\ ch'[Shown].got = r.got + 1
        /\ ch'[Shown].closed = r.closed
    BY <1>1, <2>1 DEF Take, Channel
  <2>3. Shows(ch'[Shown], reader'[Shown].read, w, main')
    <3> DEFINE g == r.got
    <3>1. g + 1 <= n
      BY <1>2, <2>1
    <3>2. CASE g + 1 >= PrintMax
      <4>1. main' = "done" /\ g + 1 = PrintMax /\ ~(N < PrintMax)
        BY <1>0, <1>2, <2>1, <3>1, <3>2
      <4> QED
        BY <1>0, <1>1, <2>2, <3>1, <4>1 DEF Shows
    <3>3. CASE ~(g + 1 >= PrintMax)
      <4>1. main' = "print" /\ g + 1 < PrintMax
        BY <1>0, <1>2, <2>1, <3>3
      <4> QED
        BY <1>0, <1>1, <2>2, <3>1, <4>1 DEF Shows
    <3> QED
      BY <3>2, <3>3
  <2>4. main' \in {"print", "done"}
    BY <1>0, <2>1
  <2> QED
    BY <1>0, <1>1, <2>1, <2>2, <2>3, <2>4, ShownSteps
<1>4. CASE EndPrint
  <2>1. r.closed /\ ~(r.got < n) /\ main' = "done" /\ ch' = ch
    BY <1>4 DEF EndPrint, Drained, HasNext
  <2>2. r.got = N /\ N < PrintMax
    <3>1. n = N
      BY <1>1, <2>1 DEF Shows
    <3> HIDE DEF n, N
    <3> QED
      BY <1>2, <2>1, <3>1
  <2>3. Shows(ch'[Shown], reader'[Shown].read, w, main')
    BY <1>0, <1>1, <2>1, <2>2 DEF Shows
  <2> QED
    BY <1>0, <1>1, <2>1, <2>3, ShownSteps
<1> QED
  BY <1>3, <1>4

-----------------------------------------------------------------------------
(* What the invariant says of the result.                                  *)

LEMMA CountIsNum == ASSUME NEW s, NEW v PROVE Count(s, v) = Num(s, Len(s), {v})
<1>1. {k \in 1..Len(s) : s[k] = v} = {k \in 1..Len(s) : s[k] \in {v}}
  OBVIOUS
<1> QED
  BY <1>1 DEF Count, Num

\* Sequences in which every value is as often have as many of each kind.
LEMMA KindsAlike ==
    ASSUME NEW s \in Seq(Values), NEW t \in Seq(Values), Len(s) = Len(t),
           \A v \in Values : Count(s, v) = Count(t, v), NEW V \in Kinds
    PROVE  Num(s, Len(s), V) = Num(t, Len(t), V)
<1>1. CASE V = Values
  <2>1. Len(s) \in Nat /\ (\A k \in 1..Len(s) : s[k] \in V) /\ Len(t) \in Nat /\ \A k \in 1..Len(t) : t[k] \in V
    BY <1>1
  <2>2. Num(s, Len(s), V) = Len(s)
    BY <2>1, NumAll
  <2>3. Num(t, Len(t), V) = Len(t)
    BY <2>1, NumAll
  <2> QED
    BY <2>2, <2>3
<1>2. CASE \E v \in Values : V = {v}
  BY <1>2, CountIsNum
<1> QED
  BY <1>1, <1>2 DEF Kinds

\* A sorter that has left has sent what its chunk of the file holds.
LEMMA SortWhole ==
    ASSUME OrderInv, ExactInv, Aligned, ~failed, NEW i \in Chunks, ch[Sort(i)].closed, NEW V \in Kinds
    PROVE  Num(FileValues, i * Size, V) + All(Sort(i), V) = Num(FileValues, (i + 1) * Size, V)
<1> DEFINE a == sorted[i].a  t == ch[Sort(i)].sent  s == ch[Source(i)].sent  x == i * Size
<1>1. /\ Len(t) = Len(a) /\ Len(a) = Len(s) /\ (\A v \in Values : Count(a, v) = Count(s, v))
      /\ ch[Source(i)].closed
  BY DEF ExactInv, SortExact, SortOf, Drained
<1>2. a \in Seq(Values) /\ \A k \in 1..Len(t) : t[k] = a[k]
  BY DEF OrderInv, SortedOK
<1>3. s \in Seq(Values) /\ t \in Seq(Values) /\ Len(s) \in Nat /\ Len(t) \in Nat
  BY Typed
<1>4. Len(s) = Size /\ \A k \in 1..Len(s) : s[k] = FileValues[x + k]
  BY <1>1 DEF ExactInv, SourceExact, SourceOf
<1>5. Size \in Nat /\ x \in Nat /\ (i + 1) * Size = x + Size
  <2>1. i \in Nat /\ Size \in Nat
    BY Typed, Sizes DEF Chunks
  <2> DEFINE z == Size
  <2>2. z \in Nat
    BY <2>1
  <2> HIDE DEF z
  <2>3. i * z \in Nat /\ (i + 1) * z = i * z + z
    BY <2>1, <2>2
  <2> QED
    BY <2>2, <2>3 DEF z
<1> HIDE DEF a, t, s, x
<1>6. Num(t, Len(t), V) = Num(a, Len(a), V)
  BY <1>1, <1>2, <1>3, NumSame
<1>7. Num(a, Len(a), V) = Num(s, Len(s), V)
  BY <1>1, <1>2, <1>3, KindsAlike
<1>8. Num(FileValues, x + Size, V) = Num(FileValues, x, V) + Num(s, Size, V)
  <2> DEFINE f == FileValues  z == Size
  <2>1. z \in Nat /\ x \in Nat
    BY <1>5
  <2>2. \A k \in 1..z : f[x + k] = s[k]
    BY <1>4, <1>5
  <2> HIDE DEF f, z
  <2>4. Num(f, x + z, V) = Num(f, x, V) + Num(s, z, V)
    BY <2>1, <2>2, NumSplit, Z3
  <2> QED
    BY <2>4 DEF f, z
<1>9. All(Sort(i), V) = Num(s, Size, V)
  BY <1>4, <1>6, <1>7 DEF All, t
<1> QED
  BY <1>5, <1>8, <1>9 DEF x

\* What comes out of a connection is what went into it.
LEMMA NetWhole ==
    ASSUME OrderInv, ExactInv, ~short, ~failed, job.net, NEW i \in Chunks, ch[Net(i)].closed, NEW V
    PROVE  ch[Sort(i)].closed /\ All(Net(i), V) = All(Sort(i), V)
<1> DEFINE t == ch[Net(i)].sent  r == ch[Recv(i)].sent  s == ch[Sort(i)].sent  g == ch[Sort(i)].got
           m == Len(r)
<1>1. /\ t \in Seq(Values) /\ r \in Seq(Values) /\ s \in Seq(Values)
      /\ m \in Nat /\ g \in Nat /\ Len(s) \in Nat /\ g <= Len(s)
      /\ ch[Recv(i)].got \in Nat /\ ch[Recv(i)].got <= m
  BY Typed
<1>2. /\ ch[Recv(i)].closed /\ ~(ch[Recv(i)].got < m) /\ conn[i].wire = <<>>
      /\ ch[Sort(i)].closed /\ ~(g < Len(s)) /\ conn[i].state # "broken"
  BY DEF ExactInv, ConnExact, ConnOf, Drained, HasNext
<1>3. Len(t) = ch[Recv(i)].got /\ \A k \in 1..Len(t) : t[k] = r[k]
  BY DEF OrderInv, NetOK
<1>4. OnWire(r, s, g, <<>>) /\ Len(<<>>) = (g - m) * Word
  BY <1>2 DEF OrderInv, WireOK, WireOf
<1>5. m <= g /\ (\A k \in 1..m : r[k] = s[k]) /\ 0 = (g - m) * Word
  BY <1>4 DEF OnWire
<1> HIDE DEF t, r, s, g, m
<1>6. g = m
  <2>1. g - m \in Nat /\ Word \in Nat \ {0}
    BY <1>1, <1>5, Constants
  <2> DEFINE d == g - m
  <2>2. d \in Nat /\ d * Word = 0
    BY <1>5, <2>1
  <2> HIDE DEF d
  <2>3. d = 0
    BY <2>1, <2>2, Words
  <2> QED
    BY <1>1, <2>3 DEF d
<1>7. Len(t) = m /\ Len(s) = m
  BY <1>1, <1>2, <1>3, <1>6
<1>8. \A k \in 1..m : t[k] = s[k]
  BY <1>3, <1>5, <1>7
<1>9. Num(t, m, V) = Num(s, m, V)
  BY <1>1, <1>8, NumSame
<1> QED
  BY <1>2, <1>7, <1>9 DEF All, t, s

LEMMA MergeWhole ==
    ASSUME OrderInv, ExactInv, NEW p \in Merges, ch[Merge(p)].closed
    PROVE  /\ ch[Input(p, 1)].closed /\ ch[Input(p, 2)].closed
           /\ \A V \in Kinds : All(Merge(p), V) = All(Input(p, 1), V) + All(Input(p, 2), V)
<1>1. MergeSum(p) /\ MergeEnds(p)
  BY DEF ExactInv, MergeExact
<1>2. head[p][1] = End /\ head[p][2] = End /\ Drained(Input(p, 1)) /\ Drained(Input(p, 2))
  BY <1>1 DEF MergeEnds
<1>3. ASSUME NEW s \in {1, 2}, NEW V PROVE Got(Input(p, s), V) = All(Input(p, s), V)
  <2>1. ch[Input(p, s)].got = Len(ch[Input(p, s)].sent)
    BY <1>2, Typed DEF Drained, HasNext
  <2> QED
    BY <2>1 DEF Got, All
<1>4. \A V : Held(End, V) = 0
  BY HeadShape DEF Held
<1>5. ASSUME NEW V \in Kinds PROVE All(Merge(p), V) = All(Input(p, 1), V) + All(Input(p, 2), V)
  <2> DEFINE a == All(Merge(p), V)
  <2>1. a \in Nat /\ a + 0 + 0 = Got(Input(p, 1), V) + Got(Input(p, 2), V)
    BY <1>1, <1>2, <1>4, Numbers DEF MergeSum
  <2> HIDE DEF a
  <2>2. a = Got(Input(p, 1), V) + Got(Input(p, 2), V)
    BY <2>1
  <2> QED
    BY <1>3, <2>2 DEF a
<1> QED
  BY <1>2, <1>5 DEF Drained

\* Every stage that has left has sent the part of the file that is above it.
Whole(p) ==
    ch[Result(p[1], p[2])].closed => \A V \in Kinds :
        Num(FileValues, p[1] * Size, V) + All(Result(p[1], p[2]), V) = Num(FileValues, p[2] * Size, V)

LEMMA LeafWhole ==
    ASSUME OrderInv, ExactInv, Aligned, ~short, ~failed, NEW p \in Spans(job.count), p[2] - p[1] = 1
    PROVE  Whole(p)
<1> DEFINE i == p[1]
<1>1. job.count \in Nat /\ i \in Nat /\ p[2] \in Nat /\ p[1] < p[2] /\ p[2] <= job.count
  BY Typed, Constants, Halves
<1>2. i \in Chunks /\ p[2] = i + 1
  BY <1>1 DEF Chunks
<1> SUFFICES ASSUME ch[Result(p[1], p[2])].closed, NEW V \in Kinds
             PROVE  Num(FileValues, p[1] * Size, V) + All(Result(p[1], p[2]), V) = Num(FileValues, p[2] * Size, V)
  BY DEF Whole
<1>3. CASE job.net
  <2>1. Result(p[1], p[2]) = Net(i)
    BY <1>1, <1>3 DEF Result
  <2>2. ch[Sort(i)].closed /\ All(Net(i), V) = All(Sort(i), V)
    BY <1>2, <1>3, <2>1, NetWhole
  <2> QED
    BY <1>2, <2>1, <2>2, SortWhole
<1>4. CASE ~job.net
  <2>1. Result(p[1], p[2]) = Sort(i)
    BY <1>1, <1>4 DEF Result
  <2> QED
    BY <1>2, <2>1, SortWhole
<1> QED
  BY <1>3, <1>4

LEMMA HalvesWhole ==
    ASSUME OrderInv, ExactInv, Aligned, NEW p \in Merges, Whole(Half(p, 1)), Whole(Half(p, 2))
    PROVE  Whole(p)
<1> DEFINE m == Mid(p[1], p[2])
<1>1. /\ p \in Spans(job.count) /\ p[2] - p[1] > 1 /\ p[2] - p[1] # 1 /\ job.count \in Nat
      /\ \A s \in {1, 2} : Input(p, s) = Result(Half(p, s)[1], Half(p, s)[2])
  BY Typed, MergesFacts
<1>2. /\ p = <<p[1], p[2]>>
      /\ Half(p, 1)[1] = p[1] /\ Half(p, 1)[2] = m /\ Half(p, 2)[1] = m /\ Half(p, 2)[2] = p[2]
      /\ p[1] \in Nat /\ p[2] \in Nat /\ m \in Nat
  BY <1>1, Halves
<1>3. Result(p[1], p[2]) = Merge(p)
  BY <1>1, <1>2 DEF Result
<1> HIDE DEF m
<1> SUFFICES ASSUME ch[Merge(p)].closed, NEW V \in Kinds
             PROVE  Num(FileValues, p[1] * Size, V) + All(Merge(p), V) = Num(FileValues, p[2] * Size, V)
  BY <1>3 DEF Whole
<1>4. /\ ch[Input(p, 1)].closed /\ ch[Input(p, 2)].closed
      /\ All(Merge(p), V) = All(Input(p, 1), V) + All(Input(p, 2), V)
  BY MergeWhole
<1>5. /\ Num(FileValues, p[1] * Size, V) + All(Input(p, 1), V) = Num(FileValues, m * Size, V)
      /\ Num(FileValues, m * Size, V) + All(Input(p, 2), V) = Num(FileValues, p[2] * Size, V)
  BY <1>1, <1>2, <1>4 DEF Whole
<1>6. All(Input(p, 1), V) \in Nat /\ All(Input(p, 2), V) \in Nat
  BY Typed, NumType DEF All
<1>7. Num(FileValues, p[1] * Size, V) \in Nat
  <2> DEFINE f == FileValues  z == Size  n == p[1] * z
  <2>1. z \in Nat
    BY Typed, Sizes
  <2> HIDE DEF z
  <2>2. n \in Nat
    BY <1>2, <2>1
  <2> HIDE DEF f, n
  <2>3. Num(f, n, V) \in Nat
    BY <2>2, NumType
  <2> QED
    BY <2>3 DEF f, n, z
<1> QED
  BY <1>4, <1>5, <1>6, <1>7

LEMMA AllWhole ==
    ASSUME OrderInv, ExactInv, Aligned, ~short, ~failed
    PROVE  Whole(<<0, job.count>>)
<1> DEFINE n == job.count
           B == {p \in Spans(n) : (p[2] - p[1] = 1 \/ p \in Merges) /\ ~Whole(p)}
<1>1. /\ n \in Nat \ {0} /\ <<0, n>> \in Spans(n) /\ (n # 1 => <<0, n>> \in Merges)
      /\ \A p \in Merges : \A s \in {1, 2} :
            /\ p[2] - p[1] > 1 /\ Half(p, s) \in Spans(n)
            /\ Half(p, s)[2] - Half(p, s)[1] # 1 => Half(p, s) \in Merges
  BY Typed, MergesFacts
<1>2. ASSUME NEW p \in B PROVE p[2] - p[1] # 1 /\ (Half(p, 1) \in B \/ Half(p, 2) \in B)
  <2>1. p[2] - p[1] # 1 /\ p \in Merges
    BY LeafWhole
  <2>2. ~(Whole(Half(p, 1)) /\ Whole(Half(p, 2)))
    BY <2>1, HalvesWhole
  <2> QED
    BY <1>1, <2>1, <2>2
<1>3. B = {}
  <2>1. n \in Nat /\ B \subseteq Spans(n)
    BY <1>1
  <2> HIDE DEF B
  <2> QED
    BY <1>2, <2>1, ByHalves
<1>4. <<0, n>>[2] - <<0, n>>[1] = 1 \/ <<0, n>> \in Merges
  BY <1>1
<1> QED
  BY <1>1, <1>3, <1>4

\* What reaches writeToFile has as many values of each kind as the file.
LEMMA RootWhole ==
    ASSUME OrderInv, ExactInv, Aligned, ~short, ~failed, Drained(Root), NEW V \in Kinds
    PROVE  Num(Written, Len(Written), V) = Num(FileValues, Len(FileValues), V)
<1> DEFINE n == job.count  f == FileValues  w == Written  s == ch[Root].sent
<1>1. /\ n \in Nat \ {0} /\ Size \in Nat /\ Len(f) = n * Size /\ Len(f) \in Nat
  <2>1. job \in Jobs
    BY Typed
  <2>2. n \in Nat \ {0}
    BY <2>1, Constants
  <2>3. Size \in Nat /\ Len(job.file) \div Word = n * Size
    BY <2>1, Sizes
  <2>4. f \in Seq(Values) /\ Len(f) = n * Size
    BY <2>1, <2>3, ValuesOfFile
  <2>5. Len(f) \in Nat
    BY <2>4
  <2> HIDE DEF f, n
  <2> QED
    BY <2>2, <2>3, <2>4, <2>5
<1>2. Root = Result(<<0, n>>[1], <<0, n>>[2]) /\ <<0, n>>[1] = 0 /\ <<0, n>>[2] = n
  BY DEF Root
<1>3. Num(f, 0 * Size, V) + All(Root, V) = Num(f, n * Size, V)
  BY <1>2, AllWhole DEF Whole, Drained
<1>4. 0 * Size = 0 /\ Num(f, 0, V) = 0
  BY <1>1, NumZero
<1>5. s \in Seq(Values) /\ Len(s) \in Nat /\ ch[Root].got = Len(s)
  BY Typed DEF Drained, HasNext
<1>6. Len(w) = Len(s) /\ \A k \in 1..Len(s) : w[k] = s[k]
  BY <1>5, WrittenIs
<1>7. All(Root, V) = Num(s, Len(s), V) /\ All(Root, V) \in Nat
  BY <1>5, NumType DEF All
<1> HIDE DEF f, w, s, n
<1>8. Num(w, Len(s), V) = Num(s, Len(s), V)
  BY <1>5, <1>6, NumSame
<1> DEFINE a == All(Root, V)  b == Num(f, n * Size, V)
<1>9. 0 + a = b /\ a \in Nat
  BY <1>3, <1>4, <1>7
<1> HIDE DEF a, b
<1>10. a = b
  BY <1>9
<1> QED
  BY <1>1, <1>6, <1>7, <1>8, <1>10 DEF a, b, f, w

\* The beginning of a sequence has no more of a kind than the whole.
LEMMA NumLess ==
    ASSUME NEW s, NEW a \in Nat, NEW b \in Nat, a <= b, NEW V
    PROVE  Num(s, a, V) <= Num(s, b, V)
<1> DEFINE t == [k \in 1..b - a |-> s[a + k]]  m == b - a
<1>1. m \in Nat /\ a + m = b /\ \A k \in 1..m : s[a + k] = t[k]
  OBVIOUS
<1> HIDE DEF t, m
<1>2. Num(s, a + m, V) = Num(s, a, V) + Num(t, m, V)
  BY <1>1, NumSplit
<1>3. Num(s, a, V) \in Nat /\ Num(t, m, V) \in Nat
  BY <1>1, NumType
<1> DEFINE x == Num(s, a, V)  y == Num(t, m, V)
<1>4. Num(s, b, V) = x + y /\ x \in Nat /\ y \in Nat
  BY <1>1, <1>2, <1>3
<1> HIDE DEF x, y
<1>5. x <= Num(s, b, V)
  BY <1>4
<1> QED
  BY <1>5 DEF x

\* Whatever fails, no stage has sent more of a kind than the part of the file
\* that is above it holds.
AtMost(p) == \A V \in Kinds :
    Num(FileValues, p[1] * Size, V) + All(Result(p[1], p[2]), V) <= Num(FileValues, p[2] * Size, V)

LEMMA NumPart ==
    ASSUME NEW f, NEW s, NEW x \in Nat, NEW V, Len(s) \in Nat, \A k \in 1..Len(s) : s[k] = f[x + k]
    PROVE  Num(f, x + Len(s), V) = Num(f, x, V) + Num(s, Len(s), V)
<1>1. \A k \in 1..Len(s) : f[x + k] = s[k]
  OBVIOUS
<1> DEFINE n == Len(s)
<1>2. n \in Nat /\ \A k \in 1..n : f[x + k] = s[k]
  BY <1>1
<1> HIDE DEF n
<1>3. Num(f, x + n, V) = Num(f, x, V) + Num(s, n, V)
  BY <1>2, NumSplit
<1> QED
  BY <1>3 DEF n

LEMMA SortAtMost ==
    ASSUME OrderInv, ExactInv, Aligned, NEW i \in Chunks, NEW V \in Kinds
    PROVE  /\ Num(FileValues, i * Size, V) + All(Sort(i), V) <= Num(FileValues, (i + 1) * Size, V)
           /\ Num(FileValues, i * Size, V) \in Nat
<1> DEFINE a == sorted[i].a  t == ch[Sort(i)].sent  s == ch[Source(i)].sent  x == i * Size  z == Size
           f == FileValues
<1>1. /\ sorted[i].done => Len(a) = Len(s) /\ \A v \in Values : Count(a, v) = Count(s, v)
  BY DEF ExactInv, SortExact, SortOf
<1>2. /\ a \in Seq(Values) /\ Len(t) <= Len(a) /\ \A k \in 1..Len(t) : t[k] = a[k]
      /\ ~sorted[i].done => t = <<>>
  BY DEF OrderInv, SortedOK
<1>3. s \in Seq(Values) /\ t \in Seq(Values) /\ Len(s) \in Nat /\ Len(t) \in Nat /\ Len(a) \in Nat
  BY <1>2, Typed
<1>4. Len(s) <= z /\ \A k \in 1..Len(s) : s[k] = f[x + k]
  BY DEF ExactInv, SourceExact, SourceOf
<1>5. z \in Nat /\ x \in Nat /\ (i + 1) * Size = x + z
  <2>1. i \in Nat /\ z \in Nat
    BY Typed, Sizes DEF Chunks
  <2> HIDE DEF z
  <2>2. i * z \in Nat /\ (i + 1) * z = i * z + z
    BY <2>1
  <2> QED
    BY <2>1, <2>2 DEF z
<1> HIDE DEF a, t, s, x, z, f
<1>6. Num(t, Len(t), V) <= Num(s, Len(s), V)
  <2>1. CASE sorted[i].done
    <3>1. Num(t, Len(t), V) = Num(a, Len(t), V)
      BY <1>2, <1>3, NumSame
    <3>2. Num(a, Len(t), V) <= Num(a, Len(a), V)
      BY <1>2, <1>3, NumLess
    <3>3. Num(a, Len(a), V) = Num(s, Len(s), V)
      BY <1>1, <1>2, <1>3, <2>1, KindsAlike
    <3> QED
      BY <3>1, <3>2, <3>3
  <2>2. CASE ~sorted[i].done
    <3>1. Len(t) = 0
      BY <1>2, <2>2
    <3>2. Num(t, Len(t), V) = 0 /\ Num(s, Len(s), V) \in Nat
      BY <1>3, <3>1, NumZero, NumType
    <3> QED
      BY <3>2
  <2> QED
    BY <2>1, <2>2
<1>7. Num(f, x + Len(s), V) = Num(f, x, V) + Num(s, Len(s), V)
  BY <1>3, <1>4, <1>5, NumPart
<1>8. Num(f, x + Len(s), V) <= Num(f, x + z, V)
  <2>1. x + Len(s) \in Nat /\ x + z \in Nat /\ x + Len(s) <= x + z
    BY <1>3, <1>4, <1>5
  <2> QED
    BY <2>1, NumLess
<1>9. /\ Num(t, Len(t), V) \in Nat /\ Num(s, Len(s), V) \in Nat /\ Num(f, x, V) \in Nat
      /\ Num(f, x + z, V) \in Nat
  <2>1. x + z \in Nat
    BY <1>5
  <2> QED
    BY <1>3, <1>5, <2>1, NumType
<1> DEFINE A == Num(t, Len(t), V)  B == Num(s, Len(s), V)  C == Num(f, x, V)  D == Num(f, x + z, V)
<1>10. A <= B /\ C + B <= D /\ A \in Nat /\ B \in Nat /\ C \in Nat /\ D \in Nat
  BY <1>6, <1>7, <1>8, <1>9
<1> HIDE DEF A, B, C, D
<1>11. C + A <= D
  BY <1>10
<1>12. All(Sort(i), V) = A
  BY DEF All, A, t
<1>13. Num(f, (i + 1) * Size, V) = D
  BY <1>5 DEF D
<1> QED
  BY <1>10, <1>11, <1>12, <1>13 DEF C, x, f

LEMMA NetAtMost ==
    ASSUME OrderInv, ~short, job.net, NEW i \in Chunks, NEW V
    PROVE  All(Net(i), V) <= All(Sort(i), V) /\ All(Net(i), V) \in Nat /\ All(Sort(i), V) \in Nat
<1> DEFINE t == ch[Net(i)].sent  r == ch[Recv(i)].sent  s == ch[Sort(i)].sent  g == ch[Sort(i)].got
           m == Len(r)  n == Len(t)
<1>1. /\ t \in Seq(Values) /\ r \in Seq(Values) /\ s \in Seq(Values)
      /\ m \in Nat /\ n \in Nat /\ g \in Nat /\ Len(s) \in Nat /\ g <= Len(s)
      /\ ch[Recv(i)].got \in Nat /\ ch[Recv(i)].got <= m
  BY Typed
<1>2. n = ch[Recv(i)].got /\ \A k \in 1..n : t[k] = r[k]
  BY DEF OrderInv, NetOK
<1>3. OnWire(r, s, g, conn[i].wire)
  BY DEF OrderInv, WireOK, WireOf
<1>4. m <= g /\ \A k \in 1..m : r[k] = s[k]
  BY <1>3 DEF OnWire
<1>5. All(Net(i), V) = Num(t, n, V) /\ All(Sort(i), V) = Num(s, Len(s), V)
  BY DEF All
<1> HIDE DEF t, r, s, g, m, n
<1>6. n <= Len(s) /\ \A k \in 1..n : t[k] = s[k]
  BY <1>1, <1>2, <1>4
<1>7. Num(t, n, V) = Num(s, n, V)
  BY <1>1, <1>6, NumSame
<1>8. Num(s, n, V) <= Num(s, Len(s), V)
  BY <1>1, <1>6, NumLess
<1>9. Num(t, n, V) \in Nat /\ Num(s, Len(s), V) \in Nat
  BY <1>1, NumType
<1> QED
  BY <1>5, <1>7, <1>8, <1>9

LEMMA LeafAtMost ==
    ASSUME OrderInv, ExactInv, Aligned, ~short, NEW p \in Spans(job.count), p[2] - p[1] = 1
    PROVE  AtMost(p)
<1> DEFINE i == p[1]
<1>1. job.count \in Nat /\ i \in Nat /\ p[2] \in Nat /\ p[1] < p[2] /\ p[2] <= job.count
  BY Typed, Constants, Halves
<1>2. i \in Chunks /\ p[2] = i + 1
  BY <1>1 DEF Chunks
<1> SUFFICES ASSUME NEW V \in Kinds
             PROVE  Num(FileValues, p[1] * Size, V) + All(Result(p[1], p[2]), V) <= Num(FileValues, p[2] * Size, V)
  BY DEF AtMost
<1> DEFINE C == Num(FileValues, i * Size, V)  D == Num(FileValues, (i + 1) * Size, V)
           A == All(Sort(i), V)  B == All(Net(i), V)
<1>3. C + A <= D /\ C \in Nat /\ D \in Nat
  <2>1. C + A <= D /\ C \in Nat
    BY <1>2, SortAtMost
  <2>2. i + 1 \in Nat /\ Size \in Nat
    BY <1>1, Typed, Sizes
  <2>3. (i + 1) * Size \in Nat
    <3> DEFINE z == Size  j == i + 1
    <3>1. z \in Nat /\ j \in Nat
      BY <2>2
    <3> HIDE DEF z, j
    <3>2. j * z \in Nat
      BY <3>1
    <3> QED
      BY <3>2 DEF z, j
  <2> QED
    BY <2>1, <2>3, NumType
<1>4. CASE job.net
  <2>1. Result(p[1], p[2]) = Net(i)
    BY <1>1, <1>4 DEF Result
  <2>2. B <= A /\ B \in Nat /\ A \in Nat
    BY <1>2, <1>4, NetAtMost
  <2> HIDE DEF A, B, C, D
  <2>3. C + B <= D
    BY <1>3, <2>2
  <2> QED
    BY <1>2, <2>1, <2>3 DEF B, C, D
<1>5. CASE ~job.net
  <2>1. Result(p[1], p[2]) = Sort(i)
    BY <1>1, <1>5 DEF Result
  <2> QED
    BY <1>2, <1>3, <2>1
<1> QED
  BY <1>4, <1>5

LEMMA HalvesAtMost ==
    ASSUME OrderInv, ExactInv, Aligned, NEW p \in Merges, AtMost(Half(p, 1)), AtMost(Half(p, 2))
    PROVE  AtMost(p)
<1> DEFINE m == Mid(p[1], p[2])
<1>1. /\ p \in Spans(job.count) /\ p[2] - p[1] > 1 /\ p[2] - p[1] # 1 /\ job.count \in Nat
      /\ \A s \in {1, 2} : Input(p, s) = Result(Half(p, s)[1], Half(p, s)[2])
  BY Typed, MergesFacts
<1>2. /\ p = <<p[1], p[2]>>
      /\ Half(p, 1)[1] = p[1] /\ Half(p, 1)[2] = m /\ Half(p, 2)[1] = m /\ Half(p, 2)[2] = p[2]
      /\ p[1] \in Nat /\ p[2] \in Nat /\ m \in Nat
  BY <1>1, Halves
<1>3. Result(p[1], p[2]) = Merge(p)
  BY <1>1, <1>2 DEF Result
<1> HIDE DEF m
<1> SUFFICES ASSUME NEW V \in Kinds
             PROVE  Num(FileValues, p[1] * Size, V) + All(Merge(p), V) <= Num(FileValues, p[2] * Size, V)
  BY <1>3 DEF AtMost
<1> DEFINE P == Num(FileValues, p[1] * Size, V)  Q == Num(FileValues, m * Size, V)
           R == Num(FileValues, p[2] * Size, V)
           A == All(Merge(p), V)  B(s) == All(Input(p, s), V)  g(s) == Got(Input(p, s), V)
           h(s) == Held(head[p][s], V)
<1>4. A + h(1) + h(2) = g(1) + g(2)
  BY DEF ExactInv, MergeExact, MergeSum
<1>5. A \in Nat /\ g(1) \in Nat /\ g(2) \in Nat /\ h(1) \in Nat /\ h(2) \in Nat
  BY Numbers
<1>6. ASSUME NEW s \in {1, 2} PROVE g(s) <= B(s) /\ B(s) \in Nat
  <2> DEFINE c == Input(p, s)
  <2>1. ch[c].got \in Nat /\ Len(ch[c].sent) \in Nat /\ ch[c].got <= Len(ch[c].sent)
    BY Typed
  <2> HIDE DEF c
  <2>2. Num(ch[c].sent, ch[c].got, V) <= Num(ch[c].sent, Len(ch[c].sent), V)
    BY <2>1, NumLess
  <2>3. Num(ch[c].sent, Len(ch[c].sent), V) \in Nat
    BY <2>1, NumType
  <2> QED
    BY <2>2, <2>3 DEF All, Got, c
<1>7. P + B(1) <= Q /\ Q + B(2) <= R
  BY <1>1, <1>2 DEF AtMost
<1>8. \A n \in Nat : Num(FileValues, n * Size, V) \in Nat
  <2> DEFINE f == FileValues  z == Size
  <2>1. z \in Nat
    BY Typed, Sizes
  <2> HIDE DEF f, z
  <2>2. ASSUME NEW n \in Nat PROVE Num(f, n * z, V) \in Nat
    <3>1. n * z \in Nat
      BY <2>1
    <3> QED
      BY <3>1, NumType
  <2> QED
    BY <2>2 DEF f, z
<1>9. P \in Nat /\ Q \in Nat /\ R \in Nat
  BY <1>2, <1>8
<1>10. g(1) <= B(1) /\ g(2) <= B(2) /\ B(1) \in Nat /\ B(2) \in Nat
  BY <1>6
<1> HIDE DEF P, Q, R, A, B, g, h
<1>11. P + A <= R
  BY <1>4, <1>5, <1>7, <1>9, <1>10
<1> QED
  BY <1>11 DEF P, A, R

LEMMA AllAtMost ==
    ASSUME OrderInv, ExactInv, Aligned, ~short
    PROVE  AtMost(<<0, job.count>>)
<1> DEFINE n == job.count
           B == {p \in Spans(n) : (p[2] - p[1] = 1 \/ p \in Merges) /\ ~AtMost(p)}
<1>1. /\ n \in Nat \ {0} /\ <<0, n>> \in Spans(n) /\ (n # 1 => <<0, n>> \in Merges)
      /\ \A p \in Merges : \A s \in {1, 2} :
            /\ p[2] - p[1] > 1 /\ Half(p, s) \in Spans(n)
            /\ Half(p, s)[2] - Half(p, s)[1] # 1 => Half(p, s) \in Merges
  BY Typed, MergesFacts
<1>2. ASSUME NEW p \in B PROVE p[2] - p[1] # 1 /\ (Half(p, 1) \in B \/ Half(p, 2) \in B)
  <2>1. p[2] - p[1] # 1 /\ p \in Merges
    BY LeafAtMost
  <2>2. ~(AtMost(Half(p, 1)) /\ AtMost(Half(p, 2)))
    BY <2>1, HalvesAtMost
  <2> QED
    BY <1>1, <2>1, <2>2
<1>3. B = {}
  <2>1. n \in Nat /\ B \subseteq Spans(n)
    BY <1>1
  <2> HIDE DEF B
  <2> QED
    BY <1>2, <2>1, ByHalves
<1>4. <<0, n>>[2] - <<0, n>>[1] = 1 \/ <<0, n>> \in Merges
  BY <1>1
<1> QED
  BY <1>1, <1>3, <1>4

\* So nothing is written more often than it was read.
LEMMA RootAtMost ==
    ASSUME OrderInv, ExactInv, Aligned, ~short, NEW v \in ToSet(Written)
    PROVE  Count(Written, v) <= Count(FileValues, v)
<1> DEFINE n == job.count  f == FileValues  w == Written  s == ch[Root].sent  g == ch[Root].got  V == {v}
<1>1. /\ s \in Seq(Values) /\ Len(s) \in Nat /\ g \in Nat /\ g <= Len(s)
      /\ w \in Seq(Values) /\ Len(w) = g /\ \A k \in 1..g : w[k] = s[k]
  BY Typed, WrittenIs
<1>2. v \in Values
  <2> HIDE DEF s, g
  <2> QED
    BY <1>1 DEF ToSet
<1>3. V \in Kinds
  BY <1>2 DEF Kinds
<1>4. /\ Size \in Nat /\ Len(f) = n * Size /\ Len(f) \in Nat
  <2>1. job \in Jobs
    BY Typed
  <2>2. Size \in Nat /\ Len(job.file) \div Word = n * Size
    BY <2>1, Sizes
  <2>3. f \in Seq(Values) /\ Len(f) = n * Size
    BY <2>1, <2>2, ValuesOfFile
  <2>4. Len(f) \in Nat
    BY <2>3
  <2> HIDE DEF f, n
  <2> QED
    BY <2>2, <2>3, <2>4
<1>5. Root = Result(<<0, n>>[1], <<0, n>>[2]) /\ <<0, n>>[1] = 0 /\ <<0, n>>[2] = n
  BY DEF Root
<1>6. Num(f, 0 * Size, V) + All(Root, V) <= Num(f, n * Size, V)
  BY <1>3, <1>5, AllAtMost DEF AtMost
<1>7. 0 * Size = 0 /\ Num(f, 0, V) = 0
  BY <1>4, NumZero
<1>8. All(Root, V) = Num(s, Len(s), V)
  BY DEF All
<1> HIDE DEF f, w, s, g, n, V
<1>9. Num(w, g, V) = Num(s, g, V)
  BY <1>1, NumSame
<1>10. Num(s, g, V) <= Num(s, Len(s), V)
  BY <1>1, NumLess
<1>11. Num(w, g, V) \in Nat /\ Num(s, Len(s), V) \in Nat /\ Num(f, n * Size, V) \in Nat
  BY <1>1, <1>4, NumType
<1> DEFINE a == Num(s, Len(s), V)  b == Num(f, n * Size, V)  e == Num(w, g, V)
<1>12. 0 + a <= b /\ e <= a /\ a \in Nat /\ b \in Nat /\ e \in Nat
  BY <1>6, <1>7, <1>8, <1>9, <1>10, <1>11
<1> HIDE DEF a, b, e
<1>13. e <= b
  BY <1>12
<1>14. Count(w, v) = e /\ Count(f, v) = b
  BY <1>1, <1>4, CountIsNum DEF e, b, V
<1> QED
  BY <1>13, <1>14 DEF w, f

LEMMA ExactResult == OrderInv /\ ExactInv => ResultExact
<1>0. ASSUME OrderInv, ExactInv, Aligned, ~short, NEW v \in ToSet(Written)
      PROVE  Count(Written, v) <= Count(FileValues, v)
  BY <1>0, RootAtMost
<1> SUFFICES ASSUME OrderInv, ExactInv, main # "write", Aligned, ~short, ~failed
             PROVE  /\ Len(Written) = Len(FileValues)
                    /\ \A v \in ToSet(FileValues) : Count(Written, v) = Count(FileValues, v)
                    /\ disk = Bytes(Written)
                    /\ IsPrefix(Printed, Written)
                    /\ main = "done" => Len(Printed) = IF Len(Written) < PrintMax THEN Len(Written) ELSE PrintMax
  BY <1>0 DEF ResultExact
<1> DEFINE f == FileValues  w == Written
<1>1. Drained(Root) /\ disk = Bytes(Written)
  BY DEF ExactInv, WriteExact
<1>2. f \in Seq(Values) /\ w \in Seq(Values) /\ Len(f) \in Nat /\ Len(w) \in Nat
  BY Typed, ValuesOfFile, WrittenIs
<1>3. Len(w) = Len(f)
  <2>1. Num(w, Len(w), Values) = Num(f, Len(f), Values)
    BY <1>1, RootWhole DEF Kinds
  <2> HIDE DEF f, w
  <2>2. (\A k \in 1..Len(w) : w[k] \in Values) /\ \A k \in 1..Len(f) : f[k] \in Values
    BY <1>2
  <2>3. Num(w, Len(w), Values) = Len(w)
    BY <1>2, <2>2, NumAll
  <2>4. Num(f, Len(f), Values) = Len(f)
    BY <1>2, <2>2, NumAll
  <2> QED
    BY <2>1, <2>3, <2>4
<1>4. ASSUME NEW v \in ToSet(f) PROVE Count(w, v) = Count(f, v)
  <2>1. v \in Values
    <3> HIDE DEF f
    <3> QED
      BY <1>2 DEF ToSet
  <2>2. {v} \in Kinds
    BY <2>1 DEF Kinds
  <2> QED
    BY <1>1, <2>2, RootWhole, CountIsNum
<1> DEFINE r == ch[Shown]  g == r.got  t == r.sent
<1>5. /\ r \in Channel /\ main \in {"print", "done"}
      /\ Shows(r, reader[Shown].read, w, main)
  BY DEF ExactInv, ShownExact
<1>6. /\ t \in Seq(Values) /\ g \in Nat /\ Len(t) \in Nat /\ g <= Len(t) /\ Len(t) <= Len(w)
      /\ \A k \in 1..Len(t) : t[k] = w[k]
      /\ main = "done" => g = IF Len(w) < PrintMax THEN Len(w) ELSE PrintMax
  BY <1>5 DEF Channel, Shows
<1> DEFINE u == Printed
<1>7. u = SubSeq(t, 1, g)
  BY DEF Printed
<1> HIDE DEF f, w, r, g, t, u
<1>8. Len(u) = g /\ g <= Len(w) /\ \A k \in 1..g : u[k] = w[k]
  <2>1. \A k \in 1..g : t[k] \in Values
    BY <1>6
  <2>2. /\ Len(SubSeq(t, 1, g)) = (IF 1 <= g THEN g - 1 + 1 ELSE 0)
        /\ \A k \in 1..g - 1 + 1 : SubSeq(t, 1, g)[k] = t[1 + k - 1]
    BY <1>6, <2>1, SubSeqProperties
  <2>3. Len(u) = g
    BY <1>6, <1>7, <2>2
  <2>4. ASSUME NEW k \in 1..g PROVE u[k] = w[k]
    <3>1. k \in 1..g - 1 + 1 /\ 1 + k - 1 = k /\ k \in 1..Len(t)
      BY <1>6
    <3> QED
      BY <1>6, <1>7, <2>2, <3>1
  <2> QED
    BY <1>6, <2>3, <2>4
<1>9. SubSeq(u, 1, Len(u)) = SubSeq(w, 1, Len(u))
  <2>1. u = [k \in 1..g |-> t[k]] /\ SubSeq(w, 1, g) = [k \in 1..g |-> w[k]]
    BY <1>2, <1>6, <1>7, <1>8
  <2>2. SubSeq(u, 1, g) = [k \in 1..g |-> u[k]]
    BY <1>6, <2>1
  <2>3. [k \in 1..g |-> u[k]] = [k \in 1..g |-> w[k]]
    BY <1>8
  <2> QED
    BY <1>8, <2>1, <2>2, <2>3
<1>10. IsPrefix(u, w)
  BY <1>8, <1>9 DEF IsPrefix
<1> QED
  BY <1>1, <1>3, <1>4, <1>6, <1>8, <1>10 DEF f, w, u

LEMMA InitExact == Init => ExactInv
<1> SUFFICES ASSUME Init PROVE ExactInv
  OBVIOUS
<1>1. OrderInv
  BY InitOrder
<1>2. /\ main = "write" /\ \A c \in Channels : ch[c] = Open
      /\ \A c \in Readers : reader[c] = [read |-> 0, buf |-> [k \in 1..Word |-> Zero]]
      /\ \A i \in Chunks : sorted[i] = [done |-> FALSE, a |-> <<>>]
      /\ \A i \in Chunks : conn[i].state = "listen"
      /\ \A p \in Merges : \A s \in {1, 2} : head[p][s] = None
  BY DEF Init
<1>3. Open \in Channel /\ Open.sent = <<>> /\ Open.got = 0 /\ Len(<<>>) = 0 /\ Open.closed = FALSE
  BY DEF Open, Channel
<1>4. \A c \in Channels : ch[c].sent = <<>> /\ ch[c].got = 0 /\ ~ch[c].closed
  BY <1>2, <1>3
<1>5. SourceExact
  <2> SUFFICES ASSUME Aligned, NEW i \in Chunks PROVE SourceOf(i)
    BY DEF SourceExact
  <2>1. Size \in Nat /\ Word \in Nat
    BY <1>1, Typed, Sizes, Constants
  <2>2. Source(i) \in Channels /\ Source(i) \in Readers
    BY <1>1, Typed DEF Readers
  <2>3. ch[Source(i)].sent = <<>> /\ ~ch[Source(i)].closed
    BY <1>4, <2>2
  <2>4. reader[Source(i)].read = 0
    BY <1>2, <2>2
  <2>5. Len(<<>>) = 0 /\ 0 * Word = 0 /\ 0 <= Size
    BY <2>1
  <2> QED
    BY <2>3, <2>4, <2>5 DEF SourceOf
<1>6. SortExact
  <2>1. \A i \in Chunks : ~sorted[i].done /\ ~ch[Sort(i)].closed
    BY <1>1, <1>2, <1>4, Typed
  <2> QED
    BY <2>1 DEF SortExact, SortOf
<1>7. ConnExact
  <2>1. \A i \in Chunks : ~ch[Recv(i)].closed /\ ~ch[Net(i)].closed
    BY <1>1, <1>4, Typed
  <2> QED
    BY <1>2, <2>1 DEF ConnExact, ConnOf
<1>8. MergeExact
  <2> SUFFICES ASSUME NEW p \in Merges PROVE MergeSum(p) /\ MergeEnds(p)
    BY DEF MergeExact
  <2>1. /\ \A s \in {1, 2} : ch[Input(p, s)].sent = <<>> /\ ch[Input(p, s)].got = 0
        /\ ch[Merge(p)].sent = <<>> /\ ~ch[Merge(p)].closed
    BY <1>1, <1>4, Typed
  <2>2. None # End /\ \A V : Held(None, V) = 0
    BY HeadShape DEF Held
  <2>3. \A V : All(Merge(p), V) = 0 /\ Got(Input(p, 1), V) = 0 /\ Got(Input(p, 2), V) = 0
    BY <1>3, <2>1, NumZero DEF All, Got
  <2>4. MergeSum(p)
    BY <1>2, <2>2, <2>3 DEF MergeSum
  <2>5. MergeEnds(p)
    BY <1>2, <2>1, <2>2 DEF MergeEnds
  <2> QED
    BY <2>4, <2>5
<1>9. WriteExact
  BY <1>2 DEF WriteExact
<1>10. ShownExact
  <2>1. Shown \in Channels /\ Shown \in Readers
    BY DEF Channels, Readers
  <2> DEFINE b == [k \in 1..Word |-> Zero]
  <2>2. b \in Buffers
    BY Constants DEF Buffers
  <2>3. reader[Shown] = [read |-> 0, buf |-> b]
    BY <1>2, <2>1
  <2> HIDE DEF b
  <2>4. reader[Shown] \in [read : Nat, buf : Buffers] /\ reader[Shown].read = 0
    BY <2>2, <2>3
  <2>5. ch[Shown] = Open
    BY <1>2, <2>1
  <2> QED
    BY <1>2, <1>3, <2>4, <2>5 DEF ShownExact
<1> QED
  BY <1>5, <1>6, <1>7, <1>8, <1>9, <1>10 DEF ExactInv

LEMMA StepExact == OrderInv /\ ExactInv /\ [Next]_vars => ExactInv'
<1> SUFFICES ASSUME OrderInv, ExactInv, [Next]_vars PROVE ExactInv'
  OBVIOUS
<1>1. ASSUME NEW c \in Readers, Reading(c) PROVE ExactInv'
  <2>1. CASE c = Shown
    BY <1>1, <2>1, ReadShownExact, EndShownExact DEF Reading
  <2>2. CASE c # Shown
    <3>1. PICK i \in Chunks : c = Source(i) \/ c = Recv(i)
      BY <2>2, ChannelsOf
    <3>2. CASE c = Source(i)
      BY <1>1, <3>2, ReadSourceExact, EndSourceExact DEF Reading
    <3>3. CASE c = Recv(i)
      BY <1>1, <3>3, ReadRecvExact, EndRecvExact DEF Reading
    <3> QED
      BY <3>1, <3>2, <3>3
  <2> QED
    BY <2>1, <2>2
<1>2. ASSUME NEW i \in Chunks, Sorting(i) PROVE ExactInv'
  BY <1>2, CollectExact, SortIntsExact, SendSortedExact, EndSortExact DEF Sorting
<1>3. ASSUME NEW i \in Chunks, Sinking(i) PROVE ExactInv'
  BY <1>3, DialExact, SinkValueExact, DropValueExact DEF Sinking
<1>4. ASSUME NEW i \in Chunks, Relaying(i) PROVE ExactInv'
  BY <1>4, RelayExact, EndRelayExact DEF Relaying
<1>5. ASSUME NEW p \in Merges, Merging(p) PROVE ExactInv'
  BY <1>5, ReceiveExact, SendSmallerExact, EndMergeExact DEF Merging
<1>6. CASE Writing
  BY <1>6, WriteValueExact, EndWriteExact, PrintExact DEF Writing
<1>7. CASE UNCHANGED vars
  <2>1. UNCHANGED <<job, ch, reader, conn, sorted, head, main, disk, short, failed>> /\ ChOK
    BY <1>7, Typed DEF vars
  <2>2. AllCalm
    BY <2>1, OtherCalm DEF AllCalm
  <2>3. SourceExact' /\ SortExact' /\ ConnExact'
    BY <2>1, <2>2, SourceRests, SortKept, ConnKept DEF ExactInv
  <2>4. MergeExact' /\ WriteExact' /\ ShownExact'
    BY <2>1, <2>2, MergesKept, WriteKept, ShownKept DEF ExactInv
  <2> QED
    BY <2>3, <2>4 DEF ExactInv
<1>8. CASE Fails
  BY <1>8, ReadFailsExact, BreaksExact, WriteFailsExact DEF Fails
<1> QED
  BY <1>1, <1>2, <1>3, <1>4, <1>5, <1>6, <1>7, <1>8 DEF Next, Works

\* When the chunks are whole words and no Read from a connection was short, no
\* value reaches writeToFile more often than it is in the input, whatever Read or
\* Write fails and whichever connection breaks; and when nothing fails the file
\* that writeToFile leaves holds every value exactly as often as the input does
\* and printFile shows its beginning -- for every file, number of chunks, both
\* versions of the pipeline and any capacity of the channels.
THEOREM Exact == Spec => []ResultExact
<1>1. Init => OrderInv /\ ExactInv
  BY InitOrder, InitExact
<1>2. OrderInv /\ ExactInv /\ [Next]_vars => (OrderInv /\ ExactInv)'
  BY StepOrder, StepExact
<1>3. OrderInv /\ ExactInv => ResultExact
  BY ExactResult
<1> QED
  BY <1>1, <1>2, <1>3, PTL DEF Spec
=============================================================================
