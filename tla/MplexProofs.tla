---------------------------- MODULE MplexProofs ----------------------------
(***************************************************************************)
(* Proofs about Mplex, for every set of calls and all bounds.              *)
(*                                                                         *)
(* What an end has sent is followed from its command queue through the     *)
(* frame that waits to be written and the socket to the data channel of    *)
(* the other end.  Out(e) is all that end e has sent and the other has not *)
(* read; what the two tables may say of a stream depends on which of its   *)
(* frames are in there.                                                    *)
(***************************************************************************)
EXTENDS Mplex, SequenceTheorems, TLAPS

\* All that e has sent and the other end has not read.
Out(e) == IF task[e].at = "write" THEN Append(wire[e], task[e].frame) ELSE wire[e]

\* The tag of a frame, and its stream as the end that wrote it names it.
TagOf(f) == decode(f.hdr).tag
SidOf(f) == Flip(decode(f.hdr).sid)

\* The streams an end has, or had.
Known(e) == DOMAIN data[e]

\* There is such a frame for the stream.
Has(s, tag, sid) == \E i \in DOMAIN s : TagOf(s[i]) = tag /\ SidOf(s[i]) = sid
Sent(e, tag, sid) == Has(Out(e), tag, sid)

\* The numbers in a sequence, apart from zeros, are lo + 1, lo + 2, ..., hi, in this order.
Within(v, lo, hi) == \A i \in 1 .. Len(v) : v[i] # 0 => lo < v[i] /\ v[i] <= hi
Rising(v) == \A i, j \in 1 .. Len(v) : i < j /\ v[i] # 0 /\ v[j] # 0 => v[i] < v[j]
Reached(v, lo, hi) == \A k \in lo + 1 .. hi : \E i \in 1 .. Len(v) : v[i] = k
Counts(v, lo, hi) == lo <= hi /\ Within(v, lo, hi) /\ Rising(v) /\ Reached(v, lo, hi)

\* The numbers of the streams that frames open, of the messages of a stream among
\* frames, and of those among commands.
NewVal(f) == IF TagOf(f) = "NewStream" THEN SidOf(f).id + 1 ELSE 0
MsgVal(f, sid) == IF TagOf(f) = "Message" /\ SidOf(f) = sid THEN f.body.n ELSE 0
CmdVal(c, sid) == IF c.type = "SendFrame" /\ c.sid = sid THEN c.body.n ELSE 0
NewVals(s) == [i \in 1 .. Len(s) |-> NewVal(s[i])]
MsgVals(s, sid) == [i \in 1 .. Len(s) |-> MsgVal(s[i], sid)]
CmdVals(q, sid) == [i \in 1 .. Len(q) |-> CmdVal(q[i], sid)]
-----------------------------------------------------------------------------
(* The inductive invariant. *)

BodyOK(b, e, sid) == b = [from |-> e, sid |-> sid, n |-> b.n] /\ b.n \in Nat \ {0}

\* Frames s of end e, which has streams K, while the other end has L: every frame is of a
\* stream of e; the other end has it too or reads before that it was opened; nothing
\* but a Reset comes after a Close.
FramesOK(e, s, K, L) ==
    \A i \in DOMAIN s :
        /\ SidOf(s[i]) \in K
        /\ TagOf(s[i]) = "NewStream" => SidOf(s[i]).initiator
        /\ TagOf(s[i]) = "Message" => BodyOK(s[i].body, e, SidOf(s[i]))
        /\ TagOf(s[i]) # "NewStream" =>
              \/ Flip(SidOf(s[i])) \in L
              \/ \E j \in 1 .. i - 1 : TagOf(s[j]) = "NewStream" /\ SidOf(s[j]) = SidOf(s[i])
        /\ TagOf(s[i]) = "Close" =>
              \A j \in i + 1 .. Len(s) : SidOf(s[j]) = SidOf(s[i]) => TagOf(s[j]) = "Reset"
FramesInv == \A e \in Ends : FramesOK(e, Out(e), Known(e), Known(Other(e)))

\* The streams of an end are those it has numbered and the first ones of the other end,
\* of which the next are on their way.
Numbered(n, b) == {[id |-> k, initiator |-> b] : k \in 0 .. n - 1}
OpenOK(s, n, run, K, L) ==
    \E lo, hi \in 0 .. n :
       /\ {sid \in K : sid.initiator} = Numbered(n, TRUE)
       /\ {sid \in L : ~sid.initiator} = Numbered(lo, FALSE)
       /\ Counts(NewVals(s), lo, hi)
       /\ run => hi = n
OpenInv ==
    \A e \in Ends : OpenOK(Out(e), next_stream_id[e], Running(e), Known(e), Known(Other(e)))

AcceptInv ==
    \A e \in Ends :
        Running(e) => {sid \in Known(e) : ~sid.initiator}
                         = Numbered(Len(accepted[e]) + Len(pending_streams[e]), FALSE)

\* The Stream of an id is handed out once, and only a Stream in use sends commands.
HandOK(h, K, ha, q) ==
    /\ h.status = "open" => h.sid \in K /\ h.sid \notin DOMAIN ha /\ h.sid.initiator
    /\ h.status = "closed" => /\ h.sid \in DOMAIN ha /\ ha[h.sid] = "resetting"
                              /\ \A i \in DOMAIN q : q[i].sid # h.sid
HandInv ==
    \A e \in Ends : task[e].at = "write" => HandOK(task[e].hand, Known(e), handle[e], stream_cmds[e])
\* A delivery that waits is of a stream the end has.
DeliverInv == \A e \in Ends : task[e].at = "deliver" => task[e].sid \in Known(e)
PendingInv ==
    \A e \in Ends : \A i \in DOMAIN pending_streams[e] :
        pending_streams[e][i] \in Known(e) /\ pending_streams[e][i] \notin DOMAIN handle[e]
CommandsOK(e, q, ha) ==
    \A i \in DOMAIN q :
        /\ q[i].sid \in DOMAIN ha
        /\ q[i].type = "SendFrame" => BodyOK(q[i].body, e, q[i].sid)
        /\ q[i].type = "CloseStream" => ha[q[i].sid] \in {"closed", "dropped"}
        /\ q[i].type = "ResetStream" => ha[q[i].sid] = "resetting"
        /\ q[i].type # "SendFrame" => \A j \in i + 1 .. Len(q) : q[j].sid # q[i].sid
CommandInv == \A e \in Ends : CommandsOK(e, stream_cmds[e], handle[e])

\* The stages of a shutdown.
StageInv ==
    \A e \in Ends :
        /\ stream_receiver[e] = "terminated" => stream_cmds[e] = <<>>
        /\ control_receiver[e] = "closed" => stream_receiver[e] = "terminated"
        /\ ~Running(e) =>
              /\ stream_receiver[e] = "terminated"
              /\ streams[e] = {} /\ streams_stat[e] = Empty /\ pending_streams[e] = <<>>
              /\ task[e].cause = "eof" => ~Running(Other(e))

\* What the tables of two ends that run say of a stream, given what is on its way: the
\* stream is sid for end e, and f for end o.
StatOf(e, sid) == IF sid \in DOMAIN streams_stat[e] THEN streams_stat[e][sid] ELSE "none"
HalfOK(e, o, sid, f) ==
    LET a == StatOf(e, sid)
        b == StatOf(o, f) IN
    /\ a # "none" /\ b = "none" =>
          \/ Sent(e, "NewStream", sid) \/ Sent(o, "Reset", f)
          \/ Sent(o, "Close", f) /\ a = "SendClosed"
    /\ a # "none" /\ b # "none" =>
          /\ a = "RecvClosed" => b = "SendClosed"
          /\ a = "SendClosed" => Sent(e, "Close", sid) \/ b = "RecvClosed"
    /\ b # "none" /\ Sent(e, "Close", sid) => b # "RecvClosed"
    /\ Sent(e, "NewStream", sid) =>
          \/ a = "Open"
          \/ a = "SendClosed" /\ Sent(e, "Close", sid)
          \/ a = "none" /\ Sent(e, "Reset", sid)
BothRun == \A e \in Ends : Running(e)
MirrorInv == BothRun => \A e \in Ends : \A sid \in StreamID : HalfOK(e, Other(e), sid, Flip(sid))

NotReset(e, sid) == Stream(e, sid) \notin was_reset
CanSend(e, sid) ==
    stream_receiver[e] = "open" /\ (sid \in DOMAIN handle[e] => handle[e][sid] = "open")
Count(e, sid) == IF sid \in Known(e) THEN Len(got[e][sid]) + Len(data[e][sid]) ELSE 0

\* What is left of a stream that an end has closed or reset.
SentInv ==
    \A e \in Ends : \A sid \in StreamID :
        /\ Sent(e, "Close", sid) => ~Writable(e, sid)
        /\ Sent(e, "Reset", sid) => sid \notin DOMAIN streams_stat[e] /\ ~NotReset(e, sid)

\* Nothing more comes from an end that has closed a stream.
ZeroCmds(q, sid) == \A i \in DOMAIN q : CmdVal(q[i], sid) = 0
ClosedOK(e, sid) ==
    NotReset(e, sid) /\ Running(e) /\ ~Writable(e, sid) => ~CanSend(e, sid) /\ ZeroCmds(stream_cmds[e], sid)

\* The messages of a stream, numbered 1 to w by the Stream that writes them: the other end
\* has taken cnt of them, the next up to c are sent, the rest is in the command queue.
FlowAt(out, cnt, q, w, sid, rd, wr, all) ==
    \E c \in 0 .. w : /\ rd => Counts(MsgVals(out, sid), cnt, c)
                      /\ wr => Counts(CmdVals(q, sid), c, w)
                      /\ all => c = w
\* The other end takes them; this end sends them; it has sent them all.
Takes(e, sid) == Flip(sid) \notin Known(Other(e)) \/ Deliverable(Other(e), Flip(sid))
Gives(e, sid) == Running(e) /\ (Writable(e, sid) \/ NotReset(e, sid))
Done(e, sid) == NotReset(e, sid) /\ (Sent(e, "Close", sid) \/ (~Running(e) /\ task[e].cause = "closed"))
FlowOK(e, sid) ==
    FlowAt(Out(e), Count(Other(e), Flip(sid)), stream_cmds[e], written[e][sid], sid,
           Takes(e, sid), Gives(e, sid), Done(e, sid))
StartOK(e, sid) == Flip(sid) \notin Known(Other(e)) => Count(e, sid) = 0

\* A Stream that takes no more has all there is.
Finished(e, sid) ==
    /\ NotReset(e, sid) /\ ~Dropped(e, sid) /\ ~Deliverable(e, sid)
    /\ \/ Running(e)
       \/ task[e].cause = "eof" /\ ~Running(Other(e)) /\ task[Other(e)].cause = "closed"
EofOK(e, sid) ==
    Finished(e, sid) =>
        IF Flip(sid) \in Known(Other(e))
        THEN Count(e, sid) = written[Other(e)][Flip(sid)] /\ ~CanSend(Other(e), Flip(sid))
        ELSE ~Running(e)

\* What it has read, and can read next.
InOrderOf(read, from, sid) == \A i \in 1 .. Len(read) : read[i] = [from |-> from, sid |-> sid, n |-> i]
ReadOK(e, sid) == InOrderOf(got[e][sid] \o data[e][sid], Other(e), Flip(sid))

StreamOK(e, sid) == ClosedOK(e, sid) /\ FlowOK(e, sid) /\ StartOK(e, sid) /\ EofOK(e, sid) /\ ReadOK(e, sid)
StreamInv == \A e \in Ends : \A sid \in Known(e) : StreamOK(e, sid)

\* The functions of the ends.
DomInv ==
    /\ DOMAIN streams_stat = Ends /\ DOMAIN data = Ends /\ DOMAIN handle = Ends
    /\ DOMAIN written = Ends /\ DOMAIN got = Ends
TypeInv == TypeOK /\ DomInv

\* Which streams there are, what is on its way, and who holds what.
MplexInv ==
    /\ TypeInv
    /\ FramesInv /\ OpenInv /\ AcceptInv /\ AcceptOrder /\ HandInv /\ PendingInv /\ CommandInv
    /\ StageInv /\ SentInv /\ DeliverInv
-----------------------------------------------------------------------------
(* Ends, names and frames. *)

LEMMA TheOther ==
    ASSUME NEW e \in Ends
    PROVE  /\ Other(e) \in Ends /\ Other(e) # e /\ Other(Other(e)) = e
           /\ \A x \in Ends : x = e \/ x = Other(e)
  BY DEF Ends, Other

LEMMA FlipFlip ==
    ASSUME NEW sid \in StreamID
    PROVE  Flip(sid) \in StreamID /\ Flip(Flip(sid)) = sid /\ Flip(sid).id = sid.id
           /\ (Flip(sid).initiator <=> ~sid.initiator)
  BY DEF Flip, StreamID

\* Both ends mean the same stream.
LEMMA StreamFlip ==
    ASSUME NEW e \in Ends, NEW sid \in StreamID
    PROVE  Stream(Other(e), Flip(sid)) = Stream(e, sid)
  BY TheOther, FlipFlip DEF Stream, Flip, StreamID

\* header.rs: what is encoded is decoded, as the stream of the other end.
LEMMA FrameRead ==
    ASSUME NEW tag \in Tags, NEW sid \in StreamID, tag = "NewStream" => sid.initiator, NEW b
    PROVE  /\ TagOf(Frame(tag, sid, b)) = tag /\ SidOf(Frame(tag, sid, b)) = sid
           /\ Frame(tag, sid, b).body = b /\ Frame(tag, sid, b).hdr \in Nat
  <1>1. /\ sid.id \in Nat /\ sid.initiator \in BOOLEAN
        /\ sid = [id |-> sid.id, initiator |-> sid.initiator]
    BY DEF StreamID
  <1>2. \A n \in Nat, k \in 0 .. 7 : (n * 8 + k) % 8 = k /\ (n * 8 + k) \div 8 = n /\ n * 8 + k \in Nat
    OBVIOUS
  <1> DEFINE k == IF tag = "NewStream" \/ sid.initiator THEN TagVal[tag] ELSE TagVal[tag] - 1
             d == decode(encode(tag, sid))
  <1>3. k \in 0 .. 7 /\ encode(tag, sid) = sid.id * 8 + k
    BY <1>1 DEF encode, TagVal, Tags
  <1>4. /\ sid.initiator => k \in {0, 2, 4, 6} /\ k = TagVal[tag]
        /\ ~sid.initiator => k \in {1, 3, 5} /\ k = TagVal[tag] - 1 /\ tag # "NewStream"
    BY <1>1 DEF TagVal, Tags
  <1> HIDE DEF k
  <1>5. encode(tag, sid) % 8 = k /\ encode(tag, sid) \div 8 = sid.id /\ encode(tag, sid) \in Nat
    BY <1>1, <1>2, <1>3
  <1>6. /\ d.sid = [id |-> sid.id, initiator |-> k % 2 # 0]
        /\ d.tag = (CASE k = 0 -> "NewStream" [] k \in {1, 2} -> "Message"
                      [] k \in {3, 4} -> "Close" [] OTHER -> "Reset")
    BY <1>5 DEF decode
  <1>7. d.tag = tag
    BY <1>1, <1>4, <1>6 DEF TagVal, Tags
  <1>8. Flip(d.sid) = sid
    <2>1. CASE sid.initiator = TRUE
      <3>1. k % 2 = 0
        BY <1>4, <2>1
      <3>2. d.sid = [id |-> sid.id, initiator |-> FALSE]
        BY <1>6, <3>1
      <3> QED
        BY <1>1, <2>1, <3>2 DEF Flip
    <2>2. CASE sid.initiator = FALSE
      <3>1. k % 2 # 0
        BY <1>4, <2>2
      <3>2. d.sid = [id |-> sid.id, initiator |-> TRUE]
        BY <1>6, <3>1
      <3> QED
        BY <1>1, <2>2, <3>2 DEF Flip
    <2> QED
      BY <1>1, <2>1, <2>2
  <1> QED
    BY <1>5, <1>7, <1>8 DEF TagOf, SidOf, Frame

LEMMA DecodedTypes ==
    ASSUME NEW f \in Frames
    PROVE  TagOf(f) \in Tags /\ SidOf(f) \in StreamID /\ Flip(SidOf(f)) = decode(f.hdr).sid
  <1>1. f.hdr \in Nat /\ f.hdr \div 8 \in Nat
    BY DEF Frames
  <1>2. decode(f.hdr).sid \in StreamID /\ decode(f.hdr).tag \in Tags
    BY <1>1 DEF decode, StreamID, Tags
  <1> QED
    BY <1>2, FlipFlip DEF TagOf, SidOf
-----------------------------------------------------------------------------
(* Counting in a sequence. *)

LEMMA CountsEmpty ==
    ASSUME NEW v, NEW lo \in Nat, NEW hi \in Nat, Counts(v, lo, hi), \A i \in 1 .. Len(v) : v[i] = 0
    PROVE  lo = hi
  BY DEF Counts, Reached

LEMMA CountsZeros ==
    ASSUME NEW v, NEW lo \in Nat, \A i \in 1 .. Len(v) : v[i] = 0
    PROVE  Counts(v, lo, lo)
  BY DEF Counts, Within, Rising, Reached

LEMMA CountsAppend ==
    ASSUME NEW v \in Seq(Nat), NEW x \in Nat, NEW lo \in Nat, NEW hi \in Nat, Counts(v, lo, hi)
    PROVE  /\ x = 0 => Counts(Append(v, x), lo, hi)
           /\ x = hi + 1 => Counts(Append(v, x), lo, hi + 1)
  <1> DEFINE w == Append(v, x)
             n == Len(v)
  <1>1. n \in Nat /\ Len(w) = n + 1 /\ w[n + 1] = x /\ \A i \in 1 .. n : w[i] = v[i]
    OBVIOUS
  <1>2. \A i \in 1 .. n : v[i] \in Nat
    OBVIOUS
  <1>3. lo <= hi /\ Within(v, lo, hi) /\ Rising(v) /\ Reached(v, lo, hi)
    BY DEF Counts
  <1> HIDE DEF w
  <1>4. ASSUME x = 0 PROVE Counts(w, lo, hi)
    <2>1. Within(w, lo, hi)
      BY <1>1, <1>3, <1>4 DEF Within
    <2>2. Rising(w)
      BY <1>1, <1>3, <1>4 DEF Rising
    <2>3. Reached(w, lo, hi)
      <3> SUFFICES ASSUME NEW k \in lo + 1 .. hi PROVE \E i \in 1 .. Len(w) : w[i] = k
        BY DEF Reached
      <3>1. PICK i \in 1 .. n : v[i] = k
        BY <1>3 DEF Reached
      <3>2. i \in 1 .. Len(w) /\ w[i] = k
        BY <1>1, <3>1
      <3> QED
        BY <3>2
    <2> QED
      BY <1>3, <2>1, <2>2, <2>3 DEF Counts
  <1>5. ASSUME x = hi + 1 PROVE Counts(w, lo, hi + 1)
    <2>1. Within(w, lo, hi + 1)
      BY <1>1, <1>2, <1>3, <1>5 DEF Within
    <2>2. Rising(w)
      <3> SUFFICES ASSUME NEW i \in 1 .. n + 1, NEW j \in 1 .. n + 1, i < j, w[i] # 0, w[j] # 0
                   PROVE  w[i] < w[j]
        BY <1>1 DEF Rising
      <3>1. i \in 1 .. n /\ w[i] = v[i] /\ v[i] \in Nat /\ v[i] <= hi
        BY <1>1, <1>2, <1>3 DEF Within
      <3>2. CASE j = n + 1
        BY <1>1, <1>5, <3>1, <3>2
      <3>3. CASE j \in 1 .. n
        BY <1>1, <1>3, <3>1, <3>3 DEF Rising
      <3> QED
        BY <1>1, <3>2, <3>3
    <2>3. Reached(w, lo, hi + 1)
      <3> SUFFICES ASSUME NEW k \in lo + 1 .. hi + 1 PROVE \E i \in 1 .. Len(w) : w[i] = k
        BY DEF Reached
      <3>1. CASE k = hi + 1
        BY <1>1, <1>5, <3>1
      <3>2. CASE k \in lo + 1 .. hi
        <4>1. PICK i \in 1 .. n : v[i] = k
          BY <1>3, <3>2 DEF Reached
        <4>2. i \in 1 .. Len(w) /\ w[i] = k
          BY <1>1, <4>1
        <4> QED
          BY <4>2
      <3> QED
        BY <3>1, <3>2
    <2> QED
      BY <1>3, <2>1, <2>2, <2>3 DEF Counts
  <1> QED
    BY <1>4, <1>5 DEF w

LEMMA CountsTail ==
    ASSUME NEW v \in Seq(Nat), v # <<>>, NEW lo \in Nat, NEW hi \in Nat, Counts(v, lo, hi)
    PROVE  /\ v[1] = 0 => Counts(Tail(v), lo, hi)
           /\ v[1] # 0 => v[1] = lo + 1 /\ lo + 1 <= hi /\ Counts(Tail(v), lo + 1, hi)
  <1> DEFINE w == Tail(v)
             n == Len(v)
  <1>1. n \in Nat \ {0} /\ Len(w) = n - 1 /\ \A i \in 1 .. n - 1 : w[i] = v[i + 1]
    OBVIOUS
  <1>2. \A i \in 1 .. n : v[i] \in Nat
    OBVIOUS
  <1>3. lo <= hi /\ Within(v, lo, hi) /\ Rising(v) /\ Reached(v, lo, hi)
    BY DEF Counts
  <1> HIDE DEF w
  <1>4. \A i \in 1 .. n : i # 1 => i - 1 \in 1 .. Len(w) /\ w[i - 1] = v[i]
    BY <1>1
  <1>5. Rising(w)
    <2> SUFFICES ASSUME NEW i \in 1 .. n - 1, NEW j \in 1 .. n - 1, i < j, w[i] # 0, w[j] # 0
                 PROVE  w[i] < w[j]
      BY <1>1 DEF Rising
    <2>1. i + 1 \in 1 .. n /\ j + 1 \in 1 .. n /\ i + 1 < j + 1 /\ w[i] = v[i + 1] /\ w[j] = v[j + 1]
      BY <1>1
    <2> QED
      BY <1>3, <2>1 DEF Rising
  <1>6. Within(w, lo, hi)
    BY <1>1, <1>3 DEF Within
  <1>7. ASSUME v[1] = 0 PROVE Counts(w, lo, hi)
    <2>1. Reached(w, lo, hi)
      <3> SUFFICES ASSUME NEW k \in lo + 1 .. hi PROVE \E i \in 1 .. Len(w) : w[i] = k
        BY DEF Reached
      <3>1. PICK i \in 1 .. n : v[i] = k
        BY <1>3 DEF Reached
      <3> QED
        BY <1>4, <1>7, <3>1
    <2> QED
      BY <1>3, <1>5, <1>6, <2>1 DEF Counts
  <1>8. ASSUME v[1] # 0 PROVE v[1] = lo + 1 /\ lo + 1 <= hi /\ Counts(w, lo + 1, hi)
    <2>1. lo < v[1] /\ v[1] <= hi /\ v[1] \in Nat
      BY <1>1, <1>2, <1>3, <1>8 DEF Within
    <2>2. PICK i \in 1 .. n : v[i] = lo + 1
      BY <1>3, <2>1 DEF Reached
    <2>3. i = 1
      BY <1>1, <1>3, <1>8, <2>1, <2>2 DEF Rising
    <2>4. Reached(w, lo + 1, hi)
      <3> SUFFICES ASSUME NEW k \in lo + 2 .. hi PROVE \E j \in 1 .. Len(w) : w[j] = k
        BY DEF Reached
      <3>1. PICK j \in 1 .. n : v[j] = k
        BY <1>3 DEF Reached
      <3>2. j # 1
        BY <2>2, <2>3, <3>1
      <3>3. j - 1 \in 1 .. Len(w) /\ w[j - 1] = k
        BY <1>4, <3>1, <3>2
      <3> QED
        BY <3>3
    <2>5. Within(w, lo + 1, hi)
      <3> SUFFICES ASSUME NEW j \in 1 .. Len(w), w[j] # 0 PROVE lo + 1 < w[j] /\ w[j] <= hi
        BY DEF Within
      <3>1. w[j] = v[j + 1] /\ j + 1 \in 1 .. n /\ 1 < j + 1 /\ 1 \in 1 .. n
        BY <1>1
      <3>2. v[1] < v[j + 1]
        BY <1>3, <1>8, <3>1 DEF Rising
      <3> QED
        BY <1>2, <1>6, <2>2, <2>3, <3>1, <3>2 DEF Within
    <2> QED
      BY <1>5, <2>1, <2>2, <2>3, <2>4, <2>5 DEF Counts
  <1> QED
    BY <1>7, <1>8 DEF w

\* The last number was not sent after all.
LEMMA CountsFront ==
    ASSUME NEW v \in Seq(Nat), NEW x \in Nat, NEW lo \in Nat, NEW hi \in Nat,
           Counts(Append(v, x), lo, hi)
    PROVE  /\ x = 0 => Counts(v, lo, hi)
           /\ \E h \in lo .. hi : Counts(v, lo, h)
  <1> DEFINE w == Append(v, x)
             n == Len(v)
  <1>1. n \in Nat /\ Len(w) = n + 1 /\ w[n + 1] = x /\ \A i \in 1 .. n : w[i] = v[i]
    OBVIOUS
  <1>2. \A i \in 1 .. n : v[i] \in Nat
    OBVIOUS
  <1>3. lo <= hi /\ Within(w, lo, hi) /\ Rising(w) /\ Reached(w, lo, hi)
    BY DEF Counts
  <1> HIDE DEF w
  <1>4. Rising(v) /\ Within(v, lo, hi)
    BY <1>1, <1>3 DEF Rising, Within
  <1>5. ASSUME x = 0 PROVE Counts(v, lo, hi)
    <2>1. Reached(v, lo, hi)
      <3> SUFFICES ASSUME NEW k \in lo + 1 .. hi PROVE \E i \in 1 .. n : v[i] = k
        BY DEF Reached
      <3>1. PICK i \in 1 .. n + 1 : w[i] = k
        BY <1>1, <1>3 DEF Reached
      <3> QED
        BY <1>1, <1>5, <3>1
    <2> QED
      BY <1>3, <1>4, <2>1 DEF Counts
  <1>6. ASSUME x # 0 PROVE Counts(v, lo, x - 1) /\ x - 1 \in lo .. hi
    <2>1. lo < x /\ x <= hi
      BY <1>1, <1>3, <1>6 DEF Within
    <2>2. Within(v, lo, x - 1)
      <3> SUFFICES ASSUME NEW i \in 1 .. n, v[i] # 0 PROVE lo < v[i] /\ v[i] <= x - 1
        BY DEF Within
      <3>1. w[i] = v[i] /\ i < n + 1 /\ i \in 1 .. n + 1 /\ n + 1 \in 1 .. n + 1
        BY <1>1
      <3>2. v[i] < x
        BY <1>1, <1>3, <1>6, <3>1 DEF Rising
      <3> QED
        BY <1>2, <1>4, <3>2 DEF Within
    <2>3. Reached(v, lo, x - 1)
      <3> SUFFICES ASSUME NEW k \in lo + 1 .. x - 1 PROVE \E i \in 1 .. n : v[i] = k
        BY DEF Reached
      <3>1. PICK i \in 1 .. n + 1 : w[i] = k
        BY <1>1, <1>3, <2>1 DEF Reached
      <3>2. i # n + 1
        BY <1>1, <3>1
      <3>3. i \in 1 .. n /\ v[i] = k
        BY <1>1, <3>1, <3>2
      <3> QED
        BY <3>3
    <2> QED
      BY <1>4, <2>1, <2>2, <2>3 DEF Counts
  <1> QED
    BY <1>3, <1>5, <1>6

Commands == [type : {"SendFrame", "CloseStream", "ResetStream"}, sid : StreamID, body : Bodies]

LEMMA ValTypes ==
    /\ \A f \in Frames : NewVal(f) \in Nat
    /\ \A f \in Frames : \A sid : MsgVal(f, sid) \in Nat
    /\ \A c \in Commands : \A sid : CmdVal(c, sid) \in Nat
  <1>1. \A f \in Frames : SidOf(f).id \in Nat /\ f.body.n \in Nat
    BY DecodedTypes DEF Frames, Bodies, StreamID
  <1>2. \A c \in Commands : c.body.n \in Nat
    BY DEF Commands, Bodies
  <1> QED
    BY <1>1, <1>2 DEF NewVal, MsgVal, CmdVal

\* The numbers of a longer and of a shorter sequence.
LEMMA NewValsStep ==
    ASSUME NEW s \in Seq(Frames)
    PROVE  /\ NewVals(s) \in Seq(Nat) /\ Len(NewVals(s)) = Len(s)
           /\ \A f \in Frames : NewVals(Append(s, f)) = Append(NewVals(s), NewVal(f))
           /\ s # <<>> => /\ NewVals(s) # <<>> /\ NewVals(s)[1] = NewVal(Head(s))
                          /\ NewVals(Tail(s)) = Tail(NewVals(s))
  <1>1. \A i \in 1 .. Len(s) : s[i] \in Frames
    OBVIOUS
  <1>2. NewVals(s) \in Seq(Nat) /\ Len(NewVals(s)) = Len(s)
    BY <1>1, ValTypes DEF NewVals
  <1>3. ASSUME NEW f \in Frames PROVE NewVals(Append(s, f)) = Append(NewVals(s), NewVal(f))
    BY <1>2, ValTypes DEF NewVals
  <1>4. ASSUME s # <<>> PROVE NewVals(Tail(s)) = Tail(NewVals(s)) /\ NewVals(s) # <<>> /\ NewVals(s)[1] = NewVal(Head(s))
    BY <1>2, <1>4, ValTypes DEF NewVals
  <1> QED
    BY <1>2, <1>3, <1>4

LEMMA MsgValsStep ==
    ASSUME NEW s \in Seq(Frames), NEW sid
    PROVE  /\ MsgVals(s, sid) \in Seq(Nat) /\ Len(MsgVals(s, sid)) = Len(s)
           /\ \A f \in Frames : MsgVals(Append(s, f), sid) = Append(MsgVals(s, sid), MsgVal(f, sid))
           /\ s # <<>> => /\ MsgVals(s, sid) # <<>> /\ MsgVals(s, sid)[1] = MsgVal(Head(s), sid)
                          /\ MsgVals(Tail(s), sid) = Tail(MsgVals(s, sid))
  <1>1. \A i \in 1 .. Len(s) : s[i] \in Frames
    OBVIOUS
  <1>2. MsgVals(s, sid) \in Seq(Nat) /\ Len(MsgVals(s, sid)) = Len(s)
    BY <1>1, ValTypes DEF MsgVals
  <1>3. ASSUME NEW f \in Frames PROVE MsgVals(Append(s, f), sid) = Append(MsgVals(s, sid), MsgVal(f, sid))
    BY <1>2, ValTypes DEF MsgVals
  <1>4. ASSUME s # <<>>
        PROVE  /\ MsgVals(Tail(s), sid) = Tail(MsgVals(s, sid)) /\ MsgVals(s, sid) # <<>>
               /\ MsgVals(s, sid)[1] = MsgVal(Head(s), sid)
    BY <1>2, <1>4, ValTypes DEF MsgVals
  <1> QED
    BY <1>2, <1>3, <1>4

LEMMA CmdValsStep ==
    ASSUME NEW q \in Seq(Commands), NEW sid
    PROVE  /\ CmdVals(q, sid) \in Seq(Nat) /\ Len(CmdVals(q, sid)) = Len(q)
           /\ \A c \in Commands : CmdVals(Append(q, c), sid) = Append(CmdVals(q, sid), CmdVal(c, sid))
           /\ q # <<>> => /\ CmdVals(q, sid) # <<>> /\ CmdVals(q, sid)[1] = CmdVal(Head(q), sid)
                          /\ CmdVals(Tail(q), sid) = Tail(CmdVals(q, sid))
  <1>1. \A i \in 1 .. Len(q) : q[i] \in Commands
    OBVIOUS
  <1>2. CmdVals(q, sid) \in Seq(Nat) /\ Len(CmdVals(q, sid)) = Len(q)
    BY <1>1, ValTypes DEF CmdVals
  <1>3. ASSUME NEW c \in Commands PROVE CmdVals(Append(q, c), sid) = Append(CmdVals(q, sid), CmdVal(c, sid))
    BY <1>2, ValTypes DEF CmdVals
  <1>4. ASSUME q # <<>>
        PROVE  /\ CmdVals(Tail(q), sid) = Tail(CmdVals(q, sid)) /\ CmdVals(q, sid) # <<>>
               /\ CmdVals(q, sid)[1] = CmdVal(Head(q), sid)
    BY <1>2, <1>4, ValTypes DEF CmdVals
  <1> QED
    BY <1>2, <1>3, <1>4
-----------------------------------------------------------------------------
(* What frames there are: adding one, reading one, losing the last. *)

LEMMA FramesGrow ==
    ASSUME NEW e, NEW s, NEW K, NEW L, NEW K2, NEW L2, FramesOK(e, s, K, L), K \subseteq K2, L \subseteq L2
    PROVE  FramesOK(e, s, K2, L2)
  BY DEF FramesOK

LEMMA FramesRead ==
    ASSUME NEW e, NEW s \in Seq(Frames), NEW K, NEW L, NEW L2, FramesOK(e, s, K, L), s # <<>>, L \subseteq L2,
           TagOf(Head(s)) = "NewStream" => Flip(SidOf(Head(s))) \in L2
    PROVE  FramesOK(e, Tail(s), K, L2)
  <1> DEFINE w == Tail(s)
             n == Len(s)
  <1>1. /\ n \in Nat \ {0} /\ Len(w) = n - 1 /\ DOMAIN s = 1 .. n /\ DOMAIN w = 1 .. n - 1
        /\ \A i \in 1 .. n - 1 : w[i] = s[i + 1]
    OBVIOUS
  <1> HIDE DEF w
  <1> SUFFICES ASSUME NEW i \in 1 .. n - 1
               PROVE  /\ SidOf(w[i]) \in K
                      /\ TagOf(w[i]) = "NewStream" => SidOf(w[i]).initiator
                      /\ TagOf(w[i]) = "Message" => BodyOK(w[i].body, e, SidOf(w[i]))
                      /\ TagOf(w[i]) # "NewStream" =>
                            \/ Flip(SidOf(w[i])) \in L2
                            \/ \E j \in 1 .. i - 1 : TagOf(w[j]) = "NewStream" /\ SidOf(w[j]) = SidOf(w[i])
                      /\ TagOf(w[i]) = "Close" =>
                            \A j \in i + 1 .. n - 1 : SidOf(w[j]) = SidOf(w[i]) => TagOf(w[j]) = "Reset"
    BY <1>1 DEF FramesOK, w
  <1>2. i + 1 \in DOMAIN s /\ w[i] = s[i + 1]
    BY <1>1
  <1>3. ASSUME TagOf(w[i]) # "NewStream", Flip(SidOf(w[i])) \notin L2
        PROVE  \E j \in 1 .. i - 1 : TagOf(w[j]) = "NewStream" /\ SidOf(w[j]) = SidOf(w[i])
    <2>1. PICK j \in 1 .. i : TagOf(s[j]) = "NewStream" /\ SidOf(s[j]) = SidOf(s[i + 1])
      BY <1>2, <1>3 DEF FramesOK
    <2>2. j # 1
      BY <1>2, <1>3, <2>1
    <2>3. j - 1 \in 1 .. i - 1 /\ w[j - 1] = s[j]
      BY <1>1, <2>2
    <2> QED
      BY <1>2, <2>1, <2>3
  <1>4. ASSUME TagOf(w[i]) = "Close", NEW j \in i + 1 .. n - 1, SidOf(w[j]) = SidOf(w[i])
        PROVE  TagOf(w[j]) = "Reset"
    <2>1. j + 1 \in (i + 1) + 1 .. Len(s) /\ w[j] = s[j + 1]
      BY <1>1
    <2> QED
      BY <1>2, <1>4, <2>1 DEF FramesOK
  <1> QED
    BY <1>2, <1>3, <1>4 DEF FramesOK

LEMMA FramesSend ==
    ASSUME NEW e, NEW s \in Seq(Frames), NEW K, NEW L, FramesOK(e, s, K, L), NEW f \in Frames,
           SidOf(f) \in K,
           TagOf(f) = "NewStream" => SidOf(f).initiator,
           TagOf(f) = "Message" => BodyOK(f.body, e, SidOf(f)),
           TagOf(f) # "NewStream" =>
              Flip(SidOf(f)) \in L \/ Has(s, "NewStream", SidOf(f)),
           TagOf(f) # "Reset" => ~Has(s, "Close", SidOf(f))
    PROVE  FramesOK(e, Append(s, f), K, L)
  <1> DEFINE w == Append(s, f)
             n == Len(s)
  <1>1. /\ n \in Nat /\ DOMAIN s = 1 .. n /\ DOMAIN w = 1 .. n + 1 /\ Len(w) = n + 1
        /\ w[n + 1] = f /\ \A i \in 1 .. n : w[i] = s[i]
    OBVIOUS
  <1> HIDE DEF w
  <1> SUFFICES ASSUME NEW i \in 1 .. n + 1
               PROVE  /\ SidOf(w[i]) \in K
                      /\ TagOf(w[i]) = "NewStream" => SidOf(w[i]).initiator
                      /\ TagOf(w[i]) = "Message" => BodyOK(w[i].body, e, SidOf(w[i]))
                      /\ TagOf(w[i]) # "NewStream" =>
                            \/ Flip(SidOf(w[i])) \in L
                            \/ \E j \in 1 .. i - 1 : TagOf(w[j]) = "NewStream" /\ SidOf(w[j]) = SidOf(w[i])
                      /\ TagOf(w[i]) = "Close" =>
                            \A j \in i + 1 .. n + 1 : SidOf(w[j]) = SidOf(w[i]) => TagOf(w[j]) = "Reset"
    BY <1>1 DEF FramesOK, w
  <1>2. CASE i = n + 1
    BY <1>1, <1>2 DEF Has
  <1>3. CASE i \in 1 .. n
    <2>1. w[i] = s[i] /\ \A j \in 1 .. i - 1 : w[j] = s[j]
      BY <1>1, <1>3
    <2>2. ASSUME TagOf(w[i]) = "Close", NEW j \in i + 1 .. n + 1, SidOf(w[j]) = SidOf(w[i])
          PROVE  TagOf(w[j]) = "Reset"
      <3>1. CASE j = n + 1
        BY <1>1, <1>3, <2>1, <2>2, <3>1 DEF Has
      <3>2. CASE j \in i + 1 .. n
        BY <1>1, <1>3, <2>1, <2>2, <3>2 DEF FramesOK
      <3> QED
        BY <1>1, <3>1, <3>2
    <2> QED
      BY <1>1, <1>3, <2>1, <2>2 DEF FramesOK
  <1> QED
    BY <1>1, <1>2, <1>3

LEMMA FramesLost ==
    ASSUME NEW e, NEW s \in Seq(Frames), NEW K, NEW L, NEW f \in Frames, FramesOK(e, Append(s, f), K, L)
    PROVE  FramesOK(e, s, K, L)
  <1> DEFINE w == Append(s, f)
             n == Len(s)
  <1>1. /\ n \in Nat /\ DOMAIN s = 1 .. n /\ DOMAIN w = 1 .. n + 1 /\ Len(w) = n + 1
        /\ \A i \in 1 .. n : w[i] = s[i]
    OBVIOUS
  <1>2. FramesOK(e, w, K, L)
    OBVIOUS
  <1> HIDE DEF w
  <1> SUFFICES ASSUME NEW i \in 1 .. n
               PROVE  /\ SidOf(s[i]) \in K
                      /\ TagOf(s[i]) = "NewStream" => SidOf(s[i]).initiator
                      /\ TagOf(s[i]) = "Message" => BodyOK(s[i].body, e, SidOf(s[i]))
                      /\ TagOf(s[i]) # "NewStream" =>
                            \/ Flip(SidOf(s[i])) \in L
                            \/ \E j \in 1 .. i - 1 : TagOf(s[j]) = "NewStream" /\ SidOf(s[j]) = SidOf(s[i])
                      /\ TagOf(s[i]) = "Close" =>
                            \A j \in i + 1 .. n : SidOf(s[j]) = SidOf(s[i]) => TagOf(s[j]) = "Reset"
    BY <1>1 DEF FramesOK
  <1>3. w[i] = s[i] /\ \A j \in 1 .. n : w[j] = s[j]
    BY <1>1
  <1>4. ASSUME TagOf(s[i]) = "Close", NEW j \in i + 1 .. n, SidOf(s[j]) = SidOf(s[i])
        PROVE  TagOf(s[j]) = "Reset"
    <2>1. j \in i + 1 .. Len(w) /\ w[j] = s[j]
      BY <1>1
    <2> QED
      BY <1>1, <1>2, <1>3, <1>4, <2>1 DEF FramesOK
  <1> QED
    BY <1>1, <1>2, <1>3, <1>4 DEF FramesOK
-----------------------------------------------------------------------------
(* Which streams there are. *)

LEMMA InNumbered ==
    ASSUME NEW n \in Nat, NEW b \in BOOLEAN
    PROVE  /\ Numbered(n, b) \subseteq StreamID
           /\ \A x \in StreamID : x \in Numbered(n, b) <=> x.id < n /\ x.initiator = b
           /\ Numbered(n + 1, b) = Numbered(n, b) \cup {[id |-> n, initiator |-> b]}
  <1>1. Numbered(n, b) \subseteq StreamID
    BY DEF Numbered, StreamID
  <1>2. ASSUME NEW x \in Numbered(n, b) PROVE x.id < n /\ x.initiator = b
    BY DEF Numbered
  <1>3. ASSUME NEW x \in StreamID, x.id < n, x.initiator = b PROVE x \in Numbered(n, b)
    <2>1. x.id \in 0 .. n - 1 /\ x = [id |-> x.id, initiator |-> b]
      BY <1>3 DEF StreamID
    <2> QED
      BY <2>1 DEF Numbered
  <1>4. Numbered(n + 1, b) = Numbered(n, b) \cup {[id |-> n, initiator |-> b]}
    <2>1. 0 .. (n + 1) - 1 = (0 .. n - 1) \cup {n}
      OBVIOUS
    <2> QED
      BY <2>1, Zenon DEF Numbered
  <1> QED
    BY <1>1, <1>2, <1>3, <1>4

LEMMA NumberedHere ==
    ASSUME NEW n \in Nat, NEW x \in StreamID
    PROVE  /\ x \in Numbered(n, TRUE) <=> x.id < n /\ x.initiator
           /\ x \in Numbered(n, FALSE) <=> x.id < n /\ ~x.initiator
  <1>1. x.initiator \in BOOLEAN
    BY DEF StreamID
  <1>2. x \in Numbered(n, TRUE) <=> x.id < n /\ x.initiator = TRUE
    BY InNumbered
  <1>3. x \in Numbered(n, FALSE) <=> x.id < n /\ x.initiator = FALSE
    BY InNumbered
  <1> QED
    BY <1>1, <1>2, <1>3

\* A number tells how many there are.
LEMMA NumberedEqual ==
    ASSUME NEW n \in Nat, NEW m \in Nat, NEW b \in BOOLEAN, Numbered(n, b) = Numbered(m, b)
    PROVE  n = m
  <1>1. ASSUME NEW i \in Nat, NEW k \in Nat, i < k, Numbered(i, b) = Numbered(k, b) PROVE FALSE
    <2> DEFINE x == [id |-> i, initiator |-> b]
    <2>1. x \in StreamID /\ x.id = i /\ x.initiator = b
      BY DEF StreamID
    <2> HIDE DEF x
    <2>2. x \in Numbered(k, b) /\ ~(x \in Numbered(i, b))
      BY <1>1, <2>1, InNumbered
    <2> QED
      BY <1>1, <2>2
  <1> QED
    BY <1>1

OpenAt(s, n, run, K, L, lo, hi) ==
    /\ {sid \in K : sid.initiator} = Numbered(n, TRUE)
    /\ {sid \in L : ~sid.initiator} = Numbered(lo, FALSE)
    /\ Counts(NewVals(s), lo, hi)
    /\ run => hi = n

LEMMA OpenIs ==
    ASSUME NEW s, NEW n, NEW run, NEW K, NEW L
    PROVE  OpenOK(s, n, run, K, L) <=> \E lo, hi \in 0 .. n : OpenAt(s, n, run, K, L, lo, hi)
  BY DEF OpenOK, OpenAt

\* A stream that the other end has opened it has too.
LEMMA OpenHas ==
    ASSUME NEW s \in Seq(Frames), NEW n \in Nat, NEW K \in SUBSET StreamID, NEW L \in SUBSET StreamID,
           NEW run, OpenOK(s, n, run, K, L)
    PROVE  \A sid \in L : ~sid.initiator => Flip(sid) \in K
  <1>1. PICK lo, hi \in 0 .. n : OpenAt(s, n, run, K, L, lo, hi)
    BY OpenIs
  <1>2. ASSUME NEW sid \in L, ~sid.initiator PROVE Flip(sid) \in K
    <2>1. sid \in StreamID /\ sid \in Numbered(lo, FALSE)
      BY <1>1, <1>2 DEF OpenAt
    <2>2. lo \in Nat /\ lo <= n /\ sid.id \in Nat
      BY <2>1 DEF StreamID
    <2>3. sid.id < n
      <3>1. sid.id < lo
        BY <2>1, <2>2, NumberedHere, Zenon
      <3> QED
        BY <2>2, <3>1
    <2>4. Flip(sid) \in Numbered(n, TRUE)
      BY <1>2, <2>1, <2>3, FlipFlip, NumberedHere
    <2> QED
      BY <1>1, <2>4 DEF OpenAt
  <1> QED
    BY <1>2

\* A stream that was opened here the other end has, or it is on its way.
LEMMA OpenOnWay ==
    ASSUME NEW e, NEW s \in Seq(Frames), NEW n \in Nat, NEW K \in SUBSET StreamID, NEW L \in SUBSET StreamID,
           FramesOK(e, s, K, L), OpenOK(s, n, TRUE, K, L)
    PROVE  \A sid \in K : sid.initiator => Flip(sid) \in L \/ Has(s, "NewStream", sid)
  <1>1. PICK lo, hi \in 0 .. n : OpenAt(s, n, TRUE, K, L, lo, hi)
    BY OpenIs
  <1>2. ASSUME NEW sid \in K, sid.initiator, Flip(sid) \notin L
        PROVE  Has(s, "NewStream", sid)
    <2>1. sid \in StreamID /\ sid \in Numbered(n, TRUE) /\ hi = n
      BY <1>1, <1>2 DEF OpenAt
    <2>2. sid.id < n /\ sid.id \in Nat /\ sid.initiator /\ lo \in Nat
      <3>1. sid.id < n
        BY <2>1, NumberedHere, Zenon
      <3> QED
        BY <1>2, <2>1, <3>1 DEF StreamID
    <2>3. Flip(sid) \in StreamID /\ Flip(sid).id = sid.id /\ ~Flip(sid).initiator
      BY <2>1, <2>2, FlipFlip
    <2>4. ~(sid.id < lo)
      <3>1. Flip(sid) \notin Numbered(lo, FALSE)
        BY <1>1, <1>2 DEF OpenAt
      <3> QED
        BY <2>2, <2>3, <3>1, NumberedHere
    <2>5. sid.id + 1 \in lo + 1 .. hi
      BY <2>1, <2>2, <2>4
    <2>6. PICK j \in 1 .. Len(NewVals(s)) : NewVals(s)[j] = sid.id + 1
      BY <1>1, <2>5 DEF OpenAt, Counts, Reached
    <2>7. j \in 1 .. Len(s) /\ NewVal(s[j]) = sid.id + 1 /\ s[j] \in Frames
      BY <2>6, NewValsStep DEF NewVals
    <2>8. SidOf(s[j]) \in StreamID
      BY <2>7, DecodedTypes
    <2>9. TagOf(s[j]) = "NewStream" /\ SidOf(s[j]).id + 1 = sid.id + 1
      BY <2>2, <2>7, <2>8 DEF NewVal, StreamID
    <2>10. SidOf(s[j]).initiator /\ SidOf(s[j]).id = sid.id
      BY <2>2, <2>7, <2>8, <2>9 DEF FramesOK, StreamID
    <2>11. SidOf(s[j]) = sid
      BY <2>1, <2>2, <2>8, <2>10 DEF StreamID
    <2> QED
      BY <2>7, <2>9, <2>11 DEF Has
  <1> QED
    BY <1>2

LEMMA OpenRead ==
    ASSUME NEW s \in Seq(Frames), NEW n \in Nat, NEW run, NEW K, NEW L, OpenOK(s, n, run, K, L),
           s # <<>>, TagOf(Head(s)) # "NewStream"
    PROVE  OpenOK(Tail(s), n, run, K, L)
  <1>1. PICK lo, hi \in 0 .. n : OpenAt(s, n, run, K, L, lo, hi)
    BY OpenIs
  <1>2. Counts(NewVals(Tail(s)), lo, hi)
    <2>1. NewVals(s) \in Seq(Nat) /\ NewVals(s) # <<>> /\ NewVals(s)[1] = 0 /\ NewVals(Tail(s)) = Tail(NewVals(s))
      BY NewValsStep DEF NewVal
    <2>2. Counts(NewVals(s), lo, hi) /\ lo \in Nat /\ hi \in Nat
      BY <1>1 DEF OpenAt
    <2> QED
      BY <2>1, <2>2, CountsTail
  <1> QED
    BY <1>1, <1>2, OpenIs DEF OpenAt

LEMMA OpenReadNew ==
    ASSUME NEW s \in Seq(Frames), NEW n \in Nat, NEW run, NEW K, NEW L \in SUBSET StreamID, OpenOK(s, n, run, K, L),
           s # <<>>, TagOf(Head(s)) = "NewStream", SidOf(Head(s)).initiator
    PROVE  LET sid == Flip(SidOf(Head(s))) IN
           /\ sid \notin L /\ ~sid.initiator /\ sid.id \in Nat /\ sid = [id |-> sid.id, initiator |-> FALSE]
           /\ {x \in L : ~x.initiator} = Numbered(sid.id, FALSE)
           /\ OpenOK(Tail(s), n, run, K, L \cup {sid})
  <1> DEFINE sid == Flip(SidOf(Head(s)))
  <1>1. PICK lo, hi \in 0 .. n : OpenAt(s, n, run, K, L, lo, hi)
    BY OpenIs
  <1>2. Head(s) \in Frames /\ SidOf(Head(s)) \in StreamID
    BY DecodedTypes
  <1>3. sid.id \in Nat /\ sid = [id |-> sid.id, initiator |-> FALSE] /\ ~sid.initiator
    BY <1>2 DEF Flip, StreamID
  <1>4. NewVal(Head(s)) = sid.id + 1
    BY <1>2 DEF NewVal, Flip
  <1>5. sid.id + 1 = lo + 1 /\ lo + 1 <= hi /\ Counts(NewVals(Tail(s)), lo + 1, hi)
    <2>1. NewVals(s) \in Seq(Nat) /\ NewVals(s) # <<>> /\ NewVals(s)[1] = sid.id + 1 /\ NewVals(Tail(s)) = Tail(NewVals(s))
      BY <1>4, NewValsStep
    <2>2. Counts(NewVals(s), lo, hi) /\ lo \in Nat /\ hi \in Nat
      BY <1>1 DEF OpenAt
    <2>3. sid.id + 1 # 0
      BY <1>3
    <2> QED
      BY <2>1, <2>2, <2>3, CountsTail
  <1>6. sid.id = lo /\ lo + 1 \in 0 .. n
    BY <1>3, <1>5
  <1> HIDE DEF sid
  <1>7. {x \in L : ~x.initiator} = Numbered(lo, FALSE)
    BY <1>1 DEF OpenAt
  <1>8. sid \notin L
    <2>1. sid \in StreamID /\ lo \in Nat /\ ~(sid.id < lo)
      BY <1>2, <1>3, <1>6, FlipFlip DEF sid
    <2>2. sid \notin Numbered(lo, FALSE)
      BY <2>1, NumberedHere
    <2> QED
      BY <1>3, <1>7, <2>2
  <1>9. {x \in L \cup {sid} : ~x.initiator} = Numbered(lo + 1, FALSE)
    <2>1. Numbered(lo + 1, FALSE) = Numbered(lo, FALSE) \cup {sid}
      BY <1>3, <1>6, InNumbered
    <2> QED
      BY <1>3, <1>7, <2>1
  <1>10. OpenAt(Tail(s), n, run, K, L \cup {sid}, lo + 1, hi)
    BY <1>1, <1>5, <1>9 DEF OpenAt
  <1>11. OpenOK(Tail(s), n, run, K, L \cup {sid})
    BY <1>6, <1>10, OpenIs
  <1> QED
    BY <1>3, <1>6, <1>7, <1>8, <1>11 DEF sid

LEMMA OpenSend ==
    ASSUME NEW s \in Seq(Frames), NEW n \in Nat, NEW run, NEW K, NEW L, OpenOK(s, n, run, K, L),
           NEW f \in Frames, TagOf(f) # "NewStream"
    PROVE  OpenOK(Append(s, f), n, run, K, L)
  <1>1. PICK lo, hi \in 0 .. n : OpenAt(s, n, run, K, L, lo, hi)
    BY OpenIs
  <1>2. Counts(NewVals(Append(s, f)), lo, hi)
    <2>1. NewVals(s) \in Seq(Nat) /\ NewVal(f) = 0 /\ NewVals(Append(s, f)) = Append(NewVals(s), NewVal(f))
      BY NewValsStep DEF NewVal
    <2>2. Counts(NewVals(s), lo, hi) /\ lo \in Nat /\ hi \in Nat
      BY <1>1 DEF OpenAt
    <2> QED
      BY <2>1, <2>2, CountsAppend
  <1> QED
    BY <1>1, <1>2, OpenIs DEF OpenAt

LEMMA OpenSendNew ==
    ASSUME NEW s \in Seq(Frames), NEW n \in Nat, NEW K, NEW L, OpenOK(s, n, TRUE, K, L),
           NEW f \in Frames, TagOf(f) = "NewStream", SidOf(f) = [id |-> n, initiator |-> TRUE]
    PROVE  /\ SidOf(f) \notin K
           /\ OpenOK(Append(s, f), n + 1, TRUE, K \cup {SidOf(f)}, L)
  <1>1. PICK lo, hi \in 0 .. n : OpenAt(s, n, TRUE, K, L, lo, hi)
    BY OpenIs
  <1>2. hi = n /\ NewVal(f) = hi + 1
    BY <1>1 DEF OpenAt, NewVal
  <1>3. Counts(NewVals(Append(s, f)), lo, n + 1)
    <2>1. NewVals(s) \in Seq(Nat) /\ NewVal(f) \in Nat /\ NewVals(Append(s, f)) = Append(NewVals(s), NewVal(f))
      BY NewValsStep, ValTypes
    <2>2. Counts(NewVals(s), lo, hi) /\ lo \in Nat /\ hi \in Nat
      BY <1>1 DEF OpenAt
    <2> QED
      BY <1>2, <2>1, <2>2, CountsAppend
  <1>4. {x \in K : x.initiator} = Numbered(n, TRUE) /\ Numbered(n + 1, TRUE) = Numbered(n, TRUE) \cup {SidOf(f)}
    BY <1>1, InNumbered DEF OpenAt
  <1>5. SidOf(f).initiator /\ SidOf(f) \notin Numbered(n, TRUE)
    <2>1. SidOf(f) \in StreamID /\ SidOf(f).id = n /\ SidOf(f).initiator
      BY DEF StreamID
    <2>2. ~(n < n)
      OBVIOUS
    <2> QED
      BY <2>1, <2>2, NumberedHere
  <1>6. {x \in K \cup {SidOf(f)} : x.initiator} = Numbered(n + 1, TRUE)
    BY <1>4, <1>5
  <1>7. OpenAt(Append(s, f), n + 1, TRUE, K \cup {SidOf(f)}, L, lo, n + 1)
    BY <1>1, <1>3, <1>6 DEF OpenAt
  <1>8. lo \in 0 .. n + 1 /\ n + 1 \in 0 .. n + 1
    BY <1>1
  <1> QED
    BY <1>4, <1>5, <1>7, <1>8, OpenIs

LEMMA OpenLost ==
    ASSUME NEW s \in Seq(Frames), NEW n \in Nat, NEW run, NEW K, NEW L, NEW f \in Frames,
           OpenOK(Append(s, f), n, run, K, L)
    PROVE  OpenOK(s, n, FALSE, K, L)
  <1>1. PICK lo, hi \in 0 .. n : OpenAt(Append(s, f), n, run, K, L, lo, hi)
    BY OpenIs
  <1>2. NewVals(s) \in Seq(Nat) /\ NewVal(f) \in Nat /\ NewVals(Append(s, f)) = Append(NewVals(s), NewVal(f))
    BY NewValsStep, ValTypes
  <1>3. Counts(NewVals(Append(s, f)), lo, hi) /\ lo \in Nat /\ hi \in Nat
    BY <1>1 DEF OpenAt
  <1>4. \E h \in lo .. hi : Counts(NewVals(s), lo, h)
    BY <1>2, <1>3, CountsFront
  <1>5. PICK h \in lo .. hi : Counts(NewVals(s), lo, h)
    BY <1>4
  <1>6. h \in 0 .. n
    BY <1>1, <1>5
  <1>7. OpenAt(s, n, FALSE, K, L, lo, h)
    BY <1>1, <1>5 DEF OpenAt
  <1> QED
    BY <1>6, <1>7, OpenIs

LEMMA OpenStops ==
    ASSUME NEW s, NEW n \in Nat, NEW run, NEW K, NEW L, OpenOK(s, n, run, K, L)
    PROVE  OpenOK(s, n, FALSE, K, L)
  BY OpenIs DEF OpenAt

\* Streams that the other end has opened do not matter here, and the other way round.
LEMMA OpenGrows ==
    ASSUME NEW s, NEW n \in Nat, NEW run, NEW K, NEW L, OpenOK(s, n, run, K, L), NEW sid
    PROVE  /\ ~sid.initiator => OpenOK(s, n, run, K \cup {sid}, L)
           /\ sid.initiator => OpenOK(s, n, run, K, L \cup {sid})
  <1>1. ~sid.initiator => {x \in K \cup {sid} : x.initiator} = {x \in K : x.initiator}
    OBVIOUS
  <1>2. sid.initiator => {x \in L \cup {sid} : ~x.initiator} = {x \in L : ~x.initiator}
    OBVIOUS
  <1> QED
    BY <1>1, <1>2 DEF OpenOK
-----------------------------------------------------------------------------
(* What the pieces of the handlers do. *)

LEMMA TaskTypes ==
    ASSUME TypeInv, NEW e \in Ends
    PROVE  /\ wire[e] \in Seq(Frames) /\ Out(e) \in Seq(Frames)
           /\ task[e].at = "write" => task[e].frame \in Frames /\ task[e].hand \in Hands
           /\ task[e].at = "deliver" => task[e].sid \in StreamID
           /\ task[e].at \in {"select", "deliver", "write", "ended"}
           /\ task[e] = Select <=> task[e].at = "select"
           /\ task[e].at # "write" => Out(e) = wire[e]
  <1>1. wire[e] \in Seq(Frames) /\ task[e] \in TaskStates
    BY DEF TypeInv, TypeOK
  <1>2. /\ task[e].at = "write" => task[e].frame \in Frames /\ task[e].hand \in Hands
        /\ task[e].at = "deliver" => task[e].sid \in StreamID
        /\ task[e].at \in {"select", "deliver", "write", "ended"}
        /\ task[e] = Select <=> task[e].at = "select"
    BY <1>1 DEF TaskStates, Select
  <1>3. Out(e) \in Seq(Frames)
    BY <1>1, <1>2 DEF Out
  <1> QED
    BY <1>1, <1>2, <1>3 DEF Out

LEMMA SendEffect ==
    ASSUME TypeInv, NEW e \in Ends, NEW f \in Frames, NEW h \in Hands,
           task[e].at \in {"select", "deliver"}, SendFrame(e, f, h)
    PROVE  /\ Out(e)' = Append(Out(e), f) /\ Out(Other(e))' = Out(Other(e))
           /\ Running(e) /\ Running(e)' /\ Running(Other(e))' = Running(Other(e))
           /\ wire' \in [Ends -> Seq(Frames)] /\ task' \in [Ends -> TaskStates]
           /\ task'[Other(e)] = task[Other(e)]
           /\ \/ task'[e] = Select /\ Finish(e, h)
              \/ task'[e] = [at |-> "write", frame |-> f, hand |-> h] /\ UNCHANGED <<reply, handle>>
  <1>1. /\ wire \in [Ends -> Seq(Frames)] /\ task \in [Ends -> TaskStates]
        /\ Other(e) \in Ends /\ Other(e) # e /\ wire[e] \in Seq(Frames)
    BY TheOther DEF TypeInv, TypeOK
  <1>2. Select \in TaskStates /\ [at |-> "write", frame |-> f, hand |-> h] \in TaskStates
    BY DEF TaskStates
  <1>3. CASE /\ wire' = [wire EXCEPT ![e] = Append(@, f)] /\ task' = [task EXCEPT ![e] = Select] /\ Finish(e, h)
    <2>1. /\ wire' \in [Ends -> Seq(Frames)] /\ task' \in [Ends -> TaskStates]
          /\ task'[e] = Select /\ task'[Other(e)] = task[Other(e)]
          /\ wire'[e] = Append(wire[e], f) /\ wire'[Other(e)] = wire[Other(e)]
      BY <1>1, <1>2, <1>3
    <2> QED
      BY <1>1, <1>3, <2>1 DEF Out, Running, Select
  <1>4. CASE /\ task' = [task EXCEPT ![e] = [at |-> "write", frame |-> f, hand |-> h]]
             /\ UNCHANGED <<wire, reply, handle>>
    <2>1. /\ task' \in [Ends -> TaskStates] /\ wire' = wire
          /\ task'[e] = [at |-> "write", frame |-> f, hand |-> h] /\ task'[Other(e)] = task[Other(e)]
      BY <1>1, <1>2, <1>4
    <2> QED
      BY <1>1, <1>4, <2>1 DEF Out, Running
  <1> QED
    BY <1>3, <1>4 DEF SendFrame

LEMMA ReceiveEffect ==
    ASSUME TypeInv, NEW e \in Ends, NEW tag, Receive(e, tag),
           task'[e].at \in {"select", "deliver"}, task'[Other(e)] = task[Other(e)]
    PROVE  /\ Out(e)' = Out(e) /\ Out(Other(e)) # <<>> /\ Out(Other(e))' = Tail(Out(Other(e)))
           /\ Running(e) /\ Running(e)' /\ Running(Other(e))' = Running(Other(e))
           /\ wire' \in [Ends -> Seq(Frames)]
           /\ Head(Out(Other(e))) \in Frames /\ Head(Out(Other(e))) = Head(wire[Other(e)])
           /\ TagOf(Head(Out(Other(e)))) = tag
           /\ SidOf(Head(Out(Other(e)))) \in StreamID /\ Received(e) = Flip(SidOf(Head(Out(Other(e)))))
           /\ Received(e) \in StreamID /\ SidOf(Head(Out(Other(e)))) = Flip(Received(e))
  <1> DEFINE o == Other(e)
  <1>1. /\ wire \in [Ends -> Seq(Frames)] /\ task \in [Ends -> TaskStates]
        /\ o \in Ends /\ o # e /\ wire[o] \in Seq(Frames) /\ task[e] = Select
        /\ wire[o] # <<>> /\ wire' = [wire EXCEPT ![o] = Tail(@)]
    BY TheOther DEF TypeInv, TypeOK, Receive, Selecting
  <1>2. /\ wire' \in [Ends -> Seq(Frames)] /\ wire'[e] = wire[e] /\ wire'[o] = Tail(wire[o])
        /\ Head(wire[o]) \in Frames
    BY <1>1
  <1>3. Out(e) = wire[e] /\ Out(e)' = wire'[e] /\ Running(e) /\ Running(e)' /\ Running(o)' = Running(o)
    BY <1>1 DEF Out, Running, Select
  <1>4. Out(o) # <<>> /\ Out(o)' = Tail(Out(o)) /\ Head(Out(o)) = Head(wire[o])
    <2>1. CASE task[o].at = "write"
      <3>1. task[o].frame \in Frames
        BY <1>1, <2>1, TaskTypes
      <3> QED
        BY <1>1, <1>2, <2>1, <3>1 DEF Out
    <2>2. CASE task[o].at # "write"
      BY <1>1, <1>2, <2>2 DEF Out
    <2> QED
      BY <2>1, <2>2
  <1>5. TagOf(Head(wire[o])) = tag
    BY DEF Receive, TagOf
  <1>6. SidOf(Head(wire[o])) \in StreamID /\ Flip(SidOf(Head(wire[o]))) = Received(e)
    BY <1>2, DecodedTypes DEF Received
  <1>7. Received(e) \in StreamID /\ SidOf(Head(wire[o])) = Flip(Received(e))
    BY <1>6, FlipFlip
  <1> QED
    BY <1>2, <1>3, <1>4, <1>5, <1>6, <1>7

LEMMA EndEffect ==
    ASSUME TypeInv, NEW e \in Ends, NEW cause \in Causes, NEW h, End(e, cause, h), wire' = wire
    PROVE  /\ Out(e)' = wire[e] /\ Out(Other(e))' = Out(Other(e))
           /\ ~Running(e)' /\ Running(Other(e))' = Running(Other(e))
           /\ task' \in [Ends -> TaskStates] /\ task'[e] = Ended(cause) /\ task'[Other(e)] = task[Other(e)]
           /\ Out(e) = wire[e] \/ \E f \in Frames : Out(e) = Append(wire[e], f)
  <1>1. /\ task \in [Ends -> TaskStates] /\ Other(e) \in Ends /\ Other(e) # e
        /\ Ended(cause) \in TaskStates /\ task' = [task EXCEPT ![e] = Ended(cause)]
    BY TheOther DEF TypeInv, TypeOK, End, Ended, TaskStates
  <1>2. /\ task' \in [Ends -> TaskStates] /\ task'[e] = Ended(cause) /\ task'[Other(e)] = task[Other(e)]
    BY <1>1
  <1>3. Out(e) = wire[e] \/ \E f \in Frames : Out(e) = Append(wire[e], f)
    BY TaskTypes DEF Out
  <1> QED
    BY <1>2, <1>3 DEF Out, Running, Ended
-----------------------------------------------------------------------------
(* What is on its way, step by step. *)

LEMMA NetTypes ==
    ASSUME TypeInv, NEW e \in Ends
    PROVE  Known(e) \in SUBSET StreamID /\ next_stream_id[e] \in Nat /\ next_stream_id[e] <= MaxId /\ MaxId \in Nat
  BY MaxIdAssumption DEF TypeInv, TypeOK, Known

\* A stream of an end: the other has it, or reads that it was opened.
LEMMA KnownThere ==
    ASSUME TypeInv, FramesInv, OpenInv, NEW e \in Ends, Running(e), NEW sid \in Known(e)
    PROVE  Flip(sid) \in Known(Other(e)) \/ Sent(e, "NewStream", sid)
  <1>1. Other(e) \in Ends /\ Other(Other(e)) = e /\ sid \in StreamID
    BY TheOther, NetTypes
  <1>2. CASE sid.initiator
    <2>1. /\ FramesOK(e, Out(e), Known(e), Known(Other(e)))
          /\ OpenOK(Out(e), next_stream_id[e], TRUE, Known(e), Known(Other(e)))
      <3>1. Running(e) = TRUE
        BY DEF Running
      <3> QED
        BY <3>1 DEF FramesInv, OpenInv
    <2>2. /\ Out(e) \in Seq(Frames) /\ next_stream_id[e] \in Nat
          /\ Known(e) \in SUBSET StreamID /\ Known(Other(e)) \in SUBSET StreamID
      BY <1>1, TaskTypes, NetTypes
    <2> QED
      BY <1>2, <2>1, <2>2, OpenOnWay DEF Sent
  <1>3. CASE ~sid.initiator
    <2> DEFINE o == Other(e)
    <2>1. FramesOK(o, Out(o), Known(o), Known(e)) /\ OpenOK(Out(o), next_stream_id[o], Running(o), Known(o), Known(e))
      BY <1>1 DEF FramesInv, OpenInv
    <2>2. /\ Out(o) \in Seq(Frames) /\ next_stream_id[o] \in Nat
          /\ Known(o) \in SUBSET StreamID /\ Known(e) \in SUBSET StreamID
      BY <1>1, TaskTypes, NetTypes
    <2> HIDE DEF o
    <2>3. Flip(sid) \in Known(o)
      BY <1>3, <2>1, <2>2, OpenHas
    <2> QED
      BY <2>3 DEF o
  <1> QED
    BY <1>2, <1>3

\* It is enough to look at the end that takes the step and at the other one.
LEMMA NetBoth ==
    ASSUME NEW e \in Ends,
           FramesOK(e, Out(e)', Known(e)', Known(Other(e))'),
           FramesOK(Other(e), Out(Other(e))', Known(Other(e))', Known(e)'),
           OpenOK(Out(e)', next_stream_id'[e], Running(e)', Known(e)', Known(Other(e))'),
           OpenOK(Out(Other(e))', next_stream_id'[Other(e)], Running(Other(e))', Known(Other(e))', Known(e)')
    PROVE  FramesInv' /\ OpenInv'
  <1>1. Other(e) \in Ends /\ Other(Other(e)) = e /\ \A x \in Ends : x = e \/ x = Other(e)
    BY TheOther
  <1>2. ASSUME NEW x \in Ends
        PROVE  /\ FramesOK(x, Out(x)', Known(x)', Known(Other(x))')
               /\ OpenOK(Out(x)', next_stream_id'[x], Running(x)', Known(x)', Known(Other(x))')
    <2>1. CASE x = e
      BY <2>1
    <2>2. CASE x = Other(e)
      BY <1>1, <2>2
    <2> QED
      BY <1>1, <2>1, <2>2
  <1> QED
    BY <1>2 DEF FramesInv, OpenInv

LEMMA NetNow ==
    ASSUME FramesInv, OpenInv, NEW e \in Ends
    PROVE  /\ FramesOK(e, Out(e), Known(e), Known(Other(e)))
           /\ FramesOK(Other(e), Out(Other(e)), Known(Other(e)), Known(e))
           /\ OpenOK(Out(e), next_stream_id[e], Running(e), Known(e), Known(Other(e)))
           /\ OpenOK(Out(Other(e)), next_stream_id[Other(e)], Running(Other(e)), Known(Other(e)), Known(e))
  BY TheOther DEF FramesInv, OpenInv

KnownSame == \A e \in Ends : Known(e)' = Known(e)

LEMMA NetSame ==
    ASSUME FramesInv, OpenInv, KnownSame, next_stream_id' = next_stream_id,
           \A e \in Ends : Out(e)' = Out(e) /\ Running(e)' = Running(e)
    PROVE  FramesInv' /\ OpenInv'
  <1>1. PICK e \in Ends : TRUE
    BY DEF Ends
  <1>2. Other(e) \in Ends
    BY TheOther
  <1>3. /\ Out(e)' = Out(e) /\ Running(e)' = Running(e) /\ Known(e)' = Known(e)
        /\ Out(Other(e))' = Out(Other(e)) /\ Running(Other(e))' = Running(Other(e))
        /\ Known(Other(e))' = Known(Other(e))
    BY <1>2 DEF KnownSame
  <1> QED
    BY <1>3, NetNow, NetBoth

LEMMA NetSend ==
    ASSUME TypeInv, FramesInv, OpenInv, KnownSame, next_stream_id' = next_stream_id,
           NEW e \in Ends, NEW f \in Frames, Out(e)' = Append(Out(e), f), Out(Other(e))' = Out(Other(e)),
           Running(e), Running(e)', Running(Other(e))' = Running(Other(e)),
           TagOf(f) # "NewStream", SidOf(f) \in Known(e), TagOf(f) = "Message" => BodyOK(f.body, e, SidOf(f)),
           TagOf(f) # "Reset" => ~Sent(e, "Close", SidOf(f))
    PROVE  FramesInv' /\ OpenInv'
  <1>1. Known(e)' = Known(e) /\ Known(Other(e))' = Known(Other(e)) /\ Running(e)' = Running(e)
    BY TheOther DEF KnownSame, Running
  <1>2. Out(e) \in Seq(Frames) /\ next_stream_id[e] \in Nat
    BY TaskTypes, NetTypes
  <1>3. Flip(SidOf(f)) \in Known(Other(e)) \/ Has(Out(e), "NewStream", SidOf(f))
    BY KnownThere DEF Sent
  <1>4. TagOf(f) # "Reset" => ~Has(Out(e), "Close", SidOf(f))
    BY DEF Sent
  <1>5. FramesOK(e, Append(Out(e), f), Known(e), Known(Other(e)))
    BY <1>2, <1>3, <1>4, NetNow, FramesSend
  <1>6. OpenOK(Append(Out(e), f), next_stream_id[e], Running(e), Known(e), Known(Other(e)))
    BY <1>2, NetNow, OpenSend
  <1> QED
    BY <1>1, <1>5, <1>6, NetNow, NetBoth

LEMMA NetOpen ==
    ASSUME TypeInv, FramesInv, OpenInv, NEW e \in Ends, NEW f \in Frames,
           Out(e)' = Append(Out(e), f), Out(Other(e))' = Out(Other(e)),
           Running(e), Running(e)', Running(Other(e))' = Running(Other(e)),
           TagOf(f) = "NewStream", SidOf(f) = [id |-> next_stream_id[e], initiator |-> TRUE],
           next_stream_id' = [next_stream_id EXCEPT ![e] = next_stream_id[e] + 1],
           Known(e)' = Known(e) \cup {SidOf(f)}, Known(Other(e))' = Known(Other(e))
    PROVE  FramesInv' /\ OpenInv' /\ SidOf(f) \notin Known(e)
  <1> DEFINE o == Other(e)
             n == next_stream_id[e]
             K == Known(e) \cup {SidOf(f)}
  <1>1. o \in Ends /\ o # e /\ Running(e) = TRUE /\ Running(e)' = TRUE
    BY TheOther DEF Running
  <1>2. Out(e) \in Seq(Frames) /\ n \in Nat /\ next_stream_id[o] \in Nat /\ Known(e) \in SUBSET StreamID
    BY <1>1, TaskTypes, NetTypes
  <1>3. next_stream_id'[e] = n + 1 /\ next_stream_id'[o] = next_stream_id[o]
    BY <1>1 DEF TypeInv, TypeOK
  <1>4. SidOf(f).initiator
    OBVIOUS
  <1>5. OpenOK(Out(e), n, TRUE, Known(e), Known(o))
    BY <1>1, NetNow
  <1>6. SidOf(f) \notin Known(e) /\ OpenOK(Append(Out(e), f), n + 1, TRUE, K, Known(o))
    BY <1>2, <1>5, OpenSendNew
  <1>7. ~Has(Out(e), "Close", SidOf(f))
    BY <1>6, NetNow DEF FramesOK, Has
  <1>8. FramesOK(e, Append(Out(e), f), K, Known(o))
    <2>1. FramesOK(e, Out(e), K, Known(o))
      BY NetNow, FramesGrow
    <2> HIDE DEF o
    <2> QED
      BY <1>2, <1>4, <1>7, <2>1, FramesSend
  <1>9. FramesOK(o, Out(o), Known(o), K)
    BY NetNow, FramesGrow
  <1>10. OpenOK(Out(o), next_stream_id[o], Running(o), Known(o), K)
    BY <1>2, <1>4, NetNow, OpenGrows
  <1> QED
    BY <1>1, <1>3, <1>6, <1>8, <1>9, <1>10, NetBoth

LEMMA NetRead ==
    ASSUME TypeInv, FramesInv, OpenInv, KnownSame, next_stream_id' = next_stream_id,
           NEW e \in Ends, Out(e)' = Out(e), Out(Other(e)) # <<>>, Out(Other(e))' = Tail(Out(Other(e))),
           Running(e)' = Running(e), Running(Other(e))' = Running(Other(e)),
           TagOf(Head(Out(Other(e)))) # "NewStream"
    PROVE  FramesInv' /\ OpenInv'
  <1> DEFINE o == Other(e)
  <1>1. o \in Ends /\ Known(e)' = Known(e) /\ Known(o)' = Known(o)
    BY TheOther DEF KnownSame
  <1>2. Out(o) \in Seq(Frames) /\ next_stream_id[o] \in Nat
    BY <1>1, TaskTypes, NetTypes
  <1>3. FramesOK(o, Tail(Out(o)), Known(o), Known(e))
    BY <1>2, NetNow, FramesRead
  <1>4. OpenOK(Tail(Out(o)), next_stream_id[o], Running(o), Known(o), Known(e))
    BY <1>2, NetNow, OpenRead
  <1> QED
    BY <1>1, <1>3, <1>4, NetNow, NetBoth

LEMMA NetNew ==
    ASSUME TypeInv, FramesInv, OpenInv, next_stream_id' = next_stream_id,
           NEW e \in Ends, Out(e)' = Out(e), Out(Other(e)) # <<>>, Out(Other(e))' = Tail(Out(Other(e))),
           Running(e)' = Running(e), Running(Other(e))' = Running(Other(e)),
           TagOf(Head(Out(Other(e)))) = "NewStream",
           NEW sid \in StreamID, sid = Flip(SidOf(Head(Out(Other(e))))),
           Known(e)' = Known(e) \cup {sid}, Known(Other(e))' = Known(Other(e))
    PROVE  /\ FramesInv' /\ OpenInv' /\ sid \notin Known(e) /\ sid = [id |-> sid.id, initiator |-> FALSE]
           /\ {x \in Known(e) : ~x.initiator} = Numbered(sid.id, FALSE)
  <1> DEFINE o == Other(e)
  <1>1. o \in Ends
    BY TheOther
  <1>2. /\ Out(o) \in Seq(Frames) /\ next_stream_id[o] \in Nat /\ next_stream_id[e] \in Nat
        /\ Known(e) \in SUBSET StreamID
    BY <1>1, TaskTypes, NetTypes
  <1>3. SidOf(Head(Out(o))).initiator
    BY <1>2, NetNow DEF FramesOK
  <1>4. /\ sid \notin Known(e) /\ ~sid.initiator /\ sid = [id |-> sid.id, initiator |-> FALSE]
        /\ {x \in Known(e) : ~x.initiator} = Numbered(sid.id, FALSE)
        /\ OpenOK(Tail(Out(o)), next_stream_id[o], Running(o), Known(o), Known(e) \cup {sid})
    BY <1>2, <1>3, NetNow, OpenReadNew
  <1>5. FramesOK(o, Tail(Out(o)), Known(o), Known(e) \cup {sid})
    BY <1>2, NetNow, FramesRead
  <1>6. FramesOK(e, Out(e), Known(e) \cup {sid}, Known(o))
    BY NetNow, FramesGrow
  <1>7. OpenOK(Out(e), next_stream_id[e], Running(e), Known(e) \cup {sid}, Known(o))
    BY <1>2, <1>4, NetNow, OpenGrows
  <1> QED
    BY <1>1, <1>4, <1>5, <1>6, <1>7, NetBoth

LEMMA NetEnd ==
    ASSUME TypeInv, FramesInv, OpenInv, KnownSame, next_stream_id' = next_stream_id,
           NEW e \in Ends, Out(e)' = wire[e], Out(Other(e))' = Out(Other(e)),
           ~Running(e)', Running(Other(e))' = Running(Other(e)),
           Out(e) = wire[e] \/ \E f \in Frames : Out(e) = Append(wire[e], f)
    PROVE  FramesInv' /\ OpenInv'
  <1>1. Known(e)' = Known(e) /\ Known(Other(e))' = Known(Other(e)) /\ Running(e)' = FALSE
    BY TheOther DEF KnownSame, Running
  <1>2. wire[e] \in Seq(Frames) /\ next_stream_id[e] \in Nat
    BY TaskTypes, NetTypes
  <1>3. /\ FramesOK(e, wire[e], Known(e), Known(Other(e)))
        /\ OpenOK(wire[e], next_stream_id[e], FALSE, Known(e), Known(Other(e)))
    <2>1. CASE Out(e) = wire[e]
      BY <1>2, <2>1, NetNow, OpenStops
    <2>2. ASSUME NEW f \in Frames, Out(e) = Append(wire[e], f)
          PROVE  /\ FramesOK(e, wire[e], Known(e), Known(Other(e)))
                 /\ OpenOK(wire[e], next_stream_id[e], FALSE, Known(e), Known(Other(e)))
      <3>1. FramesOK(e, Append(wire[e], f), Known(e), Known(Other(e)))
        BY <2>2, NetNow
      <3>2. OpenOK(Append(wire[e], f), next_stream_id[e], Running(e), Known(e), Known(Other(e)))
        BY <2>2, NetNow
      <3> QED
        BY <1>2, <3>1, <3>2, FramesLost, OpenLost
    <2> QED
      BY <2>1, <2>2
  <1> QED
    BY <1>1, <1>3, NetNow, NetBoth
-----------------------------------------------------------------------------
(* Types. *)

Statuses == {"open", "closed", "resetting", "dropped"}
Replies == {"idle", "waiting", "ok", "err"}

\* The tables of one end.
Tables(d, st, ha, wr, go, m) ==
    /\ DOMAIN d \subseteq StreamID
    /\ DOMAIN st \subseteq DOMAIN d
    /\ DOMAIN ha \subseteq DOMAIN d
    /\ DOMAIN wr = DOMAIN d /\ DOMAIN go = DOMAIN d
    /\ \A sid \in DOMAIN st : st[sid] \in State
    /\ \A sid \in DOMAIN ha : ha[sid] \in Statuses
    /\ \A sid \in DOMAIN d : d[sid] \in Seq(Bodies) /\ go[sid] \in Seq(Bodies) /\ wr[sid] \in 0 .. m
TablesInv == \A e \in Ends : Tables(data[e], streams_stat[e], handle[e], written[e], got[e], MaxWrites[e])
SocketInv == wire \in [Ends -> Seq(Frames)] /\ broken \in BOOLEAN /\ task \in [Ends -> TaskStates]
ChannelInv ==
    /\ stream_cmds \in [Ends -> Seq(Commands)]
    /\ stream_receiver \in [Ends -> {"open", "closed", "terminated"}]
    /\ control_cmds \in [Ends -> Seq(Requests)]
    /\ control_receiver \in [Ends -> {"open", "paused", "closed", "terminated"}]
RequestInv ==
    /\ shutdown \in [Ends -> [state : {"NotStarted", "InProgress", "Complete"}, tx : Requests \cup {NoReq}]]
    /\ waiting_stream_sender \in [Ends -> Requests \cup {NoReq}]
    /\ reply \in [Requests -> Replies]
IdInv ==
    /\ next_stream_id \in [Ends -> 0 .. MaxId]
    /\ streams \in [Ends -> SUBSET StreamID]
    /\ pending_streams \in [Ends -> Seq(StreamID)]
    /\ accepted \in [Ends -> Seq(StreamID)]
    /\ was_reset \subseteq [opener : Ends, id : Nat]

LEMMA TypeParts == TypeInv <=> SocketInv /\ ChannelInv /\ RequestInv /\ IdInv /\ TablesInv /\ DomInv
  BY DEF TypeInv, TypeOK, SocketInv, ChannelInv, RequestInv, IdInv, TablesInv, Tables, Commands,
         Statuses, Replies

LEMMA TypePartsNext == (SocketInv /\ ChannelInv /\ RequestInv /\ IdInv /\ TablesInv /\ DomInv)' => TypeInv'
  BY DEF TypeInv, TypeOK, SocketInv, ChannelInv, RequestInv, IdInv, TablesInv, Tables, Commands,
         Statuses, Replies, DomInv

\* Only the tables of e change.
LEMMA TablesStep ==
    ASSUME TypeInv, NEW e \in Ends,
           Tables(data'[e], streams_stat'[e], handle'[e], written'[e], got'[e], MaxWrites[e]),
           /\ data'[Other(e)] = data[Other(e)] /\ streams_stat'[Other(e)] = streams_stat[Other(e)]
           /\ handle'[Other(e)] = handle[Other(e)] /\ written'[Other(e)] = written[Other(e)]
           /\ got'[Other(e)] = got[Other(e)]
    PROVE  TablesInv'
  <1>1. \A x \in Ends : x = e \/ x = Other(e)
    BY TheOther
  <1>2. TablesInv
    BY TypeParts
  <1> QED
    BY <1>1, <1>2 DEF TablesInv

LEMMA TablesSame ==
    ASSUME TypeInv, UNCHANGED <<data, streams_stat, handle, written, got>>
    PROVE  TablesInv' /\ DomInv'
  BY TypeParts DEF TablesInv, DomInv

LEMMA FinishEffect ==
    ASSUME TypeInv, NEW e \in Ends, NEW h \in Hands, Finish(e, h)
    PROVE  /\ reply' \in [Requests -> Replies]
           /\ DOMAIN handle' = Ends /\ handle'[Other(e)] = handle[Other(e)]
           /\ handle'[e] = IF h.status = "none" THEN handle[e] ELSE Insert(handle[e], h.sid, h.status)
  <1>1. DOMAIN handle = Ends /\ Other(e) # e /\ reply \in [Requests -> Replies]
    BY TheOther, TypeParts DEF DomInv, RequestInv
  <1>2. h.req \in Requests \cup {NoReq}
    BY DEF Hands
  <1>3. reply' \in [Requests -> Replies]
    BY <1>1, <1>2 DEF Finish, Replies
  <1> QED
    BY <1>1, <1>3 DEF Finish

\* What a send does to the handles: nothing yet, or what its handler has for them.
LEMMA SendHandle ==
    ASSUME TypeInv, NEW e \in Ends, NEW f \in Frames, NEW h \in Hands,
           task[e].at \in {"select", "deliver"}, SendFrame(e, f, h)
    PROVE  /\ reply' \in [Requests -> Replies]
           /\ DOMAIN handle' = Ends /\ handle'[Other(e)] = handle[Other(e)]
           /\ \/ task'[e] = [at |-> "write", frame |-> f, hand |-> h] /\ handle'[e] = handle[e]
              \/ /\ task'[e] = Select
                 /\ handle'[e] = IF h.status = "none" THEN handle[e] ELSE Insert(handle[e], h.sid, h.status)
  <1>1. \/ task'[e] = Select /\ Finish(e, h)
        \/ task'[e] = [at |-> "write", frame |-> f, hand |-> h] /\ UNCHANGED <<reply, handle>>
    BY SendEffect
  <1>2. CASE task'[e] = Select /\ Finish(e, h)
    BY <1>2, FinishEffect
  <1>3. CASE task'[e] = [at |-> "write", frame |-> f, hand |-> h] /\ UNCHANGED <<reply, handle>>
    BY <1>3, TypeParts DEF DomInv, RequestInv
  <1> QED
    BY <1>1, <1>2, <1>3

\* The tables when a Stream is made, when its state changes, and when it is handed out.
LEMMA TablesNew ==
    ASSUME NEW d, NEW st, NEW ha, NEW wr, NEW go, NEW m \in Nat, NEW sid \in StreamID, Tables(d, st, ha, wr, go, m)
    PROVE  Tables(Insert(d, sid, <<>>), Insert(st, sid, "Open"), ha, Insert(wr, sid, 0), Insert(go, sid, <<>>), m)
  BY DEF Tables, Insert, State

LEMMA TablesRemove ==
    ASSUME NEW d, NEW st, NEW ha, NEW wr, NEW go, NEW m, NEW sid, Tables(d, st, ha, wr, go, m)
    PROVE  Tables(d, Remove(st, sid), ha, wr, go, m)
  BY DEF Tables, Remove

LEMMA TablesHand ==
    ASSUME NEW d, NEW st, NEW ha, NEW wr, NEW go, NEW m, NEW sid \in DOMAIN d, NEW v \in Statuses,
           Tables(d, st, ha, wr, go, m)
    PROVE  Tables(d, st, Insert(ha, sid, v), wr, go, m)
  BY DEF Tables, Insert

LEMMA NewStreamEffect ==
    ASSUME TypeInv, NEW e \in Ends, NEW sid \in StreamID, NewStream(e, sid)
    PROVE  /\ streams' \in [Ends -> SUBSET StreamID]
           /\ DOMAIN data' = Ends /\ DOMAIN streams_stat' = Ends /\ DOMAIN written' = Ends /\ DOMAIN got' = Ends
           /\ streams'[e] = streams[e] \cup {sid} /\ streams'[Other(e)] = streams[Other(e)]
           /\ data'[e] = Insert(data[e], sid, <<>>) /\ data'[Other(e)] = data[Other(e)]
           /\ streams_stat'[e] = Insert(streams_stat[e], sid, "Open") /\ streams_stat'[Other(e)] = streams_stat[Other(e)]
           /\ written'[e] = Insert(written[e], sid, 0) /\ written'[Other(e)] = written[Other(e)]
           /\ got'[e] = Insert(got[e], sid, <<>>) /\ got'[Other(e)] = got[Other(e)]
           /\ Known(e)' = Known(e) \cup {sid} /\ Known(Other(e))' = Known(Other(e))
           /\ Tables(data'[e], streams_stat'[e], handle[e], written'[e], got'[e], MaxWrites[e])
  <1>1. /\ DOMAIN data = Ends /\ DOMAIN streams_stat = Ends /\ DOMAIN written = Ends /\ DOMAIN got = Ends
        /\ streams \in [Ends -> SUBSET StreamID] /\ Other(e) # e /\ Other(e) \in Ends
        /\ Tables(data[e], streams_stat[e], handle[e], written[e], got[e], MaxWrites[e]) /\ MaxWrites[e] \in Nat
    BY TheOther, TypeParts, BoundsAssumption DEF DomInv, IdInv, TablesInv
  <1>2. /\ streams' \in [Ends -> SUBSET StreamID]
        /\ DOMAIN data' = Ends /\ DOMAIN streams_stat' = Ends /\ DOMAIN written' = Ends /\ DOMAIN got' = Ends
        /\ streams'[e] = streams[e] \cup {sid} /\ streams'[Other(e)] = streams[Other(e)]
        /\ data'[e] = Insert(data[e], sid, <<>>) /\ data'[Other(e)] = data[Other(e)]
        /\ streams_stat'[e] = Insert(streams_stat[e], sid, "Open") /\ streams_stat'[Other(e)] = streams_stat[Other(e)]
        /\ written'[e] = Insert(written[e], sid, 0) /\ written'[Other(e)] = written[Other(e)]
        /\ got'[e] = Insert(got[e], sid, <<>>) /\ got'[Other(e)] = got[Other(e)]
    BY <1>1 DEF NewStream
  <1>3. Known(e)' = Known(e) \cup {sid} /\ Known(Other(e))' = Known(Other(e))
    BY <1>2 DEF Known, Insert
  <1>4. Tables(data'[e], streams_stat'[e], handle[e], written'[e], got'[e], MaxWrites[e])
    BY <1>1, <1>2, TablesNew
  <1> QED
    BY <1>2, <1>3, <1>4

LEMMA RemoveEffect ==
    ASSUME TypeInv, NEW e \in Ends, NEW sid, RemoveStream(e, sid)
    PROVE  /\ streams' \in [Ends -> SUBSET StreamID] /\ DOMAIN streams_stat' = Ends
           /\ streams'[e] = streams[e] \ {sid} /\ streams'[Other(e)] = streams[Other(e)]
           /\ streams_stat'[e] = Remove(streams_stat[e], sid) /\ streams_stat'[Other(e)] = streams_stat[Other(e)]
           /\ Tables(data[e], streams_stat'[e], handle[e], written[e], got[e], MaxWrites[e])
  <1>1. /\ DOMAIN streams_stat = Ends /\ streams \in [Ends -> SUBSET StreamID] /\ Other(e) # e /\ Other(e) \in Ends
        /\ Tables(data[e], streams_stat[e], handle[e], written[e], got[e], MaxWrites[e])
    BY TheOther, TypeParts DEF DomInv, IdInv, TablesInv
  <1>2. /\ streams' \in [Ends -> SUBSET StreamID] /\ DOMAIN streams_stat' = Ends
        /\ streams'[e] = streams[e] \ {sid} /\ streams'[Other(e)] = streams[Other(e)]
        /\ streams_stat'[e] = Remove(streams_stat[e], sid) /\ streams_stat'[Other(e)] = streams_stat[Other(e)]
    BY <1>1 DEF RemoveStream
  <1> QED
    BY <1>1, <1>2, TablesRemove

LEMMA TypeNewStream ==
    ASSUME TypeInv, NEW e \in Ends, OnNewStream(e)
    PROVE  TypeInv'
  <1> DEFINE sid == Received(e)
             r == waiting_stream_sender[e]
             h == [req |-> r, sid |-> sid, status |-> "open"]
  <1>0. SocketInv /\ ChannelInv /\ RequestInv /\ IdInv /\ TablesInv /\ DomInv
    BY TypeParts
  <1>1. Receive(e, "NewStream") /\ task' = task /\ task[e].at = "select" /\ NewStream(e, sid)
    BY DEF OnNewStream, Receive, Selecting, Select
  <1>2. wire' \in [Ends -> Seq(Frames)] /\ sid \in StreamID
    BY <1>1, ReceiveEffect
  <1> HIDE DEF sid
  <1>3. /\ streams' \in [Ends -> SUBSET StreamID]
        /\ DOMAIN data' = Ends /\ DOMAIN streams_stat' = Ends /\ DOMAIN written' = Ends /\ DOMAIN got' = Ends
        /\ data'[Other(e)] = data[Other(e)] /\ streams_stat'[Other(e)] = streams_stat[Other(e)]
        /\ written'[Other(e)] = written[Other(e)] /\ got'[Other(e)] = got[Other(e)]
        /\ Known(e)' = Known(e) \cup {sid}
        /\ Tables(data'[e], streams_stat'[e], handle[e], written'[e], got'[e], MaxWrites[e])
    BY <1>1, <1>2, NewStreamEffect
  <1>4. /\ waiting_stream_sender' \in [Ends -> Requests \cup {NoReq}]
        /\ accepted' \in [Ends -> Seq(StreamID)] /\ pending_streams' \in [Ends -> Seq(StreamID)]
        /\ reply' \in [Requests -> Replies] /\ DOMAIN handle' = Ends /\ handle'[Other(e)] = handle[Other(e)]
        /\ handle'[e] = handle[e] \/ handle'[e] = Insert(handle[e], sid, "open")
    <2>1. CASE /\ r # NoReq
               /\ waiting_stream_sender' = [waiting_stream_sender EXCEPT ![e] = NoReq]
               /\ accepted' = [accepted EXCEPT ![e] = Append(@, sid)]
               /\ Finish(e, h)
               /\ UNCHANGED pending_streams
      <3>1. h \in Hands /\ h.status = "open" /\ h.sid = sid
        BY <1>0, <1>2 DEF Hands, RequestInv
      <3>2. /\ reply' \in [Requests -> Replies] /\ DOMAIN handle' = Ends /\ handle'[Other(e)] = handle[Other(e)]
            /\ handle'[e] = Insert(handle[e], sid, "open")
        BY <2>1, <3>1, FinishEffect
      <3> QED
        BY <1>0, <1>2, <2>1, <3>2 DEF RequestInv, IdInv
    <2>2. CASE /\ pending_streams' = [pending_streams EXCEPT ![e] = Append(@, sid)]
               /\ UNCHANGED <<waiting_stream_sender, accepted, handle, reply>>
      BY <1>0, <1>2, <2>2 DEF RequestInv, IdInv, DomInv
    <2> QED
      BY <2>1, <2>2 DEF OnNewStream, sid
  <1>5. TablesInv'
    <2>1. sid \in DOMAIN data'[e]
      BY <1>3 DEF Known
    <2>2. Tables(data'[e], streams_stat'[e], handle'[e], written'[e], got'[e], MaxWrites[e])
      <3>1. "open" \in Statuses
        BY DEF Statuses
      <3> QED
        BY <1>3, <1>4, <2>1, <3>1, TablesHand
    <2> QED
      BY <1>3, <1>4, <2>2, TablesStep
  <1>6. UNCHANGED <<broken, task, next_stream_id, chanVars, shutdown, was_reset>>
    BY DEF OnNewStream
  <1>7. SocketInv' /\ ChannelInv' /\ RequestInv' /\ IdInv' /\ DomInv'
    BY <1>0, <1>2, <1>3, <1>4, <1>6 DEF SocketInv, ChannelInv, RequestInv, IdInv, DomInv, chanVars
  <1> QED
    BY <1>5, <1>7, TypePartsNext

LEMMA TypeMessage ==
    ASSUME TypeInv, NEW e \in Ends, OnMessageIgnored(e) \/ OnMessage(e)
    PROVE  TypeInv'
  <1> DEFINE sid == Received(e)
  <1>0. SocketInv /\ ChannelInv /\ RequestInv /\ IdInv /\ TablesInv /\ DomInv /\ Other(e) # e /\ Other(e) \in Ends
    BY TypeParts, TheOther
  <1>1. CASE OnMessageIgnored(e)
    <2>1. Receive(e, "Message") /\ task' = task /\ task[e].at = "select"
      BY <1>1 DEF OnMessageIgnored, Receive, Selecting, Select
    <2>2. wire' \in [Ends -> Seq(Frames)] /\ sid \in StreamID
      BY <2>1, ReceiveEffect
    <2>3. streams' \in [Ends -> SUBSET StreamID]
      BY <1>0, <1>1 DEF OnMessageIgnored, IdInv
    <2>4. UNCHANGED <<broken, task, next_stream_id, streams_stat, chanVars, shutdown,
                      acceptVars, data, handle, reply, historyVars>>
      BY <1>1 DEF OnMessageIgnored
    <2>5. TablesInv' /\ DomInv'
      BY <2>4, TablesSame DEF historyVars
    <2>6. SocketInv' /\ ChannelInv' /\ RequestInv' /\ IdInv'
      BY <1>0, <2>2, <2>3, <2>4 DEF SocketInv, ChannelInv, RequestInv, IdInv, chanVars, acceptVars, historyVars
    <2> QED
      BY <2>5, <2>6, TypePartsNext
  <1>2. CASE OnMessage(e)
    <2>1. Receive(e, "Message") /\ task[e] = Select /\ Deliverable(e, sid)
      BY <1>2 DEF OnMessage, Receive, Selecting
    <2>2. sid \in DOMAIN streams_stat[e] /\ sid \in DOMAIN data[e] /\ data[e][sid] \in Seq(Bodies) /\ sid \in StreamID
      BY <1>0, <2>1 DEF Deliverable, TablesInv, Tables
    <2>3. /\ task' = task \/ task' = [task EXCEPT ![e] = [at |-> "deliver", sid |-> sid]]
          /\ [at |-> "deliver", sid |-> sid] \in TaskStates
      BY <1>2, <2>2 DEF OnMessage, TaskStates
    <2>4. task' \in [Ends -> TaskStates] /\ task'[e].at \in {"select", "deliver"} /\ task'[Other(e)] = task[Other(e)]
      <3>1. CASE task' = task
        BY <1>0, <2>1, <3>1 DEF SocketInv, Select
      <3>2. CASE task' = [task EXCEPT ![e] = [at |-> "deliver", sid |-> sid]]
        BY <1>0, <2>3, <3>2 DEF SocketInv
      <3> QED
        BY <2>3, <3>1, <3>2
    <2>5. wire' \in [Ends -> Seq(Frames)] /\ Head(wire[Other(e)]) \in Frames
      BY <2>1, <2>4, ReceiveEffect
    <2>6. Head(wire[Other(e)]).body \in Bodies
      BY <2>5 DEF Frames
    <2>7. UNCHANGED <<broken, tableVars, chanVars, shutdown, acceptVars, handle, reply, historyVars>>
      BY <1>2 DEF OnMessage
    <2>8. data' = [data EXCEPT ![e][sid] = Append(@, Head(wire[Other(e)]).body)]
      BY <1>2 DEF OnMessage
    <2>9. /\ DOMAIN data' = Ends /\ data'[Other(e)] = data[Other(e)]
          /\ data'[e] = [data[e] EXCEPT ![sid] = Append(@, Head(wire[Other(e)]).body)]
      BY <1>0, <2>8 DEF DomInv
    <2>10. Tables(data'[e], streams_stat[e], handle[e], written[e], got[e], MaxWrites[e])
      <3>1. Tables(data[e], streams_stat[e], handle[e], written[e], got[e], MaxWrites[e])
        BY <1>0 DEF TablesInv
      <3>2. Append(data[e][sid], Head(wire[Other(e)]).body) \in Seq(Bodies)
        BY <2>2, <2>6
      <3> QED
        BY <2>9, <3>1, <3>2 DEF Tables
    <2>11. TablesInv'
      BY <2>7, <2>9, <2>10, TablesStep DEF historyVars, tableVars
    <2>12. SocketInv' /\ ChannelInv' /\ RequestInv' /\ IdInv' /\ DomInv'
      BY <1>0, <2>4, <2>5, <2>7, <2>9
         DEF SocketInv, ChannelInv, RequestInv, IdInv, DomInv, chanVars, acceptVars, historyVars, tableVars
    <2> QED
      BY <2>11, <2>12, TypePartsNext
  <1> QED
    BY <1>1, <1>2

LEMMA TypeClose ==
    ASSUME TypeInv, NEW e \in Ends, OnClose(e) \/ OnReset(e)
    PROVE  TypeInv'
  <1> DEFINE sid == Received(e)
  <1>0. SocketInv /\ ChannelInv /\ RequestInv /\ IdInv /\ TablesInv /\ DomInv /\ Other(e) # e /\ Other(e) \in Ends
    BY TypeParts, TheOther
  <1>1. \E tag : Receive(e, tag)
    BY DEF OnClose, OnReset
  <1>2. UNCHANGED <<broken, task, next_stream_id, chanVars, shutdown, acceptVars, data, handle, reply, historyVars>>
    BY DEF OnClose, OnReset
  <1>3. task' = task /\ task[e].at = "select"
    BY <1>1, <1>2 DEF Receive, Selecting, Select
  <1>4. wire' \in [Ends -> Seq(Frames)] /\ sid \in StreamID
    BY <1>1, <1>3, ReceiveEffect
  <1> HIDE DEF sid
  <1>5. /\ streams' \in [Ends -> SUBSET StreamID] /\ DOMAIN streams_stat' = Ends
        /\ streams_stat'[Other(e)] = streams_stat[Other(e)]
        /\ Tables(data[e], streams_stat'[e], handle[e], written[e], got[e], MaxWrites[e])
    <2>1. CASE OnClose(e)
      <3>1. streams' \in [Ends -> SUBSET StreamID]
        BY <1>0, <2>1 DEF OnClose, IdInv
      <3>2. /\ DOMAIN streams_stat' = Ends /\ streams_stat'[Other(e)] = streams_stat[Other(e)]
            /\ \/ streams_stat'[e] = streams_stat[e] \/ streams_stat'[e] = Remove(streams_stat[e], sid)
               \/ streams_stat'[e] = [streams_stat[e] EXCEPT ![sid] = "RecvClosed"]
        BY <1>0, <2>1 DEF OnClose, DomInv, sid
      <3>3. Tables(data[e], streams_stat[e], handle[e], written[e], got[e], MaxWrites[e])
        BY <1>0 DEF TablesInv
      <3>4. "RecvClosed" \in State
        BY DEF State
      <3>5. Tables(data[e], streams_stat'[e], handle[e], written[e], got[e], MaxWrites[e])
        <4>1. CASE streams_stat'[e] = [streams_stat[e] EXCEPT ![sid] = "RecvClosed"]
          BY <3>3, <3>4, <4>1 DEF Tables
        <4>2. CASE streams_stat'[e] = Remove(streams_stat[e], sid)
          BY <3>3, <4>2, TablesRemove
        <4> QED
          BY <3>2, <3>3, <4>1, <4>2
      <3> QED
        BY <3>1, <3>2, <3>5
    <2>2. CASE OnReset(e)
      BY <2>2, RemoveEffect DEF OnReset, sid
    <2> QED
      BY <2>1, <2>2
  <1>6. TablesInv'
    BY <1>2, <1>5, TablesStep DEF historyVars
  <1>7. SocketInv' /\ ChannelInv' /\ RequestInv' /\ IdInv' /\ DomInv'
    BY <1>0, <1>2, <1>4, <1>5 DEF SocketInv, ChannelInv, RequestInv, IdInv, DomInv, chanVars, acceptVars, historyVars
  <1> QED
    BY <1>6, <1>7, TypePartsNext

LEMMA TypeEnd ==
    ASSUME TypeInv, NEW e \in Ends, NEW cause \in Causes, NEW h, End(e, cause, h), wire' = wire
    PROVE  TypeInv'
  <1>0. SocketInv /\ ChannelInv /\ RequestInv /\ IdInv /\ TablesInv /\ DomInv /\ Other(e) # e /\ Other(e) \in Ends
    BY TypeParts, TheOther
  <1>1. UNCHANGED <<broken, next_stream_id, accepted, data, historyVars>> /\ task' \in [Ends -> TaskStates]
    BY EndEffect DEF End
  <1>2. /\ stream_cmds' \in [Ends -> Seq(Commands)] /\ control_cmds' \in [Ends -> Seq(Requests)]
        /\ stream_receiver' \in [Ends -> {"open", "closed", "terminated"}]
        /\ control_receiver' \in [Ends -> {"open", "paused", "closed", "terminated"}]
        /\ pending_streams' \in [Ends -> Seq(StreamID)] /\ streams' \in [Ends -> SUBSET StreamID]
        /\ waiting_stream_sender' \in [Ends -> Requests \cup {NoReq}]
    BY <1>0 DEF End, ChannelInv, IdInv, RequestInv
  <1>3. shutdown' \in [Ends -> [state : {"NotStarted", "InProgress", "Complete"}, tx : Requests \cup {NoReq}]]
    BY <1>0 DEF End, RequestInv
  <1>4. reply' \in [Requests -> Replies]
    BY <1>0 DEF End, RequestInv, Replies
  <1>5. /\ DOMAIN streams_stat' = Ends /\ streams_stat'[Other(e)] = streams_stat[Other(e)] /\ streams_stat'[e] = Empty
        /\ DOMAIN handle' = Ends /\ handle'[Other(e)] = handle[Other(e)] /\ DOMAIN handle'[e] = DOMAIN handle[e]
        /\ \A s \in DOMAIN handle[e] : handle'[e][s] \in {handle[e][s], "closed", "open"}
    BY <1>0 DEF End, DomInv
  <1>6. Tables(data[e], streams_stat'[e], handle'[e], written[e], got[e], MaxWrites[e])
    BY <1>0, <1>5 DEF TablesInv, Tables, Empty, Statuses
  <1>7. TablesInv'
    BY <1>1, <1>5, <1>6, TablesStep DEF historyVars
  <1>8. SocketInv' /\ ChannelInv' /\ RequestInv' /\ IdInv' /\ DomInv'
    BY <1>0, <1>1, <1>2, <1>3, <1>4, <1>5 DEF SocketInv, ChannelInv, RequestInv, IdInv, DomInv, historyVars
  <1> QED
    BY <1>7, <1>8, TypePartsNext

\* The actions that end the task.
Ends1(e) == ReadFails(e) \/ WriteFails(e) \/ OnOpenStreamNoId(e) \/ OnNoControlCommand(e)

LEMMA TypeWriteDone ==
    ASSUME TypeInv, HandInv, NEW e \in Ends, WriteDone(e)
    PROVE  TypeInv'
  <1> DEFINE h == task[e].hand
  <1>0. SocketInv /\ ChannelInv /\ RequestInv /\ IdInv /\ TablesInv /\ DomInv /\ Other(e) # e /\ Other(e) \in Ends
    BY TypeParts, TheOther
  <1>1. h \in Hands /\ task[e].frame \in Frames /\ task[e].at = "write" /\ Finish(e, h)
    BY TaskTypes DEF WriteDone
  <1>2. /\ wire' = [wire EXCEPT ![e] = Append(@, task[e].frame)] /\ task' = [task EXCEPT ![e] = Select]
        /\ UNCHANGED <<broken, tableVars, chanVars, shutdown, acceptVars, data, historyVars>>
    BY DEF WriteDone
  <1>3. wire' \in [Ends -> Seq(Frames)] /\ task' \in [Ends -> TaskStates]
    <2>1. Select \in TaskStates
      BY DEF TaskStates
    <2> QED
      BY <1>0, <1>1, <1>2, <2>1 DEF SocketInv
  <1>4. /\ reply' \in [Requests -> Replies] /\ DOMAIN handle' = Ends /\ handle'[Other(e)] = handle[Other(e)]
        /\ handle'[e] = IF h.status = "none" THEN handle[e] ELSE Insert(handle[e], h.sid, h.status)
    BY <1>1, FinishEffect
  <1>5. h.status # "none" => h.sid \in DOMAIN data[e] /\ h.status \in Statuses
    <2>1. h.status \in {"none", "open", "closed"}
      BY <1>1 DEF Hands
    <2>2. h.status = "open" => h.sid \in DOMAIN data[e]
      BY <1>1 DEF HandInv, HandOK, Known
    <2>3. h.status = "closed" => h.sid \in DOMAIN data[e]
      BY <1>0, <1>1 DEF HandInv, HandOK, TablesInv, Tables
    <2> QED
      BY <2>1, <2>2, <2>3 DEF Statuses
  <1>6. Tables(data[e], streams_stat[e], handle'[e], written[e], got[e], MaxWrites[e])
    <2>1. Tables(data[e], streams_stat[e], handle[e], written[e], got[e], MaxWrites[e])
      BY <1>0 DEF TablesInv
    <2> HIDE DEF h
    <2> QED
      BY <1>4, <1>5, <2>1, TablesHand
  <1>7. TablesInv'
    BY <1>2, <1>4, <1>6, TablesStep DEF historyVars, tableVars
  <1>8. SocketInv' /\ ChannelInv' /\ RequestInv' /\ IdInv' /\ DomInv'
    BY <1>0, <1>2, <1>3, <1>4
       DEF SocketInv, ChannelInv, RequestInv, IdInv, DomInv, historyVars, tableVars, chanVars, acceptVars
  <1> QED
    BY <1>7, <1>8, TypePartsNext

\* The frames and hands of the handlers.
LEMMA FrameTypes ==
    ASSUME NEW tag \in Tags, NEW sid \in StreamID, NEW b \in Bodies, tag = "NewStream" => sid.initiator
    PROVE  Frame(tag, sid, b) \in Frames
  <1>1. Frame(tag, sid, b).hdr \in Nat
    BY FrameRead
  <1> QED
    BY <1>1 DEF Frame, Frames

LEMMA HandTypes ==
    /\ Nothing \in Hands /\ Nothing.status = "none" /\ Nothing.req = NoReq /\ NoBody \in Bodies
    /\ \A sid \in StreamID, r \in Requests \cup {NoReq}, v \in {"open", "closed"} :
          [req |-> r, sid |-> sid, status |-> v] \in Hands
  BY DEF Nothing, Hands, NoBody, StreamID, Bodies, Ends

LEMMA CommandTypes ==
    ASSUME TypeInv, NEW e \in Ends, stream_cmds[e] # <<>>
    PROVE  /\ Head(stream_cmds[e]) \in Commands /\ Head(stream_cmds[e]).sid \in StreamID
           /\ Head(stream_cmds[e]).body \in Bodies
           /\ stream_cmds[e] \in Seq(Commands) /\ Tail(stream_cmds[e]) \in Seq(Commands)
           /\ [stream_cmds EXCEPT ![e] = Tail(@)] \in [Ends -> Seq(Commands)]
           /\ 1 \in DOMAIN stream_cmds[e] /\ stream_cmds[e][1] = Head(stream_cmds[e])
  <1>1. stream_cmds \in [Ends -> Seq(Commands)]
    BY TypeParts DEF ChannelInv
  <1>2. Head(stream_cmds[e]) \in Commands /\ Tail(stream_cmds[e]) \in Seq(Commands)
    BY <1>1
  <1>3. Head(stream_cmds[e]).sid \in StreamID /\ Head(stream_cmds[e]).body \in Bodies
    BY <1>2 DEF Commands
  <1> QED
    BY <1>1, <1>2, <1>3

LEMMA TypeStreamCmd ==
    ASSUME TypeInv, CommandInv, NEW e \in Ends, OnSendFrame(e) \/ OnCloseStream(e) \/ OnResetStream(e)
    PROVE  TypeInv'
  <1> DEFINE c == Head(stream_cmds[e])
             sid == c.sid
  <1>0. SocketInv /\ ChannelInv /\ RequestInv /\ IdInv /\ TablesInv /\ DomInv /\ Other(e) # e /\ Other(e) \in Ends
    BY TypeParts, TheOther
  <1>1. /\ stream_cmds[e] # <<>> /\ task[e].at = "select"
        /\ stream_cmds' = [stream_cmds EXCEPT ![e] = Tail(@)]
    BY DEF OnSendFrame, OnCloseStream, OnResetStream, TakeStreamCmd, Selecting, Select
  <1>2. c \in Commands /\ sid \in StreamID /\ c.body \in Bodies /\ stream_cmds' \in [Ends -> Seq(Commands)]
    BY <1>1, CommandTypes
  <1>3. sid \in DOMAIN handle[e] /\ sid \in DOMAIN data[e]
    <2>1. sid \in DOMAIN handle[e]
      BY <1>1, CommandTypes DEF CommandInv, CommandsOK
    <2> QED
      BY <1>0, <2>1 DEF TablesInv, Tables
  <1>4. Tables(data[e], streams_stat[e], handle[e], written[e], got[e], MaxWrites[e])
    BY <1>0 DEF TablesInv
  <1>5. /\ Frame("Message", sid, c.body) \in Frames /\ Frame("Close", sid, NoBody) \in Frames
        /\ Frame("Reset", sid, NoBody) \in Frames
        /\ Nothing \in Hands /\ [req |-> NoReq, sid |-> sid, status |-> "closed"] \in Hands
    BY <1>2, FrameTypes, HandTypes DEF Tags
  <1> HIDE DEF c
  <1>6. CASE OnSendFrame(e)
    <2>1. UNCHANGED <<broken, tableVars, stream_receiver, control_cmds, control_receiver,
                      shutdown, acceptVars, data, historyVars>>
      BY <1>6 DEF OnSendFrame
    <2>2. CASE SendFrame(e, Frame("Message", sid, c.body), Nothing)
      <3>1. /\ wire' \in [Ends -> Seq(Frames)] /\ task' \in [Ends -> TaskStates] /\ reply' \in [Requests -> Replies]
            /\ DOMAIN handle' = Ends /\ handle'[Other(e)] = handle[Other(e)] /\ handle'[e] = handle[e]
        BY <1>1, <1>5, <2>2, SendEffect, SendHandle, HandTypes
      <3>2. TablesInv'
        BY <1>4, <2>1, <3>1, TablesStep DEF tableVars, historyVars
      <3>3. SocketInv' /\ ChannelInv' /\ RequestInv' /\ IdInv' /\ DomInv'
        BY <1>0, <1>2, <2>1, <3>1 DEF SocketInv, ChannelInv, RequestInv, IdInv, DomInv, historyVars, tableVars, acceptVars
      <3> QED
        BY <3>2, <3>3, TypePartsNext
    <2>3. CASE UNCHANGED <<wire, task, reply, handle>>
      <3>1. TablesInv' /\ DomInv'
        BY <2>1, <2>3, TablesSame DEF tableVars, historyVars
      <3>2. SocketInv' /\ ChannelInv' /\ RequestInv' /\ IdInv'
        BY <1>0, <1>2, <2>1, <2>3 DEF SocketInv, ChannelInv, RequestInv, IdInv, historyVars, tableVars, acceptVars
      <3> QED
        BY <3>1, <3>2, TypePartsNext
    <2> QED
      BY <1>6, <2>2, <2>3 DEF OnSendFrame, c
  <1>7. CASE OnCloseStream(e)
    <2>1. UNCHANGED <<broken, next_stream_id, streams, stream_receiver, control_cmds,
                      control_receiver, shutdown, acceptVars, data, historyVars>>
      BY <1>7 DEF OnCloseStream
    <2>2. CASE /\ streams_stat' = IF streams_stat[e][sid] = "RecvClosed"
                                  THEN [streams_stat EXCEPT ![e] = Remove(@, sid)]
                                  ELSE [streams_stat EXCEPT ![e][sid] = "SendClosed"]
               /\ SendFrame(e, Frame("Close", sid, NoBody), Nothing)
      <3>1. /\ wire' \in [Ends -> Seq(Frames)] /\ task' \in [Ends -> TaskStates] /\ reply' \in [Requests -> Replies]
            /\ DOMAIN handle' = Ends /\ handle'[Other(e)] = handle[Other(e)] /\ handle'[e] = handle[e]
        BY <1>1, <1>5, <2>2, SendEffect, SendHandle, HandTypes
      <3>2. /\ DOMAIN streams_stat' = Ends /\ streams_stat'[Other(e)] = streams_stat[Other(e)]
            /\ \/ streams_stat'[e] = Remove(streams_stat[e], sid)
               \/ streams_stat'[e] = [streams_stat[e] EXCEPT ![sid] = "SendClosed"]
        BY <1>0, <2>2 DEF DomInv
      <3>3. Tables(data[e], streams_stat'[e], handle[e], written[e], got[e], MaxWrites[e])
        <4>1. CASE streams_stat'[e] = [streams_stat[e] EXCEPT ![sid] = "SendClosed"]
          BY <1>4, <4>1 DEF Tables, State
        <4>2. CASE streams_stat'[e] = Remove(streams_stat[e], sid)
          BY <1>4, <4>2, TablesRemove
        <4> QED
          BY <3>2, <4>1, <4>2
      <3>4. TablesInv'
        BY <2>1, <3>1, <3>2, <3>3, TablesStep DEF historyVars
      <3>5. SocketInv' /\ ChannelInv' /\ RequestInv' /\ IdInv' /\ DomInv'
        BY <1>0, <1>2, <2>1, <3>1, <3>2 DEF SocketInv, ChannelInv, RequestInv, IdInv, DomInv, historyVars, acceptVars
      <3> QED
        BY <3>4, <3>5, TypePartsNext
    <2>3. CASE UNCHANGED <<wire, task, reply, handle, streams_stat>>
      <3>1. TablesInv' /\ DomInv'
        BY <2>1, <2>3, TablesSame DEF historyVars
      <3>2. SocketInv' /\ ChannelInv' /\ RequestInv' /\ IdInv'
        BY <1>0, <1>2, <2>1, <2>3 DEF SocketInv, ChannelInv, RequestInv, IdInv, historyVars, acceptVars
      <3> QED
        BY <3>1, <3>2, TypePartsNext
    <2> QED
      BY <1>7, <2>2, <2>3 DEF OnCloseStream, c
  <1>8. CASE OnResetStream(e)
    <2> DEFINE h == [req |-> NoReq, sid |-> sid, status |-> "closed"]
    <2>1. UNCHANGED <<broken, next_stream_id, stream_receiver, control_cmds,
                      control_receiver, shutdown, acceptVars, data, written, got>>
      BY <1>8 DEF OnResetStream
    <2>2. h.status = "closed" /\ h.sid = sid /\ "closed" \in Statuses
      BY DEF Statuses
    <2>3. was_reset' \subseteq [opener : Ends, id : Nat]
      <3>1. Stream(e, sid) \in [opener : Ends, id : Nat]
        BY <1>0, <1>2 DEF Stream, StreamID
      <3> QED
        BY <1>0, <1>8, <3>1 DEF OnResetStream, IdInv, c
    <2>4. CASE RemoveStream(e, sid) /\ SendFrame(e, Frame("Reset", sid, NoBody), h)
      <3>1. /\ wire' \in [Ends -> Seq(Frames)] /\ task' \in [Ends -> TaskStates] /\ reply' \in [Requests -> Replies]
            /\ DOMAIN handle' = Ends /\ handle'[Other(e)] = handle[Other(e)]
            /\ handle'[e] = handle[e] \/ handle'[e] = Insert(handle[e], sid, "closed")
        BY <1>1, <1>5, <2>2, <2>4, SendEffect, SendHandle
      <3>2. /\ streams' \in [Ends -> SUBSET StreamID] /\ DOMAIN streams_stat' = Ends
            /\ streams_stat'[Other(e)] = streams_stat[Other(e)]
            /\ Tables(data[e], streams_stat'[e], handle[e], written[e], got[e], MaxWrites[e])
        BY <2>4, RemoveEffect
      <3>3. Tables(data[e], streams_stat'[e], handle'[e], written[e], got[e], MaxWrites[e])
        BY <1>3, <2>2, <3>1, <3>2, TablesHand
      <3>4. TablesInv'
        BY <2>1, <3>1, <3>2, <3>3, TablesStep
      <3>5. SocketInv' /\ ChannelInv' /\ RequestInv' /\ IdInv' /\ DomInv'
        BY <1>0, <1>2, <2>1, <2>3, <3>1, <3>2 DEF SocketInv, ChannelInv, RequestInv, IdInv, DomInv, acceptVars
      <3> QED
        BY <3>4, <3>5, TypePartsNext
    <2>5. CASE Finish(e, h) /\ UNCHANGED <<wire, task, streams, streams_stat, was_reset>>
      <3>1. /\ reply' \in [Requests -> Replies] /\ DOMAIN handle' = Ends /\ handle'[Other(e)] = handle[Other(e)]
            /\ handle'[e] = Insert(handle[e], sid, "closed")
        BY <1>5, <2>2, <2>5, FinishEffect
      <3>2. Tables(data[e], streams_stat[e], handle'[e], written[e], got[e], MaxWrites[e])
        BY <1>3, <1>4, <2>2, <3>1, TablesHand
      <3>3. TablesInv'
        BY <2>1, <2>5, <3>1, <3>2, TablesStep
      <3>4. SocketInv' /\ ChannelInv' /\ RequestInv' /\ IdInv' /\ DomInv'
        BY <1>0, <1>2, <2>1, <2>5, <3>1 DEF SocketInv, ChannelInv, RequestInv, IdInv, DomInv, acceptVars
      <3> QED
        BY <3>3, <3>4, TypePartsNext
    <2> QED
      BY <1>8, <2>4, <2>5 DEF OnResetStream, c
  <1> QED
    BY <1>6, <1>7, <1>8

LEMMA ControlTypes ==
    ASSUME TypeInv, NEW e \in Ends, control_cmds[e] # <<>>
    PROVE  Head(control_cmds[e]) \in Requests /\ [control_cmds EXCEPT ![e] = Tail(@)] \in [Ends -> Seq(Requests)]
  <1>1. control_cmds \in [Ends -> Seq(Requests)]
    BY TypeParts DEF ChannelInv
  <1> QED
    BY <1>1

LEMMA TypeOpenStream ==
    ASSUME TypeInv, NEW e \in Ends, OnOpenStream(e)
    PROVE  TypeInv'
  <1> DEFINE r == Head(control_cmds[e])
             sid == [id |-> next_stream_id[e], initiator |-> TRUE]
             h == [req |-> r, sid |-> sid, status |-> "open"]
             f == Frame("NewStream", sid, NoBody)
  <1>0. SocketInv /\ ChannelInv /\ RequestInv /\ IdInv /\ TablesInv /\ DomInv /\ Other(e) # e /\ Other(e) \in Ends
    BY TypeParts, TheOther
  <1>1. /\ task[e].at = "select" /\ control_cmds[e] # <<>> /\ NewStream(e, sid) /\ SendFrame(e, f, h)
        /\ next_stream_id[e] < MaxId /\ next_stream_id' = [next_stream_id EXCEPT ![e] = next_stream_id[e] + 1]
        /\ control_cmds' = [control_cmds EXCEPT ![e] = Tail(@)]
        /\ UNCHANGED <<broken, stream_cmds, stream_receiver, control_receiver, shutdown, acceptVars, was_reset>>
    BY DEF OnOpenStream, TakeControlCmd, Selecting, Select, HasId, NextId
  <1>2. next_stream_id[e] \in Nat /\ sid \in StreamID /\ sid.initiator
    BY NetTypes DEF StreamID
  <1>3. r \in Requests /\ control_cmds' \in [Ends -> Seq(Requests)]
    BY <1>1, ControlTypes
  <1>4. next_stream_id' \in [Ends -> 0 .. MaxId]
    BY <1>0, <1>1, MaxIdAssumption DEF IdInv
  <1>5. f \in Frames /\ h \in Hands /\ h.status = "open" /\ h.sid = sid
    BY <1>2, <1>3, FrameTypes, HandTypes DEF Tags
  <1> HIDE DEF sid, f
  <1>6. /\ streams' \in [Ends -> SUBSET StreamID]
        /\ DOMAIN data' = Ends /\ DOMAIN streams_stat' = Ends /\ DOMAIN written' = Ends /\ DOMAIN got' = Ends
        /\ data'[Other(e)] = data[Other(e)] /\ streams_stat'[Other(e)] = streams_stat[Other(e)]
        /\ written'[Other(e)] = written[Other(e)] /\ got'[Other(e)] = got[Other(e)]
        /\ Known(e)' = Known(e) \cup {sid}
        /\ Tables(data'[e], streams_stat'[e], handle[e], written'[e], got'[e], MaxWrites[e])
    BY <1>1, <1>2, NewStreamEffect
  <1> HIDE DEF h
  <1>7. /\ wire' \in [Ends -> Seq(Frames)] /\ task' \in [Ends -> TaskStates] /\ reply' \in [Requests -> Replies]
        /\ DOMAIN handle' = Ends /\ handle'[Other(e)] = handle[Other(e)]
        /\ handle'[e] = handle[e] \/ handle'[e] = Insert(handle[e], sid, "open")
    BY <1>1, <1>5, SendEffect, SendHandle
  <1>8. Tables(data'[e], streams_stat'[e], handle'[e], written'[e], got'[e], MaxWrites[e])
    <2>1. sid \in DOMAIN data'[e] /\ "open" \in Statuses
      BY <1>6 DEF Known, Statuses
    <2> QED
      BY <1>6, <1>7, <2>1, TablesHand
  <1>9. TablesInv'
    BY <1>6, <1>7, <1>8, TablesStep
  <1>10. SocketInv' /\ ChannelInv' /\ RequestInv' /\ IdInv' /\ DomInv'
    BY <1>0, <1>1, <1>3, <1>4, <1>6, <1>7 DEF SocketInv, ChannelInv, RequestInv, IdInv, DomInv, acceptVars
  <1> QED
    BY <1>9, <1>10, TypePartsNext

LEMMA TypeAccept ==
    ASSUME TypeInv, PendingInv, NEW e \in Ends, OnAcceptStream(e)
    PROVE  TypeInv'
  <1> DEFINE r == Head(control_cmds[e])
             sid == Head(pending_streams[e])
             h == [req |-> r, sid |-> sid, status |-> "open"]
  <1>0. SocketInv /\ ChannelInv /\ RequestInv /\ IdInv /\ TablesInv /\ DomInv /\ Other(e) # e /\ Other(e) \in Ends
    BY TypeParts, TheOther
  <1>1. /\ control_cmds[e] # <<>> /\ control_cmds' = [control_cmds EXCEPT ![e] = Tail(@)]
        /\ UNCHANGED <<socketVars, task, tableVars, stream_cmds, stream_receiver,
                       control_receiver, shutdown, data, historyVars>>
    BY DEF OnAcceptStream, TakeControlCmd
  <1>2. r \in Requests /\ control_cmds' \in [Ends -> Seq(Requests)]
    BY <1>1, ControlTypes
  <1>3. Tables(data[e], streams_stat[e], handle[e], written[e], got[e], MaxWrites[e])
    BY <1>0 DEF TablesInv
  <1>4. /\ waiting_stream_sender' \in [Ends -> Requests \cup {NoReq}]
        /\ accepted' \in [Ends -> Seq(StreamID)] /\ pending_streams' \in [Ends -> Seq(StreamID)]
        /\ reply' \in [Requests -> Replies] /\ DOMAIN handle' = Ends /\ handle'[Other(e)] = handle[Other(e)]
        /\ Tables(data[e], streams_stat[e], handle'[e], written[e], got[e], MaxWrites[e])
    <2>1. CASE reply' = [reply EXCEPT ![r] = "err"] /\ UNCHANGED <<acceptVars, handle>>
      BY <1>0, <1>2, <1>3, <2>1 DEF RequestInv, IdInv, DomInv, acceptVars, Replies
    <2>2. CASE /\ pending_streams[e] # <<>>
               /\ pending_streams' = [pending_streams EXCEPT ![e] = Tail(@)]
               /\ accepted' = [accepted EXCEPT ![e] = Append(@, sid)]
               /\ Finish(e, h)
               /\ UNCHANGED waiting_stream_sender
      <3>1. pending_streams[e] \in Seq(StreamID) /\ sid \in StreamID /\ 1 \in DOMAIN pending_streams[e]
            /\ sid = pending_streams[e][1]
        BY <1>0, <2>2 DEF IdInv
      <3>2. sid \in DOMAIN data[e]
        BY <3>1 DEF PendingInv, Known
      <3>3. h \in Hands /\ h.status = "open" /\ h.sid = sid /\ "open" \in Statuses
        BY <1>2, <3>1, HandTypes DEF Statuses
      <3>4. /\ accepted' \in [Ends -> Seq(StreamID)] /\ pending_streams' \in [Ends -> Seq(StreamID)]
            /\ waiting_stream_sender' \in [Ends -> Requests \cup {NoReq}]
        BY <1>0, <2>2, <3>1 DEF IdInv, RequestInv
      <3> HIDE DEF sid, h
      <3>5. /\ reply' \in [Requests -> Replies] /\ DOMAIN handle' = Ends /\ handle'[Other(e)] = handle[Other(e)]
            /\ handle'[e] = Insert(handle[e], sid, "open")
        BY <2>2, <3>3, FinishEffect
      <3>6. Tables(data[e], streams_stat[e], handle'[e], written[e], got[e], MaxWrites[e])
        BY <1>3, <3>2, <3>3, <3>5, TablesHand
      <3> QED
        BY <3>4, <3>5, <3>6
    <2>3. CASE /\ waiting_stream_sender' = [waiting_stream_sender EXCEPT ![e] = r]
               /\ UNCHANGED <<pending_streams, accepted, handle, reply>>
      BY <1>0, <1>2, <1>3, <2>3 DEF RequestInv, IdInv, DomInv
    <2> QED
      BY <2>1, <2>2, <2>3 DEF OnAcceptStream
  <1>5. TablesInv'
    BY <1>1, <1>4, TablesStep DEF tableVars, historyVars
  <1>6. SocketInv' /\ ChannelInv' /\ RequestInv' /\ IdInv' /\ DomInv'
    BY <1>0, <1>1, <1>2, <1>4
       DEF SocketInv, ChannelInv, RequestInv, IdInv, DomInv, socketVars, tableVars, historyVars
  <1> QED
    BY <1>5, <1>6, TypePartsNext

\* The steps that leave all tables as they are.
LEMMA TypeQuiet ==
    ASSUME TypeInv, NEW e \in Ends, OnNoStreamCommand(e) \/ OnCloseConnection(e) \/ Delivered(e) \/ Break
    PROVE  TypeInv'
  <1>0. SocketInv /\ ChannelInv /\ RequestInv /\ IdInv /\ TablesInv /\ DomInv
    BY TypeParts
  <1>1. UNCHANGED <<wire, tableVars, acceptVars, data, handle, historyVars>>
    BY DEF OnNoStreamCommand, OnCloseConnection, Delivered, Break, socketVars
  <1>2. TablesInv' /\ DomInv'
    BY <1>1, TablesSame DEF tableVars, historyVars
  <1>3. IdInv'
    BY <1>0, <1>1 DEF IdInv, tableVars, acceptVars, historyVars
  <1>4. SocketInv' /\ ChannelInv' /\ RequestInv'
    <2>1. CASE OnNoStreamCommand(e)
      BY <1>0, <2>1 DEF OnNoStreamCommand, SocketInv, ChannelInv, RequestInv, socketVars, acceptVars
    <2>2. CASE OnCloseConnection(e)
      <3>1. /\ control_cmds[e] # <<>> /\ control_cmds' = [control_cmds EXCEPT ![e] = Tail(@)]
            /\ UNCHANGED <<wire, broken, task, stream_cmds, waiting_stream_sender>>
        BY <2>2 DEF OnCloseConnection, TakeControlCmd, socketVars, acceptVars
      <3>2. Head(control_cmds[e]) \in Requests /\ control_cmds' \in [Ends -> Seq(Requests)]
        BY <3>1, ControlTypes
      <3>3. /\ stream_receiver' \in [Ends -> {"open", "closed", "terminated"}]
            /\ control_receiver' \in [Ends -> {"open", "paused", "closed", "terminated"}]
        BY <1>0, <2>2 DEF OnCloseConnection, ChannelInv
      <3>4. /\ shutdown' \in [Ends -> [state : {"NotStarted", "InProgress", "Complete"}, tx : Requests \cup {NoReq}]]
            /\ reply' \in [Requests -> Replies]
        <4> DEFINE r == Head(control_cmds[e])
        <4>1. \/ reply' = [reply EXCEPT ![r] = "ok"] /\ shutdown' = shutdown
              \/ shutdown' = [shutdown EXCEPT ![e] = [state |-> "InProgress", tx |-> r]] /\ reply' = reply
          BY <2>2 DEF OnCloseConnection
        <4> HIDE DEF r
        <4>2. r \in Requests
          BY <3>2 DEF r
        <4> QED
          BY <1>0, <4>1, <4>2 DEF RequestInv, Replies
      <3> QED
        BY <1>0, <3>1, <3>2, <3>3, <3>4 DEF SocketInv, ChannelInv, RequestInv
    <2>3. CASE Delivered(e)
      BY <1>0, <2>3 DEF Delivered, SocketInv, ChannelInv, RequestInv, socketVars, chanVars, acceptVars, TaskStates
    <2>4. CASE Break
      BY <1>0, <2>4 DEF Break, SocketInv, ChannelInv, RequestInv, chanVars, acceptVars
    <2> QED
      BY <2>1, <2>2, <2>3, <2>4
  <1> QED
    BY <1>2, <1>3, <1>4, TypePartsNext

LEMMA TypeTimeout ==
    ASSUME TypeInv, NEW e \in Ends, DeliverTimeout(e)
    PROVE  TypeInv'
  <1> DEFINE sid == task[e].sid
             f == Frame("Reset", sid, NoBody)
  <1>0. SocketInv /\ ChannelInv /\ RequestInv /\ IdInv /\ TablesInv /\ DomInv /\ Other(e) # e /\ Other(e) \in Ends
    BY TypeParts, TheOther
  <1>1. /\ task[e].at = "deliver" /\ RemoveStream(e, sid) /\ was_reset' = was_reset \cup {Stream(e, sid)}
        /\ SendFrame(e, f, Nothing)
        /\ UNCHANGED <<broken, next_stream_id, chanVars, shutdown, acceptVars, data, written, got>>
    BY DEF DeliverTimeout
  <1>2. sid \in StreamID /\ f \in Frames /\ Nothing \in Hands /\ Nothing.status = "none"
    BY <1>1, TaskTypes, FrameTypes, HandTypes DEF Tags
  <1> HIDE DEF sid, f
  <1>3. /\ wire' \in [Ends -> Seq(Frames)] /\ task' \in [Ends -> TaskStates] /\ reply' \in [Requests -> Replies]
        /\ DOMAIN handle' = Ends /\ handle'[Other(e)] = handle[Other(e)] /\ handle'[e] = handle[e]
    BY <1>1, <1>2, SendEffect, SendHandle
  <1>4. /\ streams' \in [Ends -> SUBSET StreamID] /\ DOMAIN streams_stat' = Ends
        /\ streams_stat'[Other(e)] = streams_stat[Other(e)]
        /\ Tables(data[e], streams_stat'[e], handle[e], written[e], got[e], MaxWrites[e])
    BY <1>1, RemoveEffect
  <1>5. was_reset' \subseteq [opener : Ends, id : Nat]
    <2>1. Stream(e, sid) \in [opener : Ends, id : Nat]
      BY <1>0, <1>2 DEF Stream, StreamID
    <2> QED
      BY <1>0, <1>1, <2>1 DEF IdInv
  <1>6. TablesInv'
    BY <1>1, <1>3, <1>4, TablesStep
  <1>7. SocketInv' /\ ChannelInv' /\ RequestInv' /\ IdInv' /\ DomInv'
    BY <1>0, <1>1, <1>3, <1>4, <1>5 DEF SocketInv, ChannelInv, RequestInv, IdInv, DomInv, acceptVars, chanVars
  <1> QED
    BY <1>6, <1>7, TypePartsNext

LEMMA TypeCall ==
    ASSUME TypeInv, NEW r \in Requests, Call(r)
    PROVE  TypeInv'
  <1>0. SocketInv /\ ChannelInv /\ RequestInv /\ IdInv /\ TablesInv /\ DomInv /\ r.end \in Ends
    BY TypeParts, RequestsAssumption
  <1>1. UNCHANGED <<socketVars, task, tableVars, stream_cmds, stream_receiver,
                    control_receiver, shutdown, acceptVars, data, handle, historyVars>>
    BY DEF Call
  <1>2. reply' \in [Requests -> Replies] /\ control_cmds' \in [Ends -> Seq(Requests)]
    <2>1. \E v \in Replies : reply' = [reply EXCEPT ![r] = v]
      BY DEF Call, Replies
    <2>2. control_cmds' = control_cmds \/ control_cmds' = [control_cmds EXCEPT ![r.end] = Append(@, r)]
      BY DEF Call
    <2>3. reply' \in [Requests -> Replies]
      BY <1>0, <2>1 DEF RequestInv
    <2>4. control_cmds' \in [Ends -> Seq(Requests)]
      <3> DEFINE e == r.end
      <3>1. control_cmds' = control_cmds \/ control_cmds' = [control_cmds EXCEPT ![e] = Append(@, r)]
        BY <2>2
      <3>2. e \in Ends /\ control_cmds \in [Ends -> Seq(Requests)]
        BY <1>0 DEF ChannelInv
      <3> HIDE DEF e
      <3>3. Append(control_cmds[e], r) \in Seq(Requests)
        BY <3>2
      <3> QED
        BY <3>1, <3>2, <3>3
    <2> QED
      BY <2>3, <2>4
  <1>3. TablesInv' /\ DomInv'
    BY <1>1, TablesSame DEF tableVars, historyVars
  <1>4. SocketInv' /\ ChannelInv' /\ RequestInv' /\ IdInv'
    BY <1>0, <1>1, <1>2
       DEF SocketInv, ChannelInv, RequestInv, IdInv, acceptVars, socketVars, tableVars, historyVars
  <1> QED
    BY <1>3, <1>4, TypePartsNext

\* What an application does with a Stream.
Use(e, sid) == Write(e, sid) \/ Close(e, sid) \/ Reset(e, sid) \/ Read(e, sid) \/ Drop(e, sid)

LEMMA UseEffect ==
    ASSUME TypeInv, NEW e \in Ends, NEW sid, Use(e, sid)
    PROVE  /\ sid \in DOMAIN handle[e] /\ sid \in DOMAIN data[e] /\ sid \in StreamID
           /\ UNCHANGED <<socketVars, task, tableVars, stream_receiver, control_cmds, control_receiver, shutdown,
                          acceptVars, reply, was_reset>>
           /\ DOMAIN handle' = Ends /\ DOMAIN data' = Ends /\ DOMAIN written' = Ends /\ DOMAIN got' = Ends
           /\ handle'[Other(e)] = handle[Other(e)] /\ data'[Other(e)] = data[Other(e)]
           /\ written'[Other(e)] = written[Other(e)] /\ got'[Other(e)] = got[Other(e)]
           /\ DOMAIN handle'[e] = DOMAIN handle[e] /\ DOMAIN data'[e] = DOMAIN data[e]
           /\ KnownSame
  <1>0. TablesInv /\ DomInv /\ Other(e) # e /\ Other(e) \in Ends
    BY TypeParts, TheOther
  <1>1. sid \in DOMAIN handle[e]
    BY DEF Use, Write, Close, Reset, Read, Drop, StreamCommand
  <1>2. sid \in DOMAIN data[e] /\ sid \in StreamID
    BY <1>0, <1>1 DEF TablesInv, Tables
  <1>3. UNCHANGED <<socketVars, task, tableVars, stream_receiver, control_cmds, control_receiver, shutdown,
                    acceptVars, reply, was_reset>>
    BY DEF Use, Write, Close, Reset, Read, Drop, StreamCommand, chanVars, historyVars
  <1>4. /\ DOMAIN handle' = Ends /\ DOMAIN data' = Ends /\ DOMAIN written' = Ends /\ DOMAIN got' = Ends
        /\ handle'[Other(e)] = handle[Other(e)] /\ data'[Other(e)] = data[Other(e)]
        /\ written'[Other(e)] = written[Other(e)] /\ got'[Other(e)] = got[Other(e)]
        /\ DOMAIN handle'[e] = DOMAIN handle[e] /\ DOMAIN data'[e] = DOMAIN data[e]
    BY <1>0 DEF DomInv, Use, Write, Close, Reset, Read, Drop, StreamCommand, historyVars
  <1>5. KnownSame
    BY <1>4, TheOther DEF KnownSame, Known
  <1> QED
    BY <1>1, <1>2, <1>3, <1>4, <1>5

LEMMA TypeUse ==
    ASSUME TypeInv, NEW e \in Ends, NEW sid, Use(e, sid)
    PROVE  TypeInv'
  <1>0. SocketInv /\ ChannelInv /\ RequestInv /\ IdInv /\ TablesInv /\ DomInv
    BY TypeParts
  <1>1. /\ sid \in DOMAIN handle[e] /\ sid \in DOMAIN data[e] /\ sid \in StreamID
        /\ UNCHANGED <<socketVars, task, tableVars, stream_receiver, control_cmds, control_receiver, shutdown,
                       acceptVars, reply, was_reset>>
        /\ DOMAIN handle' = Ends /\ DOMAIN data' = Ends /\ DOMAIN written' = Ends /\ DOMAIN got' = Ends
        /\ handle'[Other(e)] = handle[Other(e)] /\ data'[Other(e)] = data[Other(e)]
        /\ written'[Other(e)] = written[Other(e)] /\ got'[Other(e)] = got[Other(e)]
    BY UseEffect
  <1>2. Tables(data[e], streams_stat[e], handle[e], written[e], got[e], MaxWrites[e]) /\ MaxWrites[e] \in Nat
    BY <1>0, BoundsAssumption DEF TablesInv
  <1>3. /\ stream_cmds' \in [Ends -> Seq(Commands)]
        /\ Tables(data'[e], streams_stat[e], handle'[e], written'[e], got'[e], MaxWrites[e])
    <2>1. CASE Write(e, sid)
      <3> DEFINE b == [from |-> e, sid |-> sid, n |-> written[e][sid] + 1]
                 cmd == [type |-> "SendFrame", sid |-> sid, body |-> b]
      <3>1. written[e][sid] \in Nat /\ written[e][sid] < MaxWrites[e] /\ cmd \in Commands
        BY <1>1, <1>2, <2>1 DEF Tables, Commands, Bodies, Write
      <3>2. stream_cmds' = [stream_cmds EXCEPT ![e] = Append(@, cmd)]
        BY <2>1 DEF Write, StreamCommand
      <3>3. stream_cmds' \in [Ends -> Seq(Commands)]
        BY <1>0, <3>1, <3>2 DEF ChannelInv
      <3>4. data'[e] = data[e] /\ handle'[e] = handle[e] /\ got'[e] = got[e]
            /\ written'[e] = [written[e] EXCEPT ![sid] = @ + 1]
        BY <1>0, <2>1 DEF Write, StreamCommand, DomInv
      <3>5. Tables(data'[e], streams_stat[e], handle'[e], written'[e], got'[e], MaxWrites[e])
        BY <1>1, <1>2, <3>1, <3>4 DEF Tables
      <3> QED
        BY <3>3, <3>5
    <2>2. CASE Close(e, sid) \/ Reset(e, sid)
      <3>1. /\ [type |-> "CloseStream", sid |-> sid, body |-> NoBody] \in Commands
            /\ [type |-> "ResetStream", sid |-> sid, body |-> NoBody] \in Commands
        BY <1>1, HandTypes DEF Commands
      <3>2. stream_cmds' \in [Ends -> Seq(Commands)]
        <4>1. \E cmd \in Commands : stream_cmds' = [stream_cmds EXCEPT ![e] = Append(@, cmd)]
          BY <2>2, <3>1 DEF Close, Reset, StreamCommand
        <4> QED
          BY <1>0, <4>1 DEF ChannelInv
      <3>3. /\ data'[e] = data[e] /\ got'[e] = got[e] /\ written'[e] = written[e]
            /\ \/ handle'[e] = [handle[e] EXCEPT ![sid] = "closed"]
               \/ handle'[e] = [handle[e] EXCEPT ![sid] = "resetting"]
        BY <1>0, <2>2 DEF Close, Reset, StreamCommand, DomInv
      <3>4. Tables(data'[e], streams_stat[e], handle'[e], written'[e], got'[e], MaxWrites[e])
        BY <1>2, <3>3 DEF Tables, Statuses
      <3> QED
        BY <3>2, <3>4
    <2>3. CASE Read(e, sid)
      <3>1. data[e][sid] \in Seq(Bodies) /\ got[e][sid] \in Seq(Bodies) /\ data[e][sid] # <<>>
        BY <1>1, <1>2, <2>3 DEF Tables, Read
      <3>2. Tail(data[e][sid]) \in Seq(Bodies) /\ Append(got[e][sid], Head(data[e][sid])) \in Seq(Bodies)
        BY <3>1
      <3>3. /\ handle'[e] = handle[e] /\ written'[e] = written[e] /\ stream_cmds' = stream_cmds
            /\ data'[e] = [data[e] EXCEPT ![sid] = Tail(data[e][sid])]
            /\ got'[e] = [got[e] EXCEPT ![sid] = Append(got[e][sid], Head(data[e][sid]))]
        BY <1>0, <2>3 DEF Read, DomInv, chanVars
      <3>4. Tables(data'[e], streams_stat[e], handle'[e], written'[e], got'[e], MaxWrites[e])
        BY <1>2, <3>2, <3>3 DEF Tables
      <3> QED
        BY <1>0, <3>3, <3>4 DEF ChannelInv
    <2>4. CASE Drop(e, sid)
      <3>1. /\ written'[e] = written[e] /\ got'[e] = got[e] /\ stream_cmds' = stream_cmds
            /\ data'[e] = [data[e] EXCEPT ![sid] = <<>>]
            /\ handle'[e] = [handle[e] EXCEPT ![sid] = "dropped"]
        BY <1>0, <2>4 DEF Drop, DomInv, chanVars, historyVars
      <3>2. Tables(data'[e], streams_stat[e], handle'[e], written'[e], got'[e], MaxWrites[e])
        BY <1>2, <3>1 DEF Tables, Statuses
      <3> QED
        BY <1>0, <3>1, <3>2 DEF ChannelInv
    <2> QED
      BY <2>1, <2>2, <2>3, <2>4 DEF Use
  <1>4. TablesInv'
    BY <1>1, <1>3, TablesStep DEF tableVars
  <1>5. SocketInv' /\ ChannelInv' /\ RequestInv' /\ IdInv' /\ DomInv'
    BY <1>0, <1>1, <1>3
       DEF SocketInv, ChannelInv, RequestInv, IdInv, DomInv, acceptVars, socketVars, tableVars
  <1> QED
    BY <1>4, <1>5, TypePartsNext
-----------------------------------------------------------------------------
(* Frames of a stream, commands of a stream. *)

LEMMA HasStep ==
    ASSUME NEW s \in Seq(Frames), NEW tag, NEW sid
    PROVE  /\ \A f \in Frames : Has(Append(s, f), tag, sid) <=> Has(s, tag, sid) \/ (TagOf(f) = tag /\ SidOf(f) = sid)
           /\ s # <<>> => (Has(s, tag, sid) <=> Has(Tail(s), tag, sid)
                                               \/ (TagOf(Head(s)) = tag /\ SidOf(Head(s)) = sid))
  <1>1. ASSUME NEW f \in Frames
        PROVE  Has(Append(s, f), tag, sid) <=> Has(s, tag, sid) \/ (TagOf(f) = tag /\ SidOf(f) = sid)
    <2> DEFINE w == Append(s, f)
               n == Len(s)
    <2>1. /\ n \in Nat /\ DOMAIN s = 1 .. n /\ DOMAIN w = 1 .. n + 1
          /\ w[n + 1] = f /\ \A i \in 1 .. n : w[i] = s[i]
      OBVIOUS
    <2> HIDE DEF w
    <2>2. Has(w, tag, sid) => Has(s, tag, sid) \/ (TagOf(f) = tag /\ SidOf(f) = sid)
      BY <2>1 DEF Has
    <2>3. Has(s, tag, sid) => Has(w, tag, sid)
      BY <2>1 DEF Has
    <2>4. TagOf(f) = tag /\ SidOf(f) = sid => Has(w, tag, sid)
      BY <2>1 DEF Has
    <2> QED
      BY <2>2, <2>3, <2>4 DEF w
  <1>2. ASSUME s # <<>>
        PROVE  Has(s, tag, sid) <=> Has(Tail(s), tag, sid) \/ (TagOf(Head(s)) = tag /\ SidOf(Head(s)) = sid)
    <2> DEFINE w == Tail(s)
               n == Len(s)
    <2>1. /\ n \in Nat \ {0} /\ DOMAIN s = 1 .. n /\ DOMAIN w = 1 .. n - 1
          /\ Head(s) = s[1] /\ \A i \in 1 .. n - 1 : w[i] = s[i + 1]
      BY <1>2
    <2> HIDE DEF w
    <2>2. \A i \in 1 .. n : i = 1 \/ (i - 1 \in 1 .. n - 1 /\ w[i - 1] = s[i])
      BY <2>1
    <2>3. Has(s, tag, sid) => Has(w, tag, sid) \/ (TagOf(s[1]) = tag /\ SidOf(s[1]) = sid)
      <3> SUFFICES ASSUME NEW i \in 1 .. n, TagOf(s[i]) = tag, SidOf(s[i]) = sid, i # 1 PROVE Has(w, tag, sid)
        BY <2>1 DEF Has
      <3>1. i - 1 \in DOMAIN w /\ w[i - 1] = s[i]
        BY <2>1, <2>2
      <3> QED
        BY <3>1 DEF Has
    <2>4. Has(w, tag, sid) => Has(s, tag, sid)
      <3> SUFFICES ASSUME NEW i \in 1 .. n - 1, TagOf(w[i]) = tag, SidOf(w[i]) = sid PROVE Has(s, tag, sid)
        BY <2>1 DEF Has
      <3>1. i + 1 \in DOMAIN s /\ w[i] = s[i + 1]
        BY <2>1
      <3> QED
        BY <3>1 DEF Has
    <2>5. TagOf(s[1]) = tag /\ SidOf(s[1]) = sid => Has(s, tag, sid)
      BY <2>1 DEF Has
    <2> QED
      BY <2>1, <2>3, <2>4, <2>5 DEF w
  <1> QED
    BY <1>1, <1>2

LEMMA SentKnown ==
    ASSUME FramesInv, NEW e \in Ends, NEW tag, NEW sid, Sent(e, tag, sid)
    PROVE  sid \in Known(e)
  BY DEF FramesInv, FramesOK, Sent, Has

LEMMA CommandsTail ==
    ASSUME NEW e, NEW q \in Seq(Commands), NEW ha, CommandsOK(e, q, ha), q # <<>>
    PROVE  /\ CommandsOK(e, Tail(q), ha)
           /\ Head(q).type # "SendFrame" => \A i \in DOMAIN Tail(q) : Tail(q)[i].sid # Head(q).sid
  <1> DEFINE w == Tail(q)
             n == Len(q)
  <1>1. /\ n \in Nat \ {0} /\ DOMAIN q = 1 .. n /\ DOMAIN w = 1 .. n - 1 /\ Len(w) = n - 1
        /\ Head(q) = q[1] /\ \A i \in 1 .. n - 1 : w[i] = q[i + 1]
    OBVIOUS
  <1> HIDE DEF w
  <1>2. ASSUME NEW i \in 1 .. n - 1
        PROVE  /\ w[i].sid \in DOMAIN ha
               /\ w[i].type = "SendFrame" => BodyOK(w[i].body, e, w[i].sid)
               /\ w[i].type = "CloseStream" => ha[w[i].sid] \in {"closed", "dropped"}
               /\ w[i].type = "ResetStream" => ha[w[i].sid] = "resetting"
               /\ w[i].type # "SendFrame" => \A j \in i + 1 .. n - 1 : w[j].sid # w[i].sid
    <2>1. i + 1 \in DOMAIN q /\ w[i] = q[i + 1]
      BY <1>1
    <2>2. \A j \in i + 1 .. n - 1 : j + 1 \in (i + 1) + 1 .. n /\ w[j] = q[j + 1]
      BY <1>1
    <2> QED
      BY <2>1, <2>2 DEF CommandsOK
  <1>3. ASSUME q[1].type # "SendFrame", NEW i \in 1 .. n - 1 PROVE w[i].sid # q[1].sid
    <2>1. i + 1 \in 1 + 1 .. n /\ w[i] = q[i + 1] /\ 1 \in DOMAIN q
      BY <1>1
    <2> QED
      BY <1>3, <2>1 DEF CommandsOK
  <1> QED
    BY <1>1, <1>2, <1>3 DEF CommandsOK, w

\* A Stream is handed out, or its reset is confirmed.
LEMMA CommandsHand ==
    ASSUME NEW e, NEW q, NEW ha, NEW sid, NEW v, CommandsOK(e, q, ha), \A i \in DOMAIN q : q[i].sid # sid
    PROVE  CommandsOK(e, q, Insert(ha, sid, v))
  BY DEF CommandsOK, Insert

\* A Stream in use sends a command.
LEMMA CommandsAppend ==
    ASSUME NEW e, NEW q \in Seq(Commands), NEW ha, NEW ha2, NEW c \in Commands, CommandsOK(e, q, ha),
           c.sid \in DOMAIN ha, ha[c.sid] = "open", DOMAIN ha2 = DOMAIN ha,
           \A s \in DOMAIN ha : s # c.sid => ha2[s] = ha[s],
           c.type = "SendFrame" => BodyOK(c.body, e, c.sid),
           c.type = "CloseStream" => ha2[c.sid] = "closed",
           c.type = "ResetStream" => ha2[c.sid] = "resetting"
    PROVE  CommandsOK(e, Append(q, c), ha2)
  <1> DEFINE w == Append(q, c)
             n == Len(q)
  <1>1. /\ n \in Nat /\ DOMAIN q = 1 .. n /\ DOMAIN w = 1 .. n + 1 /\ Len(w) = n + 1
        /\ w[n + 1] = c /\ \A i \in 1 .. n : w[i] = q[i] /\ q[i] \in Commands
    OBVIOUS
  <1> HIDE DEF w
  <1>2. ASSUME NEW i \in 1 .. n, q[i].sid = c.sid PROVE q[i].type = "SendFrame"
    BY <1>1, <1>2 DEF CommandsOK, Commands
  <1>3. ASSUME NEW i \in 1 .. n + 1
        PROVE  /\ w[i].sid \in DOMAIN ha2
               /\ w[i].type = "SendFrame" => BodyOK(w[i].body, e, w[i].sid)
               /\ w[i].type = "CloseStream" => ha2[w[i].sid] \in {"closed", "dropped"}
               /\ w[i].type = "ResetStream" => ha2[w[i].sid] = "resetting"
               /\ w[i].type # "SendFrame" => \A j \in i + 1 .. n + 1 : w[j].sid # w[i].sid
    <2>1. CASE i = n + 1
      BY <1>1, <2>1
    <2>2. CASE i \in 1 .. n
      <3>1. w[i] = q[i] /\ i \in DOMAIN q
        BY <1>1, <2>2
      <3>2. ASSUME w[i].type # "SendFrame", NEW j \in i + 1 .. n + 1 PROVE w[j].sid # w[i].sid
        <4>1. CASE j = n + 1
          BY <1>1, <1>2, <2>2, <3>1, <3>2, <4>1
        <4>2. CASE j \in i + 1 .. n
          BY <1>1, <2>2, <3>1, <3>2, <4>2 DEF CommandsOK
        <4> QED
          BY <1>1, <4>1, <4>2
      <3>3. w[i].type # "SendFrame" => w[i].sid # c.sid
        BY <1>2, <2>2, <3>1
      <3> QED
        BY <3>1, <3>2, <3>3 DEF CommandsOK
    <2> QED
      BY <1>1, <2>1, <2>2
  <1> QED
    BY <1>1, <1>3 DEF CommandsOK, w
-----------------------------------------------------------------------------
(* It is enough to look at the end that takes the step. *)

LEMMA CommandBoth ==
    ASSUME CommandInv, NEW e \in Ends, CommandsOK(e, stream_cmds'[e], handle'[e]),
           stream_cmds'[Other(e)] = stream_cmds[Other(e)], handle'[Other(e)] = handle[Other(e)]
    PROVE  CommandInv'
  BY TheOther DEF CommandInv

LEMMA HandBoth ==
    ASSUME HandInv, NEW e \in Ends,
           task'[e].at = "write" => HandOK(task'[e].hand, Known(e)', handle'[e], stream_cmds'[e]),
           task'[Other(e)] = task[Other(e)], Known(Other(e))' = Known(Other(e)),
           stream_cmds'[Other(e)] = stream_cmds[Other(e)], handle'[Other(e)] = handle[Other(e)]
    PROVE  HandInv'
  BY TheOther DEF HandInv

LEMMA DeliverKept ==
    ASSUME DeliverInv, NEW e \in Ends, Known(e) \subseteq Known(e)', Known(Other(e))' = Known(Other(e)),
           task'[Other(e)] = task[Other(e)],
           task'[e] = task[e] \/ (task'[e].at = "deliver" => task'[e].sid \in Known(e)')
    PROVE  DeliverInv'
  BY TheOther DEF DeliverInv

LEMMA PendingBoth ==
    ASSUME PendingInv, NEW e \in Ends,
           \A i \in DOMAIN pending_streams'[e] :
              pending_streams'[e][i] \in Known(e)' /\ pending_streams'[e][i] \notin DOMAIN handle'[e],
           pending_streams'[Other(e)] = pending_streams[Other(e)], Known(Other(e))' = Known(Other(e)),
           DOMAIN handle'[Other(e)] = DOMAIN handle[Other(e)]
    PROVE  PendingInv'
  BY TheOther DEF PendingInv

LEMMA OrderQueue ==
    ASSUME NEW a \in Seq(StreamID), NEW b \in Seq(StreamID),
           \A k \in 1 .. Len(a \o b) : (a \o b)[k] = [id |-> k - 1, initiator |-> FALSE]
    PROVE  \A k \in DOMAIN b : b[k].id = (Len(a) + k) - 1 /\ ~b[k].initiator
  <1>1. Len(a) \in Nat /\ Len(b) \in Nat /\ DOMAIN b = 1 .. Len(b)
    OBVIOUS
  <1>2. /\ Len(a \o b) = Len(a) + Len(b)
        /\ \A k \in 1 .. Len(a) + Len(b) : (a \o b)[k] = IF k <= Len(a) THEN a[k] ELSE b[k - Len(a)]
    BY ConcatProperties
  <1> SUFFICES ASSUME NEW k \in 1 .. Len(b) PROVE b[k].id = (Len(a) + k) - 1 /\ ~b[k].initiator
    BY <1>1
  <1> DEFINE i == Len(a) + k
  <1>3. i \in 1 .. Len(a) + Len(b) /\ ~(i <= Len(a)) /\ i - Len(a) = k
    BY <1>1
  <1> HIDE DEF i
  <1>4. b[k] = [id |-> i - 1, initiator |-> FALSE]
    BY <1>2, <1>3
  <1> QED
    BY <1>4 DEF i

\* Streams in the queue were opened by the other end.
LEMMA PendingOther ==
    ASSUME TypeInv, AcceptOrder, NEW e \in Ends, NEW i \in DOMAIN pending_streams[e]
    PROVE  /\ ~pending_streams[e][i].initiator
           /\ \A j \in DOMAIN pending_streams[e] : pending_streams[e][j] = pending_streams[e][i] => i = j
  <1>1. accepted[e] \in Seq(StreamID) /\ pending_streams[e] \in Seq(StreamID)
    BY TypeParts DEF IdInv
  <1>2. \A k \in 1 .. Len(accepted[e] \o pending_streams[e]) :
           (accepted[e] \o pending_streams[e])[k] = [id |-> k - 1, initiator |-> FALSE]
    BY DEF AcceptOrder
  <1>3. /\ DOMAIN pending_streams[e] = 1 .. Len(pending_streams[e]) /\ Len(accepted[e]) \in Nat
        /\ Len(pending_streams[e]) \in Nat
    BY <1>1
  <1>4. \A k \in DOMAIN pending_streams[e] :
           pending_streams[e][k].id = (Len(accepted[e]) + k) - 1 /\ ~pending_streams[e][k].initiator
    BY <1>1, <1>2, OrderQueue
  <1> QED
    BY <1>3, <1>4

\* Only streams of this end get a handle, or none.
LEMMA PendingKept ==
    ASSUME TypeInv, AcceptOrder, PendingInv, NEW e \in Ends,
           pending_streams'[e] = pending_streams[e] \/ pending_streams'[e] = <<>>, Known(e) \subseteq Known(e)',
           \A s \in DOMAIN handle'[e] : s \in DOMAIN handle[e] \/ s.initiator,
           pending_streams'[Other(e)] = pending_streams[Other(e)], Known(Other(e))' = Known(Other(e)),
           DOMAIN handle'[Other(e)] = DOMAIN handle[Other(e)]
    PROVE  PendingInv'
  <1>1. ASSUME NEW i \in DOMAIN pending_streams'[e]
        PROVE  pending_streams'[e][i] \in Known(e)' /\ pending_streams'[e][i] \notin DOMAIN handle'[e]
    <2>1. pending_streams'[e] = pending_streams[e] /\ i \in DOMAIN pending_streams[e]
      OBVIOUS
    <2>2. pending_streams[e][i] \in Known(e) /\ pending_streams[e][i] \notin DOMAIN handle[e]
      BY <2>1 DEF PendingInv
    <2>3. ~pending_streams[e][i].initiator
      BY <2>1, PendingOther
    <2> QED
      BY <2>1, <2>2, <2>3
  <1> QED
    BY <1>1, PendingBoth

LEMMA AcceptBoth ==
    ASSUME AcceptInv, NEW e \in Ends,
           Running(e)' => {sid \in Known(e)' : ~sid.initiator}
                             = Numbered(Len(accepted'[e]) + Len(pending_streams'[e]), FALSE),
           Running(Other(e))' => Running(Other(e)), Known(Other(e))' = Known(Other(e)),
           accepted'[Other(e)] = accepted[Other(e)], pending_streams'[Other(e)] = pending_streams[Other(e)]
    PROVE  AcceptInv'
  BY TheOther DEF AcceptInv

\* Known streams of the other end, handed out or queued, stay the same.
LEMMA AcceptSame ==
    ASSUME AcceptInv, AcceptOrder, UNCHANGED acceptVars, KnownSame, \A e \in Ends : Running(e)' => Running(e)
    PROVE  AcceptInv' /\ AcceptOrder'
  BY DEF AcceptInv, AcceptOrder, acceptVars, KnownSame

OrderOK(a, p, w) ==
    LET q == a \o p IN
    /\ \A i \in 1 .. Len(q) : q[i] = [id |-> i - 1, initiator |-> FALSE]
    /\ w # NoReq => p = <<>>

LEMMA OrderBoth ==
    ASSUME AcceptOrder, NEW e \in Ends, OrderOK(accepted'[e], pending_streams'[e], waiting_stream_sender'[e]),
           accepted'[Other(e)] = accepted[Other(e)], pending_streams'[Other(e)] = pending_streams[Other(e)],
           waiting_stream_sender'[Other(e)] = waiting_stream_sender[Other(e)]
    PROVE  AcceptOrder'
  <1>1. \A x \in Ends : OrderOK(accepted[x], pending_streams[x], waiting_stream_sender[x])
    BY DEF AcceptOrder, OrderOK
  <1>2. \A x \in Ends : OrderOK(accepted'[x], pending_streams'[x], waiting_stream_sender'[x])
    BY <1>1, TheOther
  <1> QED
    BY <1>2 DEF AcceptOrder, OrderOK

LEMMA SentBoth ==
    ASSUME TypeInv, SentInv, NEW e \in Ends, was_reset \subseteq was_reset',
           \A sid \in StreamID :
              /\ Sent(e, "Close", sid)' => ~Writable(e, sid)'
              /\ Sent(e, "Reset", sid)' => sid \notin DOMAIN streams_stat'[e] /\ ~NotReset(e, sid)',
           streams_stat'[Other(e)] = streams_stat[Other(e)],
           Out(Other(e))' = Out(Other(e)) \/ (Out(Other(e)) # <<>> /\ Out(Other(e))' = Tail(Out(Other(e))))
    PROVE  SentInv'
  <1> DEFINE o == Other(e)
  <1>1. o \in Ends /\ \A x \in Ends : x = e \/ x = o
    BY TheOther
  <1>2. Out(o) \in Seq(Frames)
    BY <1>1, TaskTypes
  <1>3. \A tag, sid : Sent(o, tag, sid)' => Sent(o, tag, sid)
    BY <1>2, HasStep DEF Sent
  <1>4. \A sid : Writable(o, sid)' = Writable(o, sid)
    BY DEF Writable
  <1>5. \A sid : NotReset(o, sid)' => NotReset(o, sid)
    BY DEF NotReset
  <1>6. \A sid \in StreamID :
              /\ Sent(o, "Close", sid)' => ~Writable(o, sid)'
              /\ Sent(o, "Reset", sid)' => sid \notin DOMAIN streams_stat'[o] /\ ~NotReset(o, sid)'
    BY <1>1, <1>3, <1>4, <1>5 DEF SentInv
  <1> QED
    BY <1>1, <1>6 DEF SentInv

\* Nothing was sent, no stream became writable.
LEMMA SentSame ==
    ASSUME TypeInv, SentInv, NEW e \in Ends, was_reset \subseteq was_reset',
           \A tag, sid : Sent(e, tag, sid)' => Sent(e, tag, sid),
           \A sid \in StreamID : /\ Writable(e, sid)' => Writable(e, sid)
                                 /\ sid \in DOMAIN streams_stat'[e] => sid \in DOMAIN streams_stat[e],
           streams_stat'[Other(e)] = streams_stat[Other(e)],
           Out(Other(e))' = Out(Other(e)) \/ (Out(Other(e)) # <<>> /\ Out(Other(e))' = Tail(Out(Other(e))))
    PROVE  SentInv'
  <1>1. \A sid : NotReset(e, sid)' => NotReset(e, sid)
    BY DEF NotReset
  <1>2. \A sid \in StreamID :
              /\ Sent(e, "Close", sid)' => ~Writable(e, sid)'
              /\ Sent(e, "Reset", sid)' => sid \notin DOMAIN streams_stat'[e] /\ ~NotReset(e, sid)'
    BY <1>1 DEF SentInv
  <1> QED
    BY <1>2, SentBoth

StageAt(e) ==
    /\ stream_receiver[e] = "terminated" => stream_cmds[e] = <<>>
    /\ control_receiver[e] = "closed" => stream_receiver[e] = "terminated"
    /\ ~Running(e) =>
          /\ stream_receiver[e] = "terminated"
          /\ streams[e] = {} /\ streams_stat[e] = Empty /\ pending_streams[e] = <<>>
          /\ task[e].cause = "eof" => ~Running(Other(e))

\* Nothing changes at an end that has stopped.
LEMMA StageBoth ==
    ASSUME StageInv, NEW e \in Ends, StageAt(e)', Running(e)' => Running(e), task'[Other(e)] = task[Other(e)],
           stream_receiver'[Other(e)] = stream_receiver[Other(e)], stream_cmds'[Other(e)] = stream_cmds[Other(e)],
           control_receiver'[Other(e)] = control_receiver[Other(e)], streams'[Other(e)] = streams[Other(e)],
           streams_stat'[Other(e)] = streams_stat[Other(e)], pending_streams'[Other(e)] = pending_streams[Other(e)]
    PROVE  StageInv'
  <1> DEFINE o == Other(e)
  <1>1. o \in Ends /\ Other(o) = e /\ \A x \in Ends : x = e \/ x = o
    BY TheOther
  <1>2. StageAt(o)
    BY <1>1 DEF StageInv, StageAt
  <1>3. StageAt(o)'
    BY <1>1, <1>2 DEF StageAt, Running
  <1>4. \A x \in Ends : StageAt(x)'
    BY <1>1, <1>3
  <1> QED
    BY <1>4 DEF StageInv, StageAt

\* A task that runs sends no command after its receiver has ended.
LEMMA StageRuns ==
    ASSUME StageInv, NEW e \in Ends, Running(e)', task'[Other(e)] = task[Other(e)], Running(e),
           UNCHANGED <<stream_receiver, control_receiver>>,
           stream_receiver[e] = "terminated" => stream_cmds'[e] = <<>>,
           stream_cmds'[Other(e)] = stream_cmds[Other(e)],
           streams'[Other(e)] = streams[Other(e)], streams_stat'[Other(e)] = streams_stat[Other(e)],
           pending_streams'[Other(e)] = pending_streams[Other(e)]
    PROVE  StageInv'
  <1>1. StageAt(e)'
    BY DEF StageInv, StageAt, Running
  <1> QED
    BY <1>1, StageBoth
-----------------------------------------------------------------------------
(* Every step preserves the core of the invariant. *)

\* The steps that touch neither streams nor frames.
Quiet(e) == OnNoStreamCommand(e) \/ OnCloseConnection(e) \/ Delivered(e) \/ Break \/ \E r \in Requests : Call(r)

LEMMA QuietEffect ==
    ASSUME TypeInv, NEW e \in Ends, Quiet(e)
    PROVE  /\ UNCHANGED <<wire, tableVars, acceptVars, data, handle, historyVars, stream_cmds>>
           /\ KnownSame
           /\ \A x \in Ends : /\ Out(x)' = Out(x) /\ Running(x)' = Running(x)
                              /\ task'[x] = task[x] \/ (Running(x) /\ task'[x] = Select)
                              /\ ~Running(x) => task'[x] = task[x] /\ stream_receiver'[x] = stream_receiver[x]
                              /\ CASE stream_receiver[x] = "closed" -> stream_receiver'[x] \in {"closed", "terminated"}
                                   [] stream_receiver[x] = "terminated" -> stream_receiver'[x] \in {"closed", "terminated"}
                                   [] OTHER -> TRUE
  <1>0. SocketInv /\ ChannelInv
    BY TypeParts
  <1>1. UNCHANGED <<wire, tableVars, acceptVars, data, handle, historyVars, stream_cmds>>
    BY DEF Quiet, OnNoStreamCommand, OnCloseConnection, Delivered, Break, Call, socketVars, chanVars
  <1>2. KnownSame
    BY <1>1 DEF KnownSame, Known
  <1>3. ASSUME NEW x \in Ends
        PROVE  /\ Out(x)' = Out(x) /\ Running(x)' = Running(x)
               /\ task'[x] = task[x] \/ (Running(x) /\ task'[x] = Select)
               /\ ~Running(x) => task'[x] = task[x] /\ stream_receiver'[x] = stream_receiver[x]
               /\ CASE stream_receiver[x] = "closed" -> stream_receiver'[x] \in {"closed", "terminated"}
                    [] stream_receiver[x] = "terminated" -> stream_receiver'[x] \in {"closed", "terminated"}
                    [] OTHER -> TRUE
    <2>1. CASE Delivered(e)
      <3>1. stream_receiver' = stream_receiver /\ task[e].at = "deliver" /\ task' = [task EXCEPT ![e] = Select]
        BY <2>1 DEF Delivered, chanVars
      <3>2. CASE x = e
        <4>1. task'[x] = Select
          BY <1>0, <3>1, <3>2 DEF SocketInv
        <4> QED
          BY <1>0, <1>1, <3>1, <3>2, <4>1 DEF Out, Running, Select, ChannelInv
      <3>3. CASE x # e
        <4>1. task'[x] = task[x]
          BY <1>0, <3>1, <3>3 DEF SocketInv
        <4> QED
          BY <1>0, <1>1, <3>1, <4>1 DEF Out, Running, ChannelInv
      <3> QED
        BY <3>2, <3>3
    <2>2. CASE OnNoStreamCommand(e) \/ OnCloseConnection(e)
      <3>1. task' = task /\ task[e] = Select /\ \A y \in Ends : y # e => stream_receiver'[y] = stream_receiver[y]
        BY <1>0, <2>2 DEF OnNoStreamCommand, OnCloseConnection, TakeControlCmd, Selecting, ChannelInv
      <3>2. Running(e)
        BY <3>1 DEF Running, Select
      <3>3. stream_receiver'[e] = stream_receiver[e] \/ stream_receiver'[e] \in {"closed", "terminated"}
        BY <1>0, <2>2 DEF OnNoStreamCommand, OnCloseConnection, ChannelInv
      <3>4. Out(x)' = Out(x) /\ Running(x)' = Running(x) /\ task'[x] = task[x]
        BY <1>1, <3>1 DEF Out, Running
      <3> QED
        BY <1>0, <3>1, <3>2, <3>3, <3>4 DEF ChannelInv
    <2>3. CASE Break \/ \E r \in Requests : Call(r)
      <3>1. task' = task /\ stream_receiver' = stream_receiver
        BY <2>3 DEF Break, Call, chanVars
      <3> QED
        BY <1>0, <1>1, <3>1 DEF Out, Running, ChannelInv
    <2> QED
      BY <2>1, <2>2, <2>3 DEF Quiet
  <1> QED
    BY <1>1, <1>2, <1>3

LEMMA CoreQuiet ==
    ASSUME MplexInv, NEW e \in Ends, Quiet(e)
    PROVE  MplexInv'
  <1>0. /\ TypeInv /\ FramesInv /\ OpenInv /\ AcceptInv /\ AcceptOrder /\ HandInv /\ PendingInv /\ CommandInv
        /\ StageInv /\ SentInv /\ DeliverInv
    BY DEF MplexInv
  <1>1. /\ UNCHANGED <<wire, tableVars, acceptVars, data, handle, historyVars, stream_cmds>> /\ KnownSame
        /\ \A x \in Ends : /\ Out(x)' = Out(x) /\ Running(x)' = Running(x)
                           /\ task'[x] = task[x] \/ (Running(x) /\ task'[x] = Select)
                           /\ ~Running(x) => task'[x] = task[x] /\ stream_receiver'[x] = stream_receiver[x]
    BY <1>0, QuietEffect
  <1>2. TypeInv'
    BY <1>0, TypeQuiet, TypeCall DEF Quiet
  <1>3. FramesInv' /\ OpenInv'
    BY <1>0, <1>1, NetSame DEF tableVars
  <1>4. AcceptInv' /\ AcceptOrder'
    BY <1>0, <1>1, AcceptSame
  <1>5. HandInv'
    <2>1. ASSUME NEW x \in Ends, task'[x].at = "write" PROVE task'[x] = task[x]
      BY <1>1, <2>1 DEF Select
    <2> QED
      BY <1>0, <1>1, <2>1 DEF HandInv, KnownSame
  <1>6. PendingInv'
    BY <1>0, <1>1 DEF PendingInv, KnownSame, acceptVars
  <1>7. CommandInv'
    BY <1>0, <1>1 DEF CommandInv
  <1>8. StageInv'
    <2>1. ASSUME NEW x \in Ends
          PROVE  /\ stream_receiver'[x] = "terminated" => stream_cmds'[x] = <<>>
                 /\ control_receiver'[x] = "closed" => stream_receiver'[x] = "terminated"
      <3>1. /\ stream_receiver[x] = "terminated" => stream_cmds[x] = <<>>
            /\ control_receiver[x] = "closed" => stream_receiver[x] = "terminated"
        BY <1>0 DEF StageInv
      <3>2. ChannelInv
        BY <1>0, TypeParts
      <3>3. CASE OnNoStreamCommand(e)
        BY <3>1, <3>2, <3>3 DEF OnNoStreamCommand, ChannelInv
      <3>4. CASE OnCloseConnection(e)
        BY <3>1, <3>2, <3>4 DEF OnCloseConnection, ChannelInv
      <3>5. CASE Delivered(e) \/ Break \/ \E r \in Requests : Call(r)
        BY <3>1, <3>5 DEF Delivered, Break, Call, chanVars
      <3> QED
        BY <3>3, <3>4, <3>5 DEF Quiet
    <2>2. ASSUME NEW x \in Ends, ~Running(x)'
          PROVE  /\ stream_receiver'[x] = "terminated" /\ streams'[x] = {} /\ streams_stat'[x] = Empty
                 /\ pending_streams'[x] = <<>>
                 /\ task'[x].cause = "eof" => ~Running(Other(x))'
      <3>1. ~Running(x) /\ Other(x) \in Ends
        BY <1>1, <2>2, TheOther
      <3>2. Running(Other(x))' = Running(Other(x)) /\ task'[x] = task[x] /\ stream_receiver'[x] = stream_receiver[x]
        BY <1>1, <3>1
      <3> QED
        BY <1>0, <1>1, <3>1, <3>2 DEF StageInv, tableVars, acceptVars
    <2> QED
      BY <2>1, <2>2 DEF StageInv
  <1>9. SentInv'
    <2>1. \A x \in Ends : \A tag, sid : Sent(x, tag, sid)' = Sent(x, tag, sid)
      BY <1>1 DEF Sent
    <2> QED
      BY <1>0, <1>1, <2>1 DEF SentInv, Writable, NotReset, tableVars, historyVars
  <1>10. DeliverInv'
    BY <1>0, <1>1 DEF DeliverInv, KnownSame, Select
  <1> QED
    BY <1>2, <1>3, <1>4, <1>5, <1>6, <1>7, <1>8, <1>9, <1>10 DEF MplexInv

LEMMA UseQuiet ==
    ASSUME TypeInv, NEW e \in Ends, NEW sid, Use(e, sid)
    PROVE  \A x \in Ends : Out(x)' = Out(x) /\ Running(x)' = Running(x)
  <1>1. UNCHANGED <<socketVars, task>>
    BY UseEffect
  <1> QED
    BY <1>1 DEF Out, Running, socketVars

\* The commands and the handle of the Stream that is used.
LEMMA UseCommand ==
    ASSUME TypeInv, CommandInv, NEW e \in Ends, NEW sid, Use(e, sid)
    PROVE  /\ stream_cmds'[Other(e)] = stream_cmds[Other(e)]
           /\ \/ stream_cmds'[e] = stream_cmds[e]
              \/ /\ handle[e][sid] = "open" /\ stream_receiver[e] = "open"
                 /\ \E c \in Commands : c.sid = sid /\ stream_cmds'[e] = Append(stream_cmds[e], c)
           /\ \A s \in DOMAIN handle[e] : s # sid => handle'[e][s] = handle[e][s]
           /\ handle[e][sid] \in {"open", "closed"}
           /\ CommandsOK(e, stream_cmds'[e], handle'[e])
  <1>0. ChannelInv /\ TablesInv /\ DomInv /\ Other(e) # e /\ Other(e) \in Ends
    BY TypeParts, TheOther
  <1>1. sid \in DOMAIN handle[e] /\ sid \in DOMAIN data[e] /\ sid \in StreamID /\ DOMAIN handle'[e] = DOMAIN handle[e]
    BY UseEffect
  <1>2. \A s \in DOMAIN handle[e] : s # sid => handle'[e][s] = handle[e][s]
    BY <1>0 DEF DomInv, Use, Write, Close, Reset, Read, Drop, StreamCommand
  <1>3. CommandsOK(e, stream_cmds[e], handle[e]) /\ stream_cmds[e] \in Seq(Commands)
    BY <1>0 DEF CommandInv, ChannelInv
  <1>4. CASE Write(e, sid)
    <2> DEFINE b == [from |-> e, sid |-> sid, n |-> written[e][sid] + 1]
               c == [type |-> "SendFrame", sid |-> sid, body |-> b]
    <2>1. written[e][sid] \in Nat
      BY <1>0, <1>1, BoundsAssumption DEF TablesInv, Tables
    <2>2. c \in Commands /\ c.sid = sid /\ c.type = "SendFrame" /\ BodyOK(c.body, e, sid)
      BY <1>1, <2>1 DEF Commands, Bodies, BodyOK
    <2>3. /\ handle[e][sid] = "open" /\ stream_receiver[e] = "open" /\ handle' = handle
          /\ stream_cmds' = [stream_cmds EXCEPT ![e] = Append(@, c)]
      BY <1>4 DEF Write, StreamCommand
    <2> HIDE DEF c
    <2>4. stream_cmds'[e] = Append(stream_cmds[e], c) /\ stream_cmds'[Other(e)] = stream_cmds[Other(e)]
      BY <1>0, <2>3 DEF ChannelInv
    <2>5. CommandsOK(e, Append(stream_cmds[e], c), handle[e])
      BY <1>1, <1>3, <2>2, <2>3, CommandsAppend
    <2> QED
      BY <1>2, <2>2, <2>3, <2>4, <2>5
  <1>5. CASE Close(e, sid) \/ Reset(e, sid)
    <2>1. PICK c \in Commands :
             /\ c.sid = sid /\ stream_cmds' = [stream_cmds EXCEPT ![e] = Append(@, c)]
             /\ \/ c.type = "CloseStream" /\ handle' = [handle EXCEPT ![e][sid] = "closed"]
                \/ c.type = "ResetStream" /\ handle' = [handle EXCEPT ![e][sid] = "resetting"]
      <3>1. /\ [type |-> "CloseStream", sid |-> sid, body |-> NoBody] \in Commands
            /\ [type |-> "ResetStream", sid |-> sid, body |-> NoBody] \in Commands
        BY <1>1, HandTypes DEF Commands
      <3>2. CASE Close(e, sid)
        BY <3>1, <3>2 DEF Close, StreamCommand
      <3>3. CASE Reset(e, sid)
        BY <3>1, <3>3 DEF Reset, StreamCommand
      <3> QED
        BY <1>5, <3>2, <3>3
    <2>2. handle[e][sid] = "open" /\ stream_receiver[e] = "open"
      BY <1>5 DEF Close, Reset, StreamCommand
    <2>3. stream_cmds'[e] = Append(stream_cmds[e], c) /\ stream_cmds'[Other(e)] = stream_cmds[Other(e)]
      BY <1>0, <2>1 DEF ChannelInv
    <2>4. /\ c.type = "CloseStream" => handle'[e][sid] = "closed"
          /\ c.type = "ResetStream" => handle'[e][sid] = "resetting"
          /\ c.type # "SendFrame"
      BY <1>0, <1>1, <2>1 DEF DomInv
    <2>5. CommandsOK(e, Append(stream_cmds[e], c), handle'[e])
      BY <1>1, <1>2, <1>3, <2>1, <2>2, <2>4, CommandsAppend
    <2> QED
      BY <1>2, <2>1, <2>2, <2>3, <2>5
  <1>6. CASE Read(e, sid)
    <2>1. stream_cmds' = stream_cmds /\ handle' = handle /\ handle[e][sid] \in {"open", "closed"}
      BY <1>6 DEF Read, chanVars
    <2> QED
      BY <1>2, <1>3, <2>1
  <1>7. CASE Drop(e, sid)
    <2>1. stream_cmds' = stream_cmds /\ handle' = [handle EXCEPT ![e][sid] = "dropped"] /\ handle[e][sid] \in {"open", "closed"}
      BY <1>7 DEF Drop, chanVars
    <2>2. handle'[e][sid] = "dropped"
      BY <1>0, <1>1, <2>1 DEF DomInv
    <2>3. CommandsOK(e, stream_cmds[e], handle'[e])
      BY <1>1, <1>2, <1>3, <2>1, <2>2 DEF CommandsOK
    <2> QED
      BY <1>2, <2>1, <2>3
  <1> QED
    BY <1>4, <1>5, <1>6, <1>7 DEF Use

LEMMA CoreUse ==
    ASSUME MplexInv, NEW e \in Ends, NEW sid, Use(e, sid)
    PROVE  MplexInv'
  <1>0. /\ TypeInv /\ FramesInv /\ OpenInv /\ AcceptInv /\ AcceptOrder /\ HandInv /\ PendingInv /\ CommandInv
        /\ StageInv /\ SentInv /\ DeliverInv /\ Other(e) \in Ends
    BY TheOther DEF MplexInv
  <1>1. /\ sid \in DOMAIN handle[e]
        /\ UNCHANGED <<socketVars, task, tableVars, stream_receiver, control_cmds, control_receiver, shutdown,
                       acceptVars, reply, was_reset>>
        /\ handle'[Other(e)] = handle[Other(e)] /\ DOMAIN handle'[e] = DOMAIN handle[e] /\ KnownSame
    BY <1>0, UseEffect
  <1>2. /\ stream_cmds'[Other(e)] = stream_cmds[Other(e)]
        /\ \/ stream_cmds'[e] = stream_cmds[e]
           \/ /\ handle[e][sid] = "open" /\ stream_receiver[e] = "open"
              /\ \E c \in Commands : c.sid = sid /\ stream_cmds'[e] = Append(stream_cmds[e], c)
        /\ \A s \in DOMAIN handle[e] : s # sid => handle'[e][s] = handle[e][s]
        /\ handle[e][sid] \in {"open", "closed"}
        /\ CommandsOK(e, stream_cmds'[e], handle'[e])
    BY <1>0, UseCommand
  <1>3. \A x \in Ends : Out(x)' = Out(x) /\ Running(x)' = Running(x)
    BY <1>0, UseQuiet
  <1>4. TypeInv'
    BY <1>0, TypeUse
  <1>5. FramesInv' /\ OpenInv'
    BY <1>0, <1>1, <1>3, NetSame DEF tableVars
  <1>6. AcceptInv' /\ AcceptOrder'
    BY <1>0, <1>1, <1>3, AcceptSame
  <1>7. CommandInv'
    BY <1>0, <1>1, <1>2, CommandBoth
  <1>8. PendingInv'
    BY <1>0, <1>1, TheOther DEF PendingInv, KnownSame, acceptVars
  <1>9. HandInv'
    <2>1. ASSUME task[e].at = "write"
          PROVE  HandOK(task[e].hand, Known(e), handle'[e], stream_cmds'[e])
      <3> DEFINE h == task[e].hand
      <3>1. HandOK(h, Known(e), handle[e], stream_cmds[e]) /\ stream_cmds[e] \in Seq(Commands)
        BY <1>0, <2>1, TypeParts DEF HandInv, ChannelInv
      <3> HIDE DEF h
      <3>2. ASSUME h.status = "closed" PROVE h.sid # sid
        BY <1>2, <3>1, <3>2 DEF HandOK
      <3>3. ASSUME h.status = "closed", NEW i \in DOMAIN stream_cmds'[e] PROVE stream_cmds'[e][i].sid # h.sid
        <4>1. CASE stream_cmds'[e] = stream_cmds[e]
          BY <3>1, <3>3, <4>1 DEF HandOK
        <4>2. ASSUME NEW c \in Commands, c.sid = sid, stream_cmds'[e] = Append(stream_cmds[e], c)
              PROVE  stream_cmds'[e][i].sid # h.sid
          <5>1. stream_cmds'[e][i] = c \/ (i \in DOMAIN stream_cmds[e] /\ stream_cmds'[e][i] = stream_cmds[e][i])
            BY <3>1, <4>2
          <5> QED
            BY <3>1, <3>2, <3>3, <4>2, <5>1 DEF HandOK
        <4> QED
          BY <1>2, <4>1, <4>2
      <3>4. HandOK(h, Known(e), handle'[e], stream_cmds'[e])
        BY <1>1, <1>2, <3>1, <3>2, <3>3 DEF HandOK
      <3> QED
        BY <3>4 DEF h
    <2>2. Known(e)' = Known(e) /\ Known(Other(e))' = Known(Other(e))
      BY <1>0, <1>1 DEF KnownSame
    <2> QED
      BY <1>0, <1>1, <1>2, <2>1, <2>2, HandBoth
  <1>10. StageInv'
    <2>1. StageAt(e)'
      BY <1>0, <1>1, <1>2, <1>3 DEF StageInv, StageAt, tableVars, acceptVars
    <2> QED
      BY <1>0, <1>1, <1>2, <1>3, <2>1, StageBoth DEF tableVars, acceptVars
  <1>11. SentInv'
    <2>1. \A x \in Ends : \A tag, s : Sent(x, tag, s)' = Sent(x, tag, s)
      BY <1>3 DEF Sent
    <2> QED
      BY <1>0, <1>1, <2>1 DEF SentInv, Writable, NotReset, tableVars
  <1>12. DeliverInv'
    BY <1>0, <1>1 DEF DeliverInv, KnownSame
  <1> QED
    BY <1>4, <1>5, <1>6, <1>7, <1>8, <1>9, <1>10, <1>11, <1>12 DEF MplexInv

\* The steps that read a frame of a stream that exists, or did.
Reads(e) == OnMessageIgnored(e) \/ OnMessage(e) \/ OnClose(e) \/ OnReset(e)

LEMMA ReadsEffect ==
    ASSUME TypeInv, NEW e \in Ends, Reads(e)
    PROVE  /\ Out(e)' = Out(e) /\ Out(Other(e)) # <<>> /\ Out(Other(e))' = Tail(Out(Other(e)))
           /\ Running(e) /\ Running(e)' /\ Running(Other(e))' = Running(Other(e))
           /\ Head(Out(Other(e))) \in Frames /\ Head(Out(Other(e))) = Head(wire[Other(e)])
           /\ SidOf(Head(Out(Other(e)))) = Flip(Received(e)) /\ Received(e) \in StreamID
           /\ TagOf(Head(Out(Other(e)))) = "Message" <=> OnMessageIgnored(e) \/ OnMessage(e)
           /\ TagOf(Head(Out(Other(e)))) = "Close" <=> OnClose(e)
           /\ TagOf(Head(Out(Other(e)))) = "Reset" <=> OnReset(e)
           /\ TagOf(Head(Out(Other(e)))) # "NewStream"
           /\ task'[e].at \in {"select", "deliver"} /\ task'[Other(e)] = task[Other(e)]
           /\ UNCHANGED <<broken, next_stream_id, chanVars, shutdown, acceptVars, handle, reply, historyVars>>
           /\ streams'[Other(e)] = streams[Other(e)] /\ streams_stat'[Other(e)] = streams_stat[Other(e)]
           /\ data'[Other(e)] = data[Other(e)]
           /\ KnownSame
  <1> DEFINE o == Other(e)
             sid == Received(e)
  <1>0. SocketInv /\ DomInv /\ IdInv /\ o # e /\ o \in Ends
    BY TypeParts, TheOther
  <1>1. PICK tag \in {"Message", "Close", "Reset"} :
            /\ Receive(e, tag)
            /\ tag = "Message" <=> OnMessageIgnored(e) \/ OnMessage(e)
            /\ tag = "Close" <=> OnClose(e)
            /\ tag = "Reset" <=> OnReset(e)
    <2>1. /\ OnMessageIgnored(e) \/ OnMessage(e) => Receive(e, "Message")
          /\ OnClose(e) => Receive(e, "Close")
          /\ OnReset(e) => Receive(e, "Reset")
      BY DEF OnMessageIgnored, OnMessage, OnClose, OnReset
    <2>2. \A s, t : Receive(e, s) /\ Receive(e, t) => s = t
      BY DEF Receive
    <2> QED
      BY <2>1, <2>2 DEF Reads
  <1>2. UNCHANGED <<broken, next_stream_id, chanVars, shutdown, acceptVars, handle, reply, historyVars>>
    BY DEF Reads, OnMessageIgnored, OnMessage, OnClose, OnReset, tableVars
  <1>3. task[e] = Select
    BY <1>1 DEF Receive, Selecting
  <1>4. task'[e].at \in {"select", "deliver"} /\ task'[o] = task[o]
    <2>1. task' = task \/ task' = [task EXCEPT ![e] = [at |-> "deliver", sid |-> sid]]
      BY DEF Reads, OnMessageIgnored, OnMessage, OnClose, OnReset
    <2>2. CASE task' = task
      BY <1>3, <2>2 DEF Select
    <2>3. CASE task' = [task EXCEPT ![e] = [at |-> "deliver", sid |-> sid]]
      BY <1>0, <2>3 DEF SocketInv
    <2> QED
      BY <2>1, <2>2, <2>3
  <1>5. streams'[o] = streams[o] /\ streams_stat'[o] = streams_stat[o]
    <2>1. CASE OnMessageIgnored(e)
      BY <1>0, <2>1 DEF OnMessageIgnored, IdInv
    <2>2. CASE OnMessage(e)
      BY <2>2 DEF OnMessage, tableVars
    <2>3. CASE OnClose(e)
      BY <1>0, <2>3 DEF OnClose, IdInv, DomInv
    <2>4. CASE OnReset(e)
      BY <1>0, <2>4 DEF OnReset, RemoveStream, IdInv, DomInv
    <2> QED
      BY <2>1, <2>2, <2>3, <2>4 DEF Reads
  <1>6. data'[o] = data[o] /\ DOMAIN data'[e] = DOMAIN data[e]
    BY <1>0 DEF DomInv, Reads, OnMessageIgnored, OnMessage, OnClose, OnReset
  <1>7. KnownSame
    BY <1>6, TheOther DEF KnownSame, Known
  <1>8. /\ Out(e)' = Out(e) /\ Out(o) # <<>> /\ Out(o)' = Tail(Out(o))
        /\ Running(e) /\ Running(e)' /\ Running(o)' = Running(o)
        /\ Head(Out(o)) \in Frames /\ Head(Out(o)) = Head(wire[o]) /\ TagOf(Head(Out(o))) = tag
        /\ SidOf(Head(Out(o))) = Flip(sid) /\ sid \in StreamID
    BY <1>1, <1>4, ReceiveEffect
  <1> HIDE DEF o, sid
  <1>9. /\ TagOf(Head(Out(o))) = "Message" <=> OnMessageIgnored(e) \/ OnMessage(e)
        /\ TagOf(Head(Out(o))) = "Close" <=> OnClose(e)
        /\ TagOf(Head(Out(o))) = "Reset" <=> OnReset(e)
        /\ TagOf(Head(Out(o))) # "NewStream"
    BY <1>1, <1>8
  <1> QED
    BY <1>2, <1>4, <1>5, <1>6, <1>7, <1>8, <1>9 DEF o, sid

\* What reading a frame does to the state of the streams.
LEMMA ReadsStat ==
    ASSUME TypeInv, NEW e \in Ends, Reads(e)
    PROVE  /\ ~OnClose(e) /\ ~OnReset(e) => streams_stat'[e] = streams_stat[e]
           /\ OnClose(e) => streams_stat'[e] =
                 (IF Received(e) \notin DOMAIN streams_stat[e] THEN streams_stat[e]
                  ELSE IF streams_stat[e][Received(e)] = "SendClosed" THEN Remove(streams_stat[e], Received(e))
                  ELSE [streams_stat[e] EXCEPT ![Received(e)] = "RecvClosed"])
           /\ OnReset(e) => streams_stat'[e] = Remove(streams_stat[e], Received(e))
           /\ OnClose(e) \/ OnReset(e) => streams'[e] = streams[e] \ {Received(e)} /\ data' = data
           /\ \A s \in DOMAIN streams_stat'[e] : s \in DOMAIN streams_stat[e]
           /\ \A s : Writable(e, s)' => Writable(e, s)
  <1> DEFINE sid == Received(e)
  <1>0. DomInv /\ IdInv
    BY TypeParts
  <1>1. ~OnClose(e) /\ ~OnReset(e) => streams_stat'[e] = streams_stat[e]
    BY DEF Reads, OnMessageIgnored, OnMessage, tableVars
  <1>2. OnClose(e) => /\ streams_stat'[e] =
                          (IF sid \notin DOMAIN streams_stat[e] THEN streams_stat[e]
                           ELSE IF streams_stat[e][sid] = "SendClosed" THEN Remove(streams_stat[e], sid)
                           ELSE [streams_stat[e] EXCEPT ![sid] = "RecvClosed"])
                      /\ streams'[e] = streams[e] \ {sid} /\ data' = data
    BY <1>0 DEF OnClose, DomInv, IdInv
  <1>3. OnReset(e) => streams_stat'[e] = Remove(streams_stat[e], sid) /\ streams'[e] = streams[e] \ {sid} /\ data' = data
    BY <1>0 DEF OnReset, RemoveStream, DomInv, IdInv
  <1> HIDE DEF sid
  <1>4. /\ \A s \in DOMAIN streams_stat'[e] : s \in DOMAIN streams_stat[e]
        /\ \A s : Writable(e, s)' => Writable(e, s)
    <2>1. CASE ~OnClose(e) /\ ~OnReset(e)
      BY <1>1, <2>1 DEF Writable
    <2>2. CASE OnReset(e)
      BY <1>3, <2>2 DEF Writable, Remove
    <2>3. CASE OnClose(e)
      <3>1. CASE streams_stat'[e] = streams_stat[e]
        BY <3>1 DEF Writable
      <3>2. CASE streams_stat'[e] = Remove(streams_stat[e], sid)
        BY <3>2 DEF Writable, Remove
      <3>3. CASE streams_stat'[e] = [streams_stat[e] EXCEPT ![sid] = "RecvClosed"] /\ sid \in DOMAIN streams_stat[e]
                 /\ streams_stat[e][sid] # "SendClosed"
        BY <3>3 DEF Writable, can_write
      <3> QED
        BY <1>2, <2>3, <3>1, <3>2, <3>3
    <2> QED
      BY <2>1, <2>2, <2>3
  <1> QED
    BY <1>1, <1>2, <1>3, <1>4 DEF sid

LEMMA CoreReads ==
    ASSUME MplexInv, NEW e \in Ends, Reads(e)
    PROVE  MplexInv'
  <1>0. /\ TypeInv /\ FramesInv /\ OpenInv /\ AcceptInv /\ AcceptOrder /\ HandInv /\ PendingInv /\ CommandInv
        /\ StageInv /\ SentInv /\ DeliverInv /\ Other(e) \in Ends
    BY TheOther DEF MplexInv
  <1>1. /\ Out(e)' = Out(e) /\ Out(Other(e)) # <<>> /\ Out(Other(e))' = Tail(Out(Other(e)))
        /\ Running(e) /\ Running(e)' /\ Running(Other(e))' = Running(Other(e))
        /\ TagOf(Head(Out(Other(e)))) # "NewStream"
        /\ task'[e].at \in {"select", "deliver"} /\ task'[Other(e)] = task[Other(e)]
        /\ UNCHANGED <<broken, next_stream_id, chanVars, shutdown, acceptVars, handle, reply, historyVars>>
        /\ streams'[Other(e)] = streams[Other(e)] /\ streams_stat'[Other(e)] = streams_stat[Other(e)]
        /\ KnownSame
    BY <1>0, ReadsEffect
  <1>2. TypeInv'
    BY <1>0, TypeMessage, TypeClose DEF Reads
  <1>3. FramesInv' /\ OpenInv'
    <2>1. Running(e)' = Running(e)
      BY <1>1 DEF Running
    <2> QED
      BY <1>0, <1>1, <2>1, NetRead
  <1>4. AcceptInv' /\ AcceptOrder'
    BY <1>0, <1>1, TheOther, AcceptSame
  <1>5. HandInv'
    BY <1>0, <1>1, HandBoth DEF KnownSame, chanVars
  <1>6. PendingInv'
    BY <1>0, <1>1 DEF PendingInv, KnownSame, acceptVars
  <1>7. CommandInv'
    BY <1>0, <1>1 DEF CommandInv, chanVars
  <1>8. StageInv'
    BY <1>0, <1>1, StageRuns DEF StageInv, chanVars, acceptVars
  <1>9. SentInv'
    <2>1. \A tag, s : Sent(e, tag, s)' => Sent(e, tag, s)
      BY <1>1 DEF Sent
    <2>2. /\ \A s \in DOMAIN streams_stat'[e] : s \in DOMAIN streams_stat[e]
          /\ \A s : Writable(e, s)' => Writable(e, s)
      BY <1>0, ReadsStat
    <2>3. was_reset' = was_reset
      BY <1>1 DEF historyVars
    <2> QED
      BY <1>0, <1>1, <2>1, <2>2, <2>3, SentSame
  <1>10. DeliverInv'
    <2>1. CASE OnMessage(e)
      <3> DEFINE sid == Received(e)
      <3>1. sid \in Known(e)
        <4>1. sid \in DOMAIN streams_stat[e]
          BY <2>1 DEF OnMessage, Deliverable
        <4>2. TablesInv
          BY <1>0, TypeParts
        <4> QED
          BY <4>1, <4>2 DEF TablesInv, Tables, Known
      <3>2. task'[e] = task[e] \/ (task'[e].at = "deliver" /\ task'[e].sid = sid)
        <4>1. task' = task \/ task' = [task EXCEPT ![e] = [at |-> "deliver", sid |-> sid]]
          BY <2>1 DEF OnMessage
        <4>2. task \in [Ends -> TaskStates]
          BY <1>0, TypeParts DEF SocketInv
        <4> HIDE DEF sid
        <4>3. CASE task' = task
          BY <4>3
        <4>4. CASE task' = [task EXCEPT ![e] = [at |-> "deliver", sid |-> sid]]
          <5>1. task'[e] = [at |-> "deliver", sid |-> sid]
            BY <4>2, <4>4
          <5> QED
            BY <5>1
        <4> QED
          BY <4>1, <4>3, <4>4
      <3> HIDE DEF sid
      <3> QED
        BY <1>0, <1>1, <3>1, <3>2, DeliverKept DEF KnownSame
    <2>2. CASE OnMessageIgnored(e) \/ OnClose(e) \/ OnReset(e)
      <3>1. task' = task
        BY <2>2 DEF OnMessageIgnored, OnClose, OnReset
      <3> QED
        BY <1>0, <1>1, <3>1 DEF DeliverInv, KnownSame
    <2> QED
      BY <2>1, <2>2 DEF Reads
  <1> QED
    BY <1>2, <1>3, <1>4, <1>5, <1>6, <1>7, <1>8, <1>9, <1>10 DEF MplexInv

LEMMA OnNewStreamEffect ==
    ASSUME TypeInv, FramesInv, OpenInv, NEW e \in Ends, OnNewStream(e)
    PROVE  /\ Out(e)' = Out(e) /\ Out(Other(e)) # <<>> /\ Out(Other(e))' = Tail(Out(Other(e)))
           /\ Running(e) /\ Running(e)' /\ Running(Other(e))' = Running(Other(e))
           /\ Head(Out(Other(e))) \in Frames /\ TagOf(Head(Out(Other(e)))) = "NewStream"
           /\ SidOf(Head(Out(Other(e)))) = Flip(Received(e)) /\ Received(e) \in StreamID
           /\ task' = task /\ task[e] = Select /\ NewStream(e, Received(e))
           /\ UNCHANGED <<broken, task, next_stream_id, chanVars, shutdown, was_reset>>
           /\ Received(e) \notin Known(e) /\ Received(e) = [id |-> Received(e).id, initiator |-> FALSE]
           /\ {x \in Known(e) : ~x.initiator} = Numbered(Received(e).id, FALSE)
           /\ Known(e)' = Known(e) \cup {Received(e)} /\ Known(Other(e))' = Known(Other(e))
           /\ FramesInv' /\ OpenInv'
  <1> DEFINE o == Other(e)
             sid == Received(e)
  <1>1. /\ Receive(e, "NewStream") /\ task' = task /\ task[e] = Select /\ NewStream(e, sid)
        /\ UNCHANGED <<broken, task, next_stream_id, chanVars, shutdown, was_reset>>
    BY DEF OnNewStream, Receive, Selecting
  <1>2. task'[e].at = "select" /\ task'[o] = task[o]
    BY <1>1 DEF Select
  <1>3. /\ Out(e)' = Out(e) /\ Out(o) # <<>> /\ Out(o)' = Tail(Out(o))
        /\ Running(e) /\ Running(e)' /\ Running(o)' = Running(o)
        /\ Head(Out(o)) \in Frames /\ TagOf(Head(Out(o))) = "NewStream"
        /\ SidOf(Head(Out(o))) = Flip(sid) /\ sid \in StreamID /\ sid = Flip(SidOf(Head(Out(o))))
    BY <1>1, <1>2, ReceiveEffect
  <1>4. Known(e)' = Known(e) \cup {sid} /\ Known(o)' = Known(o)
    BY <1>1, <1>3, NewStreamEffect
  <1>5. Running(e)' = Running(e)
    BY <1>3 DEF Running
  <1> HIDE DEF sid
  <1>6. /\ FramesInv' /\ OpenInv' /\ sid \notin Known(e) /\ sid = [id |-> sid.id, initiator |-> FALSE]
        /\ {x \in Known(e) : ~x.initiator} = Numbered(sid.id, FALSE)
    BY <1>1, <1>3, <1>4, <1>5, NetNew
  <1> QED
    BY <1>1, <1>3, <1>4, <1>6 DEF sid

\* The next stream is queued, handed out at once, or handed out from the queue.
LEMMA OrderStep ==
    ASSUME NEW a \in Seq(StreamID), NEW p \in Seq(StreamID), NEW w, OrderOK(a, p, w),
           NEW sid \in StreamID, sid = [id |-> Len(a) + Len(p), initiator |-> FALSE]
    PROVE  /\ w # NoReq => OrderOK(Append(a, sid), p, NoReq)
           /\ w = NoReq => OrderOK(a, Append(p, sid), NoReq)
  <1>1. Len(a) \in Nat /\ Len(p) \in Nat /\ Append(a, sid) \in Seq(StreamID) /\ Append(p, sid) \in Seq(StreamID)
        /\ Len(Append(a, sid)) = Len(a) + 1 /\ Len(Append(p, sid)) = Len(p) + 1
    OBVIOUS
  <1>2. /\ Len(a \o p) = Len(a) + Len(p)
        /\ \A k \in 1 .. Len(a) + Len(p) : (a \o p)[k] = IF k <= Len(a) THEN a[k] ELSE p[k - Len(a)]
    BY ConcatProperties
  <1>3. \A k \in 1 .. Len(a) + Len(p) : (a \o p)[k] = [id |-> k - 1, initiator |-> FALSE]
    BY <1>2 DEF OrderOK
  <1>4. ASSUME w # NoReq PROVE OrderOK(Append(a, sid), p, NoReq)
    <2> DEFINE b == Append(a, sid)
    <2>1. p = <<>> /\ Len(p) = 0
      BY <1>4 DEF OrderOK
    <2>2. /\ Len(b \o p) = Len(a) + 1
          /\ \A k \in 1 .. Len(a) + 1 : (b \o p)[k] = b[k]
      BY <1>1, <2>1
    <2>3. \A k \in 1 .. Len(a) : b[k] = a[k] /\ (a \o p)[k] = a[k]
      BY <1>1, <1>2
    <2>4. \A k \in 1 .. Len(a) + 1 : b[k] = [id |-> k - 1, initiator |-> FALSE]
      <3> SUFFICES ASSUME NEW k \in 1 .. Len(a) + 1 PROVE b[k] = [id |-> k - 1, initiator |-> FALSE]
        OBVIOUS
      <3>1. CASE k = Len(a) + 1
        BY <1>1, <2>1, <3>1
      <3>2. CASE k \in 1 .. Len(a)
        BY <1>1, <1>3, <2>1, <2>3, <3>2
      <3> QED
        BY <1>1, <3>1, <3>2
    <2> QED
      BY <2>2, <2>4 DEF OrderOK
  <1>5. OrderOK(a, Append(p, sid), NoReq)
    <2> DEFINE b == Append(p, sid)
    <2>1. /\ Len(a \o b) = Len(a) + Len(b)
          /\ \A k \in 1 .. Len(a) + Len(b) : (a \o b)[k] = IF k <= Len(a) THEN a[k] ELSE b[k - Len(a)]
      BY <1>1, ConcatProperties
    <2>2. \A k \in 1 .. Len(p) : b[k] = p[k]
      BY <1>1
    <2>3. b[Len(p) + 1] = sid
      BY <1>1
    <2> HIDE DEF b
    <2>4. Len(b) = Len(p) + 1
      BY <1>1 DEF b
    <2>5. ASSUME NEW k \in 1 .. Len(a) + Len(b) PROVE (a \o b)[k] = [id |-> k - 1, initiator |-> FALSE]
      <3>1. CASE k = Len(a) + Len(b)
        <4>1. ~(k <= Len(a)) /\ k - Len(a) = Len(p) + 1 /\ k - 1 = Len(a) + Len(p)
          BY <1>1, <2>4, <3>1
        <4> QED
          BY <2>1, <2>3, <4>1
      <3>2. CASE k \in 1 .. Len(a) + Len(p)
        <4>1. ~(k <= Len(a)) => k - Len(a) \in 1 .. Len(p)
          BY <1>1, <3>2
        <4> QED
          BY <1>2, <1>3, <2>1, <2>2, <3>2, <4>1
      <3> QED
        BY <1>1, <2>4, <3>1, <3>2
    <2> QED
      BY <2>1, <2>5 DEF OrderOK, b
  <1> QED
    BY <1>4, <1>5

LEMMA OrderTake ==
    ASSUME NEW a \in Seq(StreamID), NEW p \in Seq(StreamID), OrderOK(a, p, NoReq), p # <<>>
    PROVE  OrderOK(Append(a, Head(p)), Tail(p), NoReq)
  <1>1. a \o p = Append(a, Head(p)) \o Tail(p)
    <2> DEFINE b == Append(a, Head(p))
               t == Tail(p)
    <2>1. /\ Len(a) \in Nat /\ Len(p) \in Nat \ {0} /\ Head(p) = p[1] /\ b \in Seq(StreamID) /\ t \in Seq(StreamID)
          /\ Len(b) = Len(a) + 1 /\ Len(t) = Len(p) - 1 /\ b[Len(a) + 1] = p[1]
          /\ \A k \in 1 .. Len(a) : b[k] = a[k]
          /\ \A k \in 1 .. Len(p) - 1 : t[k] = p[k + 1]
      OBVIOUS
    <2>2. /\ Len(a \o p) = Len(a) + Len(p) /\ a \o p \in Seq(StreamID)
          /\ \A k \in 1 .. Len(a) + Len(p) : (a \o p)[k] = IF k <= Len(a) THEN a[k] ELSE p[k - Len(a)]
      BY ConcatProperties
    <2>3. /\ Len(b \o t) = Len(b) + Len(t) /\ b \o t \in Seq(StreamID)
          /\ \A k \in 1 .. Len(b) + Len(t) : (b \o t)[k] = IF k <= Len(b) THEN b[k] ELSE t[k - Len(b)]
      BY <2>1, ConcatProperties
    <2> HIDE DEF b, t
    <2>4. ASSUME NEW k \in 1 .. Len(a) + Len(p) PROVE (a \o p)[k] = (b \o t)[k]
      <3>1. CASE k <= Len(a)
        BY <2>1, <2>2, <2>3, <3>1
      <3>2. CASE k = Len(a) + 1
        BY <2>1, <2>2, <2>3, <3>2
      <3>3. CASE k > Len(a) + 1
        <4>1. k - Len(b) \in 1 .. Len(p) - 1 /\ (k - Len(b)) + 1 = k - Len(a) /\ ~(k <= Len(a)) /\ ~(k <= Len(b))
          BY <2>1, <3>3
        <4> QED
          BY <2>1, <2>2, <2>3, <4>1
      <3> QED
        BY <2>1, <3>1, <3>2, <3>3
    <2>5. Len(a \o p) = Len(b \o t)
      BY <2>1, <2>2, <2>3
    <2> QED
      BY <2>2, <2>3, <2>4, <2>5, SeqEqual DEF b, t
  <1> QED
    BY <1>1 DEF OrderOK

\* Who holds the new stream: the caller that waits, or the queue.
LEMMA OnNewStreamHands ==
    ASSUME TypeInv, NEW e \in Ends, OnNewStream(e)
    PROVE  /\ handle'[Other(e)] = handle[Other(e)] /\ accepted'[Other(e)] = accepted[Other(e)]
           /\ pending_streams'[Other(e)] = pending_streams[Other(e)]
           /\ waiting_stream_sender'[Other(e)] = waiting_stream_sender[Other(e)]
           /\ \/ /\ waiting_stream_sender[e] # NoReq /\ waiting_stream_sender'[e] = NoReq
                 /\ handle'[e] = Insert(handle[e], Received(e), "open")
                 /\ accepted'[e] = Append(accepted[e], Received(e)) /\ pending_streams'[e] = pending_streams[e]
              \/ /\ waiting_stream_sender[e] = NoReq /\ waiting_stream_sender'[e] = NoReq
                 /\ handle'[e] = handle[e] /\ accepted'[e] = accepted[e]
                 /\ pending_streams'[e] = Append(pending_streams[e], Received(e))
  <1> DEFINE sid == Received(e)
             r == waiting_stream_sender[e]
             h == [req |-> r, sid |-> sid, status |-> "open"]
  <1>0. RequestInv /\ IdInv /\ DomInv /\ Other(e) # e /\ Other(e) \in Ends
    BY TypeParts, TheOther
  <1>1. sid \in StreamID
    <2>1. Receive(e, "NewStream") /\ task' = task /\ task[e].at = "select"
      BY DEF OnNewStream, Receive, Selecting, Select
    <2> QED
      BY <2>1, ReceiveEffect
  <1> HIDE DEF sid
  <1>2. CASE /\ r # NoReq
             /\ waiting_stream_sender' = [waiting_stream_sender EXCEPT ![e] = NoReq]
             /\ accepted' = [accepted EXCEPT ![e] = Append(@, sid)]
             /\ Finish(e, h)
             /\ UNCHANGED pending_streams
    <2>1. h \in Hands /\ h.status = "open" /\ h.sid = sid
      BY <1>0, <1>1 DEF Hands, RequestInv
    <2>2. handle'[Other(e)] = handle[Other(e)] /\ handle'[e] = Insert(handle[e], sid, "open")
      BY <1>2, <2>1, FinishEffect
    <2> QED
      BY <1>0, <1>2, <2>2 DEF RequestInv, IdInv, sid
  <1>3. CASE /\ r = NoReq
             /\ pending_streams' = [pending_streams EXCEPT ![e] = Append(@, sid)]
             /\ UNCHANGED <<waiting_stream_sender, accepted, handle, reply>>
    BY <1>0, <1>3 DEF RequestInv, IdInv, sid
  <1> QED
    BY <1>2, <1>3 DEF OnNewStream, sid

LEMMA CoreNewStream ==
    ASSUME MplexInv, NEW e \in Ends, OnNewStream(e)
    PROVE  MplexInv'
  <1> DEFINE sid == Received(e)
  <1>0. /\ TypeInv /\ FramesInv /\ OpenInv /\ AcceptInv /\ AcceptOrder /\ HandInv /\ PendingInv /\ CommandInv
        /\ StageInv /\ SentInv /\ DeliverInv /\ Other(e) \in Ends /\ Other(e) # e /\ IdInv /\ TablesInv /\ ChannelInv
    BY TheOther, TypeParts DEF MplexInv
  <1>1. /\ Out(e)' = Out(e) /\ Out(Other(e)) # <<>> /\ Out(Other(e))' = Tail(Out(Other(e)))
        /\ Running(e) /\ Running(e)' /\ Running(Other(e))' = Running(Other(e))
        /\ sid \in StreamID /\ task' = task /\ task[e] = Select /\ NewStream(e, sid)
        /\ UNCHANGED <<broken, task, next_stream_id, chanVars, shutdown, was_reset>>
        /\ sid \notin Known(e) /\ sid = [id |-> sid.id, initiator |-> FALSE]
        /\ {x \in Known(e) : ~x.initiator} = Numbered(sid.id, FALSE)
        /\ Known(e)' = Known(e) \cup {sid} /\ Known(Other(e))' = Known(Other(e))
        /\ FramesInv' /\ OpenInv'
    BY <1>0, OnNewStreamEffect
  <1>2. /\ handle'[Other(e)] = handle[Other(e)] /\ accepted'[Other(e)] = accepted[Other(e)]
        /\ pending_streams'[Other(e)] = pending_streams[Other(e)]
        /\ waiting_stream_sender'[Other(e)] = waiting_stream_sender[Other(e)]
        /\ \/ /\ waiting_stream_sender[e] # NoReq /\ waiting_stream_sender'[e] = NoReq
              /\ handle'[e] = Insert(handle[e], sid, "open")
              /\ accepted'[e] = Append(accepted[e], sid) /\ pending_streams'[e] = pending_streams[e]
           \/ /\ waiting_stream_sender[e] = NoReq /\ waiting_stream_sender'[e] = NoReq
              /\ handle'[e] = handle[e] /\ accepted'[e] = accepted[e]
              /\ pending_streams'[e] = Append(pending_streams[e], sid)
    BY <1>0, OnNewStreamHands
  <1>3. /\ streams_stat'[e] = Insert(streams_stat[e], sid, "Open") /\ streams_stat'[Other(e)] = streams_stat[Other(e)]
        /\ streams'[Other(e)] = streams[Other(e)]
    BY <1>0, <1>1, NewStreamEffect
  <1>4. TypeInv'
    BY <1>0, TypeNewStream
  <1> HIDE DEF sid
  <1> DEFINE a == accepted[e]
             p == pending_streams[e]
  <1>5a. a \in Seq(StreamID) /\ p \in Seq(StreamID) /\ sid \in StreamID
    BY <1>0, <1>1 DEF IdInv
  <1> HIDE DEF a, p
  <1>5b. /\ Len(a) \in Nat /\ Len(p) \in Nat /\ Len(a) + Len(p) \in Nat
         /\ Len(Append(a, sid)) = Len(a) + 1 /\ Len(Append(p, sid)) = Len(p) + 1
         /\ \A i \in DOMAIN Append(p, sid) : Append(p, sid)[i] = sid \/ (i \in DOMAIN p /\ Append(p, sid)[i] = p[i])
    BY <1>5a
  <1>5c. sid.id \in Nat
    BY <1>5a DEF StreamID
  <1>6. sid.id = Len(a) + Len(p)
    <2>1. Numbered(sid.id, FALSE) = Numbered(Len(a) + Len(p), FALSE)
      BY <1>0, <1>1 DEF AcceptInv, a, p
    <2> QED
      BY <1>5b, <1>5c, <2>1, NumberedEqual
  <1>7. AcceptInv'
    <2>1. Len(accepted'[e]) + Len(pending_streams'[e]) = sid.id + 1
      <3>1. CASE waiting_stream_sender[e] # NoReq
        <4>1. accepted'[e] = Append(a, sid) /\ pending_streams'[e] = p
          BY <1>2, <3>1 DEF a, p
        <4> QED
          BY <1>5b, <1>6, <4>1
      <3>2. CASE waiting_stream_sender[e] = NoReq
        <4>1. accepted'[e] = a /\ pending_streams'[e] = Append(p, sid)
          BY <1>2, <3>2 DEF a, p
        <4> QED
          BY <1>5b, <1>6, <4>1
      <3> QED
        BY <3>1, <3>2
    <2>2. Numbered(sid.id + 1, FALSE) = Numbered(sid.id, FALSE) \cup {sid}
      BY <1>1, <1>5c, InNumbered
    <2>3. {x \in Known(e) \cup {sid} : ~x.initiator} = Numbered(sid.id, FALSE) \cup {sid}
      <3>1. ~sid.initiator
        BY <1>1
      <3> QED
        BY <1>1, <3>1
    <2>4. {x \in Known(e)' : ~x.initiator} = Numbered(Len(accepted'[e]) + Len(pending_streams'[e]), FALSE)
      BY <1>1, <2>1, <2>2, <2>3
    <2> QED
      BY <1>0, <1>1, <1>2, <2>4, AcceptBoth
  <1>8. AcceptOrder'
    <2>1. OrderOK(a, p, waiting_stream_sender[e])
      BY <1>0 DEF AcceptOrder, OrderOK, a, p
    <2>2. sid = [id |-> Len(a) + Len(p), initiator |-> FALSE]
      BY <1>1, <1>6
    <2>3. /\ waiting_stream_sender[e] # NoReq => OrderOK(Append(a, sid), p, NoReq)
          /\ waiting_stream_sender[e] = NoReq => OrderOK(a, Append(p, sid), NoReq)
      BY <1>5a, <2>1, <2>2, OrderStep
    <2>4. CASE waiting_stream_sender[e] # NoReq
      <3>1. accepted'[e] = Append(a, sid) /\ pending_streams'[e] = p /\ waiting_stream_sender'[e] = NoReq
        BY <1>2, <2>4 DEF a, p
      <3>2. OrderOK(accepted'[e], pending_streams'[e], waiting_stream_sender'[e])
        BY <2>3, <2>4, <3>1
      <3> QED
        BY <1>0, <1>2, <3>2, OrderBoth
    <2>5. CASE waiting_stream_sender[e] = NoReq
      <3>1. accepted'[e] = a /\ pending_streams'[e] = Append(p, sid) /\ waiting_stream_sender'[e] = NoReq
        BY <1>2, <2>5 DEF a, p
      <3>2. OrderOK(accepted'[e], pending_streams'[e], waiting_stream_sender'[e])
        BY <2>3, <2>5, <3>1
      <3> QED
        BY <1>0, <1>2, <3>2, OrderBoth
    <2> QED
      BY <2>4, <2>5
  <1>9. HandInv'
    <2>1. task'[e].at # "write" /\ stream_cmds' = stream_cmds
      BY <1>1 DEF Select, chanVars
    <2> QED
      BY <1>0, <1>1, <1>2, <2>1, HandBoth
  <1>10. PendingInv'
    <2>1. DOMAIN handle[e] \subseteq Known(e)
      BY <1>0 DEF TablesInv, Tables, Known
    <2>2. ASSUME NEW i \in DOMAIN pending_streams'[e]
          PROVE  pending_streams'[e][i] \in Known(e)' /\ pending_streams'[e][i] \notin DOMAIN handle'[e]
      <3>1. CASE waiting_stream_sender[e] # NoReq
        <4>1. pending_streams[e] = <<>>
          BY <1>0, <3>1 DEF AcceptOrder
        <4> QED
          BY <1>2, <2>2, <3>1, <4>1
      <3>2. CASE waiting_stream_sender[e] = NoReq
        <4>1. pending_streams'[e][i] = sid
              \/ (i \in DOMAIN pending_streams[e] /\ pending_streams'[e][i] = pending_streams[e][i])
          <5>1. pending_streams'[e] = Append(p, sid)
            BY <1>2, <3>2 DEF p
          <5> QED
            BY <1>5b, <2>2, <5>1 DEF p
        <4> QED
          BY <1>0, <1>1, <1>2, <2>1, <3>2, <4>1 DEF PendingInv
      <3> QED
        BY <3>1, <3>2
    <2> QED
      BY <1>0, <1>1, <1>2, <2>2, PendingBoth
  <1>11. CommandInv'
    <2>1. CommandsOK(e, stream_cmds[e], handle[e]) /\ stream_cmds' = stream_cmds
      BY <1>0, <1>1 DEF CommandInv, chanVars
    <2>2. \A i \in DOMAIN stream_cmds[e] : stream_cmds[e][i].sid # sid
      BY <1>0, <1>1, <2>1 DEF CommandsOK, TablesInv, Tables, Known
    <2>3. CommandsOK(e, stream_cmds[e], handle'[e])
      BY <1>2, <2>1, <2>2, CommandsHand
    <2> QED
      BY <1>0, <1>2, <2>1, <2>3, CommandBoth
  <1>12. StageInv'
    BY <1>0, <1>1, <1>2, <1>3, StageRuns DEF StageInv, chanVars
  <1>13. SentInv'
    <2>1. \A tag, s : Sent(e, tag, s)' <=> Sent(e, tag, s)
      BY <1>1 DEF Sent
    <2>2. \A s \in StreamID : /\ s # sid => (Writable(e, s)' <=> Writable(e, s))
                              /\ s # sid /\ s \in DOMAIN streams_stat'[e] => s \in DOMAIN streams_stat[e]
      BY <1>3 DEF Writable, Insert
    <2>3. \A tag : ~Sent(e, tag, sid)
      BY <1>0, <1>1, SentKnown
    <2>4. was_reset' = was_reset
      BY <1>1
    <2>5. \A s : NotReset(e, s)' <=> NotReset(e, s)
      BY <2>4 DEF NotReset
    <2>6. \A s \in StreamID :
              /\ Sent(e, "Close", s)' => ~Writable(e, s)'
              /\ Sent(e, "Reset", s)' => s \notin DOMAIN streams_stat'[e] /\ ~NotReset(e, s)'
      BY <1>0, <2>1, <2>2, <2>3, <2>5 DEF SentInv
    <2> QED
      BY <1>0, <1>1, <1>3, <2>4, <2>6, SentBoth
  <1>14. DeliverInv'
    BY <1>0, <1>1, DeliverKept
  <1> QED
    BY <1>1, <1>4, <1>7, <1>8, <1>9, <1>10, <1>11, <1>12, <1>13, <1>14 DEF MplexInv

LEMMA CoreEnds ==
    ASSUME MplexInv, NEW e \in Ends, Ends1(e)
    PROVE  MplexInv'
  <1>0. /\ TypeInv /\ FramesInv /\ OpenInv /\ AcceptInv /\ AcceptOrder /\ HandInv /\ PendingInv /\ CommandInv
        /\ StageInv /\ SentInv /\ DeliverInv /\ Other(e) \in Ends /\ Other(e) # e
        /\ IdInv /\ TablesInv /\ ChannelInv /\ DomInv /\ RequestInv
    BY TheOther, TypeParts DEF MplexInv
  <1>1a. PICK cause \in Causes : \E h : End(e, cause, h) /\ wire' = wire /\ (cause = "eof" => ~Running(Other(e)))
    BY DEF Ends1, ReadFails, WriteFails, OnOpenStreamNoId, OnNoControlCommand, Causes
  <1>1. PICK h : End(e, cause, h) /\ wire' = wire /\ (cause = "eof" => ~Running(Other(e)))
    BY <1>1a
  <1>2. /\ Out(e)' = wire[e] /\ Out(Other(e))' = Out(Other(e))
        /\ ~Running(e)' /\ Running(Other(e))' = Running(Other(e))
        /\ task'[e] = Ended(cause) /\ task'[Other(e)] = task[Other(e)]
        /\ Out(e) = wire[e] \/ \E f \in Frames : Out(e) = Append(wire[e], f)
    BY <1>0, <1>1, EndEffect
  <1>3. UNCHANGED <<next_stream_id, accepted, data, historyVars>> /\ KnownSame
    BY <1>1 DEF End, KnownSame, Known
  <1>4. /\ streams_stat'[e] = Empty /\ streams_stat'[Other(e)] = streams_stat[Other(e)]
        /\ streams'[e] = {} /\ streams'[Other(e)] = streams[Other(e)]
        /\ pending_streams'[e] = <<>> /\ pending_streams'[Other(e)] = pending_streams[Other(e)]
        /\ waiting_stream_sender'[e] = NoReq /\ waiting_stream_sender'[Other(e)] = waiting_stream_sender[Other(e)]
        /\ stream_cmds'[e] = <<>> /\ stream_cmds'[Other(e)] = stream_cmds[Other(e)]
        /\ stream_receiver'[e] = "terminated" /\ stream_receiver'[Other(e)] = stream_receiver[Other(e)]
        /\ control_receiver'[e] = "terminated" /\ control_receiver'[Other(e)] = control_receiver[Other(e)]
    BY <1>0, <1>1 DEF End, DomInv, ChannelInv, IdInv, RequestInv
  <1>5. DOMAIN handle'[e] = DOMAIN handle[e] /\ handle'[Other(e)] = handle[Other(e)]
    BY <1>0, <1>1 DEF End, DomInv
  <1>6. TypeInv'
    BY <1>0, <1>1, TypeEnd
  <1>7. FramesInv' /\ OpenInv'
    BY <1>0, <1>2, <1>3, NetEnd
  <1>8. AcceptInv'
    BY <1>0, <1>2, <1>3, <1>4, AcceptBoth DEF KnownSame
  <1>9. AcceptOrder'
    <2>1. OrderOK(accepted[e], pending_streams[e], waiting_stream_sender[e])
      BY <1>0 DEF AcceptOrder, OrderOK
    <2>2. accepted[e] \in Seq(StreamID) /\ pending_streams[e] \in Seq(StreamID)
      BY <1>0 DEF IdInv
    <2>3. OrderOK(accepted[e], <<>>, NoReq)
      <3> DEFINE a == accepted[e]
                 p == pending_streams[e]
      <3>0. a \in Seq(StreamID) /\ p \in Seq(StreamID) /\ OrderOK(a, p, waiting_stream_sender[e])
        BY <2>1, <2>2
      <3> HIDE DEF a, p
      <3>1. /\ Len(a \o p) = Len(a) + Len(p)
            /\ \A k \in 1 .. Len(a) + Len(p) : (a \o p)[k] = IF k <= Len(a) THEN a[k] ELSE p[k - Len(a)]
        BY <3>0, ConcatProperties
      <3>2. a \o <<>> = a /\ Len(a) \in Nat /\ Len(p) \in Nat
        BY <3>0
      <3>3. \A k \in 1 .. Len(a) : a[k] = [id |-> k - 1, initiator |-> FALSE]
        <4> SUFFICES ASSUME NEW k \in 1 .. Len(a) PROVE a[k] = [id |-> k - 1, initiator |-> FALSE]
          OBVIOUS
        <4>1. k \in 1 .. Len(a) + Len(p) /\ k <= Len(a)
          BY <3>2
        <4>2. (a \o p)[k] = a[k]
          BY <3>1, <4>1
        <4>3. k \in 1 .. Len(a \o p)
          BY <3>1, <4>1
        <4>4. (a \o p)[k] = [id |-> k - 1, initiator |-> FALSE]
          BY <3>0, <4>3 DEF OrderOK
        <4> QED
          BY <4>2, <4>4
      <3> QED
        BY <3>2, <3>3 DEF OrderOK, a
    <2> QED
      BY <1>0, <1>3, <1>4, <2>3, OrderBoth
  <1>10. HandInv'
    <2>1. task'[e].at # "write"
      BY <1>2 DEF Ended
    <2> QED
      BY <1>0, <1>2, <1>3, <1>4, <1>5, <2>1, HandBoth DEF KnownSame
  <1>11. PendingInv'
    BY <1>0, <1>3, <1>4, <1>5, PendingKept DEF KnownSame
  <1>12. CommandInv'
    <2>1. CommandsOK(e, stream_cmds'[e], handle'[e])
      BY <1>4 DEF CommandsOK
    <2> QED
      BY <1>0, <1>4, <1>5, <2>1, CommandBoth
  <1>13. StageInv'
    <2>1. StageAt(e)'
      BY <1>1, <1>2, <1>4 DEF StageAt, Ended
    <2> QED
      BY <1>0, <1>2, <1>4, <2>1, StageBoth
  <1>14. SentInv'
    <2>1. \A tag, s : Sent(e, tag, s)' => Sent(e, tag, s)
      <3>1. wire[e] \in Seq(Frames)
        BY <1>0, TaskTypes
      <3> SUFFICES ASSUME NEW tag, NEW s, Has(Out(e)', tag, s) PROVE Has(Out(e), tag, s)
        BY DEF Sent
      <3>2. Has(wire[e], tag, s)
        BY <1>2
      <3>3. CASE Out(e) = wire[e]
        BY <3>2, <3>3
      <3>4. ASSUME NEW f \in Frames, Out(e) = Append(wire[e], f) PROVE Has(Out(e), tag, s)
        <4>1. Has(Append(wire[e], f), tag, s)
          BY <3>1, <3>2, HasStep
        <4> QED
          BY <3>4, <4>1
      <3> QED
        BY <1>2, <3>3, <3>4
    <2>2. \A s \in StreamID : ~Writable(e, s)' /\ s \notin DOMAIN streams_stat'[e]
      BY <1>4 DEF Writable, Empty
    <2>3. was_reset' = was_reset
      BY <1>3 DEF historyVars
    <2> QED
      BY <1>0, <1>2, <1>4, <2>1, <2>2, <2>3, SentSame
  <1>15. DeliverInv'
    BY <1>0, <1>2, <1>3, DeliverKept DEF KnownSame, Ended
  <1> QED
    BY <1>6, <1>7, <1>8, <1>9, <1>10, <1>11, <1>12, <1>13, <1>14, <1>15 DEF MplexInv

\* A step of a task that may take a command and leaves the hand h to the application, now
\* or when the frame is written.
LEMMA HandsOver ==
    ASSUME MplexInv, NEW e \in Ends, NEW h \in Hands, HandOK(h, Known(e)', handle[e], stream_cmds'[e]),
           UNCHANGED <<acceptVars, stream_receiver, control_receiver>>,
           CommandsOK(e, stream_cmds'[e], handle[e]), stream_cmds'[Other(e)] = stream_cmds[Other(e)],
           stream_cmds'[e] = stream_cmds[e] \/ (stream_cmds[e] # <<>> /\ stream_cmds'[e] = Tail(stream_cmds[e])),
           streams'[Other(e)] = streams[Other(e)], streams_stat'[Other(e)] = streams_stat[Other(e)],
           Running(e), Running(e)', task'[Other(e)] = task[Other(e)], handle'[Other(e)] = handle[Other(e)],
           Known(e) \subseteq Known(e)', Known(Other(e))' = Known(Other(e)),
           {s \in Known(e)' : ~s.initiator} = {s \in Known(e) : ~s.initiator},
           \/ task'[e].at = "write" /\ task'[e].hand = h /\ handle'[e] = handle[e]
           \/ /\ task'[e] = Select
              /\ handle'[e] = IF h.status = "none" THEN handle[e] ELSE Insert(handle[e], h.sid, h.status)
    PROVE  AcceptInv' /\ AcceptOrder' /\ HandInv' /\ PendingInv' /\ CommandInv' /\ StageInv' /\ DeliverInv'
  <1>0. /\ TypeInv /\ AcceptInv /\ AcceptOrder /\ HandInv /\ PendingInv /\ CommandInv
        /\ StageInv /\ DeliverInv /\ Other(e) \in Ends /\ Other(e) # e
    BY TheOther DEF MplexInv
  <1>1. h.status \in {"none", "open", "closed"}
    BY DEF Hands
  <1>2. Running(Other(e))' = Running(Other(e))
    BY DEF Running
  <1>3. AcceptInv'
    BY <1>0, <1>2, AcceptBoth DEF AcceptInv, acceptVars
  <1>4. AcceptOrder'
    BY <1>0 DEF AcceptOrder, acceptVars
  <1>5. HandInv'
    <2>1. task'[e].at = "write" => task'[e].hand = h /\ handle'[e] = handle[e]
      BY DEF Select
    <2> QED
      BY <1>0, <2>1, HandBoth
  <1>6. PendingInv'
    <2>1. \A s \in DOMAIN handle'[e] : s \in DOMAIN handle[e] \/ s.initiator
      <3>1. CASE handle'[e] = handle[e]
        BY <3>1
      <3>2. CASE handle'[e] = Insert(handle[e], h.sid, h.status) /\ h.status # "none"
        <4>1. h.sid \in DOMAIN handle[e] \/ h.sid.initiator
          BY <1>1, <3>2 DEF HandOK
        <4> QED
          BY <3>2, <4>1 DEF Insert
      <3> QED
        BY <3>1, <3>2
    <2> QED
      BY <1>0, <2>1, PendingKept DEF acceptVars
  <1>7. CommandInv'
    <2>1. CommandsOK(e, stream_cmds'[e], handle'[e])
      <3>1. CASE handle'[e] = handle[e]
        BY <3>1
      <3>2. CASE handle'[e] = Insert(handle[e], h.sid, h.status) /\ h.status # "none"
        <4>1. \A i \in DOMAIN stream_cmds'[e] : stream_cmds'[e][i].sid # h.sid
          BY <1>1, <3>2 DEF HandOK, CommandsOK
        <4>2. CommandsOK(e, stream_cmds'[e], Insert(handle[e], h.sid, h.status))
          BY <4>1, CommandsHand
        <4> QED
          BY <3>2, <4>2
      <3> QED
        BY <3>1, <3>2
    <2> QED
      BY <1>0, <2>1, CommandBoth
  <1>8. StageInv'
    <2>1. stream_receiver[e] = "terminated" => stream_cmds'[e] = <<>>
      BY <1>0 DEF StageInv
    <2> QED
      BY <1>0, <2>1, StageRuns DEF acceptVars
  <1>9. DeliverInv'
    BY <1>0, DeliverKept DEF Select
  <1> QED
    BY <1>3, <1>4, <1>5, <1>6, <1>7, <1>8, <1>9

LEMMA CoreWriteDone ==
    ASSUME MplexInv, NEW e \in Ends, WriteDone(e)
    PROVE  MplexInv'
  <1> DEFINE h == task[e].hand
             f == task[e].frame
  <1>0. /\ TypeInv /\ FramesInv /\ OpenInv /\ HandInv /\ CommandInv /\ SentInv /\ SocketInv
        /\ Other(e) \in Ends /\ Other(e) # e
    BY TheOther, TypeParts DEF MplexInv
  <1>1. h \in Hands /\ f \in Frames /\ task[e].at = "write" /\ Finish(e, h)
    BY <1>0, TaskTypes DEF WriteDone
  <1>2. /\ wire' = [wire EXCEPT ![e] = Append(@, f)] /\ task' = [task EXCEPT ![e] = Select]
        /\ UNCHANGED <<broken, tableVars, chanVars, shutdown, acceptVars, data, historyVars>>
    BY DEF WriteDone
  <1>3. handle'[Other(e)] = handle[Other(e)]
        /\ handle'[e] = IF h.status = "none" THEN handle[e] ELSE Insert(handle[e], h.sid, h.status)
    BY <1>0, <1>1, FinishEffect
  <1>4. HandOK(h, Known(e), handle[e], stream_cmds[e])
    BY <1>0, <1>1 DEF HandInv
  <1> HIDE DEF h
  <1>5. /\ task'[e] = Select /\ task'[Other(e)] = task[Other(e)]
        /\ wire'[e] = Append(wire[e], f) /\ wire'[Other(e)] = wire[Other(e)]
    BY <1>0, <1>2 DEF SocketInv
  <1>6. \A x \in Ends : Out(x)' = Out(x) /\ Running(x)' = Running(x)
    <2>1. Out(e)' = Out(e) /\ Running(e) /\ Running(e)'
      BY <1>1, <1>5 DEF Out, Running, Select
    <2>2. Out(Other(e))' = Out(Other(e)) /\ Running(Other(e))' = Running(Other(e))
      BY <1>5 DEF Out, Running
    <2>3. Running(e)' = Running(e)
      BY <2>1 DEF Running
    <2> QED
      BY <2>1, <2>2, <2>3, TheOther
  <1>7. KnownSame /\ Known(e)' = Known(e) /\ Known(Other(e))' = Known(Other(e)) /\ Running(e) /\ Running(e)'
    BY <1>1, <1>2, <1>5 DEF KnownSame, Known, Running, Select
  <1>8. TypeInv'
    BY <1>0, TypeWriteDone
  <1>9. FramesInv' /\ OpenInv'
    BY <1>0, <1>2, <1>6, <1>7, NetSame DEF tableVars
  <1>10. AcceptInv' /\ AcceptOrder' /\ HandInv' /\ PendingInv' /\ CommandInv' /\ StageInv' /\ DeliverInv'
    <2>1. CommandsOK(e, stream_cmds[e], handle[e])
      BY <1>0 DEF CommandInv
    <2> QED
      BY <1>0, <1>1, <1>2, <1>3, <1>4, <1>5, <1>7, <2>1, HandsOver DEF chanVars, tableVars
  <1>11. SentInv'
    <2>1. \A x \in Ends : \A tag, s : Sent(x, tag, s)' = Sent(x, tag, s)
      BY <1>6 DEF Sent
    <2> QED
      BY <1>0, <1>2, <2>1 DEF SentInv, Writable, NotReset, tableVars, historyVars
  <1> QED
    BY <1>8, <1>9, <1>10, <1>11 DEF MplexInv

\* A frame of a stream that is in the table of its end.
LEMMA CoreSend ==
    ASSUME MplexInv, TypeInv', NEW e \in Ends, NEW f \in Frames, NEW h \in Hands,
           task[e].at \in {"select", "deliver"}, SendFrame(e, f, h),
           HandOK(h, Known(e), handle[e], stream_cmds'[e]),
           UNCHANGED <<next_stream_id, acceptVars, data, stream_receiver, control_receiver>>,
           CommandsOK(e, stream_cmds'[e], handle[e]), stream_cmds'[Other(e)] = stream_cmds[Other(e)],
           stream_cmds'[e] = stream_cmds[e] \/ (stream_cmds[e] # <<>> /\ stream_cmds'[e] = Tail(stream_cmds[e])),
           streams'[Other(e)] = streams[Other(e)], streams_stat'[Other(e)] = streams_stat[Other(e)],
           was_reset \subseteq was_reset',
           \A s \in StreamID : /\ Writable(e, s)' => Writable(e, s)
                               /\ s \in DOMAIN streams_stat'[e] => s \in DOMAIN streams_stat[e],
           TagOf(f) # "NewStream", SidOf(f) \in Known(e), TagOf(f) = "Message" => BodyOK(f.body, e, SidOf(f)),
           TagOf(f) # "Reset" => Writable(e, SidOf(f)),
           TagOf(f) = "Close" => ~Writable(e, SidOf(f))',
           TagOf(f) = "Reset" => SidOf(f) \notin DOMAIN streams_stat'[e] /\ ~NotReset(e, SidOf(f))'
    PROVE  MplexInv'
  <1>0. /\ TypeInv /\ FramesInv /\ OpenInv /\ SentInv /\ Other(e) \in Ends /\ Other(e) # e
        /\ SidOf(f) \in StreamID
    BY TheOther, DecodedTypes DEF MplexInv
  <1>1. /\ Out(e)' = Append(Out(e), f) /\ Out(Other(e))' = Out(Other(e))
        /\ Running(e) /\ Running(e)' /\ Running(Other(e))' = Running(Other(e))
        /\ task'[Other(e)] = task[Other(e)]
    BY <1>0, SendEffect
  <1>2. /\ handle'[Other(e)] = handle[Other(e)]
        /\ \/ task'[e] = [at |-> "write", frame |-> f, hand |-> h] /\ handle'[e] = handle[e]
           \/ /\ task'[e] = Select
              /\ handle'[e] = IF h.status = "none" THEN handle[e] ELSE Insert(handle[e], h.sid, h.status)
    BY <1>0, SendHandle
  <1>3. KnownSame /\ Known(e)' = Known(e) /\ Known(Other(e))' = Known(Other(e))
    BY DEF KnownSame, Known
  <1>4. FramesInv' /\ OpenInv'
    <2>1. TagOf(f) # "Reset" => ~Sent(e, "Close", SidOf(f))
      BY <1>0 DEF SentInv
    <2> QED
      BY <1>0, <1>1, <1>3, <2>1, NetSend
  <1>5. AcceptInv' /\ AcceptOrder' /\ HandInv' /\ PendingInv' /\ CommandInv' /\ StageInv' /\ DeliverInv'
    <2>1. \/ task'[e].at = "write" /\ task'[e].hand = h /\ handle'[e] = handle[e]
          \/ /\ task'[e] = Select
             /\ handle'[e] = IF h.status = "none" THEN handle[e] ELSE Insert(handle[e], h.sid, h.status)
      BY <1>2
    <2> QED
      BY <1>1, <1>2, <1>3, <2>1, HandsOver
  <1>6. SentInv'
    <2>1. Out(e) \in Seq(Frames)
      BY <1>0, TaskTypes
    <2>2. \A tag, s : Sent(e, tag, s)' => Sent(e, tag, s) \/ (TagOf(f) = tag /\ SidOf(f) = s)
      BY <1>1, <2>1, HasStep DEF Sent
    <2>3. \A s : NotReset(e, s)' => NotReset(e, s)
      BY DEF NotReset
    <2>4. \A s \in StreamID :
              /\ Sent(e, "Close", s)' => ~Writable(e, s)'
              /\ Sent(e, "Reset", s)' => s \notin DOMAIN streams_stat'[e] /\ ~NotReset(e, s)'
      BY <1>0, <2>2, <2>3 DEF SentInv
    <2> QED
      BY <1>0, <1>1, <2>4, SentBoth
  <1> QED
    BY <1>4, <1>5, <1>6 DEF MplexInv

\* A command that was dropped: its stream is closed or gone.
LEMMA CoreTake ==
    ASSUME MplexInv, TypeInv', NEW e \in Ends, NEW h \in Hands, task[e] = Select,
           HandOK(h, Known(e), handle[e], stream_cmds'[e]),
           UNCHANGED <<wire, task, next_stream_id, acceptVars, data, stream_receiver, control_receiver, streams,
                       streams_stat, was_reset>>,
           CommandsOK(e, stream_cmds'[e], handle[e]), stream_cmds'[Other(e)] = stream_cmds[Other(e)],
           stream_cmds'[e] = stream_cmds[e] \/ (stream_cmds[e] # <<>> /\ stream_cmds'[e] = Tail(stream_cmds[e])),
           handle'[Other(e)] = handle[Other(e)],
           handle'[e] = IF h.status = "none" THEN handle[e] ELSE Insert(handle[e], h.sid, h.status)
    PROVE  MplexInv'
  <1>0. TypeInv /\ FramesInv /\ OpenInv /\ SentInv
    BY DEF MplexInv
  <1>1. Running(e) /\ Running(e)' /\ task'[e] = Select
    BY DEF Running, Select
  <1>2. KnownSame /\ Known(e)' = Known(e) /\ Known(Other(e))' = Known(Other(e))
    BY DEF KnownSame, Known
  <1>3. \A x \in Ends : Out(x)' = Out(x) /\ Running(x)' = Running(x)
    BY DEF Out, Running
  <1>4. FramesInv' /\ OpenInv'
    BY <1>0, <1>2, <1>3, NetSame
  <1>5. AcceptInv' /\ AcceptOrder' /\ HandInv' /\ PendingInv' /\ CommandInv' /\ StageInv' /\ DeliverInv'
    BY <1>1, <1>2, HandsOver
  <1>6. SentInv'
    <2>1. \A x \in Ends : \A tag, s : Sent(x, tag, s)' = Sent(x, tag, s)
      BY <1>3 DEF Sent
    <2> QED
      BY <1>0, <2>1 DEF SentInv, Writable, NotReset
  <1> QED
    BY <1>4, <1>5, <1>6 DEF MplexInv

\* The command that is taken, and what is left of the queue.
LEMMA TakeEffect ==
    ASSUME MplexInv, NEW e \in Ends, NEW type, TakeStreamCmd(e, type)
    PROVE  LET c == Head(stream_cmds[e]) IN
           /\ task[e] = Select /\ task[e].at = "select" /\ stream_cmds[e] # <<>>
           /\ stream_cmds'[e] = Tail(stream_cmds[e]) /\ stream_cmds'[Other(e)] = stream_cmds[Other(e)]
           /\ CommandsOK(e, stream_cmds'[e], handle[e])
           /\ c \in Commands /\ c.sid \in StreamID /\ c.body \in Bodies /\ c.type = type
           /\ c.sid \in DOMAIN handle[e] /\ c.sid \in Known(e)
           /\ type = "SendFrame" => BodyOK(c.body, e, c.sid)
           /\ type = "ResetStream" => handle[e][c.sid] = "resetting"
           /\ type # "SendFrame" => \A i \in DOMAIN stream_cmds'[e] : stream_cmds'[e][i].sid # c.sid
  <1> DEFINE c == Head(stream_cmds[e])
             q == stream_cmds[e]
  <1>0. TypeInv /\ ChannelInv /\ TablesInv /\ CommandInv /\ Other(e) # e /\ Other(e) \in Ends
    BY TypeParts, TheOther DEF MplexInv
  <1>1. /\ task[e] = Select /\ task[e].at = "select" /\ q # <<>> /\ c.type = type
        /\ stream_cmds' = [stream_cmds EXCEPT ![e] = Tail(@)]
    BY DEF TakeStreamCmd, Selecting, Select
  <1>2. stream_cmds'[e] = Tail(q) /\ stream_cmds'[Other(e)] = stream_cmds[Other(e)]
    BY <1>0, <1>1 DEF ChannelInv
  <1>3. c \in Commands /\ c.sid \in StreamID /\ c.body \in Bodies /\ q \in Seq(Commands) /\ 1 \in DOMAIN q /\ q[1] = c
    BY <1>0, <1>1, CommandTypes
  <1>4. CommandsOK(e, q, handle[e])
    BY <1>0 DEF CommandInv
  <1> HIDE DEF c, q
  <1>5. /\ CommandsOK(e, Tail(q), handle[e])
        /\ Head(q).type # "SendFrame" => \A i \in DOMAIN Tail(q) : Tail(q)[i].sid # Head(q).sid
    BY <1>1, <1>3, <1>4, CommandsTail
  <1>6. /\ c.sid \in DOMAIN handle[e]
        /\ type = "SendFrame" => BodyOK(c.body, e, c.sid)
        /\ type = "ResetStream" => handle[e][c.sid] = "resetting"
    BY <1>1, <1>3, <1>4 DEF CommandsOK
  <1>7. c.sid \in Known(e)
    BY <1>0, <1>6 DEF TablesInv, Tables, Known
  <1>8. Head(q) = c
    BY DEF c, q
  <1> QED
    BY <1>1, <1>2, <1>3, <1>5, <1>6, <1>7, <1>8 DEF c, q

LEMMA CoreSendFrame ==
    ASSUME MplexInv, NEW e \in Ends, OnSendFrame(e)
    PROVE  MplexInv'
  <1> DEFINE c == Head(stream_cmds[e])
             f == Frame("Message", c.sid, c.body)
  <1>0. TypeInv /\ CommandInv /\ Other(e) # e /\ Other(e) \in Ends
    BY TheOther DEF MplexInv
  <1>1. /\ TakeStreamCmd(e, "SendFrame")
        /\ \/ Writable(e, c.sid) /\ SendFrame(e, f, Nothing)
           \/ ~Writable(e, c.sid) /\ UNCHANGED <<wire, task, reply, handle>>
        /\ UNCHANGED <<broken, tableVars, stream_receiver, control_cmds, control_receiver,
                       shutdown, acceptVars, data, historyVars>>
    BY DEF OnSendFrame
  <1>2. /\ task[e] = Select /\ task[e].at = "select" /\ stream_cmds[e] # <<>>
        /\ stream_cmds'[e] = Tail(stream_cmds[e]) /\ stream_cmds'[Other(e)] = stream_cmds[Other(e)]
        /\ CommandsOK(e, stream_cmds'[e], handle[e])
        /\ c.sid \in StreamID /\ c.body \in Bodies /\ c.sid \in Known(e) /\ BodyOK(c.body, e, c.sid)
    BY <1>1, TakeEffect
  <1>3. TypeInv'
    BY <1>0, TypeStreamCmd
  <1>4. /\ f \in Frames /\ TagOf(f) = "Message" /\ SidOf(f) = c.sid /\ f.body = c.body
        /\ Nothing \in Hands /\ Nothing.status = "none"
    BY <1>2, FrameTypes, FrameRead, HandTypes DEF Tags
  <1>5. HandOK(Nothing, Known(e), handle[e], stream_cmds'[e])
    BY <1>4 DEF HandOK
  <1>6. /\ UNCHANGED <<next_stream_id, acceptVars, data, stream_receiver, control_receiver, streams, streams_stat, was_reset>>
        /\ \A s \in StreamID : Writable(e, s)' <=> Writable(e, s)
    BY <1>1 DEF tableVars, historyVars, Writable
  <1> HIDE DEF c, f
  <1>7. CASE Writable(e, c.sid) /\ SendFrame(e, f, Nothing)
    BY <1>0, <1>2, <1>3, <1>4, <1>5, <1>6, <1>7, CoreSend
  <1>8. CASE UNCHANGED <<wire, task, reply, handle>>
    BY <1>2, <1>3, <1>4, <1>5, <1>6, <1>8, CoreTake
  <1> QED
    BY <1>1, <1>7, <1>8

LEMMA CoreCloseStream ==
    ASSUME MplexInv, NEW e \in Ends, OnCloseStream(e)
    PROVE  MplexInv'
  <1>a. PICK sid : sid = Head(stream_cmds[e]).sid
    OBVIOUS
  <1>b. PICK f : f = Frame("Close", sid, NoBody)
    OBVIOUS
  <1>0. TypeInv /\ CommandInv /\ Other(e) # e /\ Other(e) \in Ends /\ DomInv
    BY TheOther, TypeParts DEF MplexInv
  <1>1. /\ TakeStreamCmd(e, "CloseStream")
        /\ \/ /\ Writable(e, sid)
              /\ streams_stat' = IF streams_stat[e][sid] = "RecvClosed"
                                 THEN [streams_stat EXCEPT ![e] = Remove(@, sid)]
                                 ELSE [streams_stat EXCEPT ![e][sid] = "SendClosed"]
              /\ SendFrame(e, f, Nothing)
           \/ ~Writable(e, sid) /\ UNCHANGED <<wire, task, reply, handle, streams_stat>>
        /\ UNCHANGED <<broken, next_stream_id, streams, stream_receiver, control_cmds,
                       control_receiver, shutdown, acceptVars, data, historyVars>>
    BY <1>a, <1>b DEF OnCloseStream
  <1>2. /\ task[e] = Select /\ task[e].at = "select" /\ stream_cmds[e] # <<>>
        /\ stream_cmds'[e] = Tail(stream_cmds[e]) /\ stream_cmds'[Other(e)] = stream_cmds[Other(e)]
        /\ CommandsOK(e, stream_cmds'[e], handle[e])
        /\ sid \in StreamID /\ sid \in Known(e)
    BY <1>1, <1>a, TakeEffect
  <1>3. TypeInv'
    BY <1>0, TypeStreamCmd
  <1>4. /\ f \in Frames /\ TagOf(f) = "Close" /\ SidOf(f) = sid
        /\ Nothing \in Hands /\ Nothing.status = "none"
    BY <1>2, <1>b, FrameTypes, FrameRead, HandTypes DEF Tags
  <1>5. HandOK(Nothing, Known(e), handle[e], stream_cmds'[e])
    BY <1>4 DEF HandOK
  <1>6. UNCHANGED <<next_stream_id, acceptVars, data, stream_receiver, control_receiver, streams, was_reset>>
    BY <1>1 DEF historyVars
  <1>7. CASE /\ Writable(e, sid)
             /\ streams_stat' = IF streams_stat[e][sid] = "RecvClosed"
                                THEN [streams_stat EXCEPT ![e] = Remove(@, sid)]
                                ELSE [streams_stat EXCEPT ![e][sid] = "SendClosed"]
             /\ SendFrame(e, f, Nothing)
    <2>1. /\ streams_stat'[Other(e)] = streams_stat[Other(e)]
          /\ \/ streams_stat'[e] = Remove(streams_stat[e], sid)
             \/ streams_stat'[e] = [streams_stat[e] EXCEPT ![sid] = "SendClosed"]
      BY <1>0, <1>7 DEF DomInv
    <2>2. /\ \A s \in StreamID : /\ Writable(e, s)' => Writable(e, s)
                                 /\ s \in DOMAIN streams_stat'[e] => s \in DOMAIN streams_stat[e]
          /\ ~Writable(e, sid)'
      <3>1. CASE streams_stat'[e] = Remove(streams_stat[e], sid)
        BY <3>1 DEF Writable, Remove
      <3>2. CASE streams_stat'[e] = [streams_stat[e] EXCEPT ![sid] = "SendClosed"]
        BY <3>2 DEF Writable, can_write
      <3> QED
        BY <2>1, <3>1, <3>2
    <2> QED
      BY <1>0, <1>2, <1>3, <1>4, <1>5, <1>6, <1>7, <2>1, <2>2, CoreSend
  <1>8. CASE UNCHANGED <<wire, task, reply, handle, streams_stat>>
    BY <1>2, <1>3, <1>4, <1>5, <1>6, <1>8, CoreTake
  <1> QED
    BY <1>1, <1>7, <1>8

LEMMA CoreResetStream ==
    ASSUME MplexInv, NEW e \in Ends, OnResetStream(e)
    PROVE  MplexInv'
  <1>a. PICK sid : sid = Head(stream_cmds[e]).sid
    OBVIOUS
  <1>b. PICK f : f = Frame("Reset", sid, NoBody)
    OBVIOUS
  <1>c. PICK h : h = [req |-> NoReq, sid |-> sid, status |-> "closed"]
    OBVIOUS
  <1>0. TypeInv /\ CommandInv /\ Other(e) # e /\ Other(e) \in Ends
    BY TheOther DEF MplexInv
  <1>1. /\ TakeStreamCmd(e, "ResetStream")
        /\ \/ /\ sid \in DOMAIN streams_stat[e]
              /\ RemoveStream(e, sid)
              /\ was_reset' = was_reset \cup {Stream(e, sid)}
              /\ SendFrame(e, f, h)
           \/ /\ sid \notin DOMAIN streams_stat[e]
              /\ Finish(e, h)
              /\ UNCHANGED <<wire, task, streams, streams_stat, was_reset>>
        /\ UNCHANGED <<broken, next_stream_id, stream_receiver, control_cmds,
                       control_receiver, shutdown, acceptVars, data, written, got>>
    BY <1>a, <1>b, <1>c DEF OnResetStream
  <1>2. /\ task[e] = Select /\ task[e].at = "select" /\ stream_cmds[e] # <<>>
        /\ stream_cmds'[e] = Tail(stream_cmds[e]) /\ stream_cmds'[Other(e)] = stream_cmds[Other(e)]
        /\ CommandsOK(e, stream_cmds'[e], handle[e])
        /\ sid \in StreamID /\ sid \in Known(e) /\ sid \in DOMAIN handle[e] /\ handle[e][sid] = "resetting"
        /\ \A i \in DOMAIN stream_cmds'[e] : stream_cmds'[e][i].sid # sid
    BY <1>1, <1>a, TakeEffect
  <1>3. TypeInv'
    BY <1>0, TypeStreamCmd
  <1>4. /\ f \in Frames /\ TagOf(f) = "Reset" /\ SidOf(f) = sid
        /\ h \in Hands /\ h.status = "closed" /\ h.sid = sid
    <2>1. f \in Frames /\ TagOf(f) = "Reset" /\ SidOf(f) = sid
      BY <1>2, <1>b, FrameTypes, FrameRead, HandTypes DEF Tags
    <2>2. h \in Hands /\ h.status = "closed" /\ h.sid = sid
      BY <1>2, <1>c, HandTypes
    <2> QED
      BY <2>1, <2>2
  <1>5. HandOK(h, Known(e), handle[e], stream_cmds'[e])
    BY <1>2, <1>4 DEF HandOK
  <1>6. CASE RemoveStream(e, sid) /\ was_reset' = was_reset \cup {Stream(e, sid)} /\ SendFrame(e, f, h)
    <2>1. /\ streams'[Other(e)] = streams[Other(e)] /\ streams_stat'[e] = Remove(streams_stat[e], sid)
          /\ streams_stat'[Other(e)] = streams_stat[Other(e)]
      BY <1>0, <1>6, RemoveEffect
    <2>2. /\ \A s \in StreamID : /\ Writable(e, s)' => Writable(e, s)
                                 /\ s \in DOMAIN streams_stat'[e] => s \in DOMAIN streams_stat[e]
          /\ sid \notin DOMAIN streams_stat'[e]
      BY <2>1 DEF Writable, Remove
    <2>3. ~NotReset(e, sid)' /\ was_reset \subseteq was_reset'
      BY <1>6 DEF NotReset
    <2> QED
      BY <1>0, <1>1, <1>2, <1>3, <1>4, <1>5, <1>6, <2>1, <2>2, <2>3, CoreSend
  <1>7. CASE Finish(e, h) /\ UNCHANGED <<wire, task, streams, streams_stat, was_reset>>
    <2>1. /\ handle'[Other(e)] = handle[Other(e)]
          /\ handle'[e] = IF h.status = "none" THEN handle[e] ELSE Insert(handle[e], h.sid, h.status)
      BY <1>0, <1>4, <1>7, FinishEffect
    <2> QED
      BY <1>1, <1>2, <1>3, <1>4, <1>5, <1>7, <2>1, CoreTake
  <1> QED
    BY <1>1, <1>6, <1>7

LEMMA CoreTimeout ==
    ASSUME MplexInv, NEW e \in Ends, DeliverTimeout(e)
    PROVE  MplexInv'
  <1>a. PICK sid : sid = task[e].sid
    OBVIOUS
  <1>b. PICK f : f = Frame("Reset", sid, NoBody)
    OBVIOUS
  <1>0. TypeInv /\ CommandInv /\ DeliverInv /\ Other(e) # e /\ Other(e) \in Ends
    BY TheOther DEF MplexInv
  <1>1. /\ task[e].at = "deliver" /\ RemoveStream(e, sid) /\ was_reset' = was_reset \cup {Stream(e, sid)}
        /\ SendFrame(e, f, Nothing)
        /\ UNCHANGED <<broken, next_stream_id, chanVars, shutdown, acceptVars, data, written, got>>
    BY <1>a, <1>b DEF DeliverTimeout
  <1>2. /\ sid \in StreamID /\ sid \in Known(e) /\ f \in Frames /\ TagOf(f) = "Reset" /\ SidOf(f) = sid
        /\ Nothing \in Hands /\ Nothing.status = "none"
    BY <1>0, <1>1, <1>a, <1>b, TaskTypes, FrameTypes, FrameRead, HandTypes DEF Tags, DeliverInv
  <1>3. TypeInv'
    BY <1>0, TypeTimeout
  <1>4. HandOK(Nothing, Known(e), handle[e], stream_cmds'[e]) /\ CommandsOK(e, stream_cmds[e], handle[e])
    BY <1>0, <1>2 DEF HandOK, CommandInv
  <1>5. /\ streams'[Other(e)] = streams[Other(e)] /\ streams_stat'[e] = Remove(streams_stat[e], sid)
        /\ streams_stat'[Other(e)] = streams_stat[Other(e)]
    BY <1>0, <1>1, RemoveEffect
  <1>6. /\ \A s \in StreamID : /\ Writable(e, s)' => Writable(e, s)
                               /\ s \in DOMAIN streams_stat'[e] => s \in DOMAIN streams_stat[e]
        /\ sid \notin DOMAIN streams_stat'[e]
    BY <1>5 DEF Writable, Remove
  <1>7. ~NotReset(e, sid)' /\ was_reset \subseteq was_reset'
    BY <1>1 DEF NotReset
  <1>8. UNCHANGED <<stream_cmds, stream_receiver, control_receiver>>
    BY <1>1 DEF chanVars
  <1> QED
    BY <1>0, <1>1, <1>2, <1>3, <1>4, <1>5, <1>6, <1>7, <1>8, CoreSend

LEMMA CoreOpenStream ==
    ASSUME MplexInv, NEW e \in Ends, OnOpenStream(e)
    PROVE  MplexInv'
  <1>a. PICK sid : sid = [id |-> next_stream_id[e], initiator |-> TRUE]
    OBVIOUS
  <1>b. PICK f : f = Frame("NewStream", sid, NoBody)
    OBVIOUS
  <1>c. PICK h : h = [req |-> Head(control_cmds[e]), sid |-> sid, status |-> "open"]
    OBVIOUS
  <1>0. /\ TypeInv /\ FramesInv /\ OpenInv /\ CommandInv /\ SentInv /\ TablesInv
        /\ Other(e) # e /\ Other(e) \in Ends
    BY TheOther, TypeParts DEF MplexInv
  <1>1. /\ task[e].at = "select" /\ control_cmds[e] # <<>> /\ NewStream(e, sid) /\ SendFrame(e, f, h)
        /\ next_stream_id' = [next_stream_id EXCEPT ![e] = next_stream_id[e] + 1]
        /\ UNCHANGED <<broken, stream_cmds, stream_receiver, control_receiver, shutdown, acceptVars, was_reset>>
    BY <1>a, <1>b, <1>c DEF OnOpenStream, TakeControlCmd, Selecting, Select, NextId
  <1>2. next_stream_id[e] \in Nat /\ sid \in StreamID /\ sid.initiator
    BY <1>0, <1>a, NetTypes DEF StreamID
  <1>3. f \in Frames /\ TagOf(f) = "NewStream" /\ SidOf(f) = sid
    BY <1>2, <1>b, FrameTypes, FrameRead, HandTypes DEF Tags
  <1>4. h \in Hands /\ h.status = "open" /\ h.sid = sid
    <2>1. Head(control_cmds[e]) \in Requests
      BY <1>0, <1>1, ControlTypes
    <2> QED
      BY <1>2, <1>c, <2>1, HandTypes
  <1>5. /\ streams'[Other(e)] = streams[Other(e)]
        /\ streams_stat'[e] = Insert(streams_stat[e], sid, "Open") /\ streams_stat'[Other(e)] = streams_stat[Other(e)]
        /\ Known(e)' = Known(e) \cup {sid} /\ Known(Other(e))' = Known(Other(e))
    BY <1>0, <1>1, <1>2, NewStreamEffect
  <1>6. /\ Out(e)' = Append(Out(e), f) /\ Out(Other(e))' = Out(Other(e))
        /\ Running(e) /\ Running(e)' /\ Running(Other(e))' = Running(Other(e))
        /\ task'[Other(e)] = task[Other(e)]
    BY <1>0, <1>1, <1>3, <1>4, SendEffect
  <1>7. /\ handle'[Other(e)] = handle[Other(e)]
        /\ \/ task'[e].at = "write" /\ task'[e].hand = h /\ handle'[e] = handle[e]
           \/ /\ task'[e] = Select
              /\ handle'[e] = IF h.status = "none" THEN handle[e] ELSE Insert(handle[e], h.sid, h.status)
    <2>1. /\ handle'[Other(e)] = handle[Other(e)]
          /\ \/ task'[e] = [at |-> "write", frame |-> f, hand |-> h] /\ handle'[e] = handle[e]
             \/ /\ task'[e] = Select
                /\ handle'[e] = IF h.status = "none" THEN handle[e] ELSE Insert(handle[e], h.sid, h.status)
      BY <1>0, <1>1, <1>3, <1>4, SendHandle
    <2> QED
      BY <2>1
  <1>8. TypeInv'
    BY <1>0, TypeOpenStream
  <1>9. FramesInv' /\ OpenInv' /\ sid \notin Known(e)
    BY <1>0, <1>1, <1>3, <1>5, <1>6, <1>a, NetOpen
  <1>10. AcceptInv' /\ AcceptOrder' /\ HandInv' /\ PendingInv' /\ CommandInv' /\ StageInv' /\ DeliverInv'
    <2>1. sid \notin DOMAIN handle[e]
      BY <1>0, <1>9 DEF TablesInv, Tables, Known
    <2>2. HandOK(h, Known(e)', handle[e], stream_cmds'[e])
      BY <1>2, <1>4, <1>5, <2>1 DEF HandOK
    <2>3. CommandsOK(e, stream_cmds'[e], handle[e])
      BY <1>0, <1>1 DEF CommandInv
    <2>4. {s \in Known(e)' : ~s.initiator} = {s \in Known(e) : ~s.initiator}
      BY <1>2, <1>5
    <2> QED
      BY <1>1, <1>4, <1>5, <1>6, <1>7, <2>2, <2>3, <2>4, HandsOver
  <1>11. SentInv'
    <2>1. Out(e) \in Seq(Frames)
      BY <1>0, TaskTypes
    <2>2. \A tag, s : tag # "NewStream" /\ Sent(e, tag, s)' => Sent(e, tag, s)
      BY <1>3, <1>6, <2>1, HasStep DEF Sent
    <2>3. \A tag : ~Sent(e, tag, sid)
      BY <1>0, <1>9, SentKnown
    <2>4. \A s \in StreamID : /\ s # sid => (Writable(e, s)' <=> Writable(e, s))
                              /\ s # sid /\ s \in DOMAIN streams_stat'[e] => s \in DOMAIN streams_stat[e]
      BY <1>5 DEF Writable, Insert
    <2>5. \A s : NotReset(e, s)' <=> NotReset(e, s)
      BY <1>1 DEF NotReset
    <2>6. \A s \in StreamID :
              /\ Sent(e, "Close", s)' => ~Writable(e, s)'
              /\ Sent(e, "Reset", s)' => s \notin DOMAIN streams_stat'[e] /\ ~NotReset(e, s)'
      BY <1>0, <2>2, <2>3, <2>4, <2>5 DEF SentInv
    <2> QED
      BY <1>0, <1>1, <1>5, <1>6, <2>6, SentBoth
  <1> QED
    BY <1>8, <1>9, <1>10, <1>11 DEF MplexInv

LEMMA CoreAcceptStream ==
    ASSUME MplexInv, NEW e \in Ends, OnAcceptStream(e)
    PROVE  MplexInv'
  <1> DEFINE a == accepted[e]
             p == pending_streams[e]
  <1>a. PICK r : r = Head(control_cmds[e])
    OBVIOUS
  <1>b. PICK sid : sid = Head(p)
    OBVIOUS
  <1>0. /\ TypeInv /\ FramesInv /\ OpenInv /\ AcceptInv /\ AcceptOrder /\ HandInv /\ PendingInv /\ CommandInv
        /\ StageInv /\ SentInv /\ DeliverInv /\ Other(e) \in Ends /\ Other(e) # e
        /\ IdInv /\ RequestInv /\ TablesInv
    BY TheOther, TypeParts DEF MplexInv
  <1>1. /\ control_cmds[e] # <<>> /\ task[e] = Select
        /\ UNCHANGED <<socketVars, task, tableVars, stream_cmds, stream_receiver,
                       control_receiver, shutdown, data, historyVars>>
    BY DEF OnAcceptStream, TakeControlCmd, Selecting
  <1>2. r \in Requests
    BY <1>0, <1>1, <1>a, ControlTypes
  <1>3. \A x \in Ends : /\ Out(x)' = Out(x) /\ Running(x)' = Running(x)
                        /\ Known(x)' = Known(x) /\ task'[x] = task[x]
    BY <1>1 DEF Out, Running, Known, socketVars
  <1>4. TypeInv'
    BY <1>0, TypeAccept
  <1>5. FramesInv' /\ OpenInv'
    BY <1>0, <1>1, <1>3, NetSame DEF KnownSame, tableVars
  <1>6. SentInv'
    <2>1. \A x \in Ends : \A tag, s : Sent(x, tag, s)' = Sent(x, tag, s)
      BY <1>3 DEF Sent
    <2> QED
      BY <1>0, <1>1, <2>1 DEF SentInv, Writable, NotReset, tableVars, historyVars
  <1>7. DeliverInv' /\ Running(e)' /\ Running(e)
    BY <1>0, <1>1, <1>3 DEF DeliverInv, Running, Select
  <1>8. CASE UNCHANGED <<acceptVars, handle>>
    <2>1. AcceptInv' /\ AcceptOrder'
      BY <1>0, <1>3, <1>8, AcceptSame DEF KnownSame
    <2>2. HandInv' /\ PendingInv' /\ CommandInv'
      BY <1>0, <1>1, <1>3, <1>8 DEF HandInv, PendingInv, CommandInv, acceptVars
    <2>3. StageInv'
      BY <1>0, <1>1, <1>7, <1>8, StageRuns DEF StageInv, acceptVars, tableVars
    <2> QED
      BY <1>4, <1>5, <1>6, <1>7, <2>1, <2>2, <2>3 DEF MplexInv
  <1>9. CASE /\ waiting_stream_sender[e] = NoReq /\ p = <<>>
             /\ waiting_stream_sender' = [waiting_stream_sender EXCEPT ![e] = r]
             /\ UNCHANGED <<pending_streams, accepted, handle, reply>>
    <2>1. AcceptInv'
      BY <1>0, <1>3, <1>9 DEF AcceptInv
    <2>2. AcceptOrder'
      <3>1. OrderOK(accepted'[e], pending_streams'[e], waiting_stream_sender'[e])
        BY <1>0, <1>9 DEF AcceptOrder, OrderOK
      <3>2. waiting_stream_sender'[Other(e)] = waiting_stream_sender[Other(e)]
        BY <1>0, <1>9 DEF RequestInv
      <3> QED
        BY <1>0, <1>9, <3>1, <3>2, OrderBoth
    <2>3. HandInv' /\ PendingInv' /\ CommandInv'
      BY <1>0, <1>1, <1>3, <1>9 DEF HandInv, PendingInv, CommandInv
    <2>4. StageInv'
      BY <1>0, <1>1, <1>7, <1>9, StageRuns DEF StageInv, tableVars
    <2> QED
      BY <1>4, <1>5, <1>6, <1>7, <2>1, <2>2, <2>3, <2>4 DEF MplexInv
  <1>10. CASE /\ waiting_stream_sender[e] = NoReq /\ p # <<>>
              /\ pending_streams' = [pending_streams EXCEPT ![e] = Tail(@)]
              /\ accepted' = [accepted EXCEPT ![e] = Append(@, sid)]
              /\ Finish(e, [req |-> r, sid |-> sid, status |-> "open"])
              /\ UNCHANGED waiting_stream_sender
    <2>1. /\ pending_streams'[e] = Tail(p) /\ pending_streams'[Other(e)] = pending_streams[Other(e)]
          /\ accepted'[e] = Append(a, sid) /\ accepted'[Other(e)] = accepted[Other(e)]
      BY <1>0, <1>10 DEF IdInv
    <2>2. a \in Seq(StreamID) /\ p \in Seq(StreamID) /\ OrderOK(a, p, NoReq)
      BY <1>0, <1>10 DEF IdInv, AcceptOrder, OrderOK
    <2>3. /\ \A i \in DOMAIN p : /\ p[i] \in Known(e) /\ p[i] \notin DOMAIN handle[e]
                                 /\ \A j \in DOMAIN p : p[j] = p[i] => i = j
      BY <1>0, PendingOther DEF PendingInv
    <2>4. Running(e) => {s \in Known(e) : ~s.initiator} = Numbered(Len(a) + Len(p), FALSE)
      BY <1>0 DEF AcceptInv
    <2> HIDE DEF a, p
    <2>5. /\ sid \in StreamID /\ 1 \in DOMAIN p /\ p[1] = sid /\ Len(a) \in Nat /\ Len(p) \in Nat
          /\ Len(Append(a, sid)) = Len(a) + 1 /\ Len(Tail(p)) = Len(p) - 1
          /\ \A i \in DOMAIN Tail(p) : i + 1 \in DOMAIN p /\ Tail(p)[i] = p[i + 1] /\ i + 1 # 1
      BY <1>10, <1>b, <2>2
    <2>6. [req |-> r, sid |-> sid, status |-> "open"] \in Hands
      BY <1>2, <2>5, HandTypes
    <2>7. handle'[Other(e)] = handle[Other(e)] /\ handle'[e] = Insert(handle[e], sid, "open")
      BY <1>0, <1>10, <2>6, FinishEffect
    <2>8. AcceptInv'
      <3>1. Len(accepted'[e]) + Len(pending_streams'[e]) = Len(a) + Len(p)
        <4>1. Len(a) \in Nat /\ Len(p) \in Nat /\ Len(accepted'[e]) = Len(a) + 1 /\ Len(pending_streams'[e]) = Len(p) - 1
          BY <2>1, <2>5
        <4> QED
          BY <4>1
      <3> QED
        BY <1>0, <1>3, <2>1, <2>4, <3>1, AcceptBoth
    <2>9. AcceptOrder'
      <3>1. OrderOK(Append(a, Head(p)), Tail(p), NoReq)
        BY <1>10, <2>2, OrderTake
      <3>2. OrderOK(accepted'[e], pending_streams'[e], waiting_stream_sender'[e])
        BY <1>10, <1>b, <2>1, <3>1
      <3> QED
        BY <1>0, <1>10, <2>1, <3>2, OrderBoth
    <2>10. HandInv'
      BY <1>0, <1>1, <1>3, <2>7, HandBoth DEF Select
    <2>11. PendingInv'
      <3>1. \A i \in DOMAIN Tail(p) : Tail(p)[i] \in Known(e) /\ Tail(p)[i] \notin DOMAIN handle[e] /\ Tail(p)[i] # sid
        BY <2>3, <2>5
      <3>2. \A i \in DOMAIN pending_streams'[e] :
               pending_streams'[e][i] \in Known(e)' /\ pending_streams'[e][i] \notin DOMAIN handle'[e]
        BY <1>3, <2>1, <2>7, <3>1 DEF Insert
      <3> QED
        BY <1>0, <1>3, <2>1, <2>7, <3>2, PendingBoth
    <2>12. CommandInv'
      <3>1. CommandsOK(e, stream_cmds[e], handle[e])
        BY <1>0 DEF CommandInv
      <3>2. sid \notin DOMAIN handle[e]
        BY <2>3, <2>5
      <3>3. \A i \in DOMAIN stream_cmds[e] : stream_cmds[e][i].sid # sid
        BY <3>1, <3>2 DEF CommandsOK
      <3>4. CommandsOK(e, stream_cmds[e], Insert(handle[e], sid, "open"))
        BY <3>1, <3>3, CommandsHand
      <3>5. CommandsOK(e, stream_cmds'[e], handle'[e])
        BY <1>1, <2>7, <3>4
      <3> QED
        BY <1>0, <1>1, <2>7, <3>5, CommandBoth
    <2>13. StageInv'
      BY <1>0, <1>1, <1>7, <2>1, StageRuns DEF StageInv, tableVars
    <2> QED
      BY <1>4, <1>5, <1>6, <1>7, <2>8, <2>9, <2>10, <2>11, <2>12, <2>13 DEF MplexInv
  <1> QED
    BY <1>8, <1>9, <1>10, <1>a, <1>b DEF OnAcceptStream
-----------------------------------------------------------------------------
(* The theorems. *)

LEMMA CoreInit ==
    ASSUME Init
    PROVE  MplexInv
  <1>1. /\ \A e \in Ends : /\ task[e] = Select /\ task[e].at = "select" /\ Out(e) = <<>> /\ Known(e) = {}
                           /\ Running(e) /\ next_stream_id[e] = 0 /\ wire[e] = <<>>
    BY DEF Init, Out, Known, Running, Select, Empty
  <1>2. TypeInv
    <2>1. Select \in TaskStates /\ <<>> \in Seq(Frames) /\ <<>> \in Seq(Commands) /\ <<>> \in Seq(Requests)
          /\ <<>> \in Seq(StreamID) /\ 0 \in 0 .. MaxId
      BY MaxIdAssumption DEF TaskStates
    <2>2. SocketInv /\ ChannelInv /\ RequestInv /\ IdInv /\ DomInv
      BY <2>1 DEF Init, SocketInv, ChannelInv, RequestInv, IdInv, DomInv, Replies
    <2>3. TablesInv
      BY DEF Init, TablesInv, Tables, Empty
    <2> QED
      BY <2>2, <2>3, TypeParts
  <1>3. FramesInv
    BY <1>1 DEF FramesInv, FramesOK
  <1>4. OpenInv
    <2> SUFFICES ASSUME NEW e \in Ends
                 PROVE  OpenOK(<<>>, 0, Running(e), {}, {})
      BY <1>1, TheOther DEF OpenInv
    <2>1. Numbered(0, TRUE) = {} /\ Numbered(0, FALSE) = {}
      BY DEF Numbered
    <2>2. Counts(NewVals(<<>>), 0, 0)
      BY DEF Counts, NewVals, Within, Rising, Reached
    <2> QED
      <3>1. 0 \in 0 .. 0 /\ {s \in {} : s.initiator} = {} /\ {s \in {} : ~s.initiator} = {}
        OBVIOUS
      <3> QED
        BY <2>1, <2>2, <3>1 DEF OpenOK
  <1>5. AcceptInv
    <2>1. Numbered(0, FALSE) = {}
      BY DEF Numbered
    <2>2. \A e \in Ends : Len(accepted[e]) + Len(pending_streams[e]) = 0
      BY DEF Init
    <2> QED
      BY <1>1, <2>1, <2>2 DEF AcceptInv
  <1>6. AcceptOrder
    BY DEF Init, AcceptOrder
  <1>7. HandInv /\ DeliverInv
    BY <1>1 DEF HandInv, DeliverInv
  <1>8. PendingInv /\ CommandInv
    BY DEF Init, PendingInv, CommandInv, CommandsOK
  <1>9. StageInv
    BY <1>1 DEF Init, StageInv
  <1>10. SentInv
    BY <1>1 DEF SentInv, Sent, Has
  <1> QED
    BY <1>2, <1>3, <1>4, <1>5, <1>6, <1>7, <1>8, <1>9, <1>10 DEF MplexInv

LEMMA CoreSame ==
    ASSUME MplexInv, UNCHANGED vars
    PROVE  MplexInv'
  <1>0. /\ TypeInv /\ FramesInv /\ OpenInv /\ AcceptInv /\ AcceptOrder /\ HandInv /\ PendingInv /\ CommandInv
        /\ StageInv /\ SentInv /\ DeliverInv
    BY DEF MplexInv
  <1>1. UNCHANGED <<wire, broken, task, next_stream_id, streams, streams_stat, stream_cmds, stream_receiver,
                    control_cmds, control_receiver, shutdown, waiting_stream_sender, pending_streams, data,
                    handle, reply, written, got, accepted, was_reset>>
    BY DEF vars, socketVars, tableVars, chanVars, acceptVars, historyVars
  <1>2. \A x \in Ends : Out(x)' = Out(x) /\ Running(x)' = Running(x) /\ Known(x)' = Known(x)
    BY <1>1 DEF Out, Running, Known
  <1>3. TypeInv'
    BY <1>0, <1>1 DEF TypeInv, TypeOK, DomInv
  <1>4. FramesInv' /\ OpenInv'
    BY <1>0, <1>1, <1>2, NetSame DEF KnownSame
  <1>5. AcceptInv' /\ AcceptOrder' /\ HandInv' /\ PendingInv' /\ CommandInv' /\ DeliverInv'
    BY <1>0, <1>1, <1>2 DEF AcceptInv, AcceptOrder, HandInv, PendingInv, CommandInv, DeliverInv
  <1>6. StageInv'
    BY <1>0, <1>1, <1>2, TheOther DEF StageInv
  <1>7. SentInv'
    <2>1. \A x \in Ends : \A tag, s : Sent(x, tag, s)' = Sent(x, tag, s)
      BY <1>2 DEF Sent
    <2> QED
      BY <1>0, <1>1, <2>1 DEF SentInv, Writable, NotReset
  <1> QED
    BY <1>3, <1>4, <1>5, <1>6, <1>7 DEF MplexInv

LEMMA CoreStep ==
    ASSUME MplexInv, Next
    PROVE  MplexInv'
  <1>1. ASSUME NEW e \in Ends, Connection(e) PROVE MplexInv'
    <2>1. \/ Quiet(e) \/ Reads(e) \/ Ends1(e)
          \/ OnNewStream(e) \/ WriteDone(e) \/ OnSendFrame(e) \/ OnCloseStream(e) \/ OnResetStream(e)
          \/ DeliverTimeout(e) \/ OnOpenStream(e) \/ OnAcceptStream(e)
      BY <1>1 DEF Connection, OnFrame, OnStreamCommand, OnControlCommand, Quiet, Reads, Ends1
    <2> QED
      BY <1>1, <2>1, CoreQuiet, CoreReads, CoreEnds, CoreNewStream, CoreWriteDone, CoreSendFrame, CoreCloseStream,
         CoreResetStream, CoreTimeout, CoreOpenStream, CoreAcceptStream
  <1>2. ASSUME NEW r \in Requests, Call(r) PROVE MplexInv'
    <2>1. "A" \in Ends /\ Quiet("A")
      BY <1>2 DEF Quiet, Ends
    <2> QED
      BY <2>1, CoreQuiet
  <1>3. ASSUME NEW e \in Ends, NEW sid, Use(e, sid) PROVE MplexInv'
    BY <1>3, CoreUse
  <1>4. CASE Break
    <2>1. "A" \in Ends /\ Quiet("A")
      BY <1>4 DEF Quiet, Ends
    <2> QED
      BY <2>1, CoreQuiet
  <1> QED
    BY <1>1, <1>2, <1>3, <1>4 DEF Next, Application, Use

LEMMA CoreHolds == Spec => []MplexInv
  BY CoreInit, CoreStep, CoreSame, PTL DEF Spec

\* Every table, channel and frame of both ends keeps its type, and the tables of an end
\* agree on which streams there are: the state of a stream, its Stream, its data channel.
THEOREM MplexTypeCorrect == Spec => []TypeOK
  <1>1. MplexInv => TypeOK
    BY DEF MplexInv, TypeInv
  <1> QED
    BY <1>1, CoreHolds, PTL

\* on_frame never meets a NewStream for an id it knows, and accept_stream hands the streams
\* out in the order in which the other end opened them, each once.
THEOREM MplexAcceptsInOrder == Spec => []AcceptedInOrder
  <1>1. MplexInv => AcceptedInOrder
    <2> SUFFICES ASSUME MplexInv PROVE AcceptOrder /\ NewStreamIsNew
      BY DEF AcceptedInOrder
    <2>1. AcceptOrder /\ TypeInv /\ FramesInv /\ OpenInv
      BY DEF MplexInv
    <2>2. NewStreamIsNew
      <3> SUFFICES ASSUME NEW e \in Ends, wire[Other(e)] # <<>>,
                          decode(Head(wire[Other(e)]).hdr).tag = "NewStream"
                   PROVE  decode(Head(wire[Other(e)]).hdr).sid \notin DOMAIN data[e]
        BY DEF NewStreamIsNew
      <3> DEFINE o == Other(e)
                 s == Out(o)
      <3>1. o \in Ends /\ Other(o) = e
        BY TheOther
      <3>2. s \in Seq(Frames) /\ s # <<>> /\ Head(s) = Head(wire[o])
        <4>1. wire[o] \in Seq(Frames) /\ Out(o) \in Seq(Frames) /\ (task[o].at = "write" => task[o].frame \in Frames)
          BY <2>1, <3>1, TaskTypes
        <4>2. CASE task[o].at = "write"
          <5> DEFINE w == wire[o]
                     f == task[o].frame
          <5>1. w \in Seq(Frames) /\ f \in Frames /\ w # <<>> /\ s = Append(w, f)
            BY <4>1, <4>2 DEF Out
          <5> HIDE DEF w, f, s
          <5>2. Append(w, f) # <<>> /\ Head(Append(w, f)) = Head(w)
            BY <5>1
          <5> QED
            BY <4>1, <5>1, <5>2 DEF w, s
        <4>3. CASE task[o].at # "write"
          BY <4>1, <4>3 DEF Out
        <4> QED
          BY <4>2, <4>3
      <3>3. Head(s) \in Frames
        BY <3>2
      <3>4. /\ TagOf(Head(s)) = "NewStream" /\ SidOf(Head(s)) \in StreamID
            /\ Flip(SidOf(Head(s))) = decode(Head(wire[o]).hdr).sid
        BY <3>2, <3>3, DecodedTypes DEF TagOf
      <3>5. /\ FramesOK(o, s, Known(o), Known(e))
            /\ OpenOK(s, next_stream_id[o], Running(o), Known(o), Known(e))
        BY <2>1, <3>1, NetNow
      <3>6. SidOf(Head(s)).initiator
        <4>1. 1 \in DOMAIN s /\ s[1] = Head(s)
          BY <3>2
        <4> QED
          BY <3>4, <3>5, <4>1 DEF FramesOK
      <3>7. next_stream_id[o] \in Nat /\ Known(e) \in SUBSET StreamID
        BY <2>1, <3>1, NetTypes
      <3> HIDE DEF s
      <3>8. Flip(SidOf(Head(s))) \notin Known(e)
        BY <3>2, <3>4, <3>5, <3>6, <3>7, OpenReadNew
      <3> QED
        BY <3>4, <3>8 DEF Known
    <2> QED
      BY <2>1, <2>2
  <1> QED
    BY <1>1, CoreHolds, PTL
-----------------------------------------------------------------------------
(* The tables mirror each other. *)

LEMMA OpenNotYet ==
    ASSUME NEW e, NEW s \in Seq(Frames), NEW n \in Nat, NEW run, NEW K, NEW L \in SUBSET StreamID,
           FramesOK(e, s, K, L), OpenOK(s, n, run, K, L), NEW sid \in StreamID, Has(s, "NewStream", sid)
    PROVE  Flip(sid) \notin L /\ sid.initiator
  <1>1. PICK lo, hi \in 0 .. n : OpenAt(s, n, run, K, L, lo, hi)
    BY OpenIs
  <1>2. PICK i \in DOMAIN s : TagOf(s[i]) = "NewStream" /\ SidOf(s[i]) = sid
    BY DEF Has
  <1>3. sid.initiator /\ i \in 1 .. Len(s) /\ Len(s) \in Nat /\ sid.id \in Nat /\ lo \in Nat
    BY <1>2 DEF FramesOK, StreamID
  <1>4. NewVals(s) \in Seq(Nat) /\ Len(NewVals(s)) = Len(s) /\ NewVals(s)[i] = sid.id + 1
    BY <1>2, <1>3, NewValsStep DEF NewVals, NewVal
  <1>5. lo < sid.id + 1
    BY <1>1, <1>3, <1>4 DEF OpenAt, Counts, Within
  <1>6. Flip(sid) \in StreamID /\ Flip(sid).id = sid.id /\ ~Flip(sid).initiator
    BY <1>3, FlipFlip
  <1>7. Flip(sid) \notin Numbered(lo, FALSE)
    <2>1. ~(Flip(sid).id < lo)
      BY <1>3, <1>5, <1>6
    <2> QED
      BY <1>3, <1>6, <2>1, InNumbered
  <1> QED
    BY <1>1, <1>3, <1>6, <1>7 DEF OpenAt

\* The end that will read that a stream was opened has sent nothing of it.
LEMMA NewOnWay ==
    ASSUME TypeInv, FramesInv, OpenInv, NEW e \in Ends, NEW sid \in StreamID, Sent(e, "NewStream", sid)
    PROVE  /\ sid.initiator /\ Flip(sid) \notin Known(Other(e))
           /\ \A tag : ~Sent(Other(e), tag, Flip(sid))
           /\ StatOf(Other(e), Flip(sid)) = "none"
  <1>1. Out(e) \in Seq(Frames) /\ next_stream_id[e] \in Nat /\ Known(Other(e)) \in SUBSET StreamID /\ Other(e) \in Ends
    BY TaskTypes, NetTypes, TheOther
  <1>2. FramesOK(e, Out(e), Known(e), Known(Other(e)))
        /\ OpenOK(Out(e), next_stream_id[e], Running(e), Known(e), Known(Other(e)))
    BY NetNow
  <1>3. Flip(sid) \notin Known(Other(e)) /\ sid.initiator
    BY <1>1, <1>2, OpenNotYet DEF Sent
  <1>4. DOMAIN streams_stat[Other(e)] \subseteq Known(Other(e))
    BY <1>1, TypeParts DEF TablesInv, Tables, Known
  <1> QED
    BY <1>1, <1>3, <1>4, SentKnown DEF StatOf

\* Both views of a stream.
PairOK(e, o, sid) == HalfOK(e, o, sid, Flip(sid)) /\ HalfOK(o, e, Flip(sid), sid)

LEMMA MirrorNow ==
    ASSUME MirrorInv, BothRun, NEW e \in Ends, NEW sid \in StreamID
    PROVE  PairOK(e, Other(e), sid)
  <1>1. Other(e) \in Ends /\ Other(Other(e)) = e /\ Flip(sid) \in StreamID /\ Flip(Flip(sid)) = sid
    BY TheOther, FlipFlip
  <1>2. HalfOK(e, Other(e), sid, Flip(sid)) /\ HalfOK(Other(e), Other(Other(e)), Flip(sid), Flip(Flip(sid)))
    BY <1>1 DEF MirrorInv
  <1> QED
    BY <1>1, <1>2 DEF PairOK

LEMMA MirrorBoth ==
    ASSUME NEW e \in Ends, ASSUME BothRun', NEW sid \in StreamID PROVE PairOK(e, Other(e), sid)'
    PROVE  MirrorInv'
  <1> SUFFICES ASSUME BothRun', NEW x \in Ends, NEW sid \in StreamID
               PROVE  HalfOK(x, Other(x), sid, Flip(sid))'
    BY DEF MirrorInv
  <1>1. CASE x = e
    BY <1>1 DEF PairOK
  <1>2. CASE x = Other(e)
    <2>1. Flip(sid) \in StreamID /\ Flip(Flip(sid)) = sid /\ Other(x) = e
      BY <1>2, TheOther, FlipFlip
    <2>2. PairOK(e, Other(e), Flip(sid))'
      BY <2>1
    <2>3. HalfOK(Other(e), e, Flip(Flip(sid)), Flip(sid))'
      BY <2>2 DEF PairOK
    <2> QED
      BY <1>2, <2>1, <2>3
  <1> QED
    BY <1>1, <1>2, TheOther

\* A stream whose state and whose frames stay as they are.
LEMMA PairSame ==
    ASSUME NEW e, NEW o, NEW sid, PairOK(e, o, sid),
           StatOf(e, sid)' = StatOf(e, sid), StatOf(o, Flip(sid))' = StatOf(o, Flip(sid)),
           \A tag \in {"NewStream", "Close", "Reset"} :
              /\ Sent(e, tag, sid)' <=> Sent(e, tag, sid)
              /\ Sent(o, tag, Flip(sid))' <=> Sent(o, tag, Flip(sid))
    PROVE  PairOK(e, o, sid)'
  BY DEF PairOK, HalfOK

LEMMA MirrorSame ==
    ASSUME MirrorInv, streams_stat' = streams_stat,
           \A x \in Ends : Out(x)' = Out(x) /\ (Running(x)' => Running(x))
    PROVE  MirrorInv'
  <1>1. "A" \in Ends /\ Other("A") \in Ends
    BY DEF Ends, Other
  <1>2. \A x \in Ends : \A tag, s : Sent(x, tag, s)' <=> Sent(x, tag, s)
    BY DEF Sent
  <1>3. \A x, s : StatOf(x, s)' = StatOf(x, s)
    BY DEF StatOf
  <1>4. ASSUME BothRun', NEW sid \in StreamID PROVE PairOK("A", Other("A"), sid)'
    <2>1. BothRun
      BY <1>4 DEF BothRun
    <2>2. PairOK("A", Other("A"), sid)
      BY <1>1, <2>1, MirrorNow
    <2> QED
      BY <1>1, <1>2, <1>3, <2>2, PairSame
  <1> QED
    BY <1>1, <1>4, MirrorBoth

LEMMA StatTypes ==
    ASSUME TypeInv, NEW e \in Ends, NEW sid
    PROVE  StatOf(e, sid) \in {"none", "Open", "SendClosed", "RecvClosed"}
  BY TypeParts DEF TablesInv, Tables, StatOf, State

LEMMA SentStat ==
    ASSUME TypeInv, SentInv, NEW e \in Ends, NEW sid \in StreamID
    PROVE  /\ Sent(e, "Close", sid) => StatOf(e, sid) \in {"none", "SendClosed"}
           /\ Sent(e, "Reset", sid) => StatOf(e, sid) = "none"
           /\ Writable(e, sid) <=> StatOf(e, sid) \in {"Open", "RecvClosed"}
  <1>1. sid \in DOMAIN streams_stat[e] => streams_stat[e][sid] \in State
    BY TypeParts DEF TablesInv, Tables
  <1> QED
    BY <1>1 DEF SentInv, Writable, StatOf, can_write, State

\* Nothing but a Reset comes after a Close.
LEMMA CloseOnce ==
    ASSUME NEW e, NEW s \in Seq(Frames), NEW K, NEW L, FramesOK(e, s, K, L), s # <<>>, TagOf(Head(s)) = "Close",
           NEW tag, tag # "Reset"
    PROVE  ~Has(Tail(s), tag, SidOf(Head(s)))
  <1>1. SUFFICES ASSUME NEW i \in DOMAIN Tail(s), TagOf(Tail(s)[i]) = tag, SidOf(Tail(s)[i]) = SidOf(Head(s))
                 PROVE  FALSE
    BY DEF Has
  <1>2. /\ 1 \in DOMAIN s /\ s[1] = Head(s) /\ i + 1 \in 1 + 1 .. Len(s) /\ Tail(s)[i] = s[i + 1]
    OBVIOUS
  <1>3. \A j \in 1 + 1 .. Len(s) : SidOf(s[j]) = SidOf(s[1]) => TagOf(s[j]) = "Reset"
    BY <1>2 DEF FramesOK
  <1> QED
    BY <1>1, <1>2, <1>3

\* The stream of the next frame.
LEMMA HeadFacts ==
    ASSUME TypeInv, FramesInv, OpenInv, NEW e \in Ends, Out(Other(e)) # <<>>, NEW sid \in StreamID,
           SidOf(Head(Out(Other(e)))) = Flip(sid), TagOf(Head(Out(Other(e)))) # "NewStream"
    PROVE  /\ sid \in Known(e) /\ Flip(sid) \in Known(Other(e)) /\ Flip(sid) \in StreamID
           /\ ~Sent(Other(e), "NewStream", Flip(sid)) /\ ~Sent(e, "NewStream", sid)
           /\ Sent(Other(e), TagOf(Head(Out(Other(e)))), Flip(sid))
           /\ TagOf(Head(Out(Other(e)))) = "Close" =>
                 \A tag : tag # "Reset" => ~Has(Tail(Out(Other(e))), tag, Flip(sid))
  <1> DEFINE o == Other(e)
             s == Out(o)
  <1>1. o \in Ends /\ Other(o) = e /\ Flip(sid) \in StreamID /\ Flip(Flip(sid)) = sid
    BY TheOther, FlipFlip
  <1>2. s \in Seq(Frames) /\ FramesOK(o, s, Known(o), Known(e))
    BY <1>1, TaskTypes, NetNow
  <1>3. 1 \in DOMAIN s /\ s[1] = Head(s)
    BY <1>2
  <1>4. Flip(sid) \in Known(o) /\ sid \in Known(e)
    <2>1. /\ SidOf(s[1]) \in Known(o)
          /\ \/ Flip(SidOf(s[1])) \in Known(e)
             \/ \E j \in 1 .. 1 - 1 : TagOf(s[j]) = "NewStream" /\ SidOf(s[j]) = SidOf(s[1])
      BY <1>2, <1>3 DEF FramesOK
    <2>2. \A j : j \notin 1 .. 1 - 1
      OBVIOUS
    <2> QED
      BY <1>1, <1>3, <2>1, <2>2
  <1>5. ~Sent(o, "NewStream", Flip(sid)) /\ ~Sent(e, "NewStream", sid)
    <2>1. Sent(o, "NewStream", Flip(sid)) => Flip(Flip(sid)) \notin Known(Other(o))
      BY <1>1, NewOnWay
    <2>2. Sent(e, "NewStream", sid) => Flip(sid) \notin Known(o)
      BY NewOnWay
    <2> QED
      BY <1>1, <1>4, <2>1, <2>2
  <1>6. Sent(o, TagOf(Head(s)), Flip(sid))
    BY <1>3 DEF Sent, Has
  <1>7. TagOf(Head(s)) = "Close" => \A tag : tag # "Reset" => ~Has(Tail(s), tag, Flip(sid))
    <2> HIDE DEF s
    <2>1. SidOf(Head(s)) = Flip(sid)
      BY DEF s
    <2> QED
      BY <1>2, <2>1, CloseOnce DEF s
  <1> QED
    BY <1>1, <1>4, <1>5, <1>6, <1>7

LEMMA MirrorReads ==
    ASSUME MplexInv, MirrorInv, NEW e \in Ends, Reads(e)
    PROVE  MirrorInv'
  <1>a. PICK o : o = Other(e)
    OBVIOUS
  <1>b. PICK sid : sid = Received(e)
    OBVIOUS
  <1>c. PICK t : t = TagOf(Head(Out(o)))
    OBVIOUS
  <1>0. TypeInv /\ FramesInv /\ OpenInv /\ SentInv /\ o \in Ends /\ Other(o) = e
    BY <1>a, TheOther DEF MplexInv
  <1>1. /\ Out(e)' = Out(e) /\ Out(o) # <<>> /\ Out(o)' = Tail(Out(o))
        /\ Running(e) /\ Running(e)' /\ Running(o)' = Running(o)
        /\ SidOf(Head(Out(o))) = Flip(sid) /\ sid \in StreamID
        /\ t = "Close" <=> OnClose(e)
        /\ t = "Reset" <=> OnReset(e)
        /\ t # "NewStream"
        /\ streams_stat'[o] = streams_stat[o]
    BY <1>0, <1>a, <1>b, <1>c, ReadsEffect
  <1>2. /\ ~OnClose(e) /\ ~OnReset(e) => streams_stat'[e] = streams_stat[e]
        /\ OnClose(e) => streams_stat'[e] =
              (IF sid \notin DOMAIN streams_stat[e] THEN streams_stat[e]
               ELSE IF streams_stat[e][sid] = "SendClosed" THEN Remove(streams_stat[e], sid)
               ELSE [streams_stat[e] EXCEPT ![sid] = "RecvClosed"])
        /\ OnReset(e) => streams_stat'[e] = Remove(streams_stat[e], sid)
    BY <1>0, <1>b, ReadsStat
  <1>3. /\ Flip(sid) \in StreamID /\ Flip(sid) \in Known(o)
        /\ ~Sent(o, "NewStream", Flip(sid)) /\ ~Sent(e, "NewStream", sid)
        /\ Sent(o, t, Flip(sid))
        /\ t = "Close" => ~Has(Tail(Out(o)), "Close", Flip(sid))
    BY <1>0, <1>1, <1>a, <1>c, HeadFacts
  <1>4. /\ \A s : StatOf(o, s)' = StatOf(o, s)
        /\ \A s : s # sid => StatOf(e, s)' = StatOf(e, s)
        /\ t \notin {"Close", "Reset"} => StatOf(e, sid)' = StatOf(e, sid)
        /\ t = "Close" => StatOf(e, sid)' = IF StatOf(e, sid) \in {"none", "SendClosed"} THEN "none" ELSE "RecvClosed"
        /\ t = "Reset" => StatOf(e, sid)' = "none"
    <2>1. \A s : StatOf(o, s)' = StatOf(o, s)
      BY <1>1 DEF StatOf
    <2>2. CASE t \notin {"Close", "Reset"}
      <3>1. streams_stat'[e] = streams_stat[e]
        BY <1>1, <1>2, <2>2
      <3> QED
        BY <2>1, <2>2, <3>1 DEF StatOf
    <2>3. CASE t = "Reset"
      <3>1. streams_stat'[e] = Remove(streams_stat[e], sid)
        BY <1>1, <1>2, <2>3
      <3> QED
        BY <2>1, <2>3, <3>1 DEF StatOf, Remove
    <2>4. CASE t = "Close"
      <3>1. CASE streams_stat'[e] = streams_stat[e] /\ sid \notin DOMAIN streams_stat[e]
        BY <2>1, <2>4, <3>1 DEF StatOf
      <3>2. CASE streams_stat'[e] = Remove(streams_stat[e], sid) /\ sid \in DOMAIN streams_stat[e]
                 /\ streams_stat[e][sid] = "SendClosed"
        BY <2>1, <2>4, <3>2 DEF StatOf, Remove
      <3>3. CASE streams_stat'[e] = [streams_stat[e] EXCEPT ![sid] = "RecvClosed"] /\ sid \in DOMAIN streams_stat[e]
                 /\ streams_stat[e][sid] # "SendClosed"
        <4>1. StatOf(e, sid) # "none"
          BY <1>0, <3>3, TypeParts DEF StatOf, TablesInv, Tables, State
        <4>2. StatOf(e, sid)' = "RecvClosed" /\ StatOf(e, sid) # "SendClosed"
          BY <3>3 DEF StatOf
        <4>3. \A s : s # sid => StatOf(e, s)' = StatOf(e, s)
          BY <3>3 DEF StatOf
        <4> QED
          BY <2>1, <2>4, <4>1, <4>2, <4>3
      <3> QED
        BY <1>1, <1>2, <2>4, <3>1, <3>2, <3>3
    <2> QED
      BY <2>2, <2>3, <2>4
  <1>5. /\ \A tag, s : Sent(e, tag, s)' <=> Sent(e, tag, s)
        /\ \A tag, s : (tag # t \/ s # Flip(sid)) => (Sent(o, tag, s)' <=> Sent(o, tag, s))
        /\ t = "Close" => ~Sent(o, "Close", Flip(sid))'
    <2>1. Out(o) \in Seq(Frames)
      BY <1>0, TaskTypes
    <2>2. \A tag, s : Has(Out(o), tag, s) <=> Has(Tail(Out(o)), tag, s)
                                              \/ (TagOf(Head(Out(o))) = tag /\ SidOf(Head(Out(o))) = s)
      BY <1>1, <2>1, HasStep
    <2>3. \A tag, s : (tag # t \/ s # Flip(sid)) => (Sent(o, tag, s)' <=> Sent(o, tag, s))
      BY <1>1, <1>c, <2>2 DEF Sent
    <2>4. t = "Close" => ~Sent(o, "Close", Flip(sid))'
      BY <1>1, <1>3 DEF Sent
    <2>5. \A tag, s : Sent(e, tag, s)' <=> Sent(e, tag, s)
      BY <1>1 DEF Sent
    <2> QED
      BY <2>3, <2>4, <2>5
  <1>6. ASSUME BothRun', NEW s \in StreamID PROVE PairOK(e, o, s)'
    <2>1. BothRun
      BY <1>1, <1>6, <1>a, TheOther DEF BothRun
    <2>2. PairOK(e, o, s)
      BY <2>1, <1>a, MirrorNow
    <2>3. CASE s # sid
      <3>1. Flip(s) # Flip(sid)
        BY <1>1, <2>3, FlipFlip
      <3> QED
        BY <1>4, <1>5, <2>2, <2>3, <3>1, PairSame
    <2>4. CASE s = sid /\ t \notin {"Close", "Reset"}
      BY <1>1, <1>4, <1>5, <2>2, <2>4, PairSame
    <2>5. CASE s = sid /\ t = "Close"
      <3>1. /\ StatOf(e, sid) \in {"none", "Open", "SendClosed", "RecvClosed"}
            /\ StatOf(o, Flip(sid)) \in {"none", "SendClosed"}
        BY <1>0, <1>3, <2>5, StatTypes, SentStat
      <3>2. /\ \A tag \in {"NewStream", "Reset"} : Sent(o, tag, Flip(sid))' <=> Sent(o, tag, Flip(sid))
            /\ ~Sent(o, "Close", Flip(sid))'
        BY <1>5, <2>5
      <3> QED
        BY <1>3, <1>4, <1>5, <2>2, <2>5, <3>1, <3>2 DEF PairOK, HalfOK
    <2>6. CASE s = sid /\ t = "Reset"
      <3>1. StatOf(o, Flip(sid)) = "none"
        BY <1>0, <1>3, <2>6, SentStat
      <3>2. \A tag \in {"NewStream", "Close"} : Sent(o, tag, Flip(sid))' <=> Sent(o, tag, Flip(sid))
        BY <1>5, <2>6
      <3> QED
        BY <1>3, <1>4, <1>5, <2>2, <2>6, <3>1, <3>2 DEF PairOK, HalfOK
    <2> QED
      BY <2>3, <2>4, <2>5, <2>6
  <1> QED
    BY <1>6, <1>a, MirrorBoth

\* A frame of a stream that was opened before.
LEMMA MirrorSend ==
    ASSUME TypeInv, MirrorInv, NEW e \in Ends, NEW f \in Frames, NEW sid \in StreamID, SidOf(f) = sid,
           Out(e)' = Append(Out(e), f), Out(Other(e))' = Out(Other(e)),
           Running(e), Running(Other(e))' = Running(Other(e)),
           streams_stat'[Other(e)] = streams_stat[Other(e)],
           \A s \in StreamID : s # sid => StatOf(e, s)' = StatOf(e, s),
           \/ TagOf(f) = "Message" /\ StatOf(e, sid)' = StatOf(e, sid)
           \/ TagOf(f) = "Close" /\ StatOf(e, sid) = "Open" /\ StatOf(e, sid)' = "SendClosed"
           \/ TagOf(f) = "Close" /\ StatOf(e, sid) = "RecvClosed" /\ StatOf(e, sid)' = "none"
           \/ TagOf(f) = "Reset" /\ StatOf(e, sid)' = "none"
    PROVE  MirrorInv'
  <1>a. PICK o : o = Other(e)
    OBVIOUS
  <1>b. PICK t : t = TagOf(f)
    OBVIOUS
  <1>0. o \in Ends /\ Other(o) = e
    BY <1>a, TheOther
  <1>1. \A s : StatOf(o, s)' = StatOf(o, s)
    BY <1>a DEF StatOf
  <1>2. /\ \A tag, s : Sent(o, tag, s)' <=> Sent(o, tag, s)
        /\ \A tag, s : Sent(e, tag, s)' <=> Sent(e, tag, s) \/ (tag = t /\ s = sid)
    <2>1. Out(e) \in Seq(Frames)
      BY TaskTypes
    <2>2. \A tag, s : Has(Append(Out(e), f), tag, s) <=> Has(Out(e), tag, s) \/ (TagOf(f) = tag /\ SidOf(f) = s)
      BY <2>1, HasStep
    <2>3. \A tag, s : Sent(e, tag, s)' <=> Sent(e, tag, s) \/ (tag = t /\ s = sid)
      BY <1>b, <2>2 DEF Sent
    <2>4. \A tag, s : Sent(o, tag, s)' <=> Sent(o, tag, s)
      BY <1>a DEF Sent
    <2> QED
      BY <2>3, <2>4
  <1>3. ASSUME BothRun', NEW s \in StreamID PROVE PairOK(e, o, s)'
    <2>1. BothRun
      BY <1>3, <1>a, TheOther DEF BothRun
    <2>2. PairOK(e, o, s)
      BY <2>1, <1>a, MirrorNow
    <2>3. CASE s # sid
      BY <1>1, <1>2, <2>2, <2>3, PairSame
    <2>4. CASE s = sid /\ t = "Message"
      <3>1. StatOf(e, sid)' = StatOf(e, sid)
        BY <1>b, <2>4
      <3>2. \A tag \in {"NewStream", "Close", "Reset"} : Sent(e, tag, sid)' <=> Sent(e, tag, sid)
        BY <1>2, <2>4
      <3> QED
        BY <1>1, <1>2, <2>2, <2>4, <3>1, <3>2, PairSame
    <2> DEFINE g == Flip(sid)
    <2>5. /\ StatOf(o, g)' = StatOf(o, g)
          /\ Sent(o, "NewStream", g)' <=> Sent(o, "NewStream", g)
          /\ Sent(o, "Close", g)' <=> Sent(o, "Close", g)
          /\ Sent(o, "Reset", g)' <=> Sent(o, "Reset", g)
      BY <1>1, <1>2
    <2>6. /\ Sent(e, "NewStream", sid)' <=> Sent(e, "NewStream", sid) \/ t = "NewStream"
          /\ Sent(e, "Close", sid)' <=> Sent(e, "Close", sid) \/ t = "Close"
          /\ Sent(e, "Reset", sid)' <=> Sent(e, "Reset", sid) \/ t = "Reset"
      BY <1>2
    <2>7. StatOf(o, g) \in {"none", "Open", "SendClosed", "RecvClosed"}
      BY <1>0, StatTypes
    <2> HIDE DEF g
    <2>8. s = sid => HalfOK(e, o, sid, g) /\ HalfOK(o, e, g, sid)
      BY <2>2 DEF PairOK, g
    <2>9. CASE s = sid /\ t = "Close" /\ StatOf(e, sid) = "Open" /\ StatOf(e, sid)' = "SendClosed"
      <3>1. HalfOK(e, o, sid, g)' /\ HalfOK(o, e, g, sid)'
        BY <2>5, <2>6, <2>7, <2>8, <2>9 DEF HalfOK
      <3> QED
        BY <2>9, <3>1 DEF PairOK, g
    <2>10. CASE s = sid /\ t = "Close" /\ StatOf(e, sid) = "RecvClosed" /\ StatOf(e, sid)' = "none"
      <3>1. HalfOK(e, o, sid, g)' /\ HalfOK(o, e, g, sid)'
        BY <2>5, <2>6, <2>7, <2>8, <2>10 DEF HalfOK
      <3> QED
        BY <2>10, <3>1 DEF PairOK, g
    <2>11. CASE s = sid /\ t = "Reset" /\ StatOf(e, sid)' = "none"
      <3>1. HalfOK(e, o, sid, g)' /\ HalfOK(o, e, g, sid)'
        BY <2>5, <2>6, <2>7, <2>8, <2>11 DEF HalfOK
      <3> QED
        BY <2>11, <3>1 DEF PairOK, g
    <2> QED
      BY <1>b, <2>3, <2>4, <2>9, <2>10, <2>11
  <1> QED
    BY <1>3, <1>a, MirrorBoth

LEMMA MirrorSendFrame ==
    ASSUME MplexInv, MirrorInv, NEW e \in Ends, OnSendFrame(e)
    PROVE  MirrorInv'
  <1>a. PICK c : c = Head(stream_cmds[e])
    OBVIOUS
  <1>b. PICK f : f = Frame("Message", c.sid, c.body)
    OBVIOUS
  <1>0. TypeInv
    BY DEF MplexInv
  <1>1. /\ TakeStreamCmd(e, "SendFrame")
        /\ \/ SendFrame(e, f, Nothing)
           \/ UNCHANGED <<wire, task>>
        /\ UNCHANGED streams_stat
    BY <1>a, <1>b DEF OnSendFrame, tableVars
  <1>2. task[e].at = "select" /\ c.sid \in StreamID /\ c.body \in Bodies
    BY <1>1, <1>a, TakeEffect
  <1>3. f \in Frames /\ TagOf(f) = "Message" /\ SidOf(f) = c.sid /\ Nothing \in Hands
    BY <1>2, <1>b, FrameTypes, FrameRead, HandTypes DEF Tags
  <1>4. CASE SendFrame(e, f, Nothing)
    <2>1. /\ Out(e)' = Append(Out(e), f) /\ Out(Other(e))' = Out(Other(e))
          /\ Running(e) /\ Running(Other(e))' = Running(Other(e))
      BY <1>0, <1>2, <1>3, <1>4, SendEffect
    <2>2. \A s : StatOf(e, s)' = StatOf(e, s)
      BY <1>1 DEF StatOf
    <2> QED
      BY <1>0, <1>1, <1>2, <1>3, <2>1, <2>2, MirrorSend
  <1>5. CASE UNCHANGED <<wire, task>>
    <2>1. \A x \in Ends : Out(x)' = Out(x) /\ Running(x)' = Running(x)
      BY <1>5 DEF Out, Running
    <2> QED
      BY <1>1, <2>1, MirrorSame
  <1> QED
    BY <1>1, <1>4, <1>5

LEMMA MirrorCloseStream ==
    ASSUME MplexInv, MirrorInv, NEW e \in Ends, OnCloseStream(e)
    PROVE  MirrorInv'
  <1>a. PICK sid : sid = Head(stream_cmds[e]).sid
    OBVIOUS
  <1>b. PICK f : f = Frame("Close", sid, NoBody)
    OBVIOUS
  <1>0. TypeInv /\ SentInv /\ Other(e) # e /\ Other(e) \in Ends /\ DomInv
    BY TheOther, TypeParts DEF MplexInv
  <1>1. /\ TakeStreamCmd(e, "CloseStream")
        /\ \/ /\ Writable(e, sid)
              /\ streams_stat' = IF streams_stat[e][sid] = "RecvClosed"
                                 THEN [streams_stat EXCEPT ![e] = Remove(@, sid)]
                                 ELSE [streams_stat EXCEPT ![e][sid] = "SendClosed"]
              /\ SendFrame(e, f, Nothing)
           \/ UNCHANGED <<wire, task, streams_stat>>
    BY <1>a, <1>b DEF OnCloseStream
  <1>2. task[e].at = "select" /\ sid \in StreamID
    BY <1>1, <1>a, TakeEffect
  <1>3. f \in Frames /\ TagOf(f) = "Close" /\ SidOf(f) = sid /\ Nothing \in Hands
    BY <1>2, <1>b, FrameTypes, FrameRead, HandTypes DEF Tags
  <1>4. CASE /\ Writable(e, sid)
             /\ streams_stat' = IF streams_stat[e][sid] = "RecvClosed"
                                THEN [streams_stat EXCEPT ![e] = Remove(@, sid)]
                                ELSE [streams_stat EXCEPT ![e][sid] = "SendClosed"]
             /\ SendFrame(e, f, Nothing)
    <2>1. /\ Out(e)' = Append(Out(e), f) /\ Out(Other(e))' = Out(Other(e))
          /\ Running(e) /\ Running(Other(e))' = Running(Other(e))
      BY <1>0, <1>2, <1>3, <1>4, SendEffect
    <2>2. StatOf(e, sid) \in {"Open", "RecvClosed"} /\ sid \in DOMAIN streams_stat[e]
          /\ streams_stat[e][sid] = StatOf(e, sid)
      BY <1>0, <1>2, <1>4, SentStat DEF Writable, StatOf
    <2>3. /\ streams_stat'[Other(e)] = streams_stat[Other(e)]
          /\ StatOf(e, sid) = "RecvClosed" => streams_stat'[e] = Remove(streams_stat[e], sid)
          /\ StatOf(e, sid) = "Open" => streams_stat'[e] = [streams_stat[e] EXCEPT ![sid] = "SendClosed"]
      BY <1>0, <1>4, <2>2 DEF DomInv
    <2>4. /\ \A s \in StreamID : s # sid => StatOf(e, s)' = StatOf(e, s)
          /\ \/ StatOf(e, sid) = "Open" /\ StatOf(e, sid)' = "SendClosed"
             \/ StatOf(e, sid) = "RecvClosed" /\ StatOf(e, sid)' = "none"
      <3>1. CASE StatOf(e, sid) = "RecvClosed"
        <4>1. streams_stat'[e] = Remove(streams_stat[e], sid)
          BY <2>3, <3>1
        <4> QED
          BY <3>1, <4>1 DEF StatOf, Remove
      <3>2. CASE StatOf(e, sid) = "Open"
        <4>1. streams_stat'[e] = [streams_stat[e] EXCEPT ![sid] = "SendClosed"]
          BY <2>3, <3>2
        <4>2. StatOf(e, sid)' = "SendClosed"
          BY <2>2, <4>1 DEF StatOf
        <4>3. \A s \in StreamID : s # sid => StatOf(e, s)' = StatOf(e, s)
          BY <4>1 DEF StatOf
        <4> QED
          BY <3>2, <4>2, <4>3
      <3> QED
        BY <2>2, <3>1, <3>2
    <2> QED
      BY <1>0, <1>2, <1>3, <2>1, <2>3, <2>4, MirrorSend
  <1>5. CASE UNCHANGED <<wire, task, streams_stat>>
    <2>1. \A x \in Ends : Out(x)' = Out(x) /\ Running(x)' = Running(x)
      BY <1>5 DEF Out, Running
    <2> QED
      BY <1>5, <2>1, MirrorSame
  <1> QED
    BY <1>1, <1>4, <1>5

\* Both ways to reset a stream.
LEMMA MirrorRemoves ==
    ASSUME TypeInv, MirrorInv, NEW e \in Ends, NEW sid \in StreamID, NEW h \in Hands,
           task[e].at \in {"select", "deliver"}, RemoveStream(e, sid), SendFrame(e, Frame("Reset", sid, NoBody), h)
    PROVE  MirrorInv'
  <1>a. PICK f : f = Frame("Reset", sid, NoBody)
    OBVIOUS
  <1>1. f \in Frames /\ TagOf(f) = "Reset" /\ SidOf(f) = sid
    BY <1>a, FrameTypes, FrameRead, HandTypes DEF Tags
  <1>2. /\ Out(e)' = Append(Out(e), f) /\ Out(Other(e))' = Out(Other(e))
        /\ Running(e) /\ Running(Other(e))' = Running(Other(e))
    BY <1>1, <1>a, SendEffect
  <1>3. streams_stat'[e] = Remove(streams_stat[e], sid) /\ streams_stat'[Other(e)] = streams_stat[Other(e)]
    BY RemoveEffect
  <1>4. StatOf(e, sid)' = "none" /\ \A s \in StreamID : s # sid => StatOf(e, s)' = StatOf(e, s)
    BY <1>3 DEF StatOf, Remove
  <1> QED
    BY <1>1, <1>2, <1>3, <1>4, MirrorSend

LEMMA MirrorResetStream ==
    ASSUME MplexInv, MirrorInv, NEW e \in Ends, OnResetStream(e)
    PROVE  MirrorInv'
  <1>a. PICK sid : sid = Head(stream_cmds[e]).sid
    OBVIOUS
  <1>b. PICK h : h = [req |-> NoReq, sid |-> sid, status |-> "closed"]
    OBVIOUS
  <1>0. TypeInv
    BY DEF MplexInv
  <1>1. /\ TakeStreamCmd(e, "ResetStream")
        /\ \/ RemoveStream(e, sid) /\ SendFrame(e, Frame("Reset", sid, NoBody), h)
           \/ UNCHANGED <<wire, task, streams_stat>>
    BY <1>a, <1>b DEF OnResetStream
  <1>2. task[e].at = "select" /\ sid \in StreamID
    BY <1>1, <1>a, TakeEffect
  <1>3. h \in Hands
    BY <1>2, <1>b, HandTypes
  <1>4. CASE RemoveStream(e, sid) /\ SendFrame(e, Frame("Reset", sid, NoBody), h)
    BY <1>0, <1>2, <1>3, <1>4, MirrorRemoves
  <1>5. CASE UNCHANGED <<wire, task, streams_stat>>
    <2>1. \A x \in Ends : Out(x)' = Out(x) /\ Running(x)' = Running(x)
      BY <1>5 DEF Out, Running
    <2> QED
      BY <1>5, <2>1, MirrorSame
  <1> QED
    BY <1>1, <1>4, <1>5

LEMMA MirrorTimeout ==
    ASSUME MplexInv, MirrorInv, NEW e \in Ends, DeliverTimeout(e)
    PROVE  MirrorInv'
  <1>a. PICK sid : sid = task[e].sid
    OBVIOUS
  <1>0. TypeInv
    BY DEF MplexInv
  <1>1. task[e].at = "deliver" /\ RemoveStream(e, sid) /\ SendFrame(e, Frame("Reset", sid, NoBody), Nothing)
    BY <1>a DEF DeliverTimeout
  <1>2. sid \in StreamID /\ Nothing \in Hands
    BY <1>0, <1>1, <1>a, TaskTypes, HandTypes
  <1> QED
    BY <1>0, <1>1, <1>2, MirrorRemoves

\* A stream that is new to an end: its frames are those that tell of it.
LEMMA MirrorNewStream ==
    ASSUME MplexInv, MirrorInv, NEW e \in Ends, OnNewStream(e)
    PROVE  MirrorInv'
  <1>a. PICK o : o = Other(e)
    OBVIOUS
  <1>b. PICK sid : sid = Received(e)
    OBVIOUS
  <1>c. PICK g : g = Flip(sid)
    OBVIOUS
  <1>0. TypeInv /\ FramesInv /\ OpenInv /\ SentInv /\ o \in Ends /\ Other(o) = e
    BY <1>a, TheOther DEF MplexInv
  <1>1. /\ Out(e)' = Out(e) /\ Out(o) # <<>> /\ Out(o)' = Tail(Out(o))
        /\ Running(e) /\ Running(o)' = Running(o)
        /\ TagOf(Head(Out(o))) = "NewStream" /\ SidOf(Head(Out(o))) = g /\ sid \in StreamID
        /\ NewStream(e, sid) /\ sid \notin Known(e) /\ Known(e)' = Known(e) \cup {sid}
    BY <1>0, <1>a, <1>b, <1>c, OnNewStreamEffect
  <1>2. MplexInv'
    BY CoreNewStream
  <1>3. TypeInv' /\ FramesInv' /\ OpenInv'
    BY <1>2 DEF MplexInv
  <1>4. g \in StreamID /\ Flip(g) = sid /\ ~sid.initiator
    <2>1. Out(o) \in Seq(Frames)
      BY <1>0, TaskTypes
    <2>2. \A tag, s : Has(Out(o), tag, s) <=> Has(Tail(Out(o)), tag, s)
                                              \/ (TagOf(Head(Out(o))) = tag /\ SidOf(Head(Out(o))) = s)
      BY <1>1, <2>1, HasStep
    <2>3. Sent(o, "NewStream", g)
      BY <1>1, <2>2 DEF Sent
    <2>4. g \in StreamID /\ Flip(g) = sid /\ (g.initiator <=> ~sid.initiator)
      BY <1>1, <1>c, FlipFlip
    <2> QED
      BY <1>0, <2>3, <2>4, NewOnWay
  <1>5. /\ \A tag : ~Sent(e, tag, sid) /\ ~Sent(e, tag, sid)'
        /\ \A tag, s : Sent(e, tag, s)' <=> Sent(e, tag, s)
    <2>1. \A tag : ~Sent(e, tag, sid)
      BY <1>0, <1>1, SentKnown
    <2>2. \A tag, s : Sent(e, tag, s)' <=> Sent(e, tag, s)
      BY <1>1 DEF Sent
    <2> QED
      BY <2>1, <2>2
  <1>6. \A tag, s : tag # "NewStream" \/ s # g => (Sent(o, tag, s)' <=> Sent(o, tag, s))
    <2>1. Out(o) \in Seq(Frames)
      BY <1>0, TaskTypes
    <2>2. \A tag, s : Has(Out(o), tag, s) <=> Has(Tail(Out(o)), tag, s)
                                              \/ (TagOf(Head(Out(o))) = tag /\ SidOf(Head(Out(o))) = s)
      BY <1>1, <2>1, HasStep
    <2> QED
      BY <1>1, <2>2 DEF Sent
  <1>7. Sent(o, "NewStream", g)
    <2>1. Out(o) \in Seq(Frames)
      BY <1>0, TaskTypes
    <2>2. \A tag, s : Has(Out(o), tag, s) <=> Has(Tail(Out(o)), tag, s)
                                              \/ (TagOf(Head(Out(o))) = tag /\ SidOf(Head(Out(o))) = s)
      BY <1>1, <2>1, HasStep
    <2> QED
      BY <1>1, <2>2 DEF Sent
  <1>8. ~Sent(o, "NewStream", g)'
    <2>1. Tail(Out(o)) \in Seq(Frames)
      BY <1>0, <1>1, TaskTypes
    <2>2. next_stream_id'[o] \in Nat /\ Known(e)' \in SUBSET StreamID
      <3>1. next_stream_id[o] \in Nat /\ Known(e) \in SUBSET StreamID
        BY <1>0, NetTypes
      <3>2. next_stream_id' = next_stream_id
        BY DEF OnNewStream
      <3> QED
        BY <1>1, <3>1, <3>2
    <2>3. /\ FramesOK(o, Out(o)', Known(o)', Known(e)')
          /\ OpenOK(Out(o)', next_stream_id'[o], Running(o)', Known(o)', Known(e)')
      BY <1>0, <1>3 DEF FramesInv, OpenInv
    <2>4. /\ FramesOK(o, Tail(Out(o)), Known(o)', Known(e)')
          /\ OpenOK(Tail(Out(o)), next_stream_id'[o], Running(o)', Known(o)', Known(e)')
      BY <1>1, <2>3
    <2>5. Has(Tail(Out(o)), "NewStream", g) => Flip(g) \notin Known(e)'
      BY <1>4, <2>1, <2>2, <2>4, OpenNotYet
    <2> QED
      BY <1>1, <1>4, <2>5 DEF Sent
  <1>9. /\ \A s : StatOf(o, s)' = StatOf(o, s)
        /\ \A s : s # sid => StatOf(e, s)' = StatOf(e, s)
        /\ StatOf(e, sid) = "none" /\ StatOf(e, sid)' = "Open"
    <2>1. streams_stat'[e] = Insert(streams_stat[e], sid, "Open") /\ streams_stat'[o] = streams_stat[o]
      BY <1>0, <1>1, <1>a, NewStreamEffect
    <2>2. sid \notin DOMAIN streams_stat[e]
      BY <1>0, <1>1, TypeParts DEF TablesInv, Tables, Known
    <2> QED
      BY <2>1, <2>2 DEF StatOf, Insert
  <1>10. ASSUME BothRun', NEW s \in StreamID PROVE PairOK(e, o, s)'
    <2>1. BothRun
      BY <1>1, <1>10, <1>a, TheOther DEF BothRun
    <2>2. PairOK(e, o, s)
      BY <2>1, <1>a, MirrorNow
    <2>3. CASE s # sid
      <3>1. Flip(s) # g
        BY <1>1, <1>c, <2>3, FlipFlip
      <3> QED
        BY <1>5, <1>6, <1>9, <2>2, <2>3, <3>1, PairSame
    <2>4. CASE s = sid
      <3>1. HalfOK(e, o, sid, g) /\ HalfOK(o, e, g, sid)
        BY <1>c, <2>2, <2>4 DEF PairOK
      <3>2. /\ Sent(o, "Close", g)' <=> Sent(o, "Close", g)
            /\ Sent(o, "Reset", g)' <=> Sent(o, "Reset", g)
        BY <1>6
      <3>3. Sent(o, "Close", g) => StatOf(o, g) \in {"none", "SendClosed"}
        BY <1>0, <1>4, SentStat
      <3>4. HalfOK(e, o, sid, g)' /\ HalfOK(o, e, g, sid)'
        BY <1>5, <1>7, <1>8, <1>9, <3>1, <3>2, <3>3 DEF HalfOK
      <3> QED
        BY <1>c, <2>4, <3>4 DEF PairOK
    <2> QED
      BY <2>3, <2>4
  <1> QED
    BY <1>10, <1>a, MirrorBoth

LEMMA MirrorOpenStream ==
    ASSUME MplexInv, MirrorInv, NEW e \in Ends, OnOpenStream(e)
    PROVE  MirrorInv'
  <1>a. PICK sid : sid = [id |-> next_stream_id[e], initiator |-> TRUE]
    OBVIOUS
  <1>b. PICK f : f = Frame("NewStream", sid, NoBody)
    OBVIOUS
  <1>c. PICK h : h = [req |-> Head(control_cmds[e]), sid |-> sid, status |-> "open"]
    OBVIOUS
  <1>d. PICK o : o = Other(e)
    OBVIOUS
  <1>g. PICK g : g = Flip(sid)
    OBVIOUS
  <1>0. /\ TypeInv /\ FramesInv /\ OpenInv /\ TablesInv /\ o \in Ends /\ Other(o) = e
    BY <1>d, TheOther, TypeParts DEF MplexInv
  <1>1. /\ task[e].at = "select" /\ control_cmds[e] # <<>> /\ NewStream(e, sid) /\ SendFrame(e, f, h)
        /\ next_stream_id' = [next_stream_id EXCEPT ![e] = next_stream_id[e] + 1]
    BY <1>a, <1>b, <1>c DEF OnOpenStream, TakeControlCmd, Selecting, Select, NextId
  <1>2. next_stream_id[e] \in Nat /\ sid \in StreamID /\ sid.initiator
    BY <1>0, <1>a, NetTypes DEF StreamID
  <1>3. f \in Frames /\ TagOf(f) = "NewStream" /\ SidOf(f) = sid
    BY <1>2, <1>b, FrameTypes, FrameRead, HandTypes DEF Tags
  <1>4. h \in Hands
    <2>1. Head(control_cmds[e]) \in Requests
      BY <1>0, <1>1, ControlTypes
    <2> QED
      BY <1>2, <1>c, <2>1, HandTypes
  <1>5. /\ streams_stat'[e] = Insert(streams_stat[e], sid, "Open") /\ streams_stat'[o] = streams_stat[o]
        /\ Known(e)' = Known(e) \cup {sid} /\ Known(o)' = Known(o)
    BY <1>0, <1>1, <1>2, <1>d, NewStreamEffect
  <1>6. /\ Out(e)' = Append(Out(e), f) /\ Out(o)' = Out(o) /\ Out(e) \in Seq(Frames)
        /\ Running(e) /\ Running(o)' = Running(o)
    BY <1>0, <1>1, <1>3, <1>4, <1>d, SendEffect, TaskTypes
  <1>7. FramesInv' /\ OpenInv' /\ sid \notin Known(e)
    <2>1. Running(e)'
      BY <1>0, <1>1, <1>3, <1>4, SendEffect
    <2> QED
      BY <1>0, <1>1, <1>3, <1>5, <1>6, <1>a, <1>d, <2>1, NetOpen
  <1>8. /\ \A tag, s : Sent(e, tag, s)' <=> Sent(e, tag, s) \/ (tag = "NewStream" /\ s = sid)
        /\ \A tag, s : Sent(o, tag, s)' <=> Sent(o, tag, s)
        /\ \A tag : ~Sent(e, tag, sid)
    <2>1. \A tag, s : Has(Append(Out(e), f), tag, s) <=> Has(Out(e), tag, s) \/ (TagOf(f) = tag /\ SidOf(f) = s)
      BY <1>3, <1>6, HasStep
    <2>2. \A tag, s : Sent(e, tag, s)' <=> Sent(e, tag, s) \/ (tag = "NewStream" /\ s = sid)
      BY <1>3, <1>6, <2>1 DEF Sent
    <2>3. \A tag, s : Sent(o, tag, s)' <=> Sent(o, tag, s)
      BY <1>6 DEF Sent
    <2>4. \A tag : ~Sent(e, tag, sid)
      BY <1>0, <1>7, SentKnown
    <2> QED
      BY <2>2, <2>3, <2>4
  <1>9. g \notin Known(o)
    <2>1. Append(Out(e), f) \in Seq(Frames)
      BY <1>3, <1>6
    <2>2. next_stream_id'[e] \in Nat /\ Known(o)' \in SUBSET StreamID
      <3>1. next_stream_id'[e] = next_stream_id[e] + 1
        BY <1>0, <1>1 DEF TypeInv, TypeOK
      <3>2. Known(o) \in SUBSET StreamID
        BY <1>0, NetTypes
      <3> QED
        BY <1>2, <1>5, <3>1, <3>2
    <2>3. /\ FramesOK(e, Out(e)', Known(e)', Known(o)')
          /\ OpenOK(Out(e)', next_stream_id'[e], Running(e)', Known(e)', Known(o)')
      BY <1>d, <1>7 DEF FramesInv, OpenInv
    <2>4. /\ FramesOK(e, Append(Out(e), f), Known(e)', Known(o)')
          /\ OpenOK(Append(Out(e), f), next_stream_id'[e], Running(e)', Known(e)', Known(o)')
      BY <1>6, <2>3
    <2>5. Has(Append(Out(e), f), "NewStream", sid)
      BY <1>3, <1>6, HasStep
    <2> QED
      BY <1>2, <1>5, <1>g, <2>1, <2>2, <2>4, <2>5, OpenNotYet
  <1>10. /\ \A s : StatOf(o, s)' = StatOf(o, s)
         /\ \A s : s # sid => StatOf(e, s)' = StatOf(e, s)
         /\ StatOf(e, sid)' = "Open" /\ StatOf(o, g) = "none"
         /\ \A tag : ~Sent(o, tag, g)
    <2>1. g \notin DOMAIN streams_stat[o]
      BY <1>0, <1>9 DEF TablesInv, Tables, Known
    <2>2. \A tag : ~Sent(o, tag, g)
      BY <1>0, <1>9, SentKnown
    <2> QED
      BY <1>5, <2>1, <2>2 DEF StatOf, Insert
  <1>11. ASSUME BothRun', NEW s \in StreamID PROVE PairOK(e, o, s)'
    <2>1. BothRun
      BY <1>6, <1>11, <1>d, TheOther DEF BothRun
    <2>2. PairOK(e, o, s)
      BY <2>1, <1>d, MirrorNow
    <2>3. CASE s # sid
      BY <1>8, <1>10, <2>2, <2>3, PairSame
    <2>4. CASE s = sid
      <3>1. /\ Sent(e, "NewStream", sid)' /\ ~Sent(e, "Close", sid)' /\ ~Sent(e, "Reset", sid)'
            /\ ~Sent(o, "NewStream", g)' /\ ~Sent(o, "Close", g)' /\ ~Sent(o, "Reset", g)'
        BY <1>8, <1>10
      <3>2. StatOf(e, sid)' = "Open" /\ StatOf(o, g)' = "none"
        BY <1>10
      <3>3. HalfOK(e, o, sid, g)' /\ HalfOK(o, e, g, sid)'
        BY <3>1, <3>2 DEF HalfOK
      <3> QED
        BY <1>g, <2>4, <3>3 DEF PairOK
    <2> QED
      BY <2>3, <2>4
  <1> QED
    BY <1>11, <1>d, MirrorBoth

LEMMA MirrorStep ==
    ASSUME MplexInv, MirrorInv, [Next]_vars
    PROVE  MirrorInv'
  <1>0. TypeInv
    BY DEF MplexInv
  <1>1. ASSUME NEW e \in Ends, Quiet(e) PROVE MirrorInv'
    <2>1. streams_stat' = streams_stat /\ \A x \in Ends : Out(x)' = Out(x) /\ Running(x)' = Running(x)
      BY <1>0, <1>1, QuietEffect DEF tableVars
    <2> QED
      BY <2>1, MirrorSame
  <1>2. ASSUME NEW e \in Ends, NEW sid, Use(e, sid) PROVE MirrorInv'
    <2>1. streams_stat' = streams_stat
      BY <1>0, <1>2, UseEffect DEF tableVars
    <2> QED
      BY <1>0, <1>2, <2>1, UseQuiet, MirrorSame
  <1>3. ASSUME NEW e \in Ends, Ends1(e) PROVE MirrorInv'
    <2>1. \E cause \in Causes : \E h : End(e, cause, h) /\ wire' = wire
      BY <1>3 DEF Ends1, ReadFails, WriteFails, OnOpenStreamNoId, OnNoControlCommand, Causes
    <2>2. ~Running(e)'
      BY <1>0, <2>1, EndEffect
    <2> QED
      BY <2>2 DEF MirrorInv, BothRun
  <1>4. ASSUME NEW e \in Ends, WriteDone(e) PROVE MirrorInv'
    <2>1. /\ streams_stat' = streams_stat /\ task[e].at = "write"
          /\ wire' = [wire EXCEPT ![e] = Append(@, task[e].frame)] /\ task' = [task EXCEPT ![e] = Select]
          /\ SocketInv
      BY <1>0, <1>4, TypeParts DEF WriteDone, tableVars
    <2>2. /\ task'[e] = Select /\ task'[Other(e)] = task[Other(e)] /\ Other(e) \in Ends
          /\ wire'[e] = Append(wire[e], task[e].frame) /\ wire'[Other(e)] = wire[Other(e)]
      BY <2>1, TheOther DEF SocketInv
    <2>3. Out(e)' = Out(e) /\ Running(e)
      BY <2>1, <2>2 DEF Out, Running, Select
    <2>4. Out(Other(e))' = Out(Other(e)) /\ Running(Other(e))' = Running(Other(e))
      BY <2>2 DEF Out, Running
    <2>5. \A x \in Ends : Out(x)' = Out(x) /\ (Running(x)' => Running(x))
      BY <2>3, <2>4, TheOther
    <2> QED
      BY <2>1, <2>5, MirrorSame
  <1>5. ASSUME UNCHANGED <<wire, task, streams_stat>> PROVE MirrorInv'
    <2>1. \A x \in Ends : Out(x)' = Out(x) /\ Running(x)' = Running(x)
      BY <1>5 DEF Out, Running
    <2> QED
      BY <1>5, <2>1, MirrorSame
  <1>6. ASSUME NEW e \in Ends, Connection(e) PROVE MirrorInv'
    <2>1. OnAcceptStream(e) => UNCHANGED <<wire, task, streams_stat>>
      BY DEF OnAcceptStream, socketVars, tableVars
    <2>2. \/ Quiet(e) \/ Reads(e) \/ Ends1(e)
          \/ OnNewStream(e) \/ WriteDone(e) \/ OnSendFrame(e) \/ OnCloseStream(e) \/ OnResetStream(e)
          \/ DeliverTimeout(e) \/ OnOpenStream(e) \/ OnAcceptStream(e)
      BY <1>6 DEF Connection, OnFrame, OnStreamCommand, OnControlCommand, Quiet, Reads, Ends1
    <2> QED
      BY <1>1, <1>3, <1>4, <1>5, <1>6, <2>1, <2>2, MirrorReads, MirrorNewStream, MirrorSendFrame, MirrorCloseStream,
         MirrorResetStream, MirrorTimeout, MirrorOpenStream
  <1>7. ASSUME Break \/ \E r \in Requests : Call(r) PROVE MirrorInv'
    <2>1. "A" \in Ends /\ Quiet("A")
      BY <1>7 DEF Quiet, Ends
    <2> QED
      BY <1>1, <2>1
  <1>8. CASE UNCHANGED vars
    <2>1. UNCHANGED <<wire, task, streams_stat>>
      BY <1>8 DEF vars, socketVars, tableVars
    <2> QED
      BY <1>5, <2>1
  <1> QED
    BY <1>2, <1>6, <1>7, <1>8 DEF Next, Application, Use

LEMMA MirrorHolds == Spec => [](MplexInv /\ MirrorInv)
  <1>1. Init => MirrorInv
    <2> SUFFICES ASSUME Init, NEW e \in Ends, NEW sid \in StreamID
                 PROVE  HalfOK(e, Other(e), sid, Flip(sid))
      BY DEF MirrorInv
    <2>1. \A x \in Ends : Out(x) = <<>> /\ \A s : StatOf(x, s) = "none"
      BY DEF Init, Out, Select, StatOf, Empty
    <2>2. \A x \in Ends : \A tag, s : ~Sent(x, tag, s)
      BY <2>1 DEF Sent, Has
    <2>3. Other(e) \in Ends
      BY TheOther
    <2> QED
      BY <2>1, <2>2, <2>3 DEF HalfOK
  <1>2. MplexInv /\ MirrorInv /\ [Next]_vars => MirrorInv'
    BY MirrorStep
  <1> QED
    BY <1>1, <1>2, CoreHolds, PTL DEF Spec

\* With nothing on its way the streams_stat of two ends that run say the same of every
\* stream: on_frame and on_stream_command leave no entry behind at one end only, and no
\* half closed stream whose other half is not.
THEOREM MplexTablesMirror == Spec => []TablesMirror
  <1>1. MplexInv /\ MirrorInv => TablesMirror
    <2> SUFFICES ASSUME MplexInv, MirrorInv, \A x \in Ends : wire[x] = <<>> /\ task[x].at \in {"select", "deliver"},
                        NEW e \in Ends, NEW sid \in DOMAIN streams_stat[e]
                 PROVE  /\ Flip(sid) \in DOMAIN streams_stat[Other(e)]
                        /\ streams_stat[Other(e)][Flip(sid)] = Mirror(streams_stat[e][sid])
      BY DEF TablesMirror
    <2>a. PICK o : o = Other(e)
      OBVIOUS
    <2>b. PICK g : g = Flip(sid)
      OBVIOUS
    <2>0. TypeInv /\ TablesInv /\ o \in Ends
      BY <2>a, TypeParts, TheOther DEF MplexInv
    <2>1. BothRun /\ \A x \in Ends : \A tag, s : ~Sent(x, tag, s)
      BY DEF BothRun, Running, Sent, Has, Out
    <2>2. sid \in StreamID /\ StatOf(e, sid) = streams_stat[e][sid] /\ StatOf(e, sid) \in State
      BY <2>0 DEF TablesInv, Tables, StatOf
    <2>3. HalfOK(e, o, sid, g) /\ HalfOK(o, e, g, sid)
      BY <2>1, <2>2, <2>a, <2>b, MirrorNow DEF PairOK
    <2>4. StatOf(o, g) \in {"none", "Open", "SendClosed", "RecvClosed"}
      BY <2>0, StatTypes
    <2>5. StatOf(o, g) # "none" /\ StatOf(o, g) = Mirror(StatOf(e, sid))
      BY <2>0, <2>1, <2>2, <2>3, <2>4 DEF HalfOK, Mirror, State
    <2>6. g \in DOMAIN streams_stat[o] /\ StatOf(o, g) = streams_stat[o][g]
      BY <2>5 DEF StatOf
    <2> QED
      BY <2>2, <2>5, <2>6, <2>a, <2>b
  <1> QED
    BY <1>1, MirrorHolds, PTL
-----------------------------------------------------------------------------
(* The messages of a stream, from the Stream that writes them to the other. *)

\* Frames and commands that matter to other streams only.
KeepsMsgs(s, t, sid) == \A lo, hi \in Nat : Counts(MsgVals(s, sid), lo, hi) => Counts(MsgVals(t, sid), lo, hi)
KeepsCmds(q, r, sid) == /\ \A lo, hi \in Nat : Counts(CmdVals(q, sid), lo, hi) => Counts(CmdVals(r, sid), lo, hi)
                        /\ ZeroCmds(q, sid) => ZeroCmds(r, sid)

LEMMA MsgsKept ==
    ASSUME NEW s \in Seq(Frames), NEW sid
    PROVE  /\ KeepsMsgs(s, s, sid)
           /\ \A f \in Frames : MsgVal(f, sid) = 0 => KeepsMsgs(s, Append(s, f), sid)
           /\ s # <<>> /\ MsgVal(Head(s), sid) = 0 => KeepsMsgs(s, Tail(s), sid)
  <1>1. MsgVals(s, sid) \in Seq(Nat)
    BY MsgValsStep
  <1>2. KeepsMsgs(s, s, sid)
    BY DEF KeepsMsgs
  <1>3. ASSUME NEW f \in Frames, MsgVal(f, sid) = 0 PROVE KeepsMsgs(s, Append(s, f), sid)
    <2>1. MsgVals(Append(s, f), sid) = Append(MsgVals(s, sid), 0)
      BY <1>3, MsgValsStep
    <2> QED
      BY <1>1, <2>1, CountsAppend DEF KeepsMsgs
  <1>4. ASSUME s # <<>>, MsgVal(Head(s), sid) = 0 PROVE KeepsMsgs(s, Tail(s), sid)
    <2>1. MsgVals(s, sid) # <<>> /\ MsgVals(s, sid)[1] = 0 /\ MsgVals(Tail(s), sid) = Tail(MsgVals(s, sid))
      BY <1>4, MsgValsStep
    <2> QED
      BY <1>1, <2>1, CountsTail DEF KeepsMsgs
  <1> QED
    BY <1>2, <1>3, <1>4

LEMMA CmdsKept ==
    ASSUME NEW q \in Seq(Commands), NEW sid
    PROVE  /\ KeepsCmds(q, q, sid)
           /\ \A c \in Commands : CmdVal(c, sid) = 0 => KeepsCmds(q, Append(q, c), sid)
           /\ q # <<>> /\ CmdVal(Head(q), sid) = 0 => KeepsCmds(q, Tail(q), sid)
           /\ q # <<>> /\ ZeroCmds(q, sid) => CmdVal(Head(q), sid) = 0 /\ ZeroCmds(Tail(q), sid)
  <1>1. CmdVals(q, sid) \in Seq(Nat)
    BY CmdValsStep
  <1>2. KeepsCmds(q, q, sid)
    BY DEF KeepsCmds
  <1>3. ASSUME NEW c \in Commands, CmdVal(c, sid) = 0 PROVE KeepsCmds(q, Append(q, c), sid)
    <2>1. CmdVals(Append(q, c), sid) = Append(CmdVals(q, sid), 0)
      BY <1>3, CmdValsStep
    <2>2. ZeroCmds(q, sid) => ZeroCmds(Append(q, c), sid)
      BY <1>3 DEF ZeroCmds
    <2> QED
      BY <1>1, <2>1, <2>2, CountsAppend DEF KeepsCmds
  <1>4. ASSUME q # <<>>, ZeroCmds(q, sid) PROVE CmdVal(Head(q), sid) = 0 /\ ZeroCmds(Tail(q), sid)
    <2>1. 1 \in DOMAIN q /\ Head(q) = q[1] /\ \A i \in DOMAIN Tail(q) : i + 1 \in DOMAIN q /\ Tail(q)[i] = q[i + 1]
      BY <1>4
    <2> QED
      BY <1>4, <2>1 DEF ZeroCmds
  <1>5. ASSUME q # <<>>, CmdVal(Head(q), sid) = 0 PROVE KeepsCmds(q, Tail(q), sid)
    <2>1. CmdVals(q, sid) # <<>> /\ CmdVals(q, sid)[1] = 0 /\ CmdVals(Tail(q), sid) = Tail(CmdVals(q, sid))
      BY <1>5, CmdValsStep
    <2> QED
      BY <1>1, <1>4, <1>5, <2>1, CountsTail DEF KeepsCmds
  <1> QED
    BY <1>2, <1>3, <1>4, <1>5

LEMMA FlowKeep ==
    ASSUME NEW out, NEW out2, NEW cnt \in Nat, NEW cnt2, NEW q, NEW q2, NEW w \in Nat, NEW sid,
           NEW rd, NEW wr, NEW all, NEW rd2, NEW wr2, NEW all2,
           FlowAt(out, cnt, q, w, sid, rd, wr, all),
           rd2 => rd /\ cnt2 = cnt /\ KeepsMsgs(out, out2, sid), wr2 => wr /\ KeepsCmds(q, q2, sid), all2 => all
    PROVE  FlowAt(out2, cnt2, q2, w, sid, rd2, wr2, all2)
  <1>1. PICK c \in 0 .. w : /\ rd => Counts(MsgVals(out, sid), cnt, c)
                            /\ wr => Counts(CmdVals(q, sid), c, w)
                            /\ all => c = w
    BY DEF FlowAt
  <1>2. c \in Nat
    OBVIOUS
  <1>3. rd2 => Counts(MsgVals(out2, sid), cnt2, c)
    BY <1>1, <1>2 DEF KeepsMsgs
  <1>4. wr2 => Counts(CmdVals(q2, sid), c, w)
    BY <1>1, <1>2 DEF KeepsCmds
  <1> QED
    BY <1>1, <1>3, <1>4 DEF FlowAt

\* poll_write
LEMMA FlowWrite ==
    ASSUME NEW out, NEW cnt, NEW q \in Seq(Commands), NEW w \in Nat, NEW sid, NEW rd, NEW wr, NEW all, NEW m \in Commands,
           FlowAt(out, cnt, q, w, sid, rd, wr, all), CmdVal(m, sid) = w + 1
    PROVE  FlowAt(out, cnt, Append(q, m), w + 1, sid, rd, wr, FALSE)
  <1>1. PICK c \in 0 .. w : /\ rd => Counts(MsgVals(out, sid), cnt, c)
                            /\ wr => Counts(CmdVals(q, sid), c, w)
                            /\ all => c = w
    BY DEF FlowAt
  <1>2. c \in Nat /\ c \in 0 .. w + 1
    OBVIOUS
  <1>3. CmdVals(q, sid) \in Seq(Nat) /\ CmdVals(Append(q, m), sid) = Append(CmdVals(q, sid), w + 1)
    BY CmdValsStep
  <1>4. wr => Counts(CmdVals(Append(q, m), sid), c, w + 1)
    BY <1>1, <1>2, <1>3, CountsAppend
  <1> QED
    BY <1>1, <1>2, <1>4 DEF FlowAt

\* on_stream_command sends a message.
LEMMA FlowMove ==
    ASSUME NEW out \in Seq(Frames), NEW cnt \in Nat, NEW q \in Seq(Commands), NEW w \in Nat, NEW sid, NEW rd, NEW all,
           NEW f \in Frames, FlowAt(out, cnt, q, w, sid, rd, TRUE, all), q # <<>>,
           CmdVal(Head(q), sid) # 0, MsgVal(f, sid) = CmdVal(Head(q), sid)
    PROVE  FlowAt(Append(out, f), cnt, Tail(q), w, sid, rd, TRUE, FALSE)
  <1>1. PICK c \in 0 .. w : /\ rd => Counts(MsgVals(out, sid), cnt, c)
                            /\ Counts(CmdVals(q, sid), c, w)
    BY DEF FlowAt
  <1>2. CmdVals(q, sid) \in Seq(Nat) /\ CmdVals(q, sid) # <<>> /\ CmdVals(q, sid)[1] = CmdVal(Head(q), sid)
        /\ CmdVals(Tail(q), sid) = Tail(CmdVals(q, sid))
    BY CmdValsStep
  <1>3. c \in Nat /\ CmdVal(Head(q), sid) = c + 1 /\ c + 1 <= w /\ Counts(CmdVals(Tail(q), sid), c + 1, w)
    <2>a. PICK v : v = CmdVals(q, sid)
      OBVIOUS
    <2>1. v \in Seq(Nat) /\ v # <<>> /\ v[1] = CmdVal(Head(q), sid) /\ CmdVals(Tail(q), sid) = Tail(v)
          /\ Counts(v, c, w) /\ v[1] # 0 /\ c \in Nat
      BY <1>1, <1>2, <2>a
    <2>2. v[1] = c + 1 /\ c + 1 <= w /\ Counts(Tail(v), c + 1, w)
      BY <2>1, CountsTail
    <2> QED
      BY <2>1, <2>2
  <1>4. MsgVals(out, sid) \in Seq(Nat) /\ MsgVals(Append(out, f), sid) = Append(MsgVals(out, sid), c + 1)
    BY <1>3, MsgValsStep
  <1>5. rd => Counts(MsgVals(Append(out, f), sid), cnt, c + 1)
    BY <1>1, <1>3, <1>4, CountsAppend
  <1>6. c + 1 \in 0 .. w
    BY <1>3
  <1> QED
    BY <1>3, <1>5, <1>6 DEF FlowAt

\* on_frame takes a message.
LEMMA FlowTake ==
    ASSUME NEW out \in Seq(Frames), NEW cnt \in Nat, NEW q, NEW w \in Nat, NEW sid, NEW wr, NEW all,
           FlowAt(out, cnt, q, w, sid, TRUE, wr, all), out # <<>>, MsgVal(Head(out), sid) # 0
    PROVE  MsgVal(Head(out), sid) = cnt + 1 /\ FlowAt(Tail(out), cnt + 1, q, w, sid, TRUE, wr, all)
  <1>1. PICK c \in 0 .. w : /\ Counts(MsgVals(out, sid), cnt, c)
                            /\ wr => Counts(CmdVals(q, sid), c, w)
                            /\ all => c = w
    BY DEF FlowAt
  <1>2. MsgVals(out, sid) \in Seq(Nat) /\ MsgVals(out, sid) # <<>> /\ MsgVals(out, sid)[1] = MsgVal(Head(out), sid)
        /\ MsgVals(Tail(out), sid) = Tail(MsgVals(out, sid))
    BY MsgValsStep
  <1>3. c \in Nat
    OBVIOUS
  <1>4. MsgVal(Head(out), sid) = cnt + 1 /\ Counts(MsgVals(Tail(out), sid), cnt + 1, c)
    <2>a. PICK v : v = MsgVals(out, sid)
      OBVIOUS
    <2>1. v \in Seq(Nat) /\ v # <<>> /\ v[1] = MsgVal(Head(out), sid) /\ MsgVals(Tail(out), sid) = Tail(v)
          /\ Counts(v, cnt, c) /\ v[1] # 0
      BY <1>1, <1>2, <2>a
    <2>2. v[1] = cnt + 1 /\ Counts(Tail(v), cnt + 1, c)
      BY <1>3, <2>1, CountsTail
    <2> QED
      BY <2>1, <2>2
  <1> QED
    BY <1>1, <1>4 DEF FlowAt

\* The queue has no message left: all are sent.
LEMMA FlowDone ==
    ASSUME NEW out, NEW cnt, NEW q \in Seq(Commands), NEW w \in Nat, NEW sid, NEW rd, NEW all,
           FlowAt(out, cnt, q, w, sid, rd, TRUE, all), ZeroCmds(q, sid)
    PROVE  FlowAt(out, cnt, q, w, sid, rd, TRUE, TRUE)
  <1>1. PICK c \in 0 .. w : /\ rd => Counts(MsgVals(out, sid), cnt, c)
                            /\ Counts(CmdVals(q, sid), c, w)
    BY DEF FlowAt
  <1>2. \A i \in 1 .. Len(CmdVals(q, sid)) : CmdVals(q, sid)[i] = 0
    BY DEF CmdVals, ZeroCmds
  <1>3. c = w
    BY <1>1, <1>2, CountsEmpty
  <1> QED
    BY <1>1, <1>3 DEF FlowAt

\* No message is on its way: the other end has all that were sent.
LEMMA FlowTaken ==
    ASSUME NEW out \in Seq(Frames), NEW cnt \in Nat, NEW q, NEW w \in Nat, NEW sid, NEW wr,
           FlowAt(out, cnt, q, w, sid, TRUE, wr, TRUE), \A i \in DOMAIN out : MsgVal(out[i], sid) = 0
    PROVE  cnt = w
  <1>1. Counts(MsgVals(out, sid), cnt, w)
    BY DEF FlowAt
  <1>2. \A i \in 1 .. Len(MsgVals(out, sid)) : MsgVals(out, sid)[i] = 0
    BY DEF MsgVals
  <1> QED
    BY <1>1, <1>2, CountsEmpty

LEMMA FlowFresh ==
    ASSUME NEW out \in Seq(Frames), NEW q \in Seq(Commands), NEW sid, NEW rd, NEW wr, NEW all,
           \A i \in DOMAIN out : MsgVal(out[i], sid) = 0, ZeroCmds(q, sid)
    PROVE  FlowAt(out, 0, q, 0, sid, rd, wr, all)
  <1>1. /\ \A i \in 1 .. Len(MsgVals(out, sid)) : MsgVals(out, sid)[i] = 0
        /\ \A i \in 1 .. Len(CmdVals(q, sid)) : CmdVals(q, sid)[i] = 0
    BY DEF MsgVals, CmdVals, ZeroCmds
  <1>2. Counts(MsgVals(out, sid), 0, 0) /\ Counts(CmdVals(q, sid), 0, 0) /\ 0 \in 0 .. 0
    BY <1>1, CountsZeros
  <1> QED
    BY <1>2 DEF FlowAt

\* An end stops before its last frame is written.
LEMMA FlowLost ==
    ASSUME NEW out \in Seq(Frames), NEW f \in Frames, NEW cnt \in Nat, NEW q, NEW q2, NEW w \in Nat, NEW sid,
           NEW rd, NEW wr, NEW all, NEW all2, NEW wr2, ~wr2,
           FlowAt(Append(out, f), cnt, q, w, sid, rd, wr, all), all2 => all /\ MsgVal(f, sid) = 0
    PROVE  FlowAt(out, cnt, q2, w, sid, rd, wr2, all2)
  <1>1. PICK c \in 0 .. w : /\ rd => Counts(MsgVals(Append(out, f), sid), cnt, c)
                            /\ all => c = w
    BY DEF FlowAt
  <1>2. MsgVals(out, sid) \in Seq(Nat) /\ MsgVals(Append(out, f), sid) = Append(MsgVals(out, sid), MsgVal(f, sid))
        /\ MsgVal(f, sid) \in Nat /\ c \in Nat
    BY MsgValsStep, ValTypes
  <1>3. CASE ~rd
    <2>1. w \in 0 .. w
      OBVIOUS
    <2> QED
      BY <1>3, <2>1 DEF FlowAt
  <1>4. CASE rd /\ MsgVal(f, sid) = 0
    <2>1. Counts(MsgVals(out, sid), cnt, c)
      BY <1>1, <1>2, <1>4, CountsFront
    <2> QED
      BY <1>1, <1>4, <2>1 DEF FlowAt
  <1>5. CASE rd /\ MsgVal(f, sid) # 0
    <2>1. PICK h \in cnt .. c : Counts(MsgVals(out, sid), cnt, h)
      BY <1>1, <1>2, <1>5, CountsFront
    <2>2. h \in 0 .. w
      BY <1>2
    <2> QED
      BY <1>5, <2>1, <2>2 DEF FlowAt
  <1> QED
    BY <1>3, <1>4, <1>5
-----------------------------------------------------------------------------
(* What a step leaves alone. *)

LEMMA StreamTypes ==
    ASSUME TypeInv, NEW e \in Ends, NEW sid
    PROVE  /\ Out(e) \in Seq(Frames) /\ stream_cmds[e] \in Seq(Commands) /\ Count(e, sid) \in Nat
           /\ sid \in Known(e) => /\ sid \in StreamID /\ written[e][sid] \in Nat
                                  /\ got[e][sid] \in Seq(Bodies) /\ data[e][sid] \in Seq(Bodies)
                                  /\ Count(e, sid) = Len(got[e][sid]) + Len(data[e][sid])
  <1>1. Tables(data[e], streams_stat[e], handle[e], written[e], got[e], MaxWrites[e]) /\ MaxWrites[e] \in Nat
    BY TypeParts, BoundsAssumption DEF TablesInv
  <1>2. Out(e) \in Seq(Frames) /\ stream_cmds[e] \in Seq(Commands)
    BY TypeParts, TaskTypes DEF ChannelInv
  <1>3. ASSUME sid \in Known(e)
        PROVE  sid \in StreamID /\ written[e][sid] \in Nat /\ got[e][sid] \in Seq(Bodies) /\ data[e][sid] \in Seq(Bodies)
    BY <1>1, <1>3 DEF Tables, Known
  <1>4. Count(e, sid) \in Nat /\ (sid \in Known(e) => Count(e, sid) = Len(got[e][sid]) + Len(data[e][sid]))
    <2>1. CASE sid \in Known(e)
      <3>1. PICK m \in Nat : Len(got[e][sid]) = m
        BY <1>3, <2>1
      <3>2. PICK n \in Nat : Len(data[e][sid]) = n
        BY <1>3, <2>1
      <3>3. Count(e, sid) = Len(got[e][sid]) + Len(data[e][sid])
        BY <2>1 DEF Count
      <3>4. Count(e, sid) = m + n
        BY <3>1, <3>2, <3>3
      <3>5. Count(e, sid) \in Nat
        BY <3>4
      <3> QED
        BY <3>3, <3>5
    <2>2. CASE sid \notin Known(e)
      BY <2>2 DEF Count
    <2> QED
      BY <2>1, <2>2
  <1> QED
    BY <1>2, <1>3, <1>4

LEMMA StayClosed ==
    ASSUME NEW e, NEW sid, ClosedOK(e, sid), NotReset(e, sid)' => NotReset(e, sid), Running(e)' => Running(e),
           NotReset(e, sid)' /\ Running(e)' /\ ~Writable(e, sid)' => ~Writable(e, sid),
           CanSend(e, sid)' => CanSend(e, sid), ZeroCmds(stream_cmds[e], sid) => ZeroCmds(stream_cmds'[e], sid)
    PROVE  ClosedOK(e, sid)'
  BY DEF ClosedOK

LEMMA StayFlow ==
    ASSUME TypeInv, NEW e \in Ends, NEW sid \in Known(e), FlowOK(e, sid),
           Takes(e, sid)' => /\ Takes(e, sid) /\ Count(Other(e), Flip(sid))' = Count(Other(e), Flip(sid))
                             /\ KeepsMsgs(Out(e), Out(e)', sid),
           Gives(e, sid)' => Gives(e, sid) /\ KeepsCmds(stream_cmds[e], stream_cmds'[e], sid),
           Done(e, sid)' => Done(e, sid), written'[e][sid] = written[e][sid]
    PROVE  FlowOK(e, sid)'
  <1>1. Count(Other(e), Flip(sid)) \in Nat /\ written[e][sid] \in Nat
    BY StreamTypes, TheOther
  <1>2. FlowAt(Out(e), Count(Other(e), Flip(sid)), stream_cmds[e], written[e][sid], sid,
               Takes(e, sid), Gives(e, sid), Done(e, sid))
    BY DEF FlowOK
  <1>3. FlowAt(Out(e)', Count(Other(e), Flip(sid))', stream_cmds'[e], written[e][sid], sid,
               Takes(e, sid)', Gives(e, sid)', Done(e, sid)')
    BY <1>1, <1>2, FlowKeep
  <1> QED
    BY <1>3 DEF FlowOK

LEMMA StayStart ==
    ASSUME NEW e, NEW sid, StartOK(e, sid), Count(e, sid)' = Count(e, sid),
           Flip(sid) \in Known(Other(e)) => Flip(sid) \in Known(Other(e))'
    PROVE  StartOK(e, sid)'
  BY DEF StartOK

LEMMA StayEof ==
    ASSUME NEW e, NEW sid, EofOK(e, sid), Finished(e, sid)' => Finished(e, sid), Running(e)' => Running(e),
           Flip(sid) \in Known(Other(e))' <=> Flip(sid) \in Known(Other(e)),
           Finished(e, sid)' => Count(e, sid)' = Count(e, sid),
           Finished(e, sid)' /\ Flip(sid) \in Known(Other(e)) =>
              written'[Other(e)][Flip(sid)] = written[Other(e)][Flip(sid)],
           CanSend(Other(e), Flip(sid))' => CanSend(Other(e), Flip(sid))
    PROVE  EofOK(e, sid)'
  BY DEF EofOK

\* The tables of an end say the same of a stream.
SameAt(e, sid) ==
    /\ sid \in Known(e)' <=> sid \in Known(e)
    /\ sid \in streams'[e] <=> sid \in streams[e]
    /\ sid \in DOMAIN streams_stat'[e] <=> sid \in DOMAIN streams_stat[e]
    /\ sid \in DOMAIN streams_stat[e] => streams_stat'[e][sid] = streams_stat[e][sid]
    /\ sid \in DOMAIN handle'[e] <=> sid \in DOMAIN handle[e]
    /\ sid \in DOMAIN handle[e] => handle'[e][sid] = handle[e][sid]
    /\ sid \in Known(e) => /\ data'[e][sid] = data[e][sid] /\ got'[e][sid] = got[e][sid]
                           /\ written'[e][sid] = written[e][sid]

LEMMA SameFacts ==
    ASSUME NEW e, NEW sid, SameAt(e, sid), stream_receiver'[e] = "open" => stream_receiver[e] = "open"
    PROVE  /\ Writable(e, sid)' <=> Writable(e, sid)
           /\ Dropped(e, sid)' <=> Dropped(e, sid)
           /\ Deliverable(e, sid)' <=> Deliverable(e, sid)
           /\ CanSend(e, sid)' => CanSend(e, sid)
           /\ Count(e, sid)' = Count(e, sid)
  <1>1. Writable(e, sid)' <=> Writable(e, sid)
    BY DEF SameAt, Writable
  <1>2. Dropped(e, sid)' <=> Dropped(e, sid)
    BY DEF SameAt, Dropped
  <1>3. Deliverable(e, sid)' <=> Deliverable(e, sid)
    BY <1>2 DEF SameAt, Deliverable
  <1>4. CanSend(e, sid)' => CanSend(e, sid)
    BY DEF SameAt, CanSend
  <1>5. Count(e, sid)' = Count(e, sid)
    BY DEF SameAt, Count
  <1> QED
    BY <1>1, <1>2, <1>3, <1>4, <1>5

\* What a step may do to a stream it does not touch, apart from what was read of it.
Steady(e, sid) ==
    LET o == Other(e)
        f == Flip(sid) IN
    /\ f \in Known(o)' <=> f \in Known(o)
    /\ NotReset(e, sid)' => NotReset(e, sid)
    /\ \A x \in Ends : (Running(x)' <=> Running(x)) /\ (~Running(x) => task'[x] = task[x])
    /\ Writable(e, sid)' <=> Writable(e, sid)
    /\ Dropped(e, sid)' <=> Dropped(e, sid)
    /\ Deliverable(e, sid)' <=> Deliverable(e, sid)
    /\ Deliverable(o, f)' => Deliverable(o, f)
    /\ CanSend(e, sid)' => CanSend(e, sid)
    /\ CanSend(o, f)' => CanSend(o, f)
    /\ KeepsMsgs(Out(e), Out(e)', sid)
    /\ Sent(e, "Close", sid)' => Sent(e, "Close", sid)
    /\ KeepsCmds(stream_cmds[e], stream_cmds'[e], sid)
    /\ written'[e][sid] = written[e][sid]
    /\ f \in Known(o) => written'[o][f] = written[o][f]
    /\ Count(e, sid)' = Count(e, sid) /\ Count(o, f)' = Count(o, f)

LEMMA SteadyOK ==
    ASSUME TypeInv, NEW e \in Ends, NEW sid \in Known(e), StreamOK(e, sid), Steady(e, sid)
    PROVE  ClosedOK(e, sid)' /\ FlowOK(e, sid)' /\ StartOK(e, sid)' /\ EofOK(e, sid)'
  <1>0. Other(e) \in Ends /\ ClosedOK(e, sid) /\ FlowOK(e, sid) /\ StartOK(e, sid) /\ EofOK(e, sid)
    BY TheOther DEF StreamOK
  <1>1. /\ Running(e)' <=> Running(e)
        /\ Running(Other(e))' <=> Running(Other(e))
        /\ ~Running(e) => task'[e] = task[e]
        /\ ~Running(Other(e)) => task'[Other(e)] = task[Other(e)]
    BY <1>0 DEF Steady
  <1>2. ClosedOK(e, sid)'
    <2>1. ZeroCmds(stream_cmds[e], sid) => ZeroCmds(stream_cmds'[e], sid)
      BY DEF Steady, KeepsCmds
    <2> QED
      BY <1>0, <1>1, <2>1, StayClosed DEF Steady
  <1>3. FlowOK(e, sid)'
    <2>1. Takes(e, sid)' => Takes(e, sid)
      BY DEF Steady, Takes
    <2>2. Gives(e, sid)' => Gives(e, sid)
      BY <1>1 DEF Steady, Gives
    <2>3. Done(e, sid)' => Done(e, sid)
      BY <1>1 DEF Steady, Done
    <2> QED
      BY <1>0, <2>1, <2>2, <2>3, StayFlow DEF Steady
  <1>4. StartOK(e, sid)'
    BY <1>0, StayStart DEF Steady
  <1>5. EofOK(e, sid)'
    <2>1. Finished(e, sid)' => Finished(e, sid)
      BY <1>1 DEF Steady, Finished
    <2> QED
      BY <1>0, <1>1, <2>1, StayEof DEF Steady
  <1> QED
    BY <1>2, <1>3, <1>4, <1>5

\* What a step of an end may do to other streams than sid.
Touches(x, sid) ==
    LET o == Other(x) IN
    /\ Known(o)' = Known(o) /\ (Known(x)' = Known(x) \/ Known(x)' = Known(x) \cup {sid})
    /\ \A z \in Ends : /\ Running(z)' <=> Running(z)
                       /\ ~Running(z) => task'[z] = task[z]
                       /\ stream_receiver'[z] = "open" => stream_receiver[z] = "open"
    /\ \A s : SameAt(o, s) /\ (s # sid => SameAt(x, s))
    /\ stream_cmds'[o] = stream_cmds[o]
    /\ \/ stream_cmds'[x] = stream_cmds[x]
       \/ \E c \in Commands : c.sid = sid /\ stream_cmds'[x] = Append(stream_cmds[x], c)
       \/ stream_cmds[x] # <<>> /\ Head(stream_cmds[x]).sid = sid /\ stream_cmds'[x] = Tail(stream_cmds[x])
    /\ \/ Out(x)' = Out(x)
       \/ \E f \in Frames : SidOf(f) = sid /\ Out(x)' = Append(Out(x), f)
    /\ \/ Out(o)' = Out(o)
       \/ Out(o) # <<>> /\ SidOf(Head(Out(o))) = Flip(sid) /\ Out(o)' = Tail(Out(o))
    /\ was_reset \subseteq was_reset'

\* Frames and commands of another stream.
LEMMA Unrelated ==
    ASSUME NEW sid, NEW s, s # sid
    PROVE  /\ \A f : SidOf(f) = sid => MsgVal(f, s) = 0
           /\ \A c : c.sid = sid => CmdVal(c, s) = 0
  BY DEF MsgVal, CmdVal

LEMMA OthersQueues ==
    ASSUME TypeInv, NEW x \in Ends, NEW sid \in StreamID, Touches(x, sid), NEW z \in Ends, NEW s,
           ~(z = x /\ s = sid), ~(z = Other(x) /\ s = Flip(sid))
    PROVE  /\ KeepsMsgs(Out(z), Out(z)', s) /\ (Sent(z, "Close", s)' => Sent(z, "Close", s))
           /\ KeepsCmds(stream_cmds[z], stream_cmds'[z], s)
  <1>1. Out(z) \in Seq(Frames) /\ stream_cmds[z] \in Seq(Commands)
    BY StreamTypes
  <1>2. CASE z = x
    <2>0. s # sid
      BY <1>2
    <2>1. ASSUME Out(x)' = Out(x)
          PROVE  KeepsMsgs(Out(x), Out(x)', s) /\ (Sent(x, "Close", s)' => Sent(x, "Close", s))
      BY <1>1, <1>2, <2>1, MsgsKept DEF Sent
    <2>2. ASSUME \E f \in Frames : SidOf(f) = sid /\ Out(x)' = Append(Out(x), f)
          PROVE  KeepsMsgs(Out(x), Out(x)', s) /\ (Sent(x, "Close", s)' => Sent(x, "Close", s))
      <3>1. PICK f \in Frames : SidOf(f) = sid /\ Out(x)' = Append(Out(x), f)
        BY <2>2
      <3>2. MsgVal(f, s) = 0
        BY <2>0, <3>1, Unrelated
      <3>3. Has(Append(Out(x), f), "Close", s) => Has(Out(x), "Close", s)
        BY <1>1, <1>2, <2>0, <3>1, HasStep
      <3> QED
        BY <1>1, <1>2, <3>1, <3>2, <3>3, MsgsKept DEF Sent
    <2>3. KeepsCmds(stream_cmds[x], stream_cmds'[x], s)
      <3>1. CASE stream_cmds'[x] = stream_cmds[x]
        BY <1>1, <1>2, <3>1, CmdsKept
      <3>2. CASE \E c \in Commands : c.sid = sid /\ stream_cmds'[x] = Append(stream_cmds[x], c)
        <4>1. PICK c \in Commands : c.sid = sid /\ stream_cmds'[x] = Append(stream_cmds[x], c)
          BY <3>2
        <4>2. CmdVal(c, s) = 0
          BY <2>0, <4>1, Unrelated
        <4> QED
          BY <1>1, <1>2, <4>1, <4>2, CmdsKept
      <3>3. CASE stream_cmds[x] # <<>> /\ Head(stream_cmds[x]).sid = sid /\ stream_cmds'[x] = Tail(stream_cmds[x])
        <4>1. CmdVal(Head(stream_cmds[x]), s) = 0
          BY <2>0, <3>3, Unrelated
        <4> QED
          BY <1>1, <1>2, <3>3, <4>1, CmdsKept
      <3> QED
        BY <3>1, <3>2, <3>3 DEF Touches
    <2> QED
      BY <1>2, <2>1, <2>2, <2>3 DEF Touches
  <1>3. CASE z = Other(x)
    <2>0. s # Flip(sid)
      BY <1>3
    <2>1. ASSUME Out(z)' = Out(z)
          PROVE  KeepsMsgs(Out(z), Out(z)', s) /\ (Sent(z, "Close", s)' => Sent(z, "Close", s))
      BY <1>1, <2>1, MsgsKept DEF Sent
    <2>2. ASSUME Out(z) # <<>>, SidOf(Head(Out(z))) = Flip(sid), Out(z)' = Tail(Out(z))
          PROVE  KeepsMsgs(Out(z), Out(z)', s) /\ (Sent(z, "Close", s)' => Sent(z, "Close", s))
      <3>1. MsgVal(Head(Out(z)), s) = 0
        BY <2>0, <2>2, Unrelated
      <3>2. Has(Tail(Out(z)), "Close", s) => Has(Out(z), "Close", s)
        BY <1>1, <2>2, HasStep
      <3> QED
        BY <1>1, <2>2, <3>1, <3>2, MsgsKept DEF Sent
    <2>3. KeepsCmds(stream_cmds[z], stream_cmds'[z], s)
      BY <1>1, <1>3, CmdsKept DEF Touches
    <2> QED
      BY <1>3, <2>1, <2>2, <2>3 DEF Touches
  <1> QED
    BY <1>2, <1>3, TheOther

LEMMA TouchOthers ==
    ASSUME TypeInv, StreamInv, NEW x \in Ends, NEW sid \in StreamID, Touches(x, sid), NEW z \in Ends, NEW s \in Known(z)',
           ~(z = x /\ s = sid), ~(z = Other(x) /\ s = Flip(sid))
    PROVE  StreamOK(z, s)'
  <1>a. PICK o : o = Other(z)
    OBVIOUS
  <1>b. PICK f : f = Flip(s)
    OBVIOUS
  <1>0. o \in Ends /\ Other(o) = z
    BY <1>a, TheOther
  <1>1. SameAt(z, s)
    <2>1. z = x \/ z = Other(x)
      BY TheOther
    <2> QED
      BY <2>1 DEF Touches
  <1>2. s \in Known(z) /\ StreamOK(z, s) /\ s \in StreamID
    <2>1. s \in Known(z)
      BY <1>1 DEF SameAt
    <2> QED
      BY <2>1, StreamTypes DEF StreamInv
  <1>3. SameAt(o, f)
    <2>1. CASE z = x
      BY <1>a, <2>1 DEF Touches
    <2>2. CASE z = Other(x)
      <3>1. o = x /\ f # sid
        BY <1>2, <1>a, <1>b, <2>2, FlipFlip, TheOther
      <3> QED
        BY <3>1 DEF Touches
    <2> QED
      BY <2>1, <2>2, TheOther
  <1>4. \A y \in Ends : /\ Running(y)' <=> Running(y)
                        /\ ~Running(y) => task'[y] = task[y]
                        /\ stream_receiver'[y] = "open" => stream_receiver[y] = "open"
    BY DEF Touches
  <1>5. /\ Writable(z, s)' <=> Writable(z, s)
        /\ Dropped(z, s)' <=> Dropped(z, s)
        /\ Deliverable(z, s)' <=> Deliverable(z, s)
        /\ CanSend(z, s)' => CanSend(z, s)
        /\ Count(z, s)' = Count(z, s)
    BY <1>1, <1>4, SameFacts
  <1>6. /\ Deliverable(o, f)' <=> Deliverable(o, f)
        /\ CanSend(o, f)' => CanSend(o, f)
        /\ Count(o, f)' = Count(o, f)
    BY <1>0, <1>3, <1>4, SameFacts
  <1>7. /\ KeepsMsgs(Out(z), Out(z)', s) /\ (Sent(z, "Close", s)' => Sent(z, "Close", s))
        /\ KeepsCmds(stream_cmds[z], stream_cmds'[z], s)
    BY OthersQueues
  <1>8. /\ f \in Known(o)' <=> f \in Known(o)
        /\ written'[z][s] = written[z][s]
        /\ f \in Known(o) => written'[o][f] = written[o][f]
        /\ data'[z][s] = data[z][s] /\ got'[z][s] = got[z][s]
    BY <1>1, <1>2, <1>3 DEF SameAt
  <1>9. NotReset(z, s)' => NotReset(z, s)
    BY DEF Touches, NotReset
  <1>10. Steady(z, s)
    BY <1>4, <1>5, <1>6, <1>7, <1>8, <1>9, <1>a, <1>b DEF Steady
  <1>11. ClosedOK(z, s)' /\ FlowOK(z, s)' /\ StartOK(z, s)' /\ EofOK(z, s)'
    BY <1>2, <1>10, SteadyOK
  <1>12. ReadOK(z, s)'
    BY <1>2, <1>8 DEF ReadOK, StreamOK
  <1> QED
    BY <1>11, <1>12 DEF StreamOK

LEMMA TouchBoth ==
    ASSUME TypeInv, StreamInv, NEW x \in Ends, NEW sid \in StreamID, Touches(x, sid),
           sid \in Known(x)' => StreamOK(x, sid)', Flip(sid) \in Known(Other(x))' => StreamOK(Other(x), Flip(sid))'
    PROVE  StreamInv'
  <1> SUFFICES ASSUME NEW z \in Ends, NEW s \in Known(z)' PROVE StreamOK(z, s)'
    BY DEF StreamInv
  <1>1. CASE z = x /\ s = sid
    BY <1>1
  <1>2. CASE z = Other(x) /\ s = Flip(sid)
    BY <1>2
  <1> QED
    BY <1>1, <1>2, TouchOthers
-----------------------------------------------------------------------------
(* The two ends of the stream that a step is about. *)

LEMMA NamedTwice ==
    ASSUME NEW x \in Ends, NEW sid \in StreamID
    PROVE  /\ Other(x) \in Ends /\ Other(Other(x)) = x /\ Flip(sid) \in StreamID /\ Flip(Flip(sid)) = sid
           /\ NotReset(Other(x), Flip(sid)) <=> NotReset(x, sid)
           /\ NotReset(Other(x), Flip(sid))' <=> NotReset(x, sid)'
  BY TheOther, FlipFlip, StreamFlip DEF NotReset

\* The end that does not take the step.
LEMMA OtherKept ==
    ASSUME TypeInv, NEW x \in Ends, NEW sid \in StreamID, Touches(x, sid), NEW o, o = Other(x), NEW g, g = Flip(sid)
    PROVE  /\ Running(x)' <=> Running(x)
           /\ Running(o)' <=> Running(o)
           /\ ~Running(x) => task'[x] = task[x]
           /\ ~Running(o) => task'[o] = task[o]
           /\ NotReset(o, g)' => NotReset(o, g)
           /\ NotReset(x, sid)' => NotReset(x, sid)
           /\ g \in Known(o)' <=> g \in Known(o)
           /\ Writable(o, g)' <=> Writable(o, g)
           /\ Dropped(o, g)' <=> Dropped(o, g)
           /\ Deliverable(o, g)' <=> Deliverable(o, g)
           /\ CanSend(o, g)' => CanSend(o, g)
           /\ Count(o, g)' = Count(o, g)
           /\ stream_cmds'[o] = stream_cmds[o]
           /\ KeepsCmds(stream_cmds[o], stream_cmds'[o], g)
           /\ Sent(o, "Close", g)' => Sent(o, "Close", g)
           /\ g \in Known(o) => written'[o][g] = written[o][g] /\ data'[o][g] = data[o][g] /\ got'[o][g] = got[o][g]
           /\ Gives(o, g)' => Gives(o, g)
           /\ Done(o, g)' => Done(o, g)
           /\ Finished(o, g)' => Finished(o, g)
  <1>0. o \in Ends /\ Other(o) = x /\ Out(o) \in Seq(Frames) /\ stream_cmds[o] \in Seq(Commands)
    BY TheOther, StreamTypes
  <1>1. /\ Running(x)' <=> Running(x)
        /\ Running(o)' <=> Running(o)
        /\ ~Running(x) => task'[x] = task[x]
        /\ ~Running(o) => task'[o] = task[o]
        /\ stream_receiver'[o] = "open" => stream_receiver[o] = "open"
        /\ SameAt(o, g)
        /\ stream_cmds'[o] = stream_cmds[o]
    BY <1>0 DEF Touches
  <1>2. /\ NotReset(o, g)' => NotReset(o, g)
        /\ NotReset(x, sid)' => NotReset(x, sid)
    BY DEF NotReset, Touches
  <1>3. /\ Writable(o, g)' <=> Writable(o, g)
        /\ Dropped(o, g)' <=> Dropped(o, g)
        /\ Deliverable(o, g)' <=> Deliverable(o, g)
        /\ CanSend(o, g)' => CanSend(o, g)
        /\ Count(o, g)' = Count(o, g)
    BY <1>1, SameFacts
  <1>4. KeepsCmds(stream_cmds[o], stream_cmds'[o], g)
    BY <1>0, <1>1, CmdsKept
  <1>5. Sent(o, "Close", g)' => Sent(o, "Close", g)
    <2>1. CASE Out(o)' = Out(o)
      BY <2>1 DEF Sent
    <2>2. CASE Out(o) # <<>> /\ Out(o)' = Tail(Out(o))
      BY <1>0, <2>2, HasStep DEF Sent
    <2> QED
      BY <2>1, <2>2 DEF Touches
  <1>6. /\ g \in Known(o)' <=> g \in Known(o)
        /\ g \in Known(o) => written'[o][g] = written[o][g] /\ data'[o][g] = data[o][g] /\ got'[o][g] = got[o][g]
    BY <1>1 DEF SameAt
  <1>7. Gives(o, g)' => Gives(o, g)
    BY <1>1, <1>2, <1>3 DEF Gives
  <1>8. Done(o, g)' => Done(o, g)
    BY <1>1, <1>2, <1>5 DEF Done
  <1>9. Finished(o, g)' => Finished(o, g)
    BY <1>0, <1>1, <1>2, <1>3 DEF Finished
  <1> QED
    BY <1>1, <1>2, <1>3, <1>4, <1>5, <1>6, <1>7, <1>8, <1>9

LEMMA OtherOK ==
    ASSUME TypeInv, StreamInv, NEW x \in Ends, NEW sid \in StreamID, Touches(x, sid), NEW o, o = Other(x),
           NEW g, g = Flip(sid), g \in Known(o), FlowOK(o, g)', EofOK(o, g)'
    PROVE  StreamOK(o, g)'
  <1>0. o \in Ends /\ Other(o) = x /\ Flip(g) = sid
    BY NamedTwice
  <1>1. ClosedOK(o, g) /\ StartOK(o, g) /\ ReadOK(o, g)
    BY <1>0 DEF StreamInv, StreamOK
  <1>2. /\ Running(o)' <=> Running(o)
        /\ NotReset(o, g)' => NotReset(o, g)
        /\ Writable(o, g)' <=> Writable(o, g)
        /\ CanSend(o, g)' => CanSend(o, g)
        /\ Count(o, g)' = Count(o, g)
        /\ stream_cmds'[o] = stream_cmds[o]
        /\ data'[o][g] = data[o][g] /\ got'[o][g] = got[o][g]
    BY OtherKept
  <1>3. ClosedOK(o, g)'
    BY <1>1, <1>2 DEF ClosedOK
  <1>4. StartOK(o, g)'
    <2>1. sid \in Known(x) => sid \in Known(x)'
      BY DEF Touches
    <2> QED
      BY <1>0, <1>1, <1>2, <2>1 DEF StartOK
  <1>5. ReadOK(o, g)'
    BY <1>1, <1>2 DEF ReadOK
  <1> QED
    BY <1>3, <1>4, <1>5 DEF StreamOK

LEMMA OtherFlow ==
    ASSUME TypeInv, StreamInv, NEW x \in Ends, NEW sid \in StreamID, Touches(x, sid), NEW o, o = Other(x),
           NEW g, g = Flip(sid), g \in Known(o), sid \in Known(x),
           Deliverable(x, sid)' => Deliverable(x, sid) /\ Count(x, sid)' = Count(x, sid) /\ Out(o)' = Out(o)
    PROVE  FlowOK(o, g)'
  <1>0. o \in Ends /\ Other(o) = x /\ Flip(g) = sid
    BY NamedTwice
  <1>1. FlowOK(o, g)
    BY <1>0 DEF StreamInv, StreamOK
  <1>2. sid \in Known(x)'
    BY DEF Touches
  <1>3. Takes(o, g)' => /\ Takes(o, g) /\ Count(Other(o), Flip(g))' = Count(Other(o), Flip(g))
                        /\ KeepsMsgs(Out(o), Out(o)', g)
    <2>1. Takes(o, g)' => Deliverable(x, sid)'
      BY <1>0, <1>2 DEF Takes
    <2>2. Deliverable(x, sid) => Takes(o, g)
      BY <1>0 DEF Takes
    <2>3. KeepsMsgs(Out(o), Out(o), g)
      BY <1>0, StreamTypes, MsgsKept
    <2> QED
      BY <1>0, <2>1, <2>2, <2>3
  <1>4. /\ Gives(o, g)' => Gives(o, g)
        /\ KeepsCmds(stream_cmds[o], stream_cmds'[o], g)
        /\ Done(o, g)' => Done(o, g)
        /\ written'[o][g] = written[o][g]
    BY OtherKept
  <1> QED
    BY <1>0, <1>1, <1>3, <1>4, StayFlow

LEMMA OtherEof ==
    ASSUME TypeInv, StreamInv, NEW x \in Ends, NEW sid \in StreamID, Touches(x, sid), NEW o, o = Other(x),
           NEW g, g = Flip(sid), g \in Known(o), sid \in Known(x), written'[x][sid] = written[x][sid],
           CanSend(x, sid)' => CanSend(x, sid)
    PROVE  EofOK(o, g)'
  <1>0. o \in Ends /\ Other(o) = x /\ Flip(g) = sid
    BY NamedTwice
  <1>1. EofOK(o, g)
    BY <1>0 DEF StreamInv, StreamOK
  <1>2. sid \in Known(x)'
    BY DEF Touches
  <1>3. (Finished(o, g)' => Finished(o, g)) /\ Count(o, g)' = Count(o, g)
    BY OtherKept
  <1> QED
    BY <1>0, <1>1, <1>2, <1>3 DEF EofOK

\* The end that takes it.
LEMMA SelfFlow ==
    ASSUME TypeInv, StreamInv, NEW x \in Ends, NEW sid \in StreamID, Touches(x, sid), sid \in Known(x),
           KeepsMsgs(Out(x), Out(x)', sid), written'[x][sid] = written[x][sid],
           Gives(x, sid)' => Gives(x, sid) /\ KeepsCmds(stream_cmds[x], stream_cmds'[x], sid),
           Done(x, sid)' => Done(x, sid)
    PROVE  FlowOK(x, sid)'
  <1>a. PICK o : o = Other(x)
    OBVIOUS
  <1>b. PICK g : g = Flip(sid)
    OBVIOUS
  <1>1. FlowOK(x, sid)
    BY DEF StreamInv, StreamOK
  <1>2. /\ Count(o, g)' = Count(o, g)
        /\ Deliverable(o, g)' <=> Deliverable(o, g)
        /\ g \in Known(o)' <=> g \in Known(o)
    BY <1>a, <1>b, OtherKept
  <1>3. Takes(x, sid)' => Takes(x, sid)
    BY <1>2, <1>a, <1>b DEF Takes
  <1> QED
    BY <1>1, <1>2, <1>3, <1>a, <1>b, StayFlow

LEMMA SelfEof ==
    ASSUME TypeInv, StreamInv, NEW x \in Ends, NEW sid \in StreamID, Touches(x, sid), sid \in Known(x),
           Finished(x, sid)' => ~Dropped(x, sid) /\ ~Deliverable(x, sid) /\ Count(x, sid)' = Count(x, sid)
    PROVE  EofOK(x, sid)'
  <1>a. PICK o : o = Other(x)
    OBVIOUS
  <1>b. PICK g : g = Flip(sid)
    OBVIOUS
  <1>1. EofOK(x, sid)
    BY DEF StreamInv, StreamOK
  <1>2. /\ Running(x)' <=> Running(x)
        /\ Running(o)' <=> Running(o)
        /\ ~Running(x) => task'[x] = task[x]
        /\ ~Running(o) => task'[o] = task[o]
        /\ NotReset(x, sid)' => NotReset(x, sid)
        /\ g \in Known(o)' <=> g \in Known(o)
        /\ CanSend(o, g)' => CanSend(o, g)
        /\ g \in Known(o) => written'[o][g] = written[o][g]
    BY <1>a, <1>b, OtherKept
  <1>3. Finished(x, sid)' => Finished(x, sid)
    BY <1>2, <1>a DEF Finished
  <1> QED
    BY <1>1, <1>2, <1>3, <1>a, <1>b DEF EofOK

LEMMA SelfClosed ==
    ASSUME TypeInv, StreamInv, NEW x \in Ends, NEW sid \in StreamID, Touches(x, sid), sid \in Known(x),
           NotReset(x, sid)' => (Writable(x, sid) => Writable(x, sid)'), CanSend(x, sid)' => CanSend(x, sid),
           ZeroCmds(stream_cmds[x], sid) => ZeroCmds(stream_cmds'[x], sid)
    PROVE  ClosedOK(x, sid)'
  <1>1. ClosedOK(x, sid)
    BY DEF StreamInv, StreamOK
  <1>2. (NotReset(x, sid)' => NotReset(x, sid)) /\ (Running(x)' <=> Running(x))
    BY OtherKept
  <1> QED
    BY <1>1, <1>2, StayClosed

LEMMA SelfStart ==
    ASSUME TypeInv, StreamInv, NEW x \in Ends, NEW sid \in StreamID, Touches(x, sid), sid \in Known(x),
           Count(x, sid)' = Count(x, sid)
    PROVE  StartOK(x, sid)'
  <1>1. StartOK(x, sid)
    BY DEF StreamInv, StreamOK
  <1>2. Flip(sid) \in Known(Other(x))' <=> Flip(sid) \in Known(Other(x))
    BY OtherKept
  <1> QED
    BY <1>1, <1>2, StayStart
-----------------------------------------------------------------------------
(* One lemma per action. *)

\* A step that moves no message and no command.
LEMMA StreamsKept ==
    ASSUME TypeInv, StreamInv, KnownSame, UNCHANGED <<streams, streams_stat, data, stream_cmds, historyVars>>,
           \A x \in Ends : /\ Out(x)' = Out(x)
                           /\ Running(x)' <=> Running(x)
                           /\ ~Running(x) => task'[x] = task[x]
                           /\ \A s : /\ Dropped(x, s)' <=> Dropped(x, s)
                                     /\ CanSend(x, s)' => CanSend(x, s)
    PROVE  StreamInv'
  <1> SUFFICES ASSUME NEW z \in Ends, NEW s \in Known(z)' PROVE StreamOK(z, s)'
    BY DEF StreamInv
  <1>a. PICK o : o = Other(z)
    OBVIOUS
  <1>b. PICK f : f = Flip(s)
    OBVIOUS
  <1>0. o \in Ends /\ s \in Known(z) /\ StreamOK(z, s) /\ Out(z) \in Seq(Frames) /\ stream_cmds[z] \in Seq(Commands)
    BY <1>a, TheOther, StreamTypes DEF KnownSame, StreamInv
  <1>1. \A x \in Ends : \A t : /\ Writable(x, t)' <=> Writable(x, t)
                               /\ Deliverable(x, t)' <=> Deliverable(x, t)
                               /\ NotReset(x, t)' <=> NotReset(x, t)
                               /\ Count(x, t)' = Count(x, t)
    BY DEF Writable, Deliverable, NotReset, Count, Known, historyVars
  <1>2. KeepsMsgs(Out(z), Out(z)', s) /\ KeepsCmds(stream_cmds[z], stream_cmds'[z], s)
    BY <1>0, MsgsKept, CmdsKept
  <1>3. Sent(z, "Close", s)' => Sent(z, "Close", s)
    BY DEF Sent
  <1>4. Steady(z, s)
    BY <1>0, <1>1, <1>2, <1>3, <1>a, <1>b DEF Steady, KnownSame, historyVars
  <1>5. ClosedOK(z, s)' /\ FlowOK(z, s)' /\ StartOK(z, s)' /\ EofOK(z, s)'
    BY <1>0, <1>4, SteadyOK
  <1>6. ReadOK(z, s)'
    BY <1>0 DEF ReadOK, StreamOK, historyVars
  <1> QED
    BY <1>5, <1>6 DEF StreamOK

LEMMA StreamsQuiet ==
    ASSUME TypeInv, StageInv, StreamInv, NEW e \in Ends, Quiet(e)
    PROVE  StreamInv'
  <1>1. /\ UNCHANGED <<wire, tableVars, acceptVars, data, handle, historyVars, stream_cmds>>
        /\ KnownSame
        /\ \A x \in Ends : /\ Out(x)' = Out(x) /\ Running(x)' = Running(x)
                           /\ ~Running(x) => task'[x] = task[x]
    BY QuietEffect
  <1>2. ASSUME NEW x \in Ends PROVE stream_receiver'[x] = "open" => stream_receiver[x] = "open"
    <2>1. ChannelInv
      BY TypeParts
    <2>2. CASE OnNoStreamCommand(e)
      BY <2>1, <2>2 DEF OnNoStreamCommand, ChannelInv
    <2>3. CASE OnCloseConnection(e)
      BY <2>1, <2>3 DEF OnCloseConnection, ChannelInv
    <2>4. CASE Delivered(e) \/ Break \/ \E r \in Requests : Call(r)
      BY <2>4 DEF Delivered, Break, Call, chanVars
    <2> QED
      BY <2>2, <2>3, <2>4 DEF Quiet
  <1>3. ASSUME NEW x \in Ends, NEW s PROVE (Dropped(x, s)' <=> Dropped(x, s)) /\ (CanSend(x, s)' => CanSend(x, s))
    BY <1>1, <1>2 DEF Dropped, CanSend
  <1> QED
    BY <1>1, <1>3, StreamsKept DEF tableVars

\* The application gets a new Stream, or learns that its reset is done.
LEMMA HandedOver ==
    ASSUME NEW e \in Ends, NEW h, h.status = "open" => h.sid \notin DOMAIN handle[e],
           h.status = "closed" => h.sid \in DOMAIN handle[e] /\ handle[e][h.sid] = "resetting",
           h.status \in {"none", "open", "closed"}, stream_receiver' = stream_receiver,
           handle'[Other(e)] = handle[Other(e)],
           handle'[e] = (IF h.status = "none" THEN handle[e] ELSE Insert(handle[e], h.sid, h.status))
    PROVE  \A x \in Ends : \A s : (Dropped(x, s)' <=> Dropped(x, s)) /\ (CanSend(x, s)' => CanSend(x, s))
  <1>1. ASSUME NEW s PROVE (Dropped(e, s)' <=> Dropped(e, s)) /\ (CanSend(e, s)' => CanSend(e, s))
    <2>1. CASE h.status = "none"
      BY <2>1 DEF Dropped, CanSend
    <2>2. CASE h.status # "none" /\ s # h.sid
      <3>1. (s \in DOMAIN handle'[e] <=> s \in DOMAIN handle[e]) /\ (s \in DOMAIN handle[e] => handle'[e][s] = handle[e][s])
        BY <2>2 DEF Insert
      <3> QED
        BY <3>1 DEF Dropped, CanSend
    <2>3. CASE h.status # "none" /\ s = h.sid
      <3>1. s \in DOMAIN handle'[e] /\ handle'[e][s] = h.status
        BY <2>3 DEF Insert
      <3> QED
        BY <2>3, <3>1 DEF Dropped, CanSend
    <2> QED
      BY <2>1, <2>2, <2>3
  <1>2. ASSUME NEW s
        PROVE  (Dropped(Other(e), s)' <=> Dropped(Other(e), s)) /\ (CanSend(Other(e), s)' => CanSend(Other(e), s))
    BY DEF Dropped, CanSend
  <1> QED
    BY <1>1, <1>2, TheOther

LEMMA StreamsWriteDone ==
    ASSUME TypeInv, HandInv, StreamInv, NEW e \in Ends, WriteDone(e)
    PROVE  StreamInv'
  <1>1. /\ UNCHANGED <<tableVars, chanVars, data, historyVars>> /\ task[e].at = "write"
        /\ wire' = [wire EXCEPT ![e] = Append(@, task[e].frame)] /\ task' = [task EXCEPT ![e] = Select]
        /\ SocketInv /\ Finish(e, task[e].hand)
    BY TypeParts DEF WriteDone
  <1>2. /\ task'[e] = Select /\ task'[Other(e)] = task[Other(e)] /\ Other(e) \in Ends
        /\ wire'[e] = Append(wire[e], task[e].frame) /\ wire'[Other(e)] = wire[Other(e)]
    BY <1>1, TheOther DEF SocketInv
  <1>3. Out(e)' = Out(e) /\ Running(e) /\ Running(e)'
    BY <1>1, <1>2 DEF Out, Running, Select
  <1>4. Out(Other(e))' = Out(Other(e)) /\ Running(Other(e))' = Running(Other(e))
    BY <1>2 DEF Out, Running
  <1>5. \A x \in Ends : Out(x)' = Out(x) /\ (Running(x)' <=> Running(x)) /\ (~Running(x) => task'[x] = task[x])
    BY <1>2, <1>3, <1>4, TheOther
  <1>a. PICK h : h = task[e].hand
    OBVIOUS
  <1>6. h \in Hands /\ HandOK(h, Known(e), handle[e], stream_cmds[e])
    BY <1>1, <1>a, TaskTypes DEF HandInv
  <1>7. h.status \in {"none", "open", "closed"}
    BY <1>6 DEF Hands
  <1>8. /\ handle'[Other(e)] = handle[Other(e)]
        /\ handle'[e] = (IF h.status = "none" THEN handle[e] ELSE Insert(handle[e], h.sid, h.status))
    BY <1>1, <1>6, <1>a, FinishEffect
  <1>9. \A x \in Ends : \A s : (Dropped(x, s)' <=> Dropped(x, s)) /\ (CanSend(x, s)' => CanSend(x, s))
    BY <1>1, <1>6, <1>7, <1>8, HandedOver DEF HandOK, chanVars
  <1>10. KnownSame /\ UNCHANGED <<streams, streams_stat, stream_cmds>>
    BY <1>1 DEF KnownSame, Known, tableVars, chanVars
  <1> QED
    BY <1>1, <1>5, <1>9, <1>10, StreamsKept

LEMMA StreamsAccept ==
    ASSUME TypeInv, PendingInv, StreamInv, NEW e \in Ends, OnAcceptStream(e)
    PROVE  StreamInv'
  <1>1. /\ UNCHANGED <<socketVars, task, tableVars, stream_cmds, stream_receiver, data, historyVars>>
        /\ control_cmds[e] # <<>>
    BY DEF OnAcceptStream, TakeControlCmd
  <1>2. \A x \in Ends : Out(x)' = Out(x) /\ (Running(x)' <=> Running(x)) /\ (~Running(x) => task'[x] = task[x])
    BY <1>1 DEF Out, Running, socketVars
  <1>3. KnownSame /\ UNCHANGED <<streams, streams_stat>>
    BY <1>1 DEF KnownSame, Known, tableVars
  <1>4. CASE handle' = handle
    <2>1. \A x \in Ends : \A s : (Dropped(x, s)' <=> Dropped(x, s)) /\ (CanSend(x, s)' => CanSend(x, s))
      BY <1>1, <1>4 DEF Dropped, CanSend
    <2> QED
      BY <1>1, <1>2, <1>3, <2>1, StreamsKept
  <1>5. CASE /\ pending_streams[e] # <<>>
             /\ Finish(e, [req |-> Head(control_cmds[e]), sid |-> Head(pending_streams[e]), status |-> "open"])
    <2>a. PICK h : h = [req |-> Head(control_cmds[e]), sid |-> Head(pending_streams[e]), status |-> "open"]
      OBVIOUS
    <2>1. /\ 1 \in DOMAIN pending_streams[e] /\ Head(pending_streams[e]) = pending_streams[e][1]
          /\ Head(pending_streams[e]) \in StreamID
      <3>1. pending_streams[e] \in Seq(StreamID)
        BY DEF TypeInv, TypeOK
      <3> QED
        BY <1>5, <3>1
    <2>2. h \in Hands /\ h.status = "open" /\ h.sid \notin DOMAIN handle[e]
      <3>1. Head(control_cmds[e]) \in Requests
        BY <1>1, ControlTypes
      <3> QED
        BY <2>1, <2>a, <3>1, HandTypes DEF PendingInv
    <2>3. /\ handle'[Other(e)] = handle[Other(e)]
          /\ handle'[e] = (IF h.status = "none" THEN handle[e] ELSE Insert(handle[e], h.sid, h.status))
      BY <1>5, <2>2, <2>a, FinishEffect
    <2>4. \A x \in Ends : \A s : (Dropped(x, s)' <=> Dropped(x, s)) /\ (CanSend(x, s)' => CanSend(x, s))
      BY <1>1, <2>2, <2>3, HandedOver
    <2> QED
      BY <1>1, <1>2, <1>3, <2>4, StreamsKept
  <1> QED
    BY <1>4, <1>5 DEF OnAcceptStream

LEMMA UseTouches ==
    ASSUME TypeInv, CommandInv, NEW e \in Ends, NEW sid, Use(e, sid)
    PROVE  /\ Touches(e, sid) /\ sid \in StreamID /\ sid \in Known(e) /\ sid \in DOMAIN handle[e]
           /\ KnownSame /\ \A x \in Ends : Out(x)' = Out(x) /\ (Running(x)' <=> Running(x))
           /\ UNCHANGED <<streams, streams_stat, stream_receiver, was_reset, task>>
           /\ sid \in DOMAIN handle'[e]
  <1>a. PICK o : o = Other(e)
    OBVIOUS
  <1>0. o \in Ends /\ TablesInv /\ DomInv
    BY <1>a, TheOther, TypeParts
  <1>1. /\ sid \in DOMAIN handle[e] /\ sid \in DOMAIN data[e] /\ sid \in StreamID
        /\ UNCHANGED <<streams, streams_stat, stream_receiver, was_reset, task>>
        /\ handle'[o] = handle[o] /\ data'[o] = data[o]
        /\ written'[o] = written[o] /\ got'[o] = got[o]
        /\ DOMAIN handle'[e] = DOMAIN handle[e] /\ DOMAIN data'[e] = DOMAIN data[e]
        /\ KnownSame
    BY <1>a, UseEffect DEF tableVars
  <1>2. \A x \in Ends : Out(x)' = Out(x) /\ Running(x)' = Running(x)
    BY UseQuiet
  <1>3. /\ stream_cmds'[o] = stream_cmds[o]
        /\ \/ stream_cmds'[e] = stream_cmds[e]
           \/ \E c \in Commands : c.sid = sid /\ stream_cmds'[e] = Append(stream_cmds[e], c)
        /\ \A s \in DOMAIN handle[e] : s # sid => handle'[e][s] = handle[e][s]
    BY <1>a, UseCommand
  <1>4. \A s \in Known(e) : s # sid => data'[e][s] = data[e][s] /\ got'[e][s] = got[e][s] /\ written'[e][s] = written[e][s]
    <2>1. CASE Write(e, sid)
      BY <1>0, <2>1 DEF Write, StreamCommand, DomInv, TablesInv, Tables, Known
    <2>2. CASE Close(e, sid)
      BY <2>2 DEF Close, StreamCommand
    <2>3. CASE Reset(e, sid)
      BY <2>3 DEF Reset, StreamCommand
    <2>4. CASE Read(e, sid)
      BY <1>0, <2>4 DEF Read, DomInv, TablesInv, Tables, Known
    <2>5. CASE Drop(e, sid)
      BY <1>0, <2>5 DEF Drop, historyVars, DomInv
    <2> QED
      BY <2>1, <2>2, <2>3, <2>4, <2>5 DEF Use
  <1>5. \A s : SameAt(o, s)
    BY <1>0, <1>1 DEF SameAt, KnownSame
  <1>6. ASSUME NEW s, s # sid PROVE SameAt(e, s)
    BY <1>1, <1>3, <1>4, <1>6 DEF SameAt, KnownSame
  <1>7. Touches(e, sid)
    <2>1. /\ Known(o)' = Known(o) /\ Known(e)' = Known(e)
      BY <1>0, <1>1 DEF KnownSame
    <2>2. \A z \in Ends : /\ Running(z)' <=> Running(z)
                          /\ ~Running(z) => task'[z] = task[z]
                          /\ stream_receiver'[z] = "open" => stream_receiver[z] = "open"
      BY <1>1, <1>2
    <2> QED
      BY <1>0, <1>1, <1>2, <1>3, <1>5, <1>6, <1>a, <2>1, <2>2 DEF Touches
  <1> QED
    BY <1>1, <1>2, <1>7 DEF Known

\* poll_close, reset and poll_read change no number.
LEMMA StreamsUseSame ==
    ASSUME TypeInv, CommandInv, StreamInv, NEW e \in Ends, NEW sid, Close(e, sid) \/ Reset(e, sid) \/ Read(e, sid)
    PROVE  StreamInv'
  <1>a. PICK o : o = Other(e)
    OBVIOUS
  <1>b. PICK g : g = Flip(sid)
    OBVIOUS
  <1>1. /\ Touches(e, sid) /\ sid \in StreamID /\ sid \in Known(e) /\ sid \in DOMAIN handle[e] /\ KnownSame
        /\ \A x \in Ends : Out(x)' = Out(x) /\ (Running(x)' <=> Running(x))
        /\ UNCHANGED <<streams, streams_stat, stream_receiver, was_reset, task>>
        /\ sid \in DOMAIN handle'[e]
    BY UseTouches DEF Use
  <1>2. o \in Ends /\ Other(o) = e /\ Flip(g) = sid /\ StreamOK(e, sid)
    BY <1>1, <1>a, <1>b, NamedTwice DEF StreamInv
  <1>3. /\ stream_cmds[e] \in Seq(Commands) /\ Out(e) \in Seq(Frames) /\ written[e][sid] \in Nat
        /\ got[e][sid] \in Seq(Bodies) /\ data[e][sid] \in Seq(Bodies)
        /\ Count(e, sid) = Len(got[e][sid]) + Len(data[e][sid])
        /\ DomInv /\ ChannelInv /\ TablesInv
    BY <1>1, StreamTypes, TypeParts
  <1>4. /\ CanSend(e, sid)' => CanSend(e, sid)
        /\ Dropped(e, sid)' <=> Dropped(e, sid)
        /\ KeepsCmds(stream_cmds[e], stream_cmds'[e], sid)
        /\ written'[e][sid] = written[e][sid]
    <2>1. ASSUME NEW c \in Commands, CmdVal(c, sid) = 0, stream_cmds' = [stream_cmds EXCEPT ![e] = Append(@, c)]
          PROVE  KeepsCmds(stream_cmds[e], stream_cmds'[e], sid)
      <3>1. stream_cmds'[e] = Append(stream_cmds[e], c)
        BY <1>3, <2>1 DEF ChannelInv
      <3> QED
        BY <1>3, <2>1, <3>1, CmdsKept
    <2>2. CASE Close(e, sid)
      <3>a. PICK c : c = [type |-> "CloseStream", sid |-> sid, body |-> NoBody]
        OBVIOUS
      <3>1. c \in Commands /\ CmdVal(c, sid) = 0
        BY <1>1, <3>a, HandTypes DEF Commands, CmdVal
      <3>2. /\ stream_cmds' = [stream_cmds EXCEPT ![e] = Append(@, c)] /\ written' = written
            /\ handle' = [handle EXCEPT ![e][sid] = "closed"] /\ handle[e][sid] = "open"
        BY <2>2, <3>a DEF Close, StreamCommand
      <3>3. handle'[e][sid] = "closed"
        BY <1>1, <1>3, <3>2 DEF DomInv
      <3> QED
        BY <1>1, <2>1, <3>1, <3>2, <3>3 DEF CanSend, Dropped
    <2>3. CASE Reset(e, sid)
      <3>a. PICK c : c = [type |-> "ResetStream", sid |-> sid, body |-> NoBody]
        OBVIOUS
      <3>1. c \in Commands /\ CmdVal(c, sid) = 0
        BY <1>1, <3>a, HandTypes DEF Commands, CmdVal
      <3>2. /\ stream_cmds' = [stream_cmds EXCEPT ![e] = Append(@, c)] /\ written' = written
            /\ handle' = [handle EXCEPT ![e][sid] = "resetting"] /\ handle[e][sid] = "open"
        BY <2>3, <3>a DEF Reset, StreamCommand
      <3>3. handle'[e][sid] = "resetting"
        BY <1>1, <1>3, <3>2 DEF DomInv
      <3> QED
        BY <1>1, <2>1, <3>1, <3>2, <3>3 DEF CanSend, Dropped
    <2>4. CASE Read(e, sid)
      <3>1. handle' = handle /\ stream_cmds' = stream_cmds /\ written' = written
        BY <2>4 DEF Read, chanVars
      <3>2. KeepsCmds(stream_cmds[e], stream_cmds'[e], sid)
        BY <1>3, <3>1, CmdsKept
      <3> QED
        BY <1>1, <3>1, <3>2 DEF CanSend, Dropped
    <2> QED
      BY <2>2, <2>3, <2>4
  <1>5. Count(e, sid)' = Count(e, sid) /\ got'[e][sid] \o data'[e][sid] = got[e][sid] \o data[e][sid]
    <2>1. CASE Close(e, sid) \/ Reset(e, sid)
      <3>1. got' = got /\ data' = data
        BY <2>1 DEF Close, Reset, StreamCommand
      <3> QED
        BY <3>1 DEF Count, Known
    <2>2. CASE Read(e, sid)
      <3>a. PICK a \in Seq(Bodies) : a = got[e][sid]
        BY <1>3
      <3>b. PICK d \in Seq(Bodies) : d = data[e][sid]
        BY <1>3
      <3>1. d # <<>> /\ got'[e][sid] = Append(a, Head(d)) /\ data'[e][sid] = Tail(d)
        BY <1>1, <1>3, <2>2, <3>a, <3>b DEF Read, DomInv, TablesInv, Tables, Known
      <3>2. Append(a, Head(d)) \o Tail(d) = a \o d
        BY <3>1
      <3>3. Len(Append(a, Head(d))) + Len(Tail(d)) = Len(a) + Len(d)
        BY <3>1
      <3>4. Count(e, sid)' = Len(got'[e][sid]) + Len(data'[e][sid])
        BY <1>1 DEF Count, KnownSame
      <3> QED
        BY <1>3, <3>1, <3>2, <3>3, <3>4, <3>a, <3>b
    <2> QED
      BY <2>1, <2>2
  <1>6. /\ Deliverable(e, sid)' <=> Deliverable(e, sid)
        /\ Writable(e, sid)' <=> Writable(e, sid)
        /\ NotReset(e, sid)' <=> NotReset(e, sid)
        /\ Sent(e, "Close", sid)' <=> Sent(e, "Close", sid)
    BY <1>1, <1>4 DEF Deliverable, Writable, NotReset, Sent
  <1>7. FlowOK(e, sid)'
    <2>1. KeepsMsgs(Out(e), Out(e)', sid)
      BY <1>1, <1>3, MsgsKept
    <2>2. (Gives(e, sid)' => Gives(e, sid)) /\ (Done(e, sid)' => Done(e, sid))
      BY <1>1, <1>6 DEF Gives, Done
    <2> QED
      BY <1>1, <1>4, <2>1, <2>2, SelfFlow
  <1>8. ClosedOK(e, sid)' /\ StartOK(e, sid)'
    BY <1>1, <1>4, <1>5, <1>6, SelfClosed, SelfStart DEF KeepsCmds
  <1>9. EofOK(e, sid)'
    BY <1>1, <1>4, <1>5, <1>6, SelfEof DEF Finished
  <1>10. ReadOK(e, sid)'
    BY <1>2, <1>5 DEF StreamOK, ReadOK
  <1>11. ASSUME g \in Known(o)' PROVE StreamOK(o, g)'
    <2>1. g \in Known(o) /\ Out(o)' = Out(o)
      BY <1>1, <1>2, <1>11 DEF KnownSame
    <2>2. FlowOK(o, g)'
      BY <1>1, <1>5, <1>6, <1>a, <1>b, <2>1, OtherFlow
    <2>3. EofOK(o, g)'
      BY <1>1, <1>4, <1>a, <1>b, <2>1, OtherEof
    <2> QED
      BY <1>1, <1>a, <1>b, <2>1, <2>2, <2>3, OtherOK
  <1> QED
    BY <1>1, <1>7, <1>8, <1>9, <1>10, <1>11, <1>a, <1>b, TouchBoth DEF StreamOK

\* poll_write adds a message: the stream is open here, so nobody takes it for finished.
LEMMA StreamsWrite ==
    ASSUME TypeInv, CommandInv, StageInv, SentInv, StreamInv, NEW e \in Ends, NEW sid, Write(e, sid)
    PROVE  StreamInv'
  <1>a. PICK o : o = Other(e)
    OBVIOUS
  <1>b. PICK g : g = Flip(sid)
    OBVIOUS
  <1>c. PICK w : w = written[e][sid]
    OBVIOUS
  <1>d. PICK c : c = [type |-> "SendFrame", sid |-> sid, body |-> [from |-> e, sid |-> sid, n |-> written[e][sid] + 1]]
    OBVIOUS
  <1>1. /\ Touches(e, sid) /\ sid \in StreamID /\ sid \in Known(e) /\ sid \in DOMAIN handle[e] /\ KnownSame
        /\ \A x \in Ends : Out(x)' = Out(x) /\ (Running(x)' <=> Running(x))
        /\ UNCHANGED <<streams, streams_stat, stream_receiver, was_reset, task>>
    BY UseTouches DEF Use
  <1>2. o \in Ends /\ Other(o) = e /\ Flip(g) = sid /\ StreamOK(e, sid)
    BY <1>1, <1>a, <1>b, NamedTwice DEF StreamInv
  <1>3. /\ stream_cmds[e] \in Seq(Commands) /\ Out(e) \in Seq(Frames) /\ w \in Nat
        /\ DomInv /\ ChannelInv /\ TablesInv
    BY <1>1, <1>c, StreamTypes, TypeParts
  <1>4. /\ stream_cmds' = [stream_cmds EXCEPT ![e] = Append(@, c)] /\ written' = [written EXCEPT ![e][sid] = @ + 1]
        /\ handle' = handle /\ data' = data /\ got' = got /\ handle[e][sid] = "open" /\ stream_receiver[e] = "open"
    BY <1>d DEF Write, StreamCommand
  <1>5. c \in Commands /\ CmdVal(c, sid) = w + 1
    BY <1>1, <1>3, <1>c, <1>d DEF Commands, Bodies, CmdVal
  <1>6. stream_cmds'[e] = Append(stream_cmds[e], c) /\ written'[e][sid] = w + 1
    BY <1>1, <1>3, <1>4, <1>c DEF DomInv, ChannelInv, TablesInv, Tables, Known
  <1>7. CanSend(e, sid) /\ Running(e)
    BY <1>4 DEF CanSend, StageInv
  <1>8. /\ Deliverable(e, sid)' <=> Deliverable(e, sid)
        /\ Dropped(e, sid)' <=> Dropped(e, sid)
        /\ Writable(e, sid)' <=> Writable(e, sid)
        /\ NotReset(e, sid)' <=> NotReset(e, sid)
        /\ Sent(e, "Close", sid)' <=> Sent(e, "Close", sid)
        /\ Count(e, sid)' = Count(e, sid)
    BY <1>1, <1>4 DEF Deliverable, Dropped, Writable, NotReset, Sent, Count, Known
  <1>9. NotReset(e, sid) => Writable(e, sid)
    BY <1>2, <1>7 DEF StreamOK, ClosedOK
  <1>10. ClosedOK(e, sid)'
    BY <1>8, <1>9 DEF ClosedOK
  <1>11. FlowOK(e, sid)'
    <2>1. ~Done(e, sid)'
      BY <1>1, <1>7, <1>8, <1>9 DEF Done, SentInv
    <2>2. /\ Count(o, g)' = Count(o, g)
          /\ Deliverable(o, g)' <=> Deliverable(o, g)
          /\ g \in Known(o)' <=> g \in Known(o)
      BY <1>1, <1>a, <1>b, OtherKept
    <2>3. (Takes(e, sid)' <=> Takes(e, sid)) /\ (Gives(e, sid)' <=> Gives(e, sid))
      BY <1>1, <1>8, <1>a, <1>b, <2>2 DEF Takes, Gives
    <2>4. FlowAt(Out(e), Count(o, g), stream_cmds[e], w, sid, Takes(e, sid), Gives(e, sid), Done(e, sid))
      BY <1>2, <1>a, <1>b, <1>c DEF StreamOK, FlowOK
    <2>5. FlowAt(Out(e), Count(o, g), Append(stream_cmds[e], c), w + 1, sid, Takes(e, sid), Gives(e, sid), FALSE)
      BY <1>3, <1>5, <2>4, FlowWrite
    <2>6. FlowAt(Out(e)', Count(o, g)', stream_cmds'[e], written'[e][sid], sid, Takes(e, sid)', Gives(e, sid)', Done(e, sid)')
      BY <1>1, <1>6, <2>1, <2>2, <2>3, <2>5 DEF FlowAt
    <2> QED
      BY <1>a, <1>b, <2>6 DEF FlowOK
  <1>12. StartOK(e, sid)' /\ EofOK(e, sid)'
    BY <1>1, <1>8, SelfStart, SelfEof DEF Finished
  <1>13. ReadOK(e, sid)'
    BY <1>2, <1>4 DEF StreamOK, ReadOK
  <1>14. ASSUME g \in Known(o)' PROVE StreamOK(o, g)'
    <2>1. g \in Known(o) /\ Out(o)' = Out(o)
      BY <1>1, <1>2, <1>14 DEF KnownSame
    <2>2. FlowOK(o, g)'
      BY <1>1, <1>8, <1>a, <1>b, <2>1, OtherFlow
    <2>3. EofOK(o, g)'
      <3>1. EofOK(o, g)
        BY <1>2, <2>1 DEF StreamInv, StreamOK
      <3>2. ~Finished(o, g)
        BY <1>1, <1>2, <1>7, <3>1 DEF EofOK
      <3>3. ~Finished(o, g)'
        BY <1>1, <1>a, <1>b, <3>2, OtherKept
      <3> QED
        BY <3>3 DEF EofOK
    <2> QED
      BY <1>1, <1>a, <1>b, <2>1, <2>2, <2>3, OtherOK
  <1> QED
    BY <1>1, <1>10, <1>11, <1>12, <1>13, <1>14, <1>a, <1>b, TouchBoth DEF StreamOK

\* The Stream is gone with what it had not read.
LEMMA StreamsDrop ==
    ASSUME TypeInv, CommandInv, StreamInv, NEW e \in Ends, NEW sid, Drop(e, sid)
    PROVE  StreamInv'
  <1>a. PICK o : o = Other(e)
    OBVIOUS
  <1>b. PICK g : g = Flip(sid)
    OBVIOUS
  <1>1. /\ Touches(e, sid) /\ sid \in StreamID /\ sid \in Known(e) /\ sid \in DOMAIN handle[e] /\ KnownSame
        /\ \A x \in Ends : Out(x)' = Out(x) /\ (Running(x)' <=> Running(x))
        /\ UNCHANGED <<streams, streams_stat, stream_receiver, was_reset, task>>
        /\ sid \in DOMAIN handle'[e]
    BY UseTouches DEF Use
  <1>2. o \in Ends /\ Other(o) = e /\ Flip(g) = sid /\ StreamOK(e, sid)
    BY <1>1, <1>a, <1>b, NamedTwice DEF StreamInv
  <1>3. /\ stream_cmds[e] \in Seq(Commands) /\ Out(e) \in Seq(Frames)
        /\ got[e][sid] \in Seq(Bodies) /\ data[e][sid] \in Seq(Bodies)
        /\ Count(e, sid) = Len(got[e][sid]) + Len(data[e][sid])
        /\ DomInv
    BY <1>1, StreamTypes, TypeParts
  <1>4. /\ stream_cmds' = stream_cmds /\ written' = written /\ got' = got
        /\ handle' = [handle EXCEPT ![e][sid] = "dropped"] /\ data' = [data EXCEPT ![e][sid] = <<>>]
    BY DEF Drop, chanVars, historyVars
  <1>5. handle'[e][sid] = "dropped" /\ data'[e][sid] = <<>>
    BY <1>1, <1>3, <1>4 DEF DomInv, Known
  <1>6. /\ Dropped(e, sid)' /\ ~Deliverable(e, sid)' /\ ~CanSend(e, sid)'
        /\ Writable(e, sid)' <=> Writable(e, sid)
        /\ NotReset(e, sid)' <=> NotReset(e, sid)
        /\ Sent(e, "Close", sid)' <=> Sent(e, "Close", sid)
    BY <1>1, <1>5 DEF Deliverable, Dropped, CanSend, Writable, NotReset, Sent
  <1>7. FlowOK(e, sid)'
    <2>1. KeepsMsgs(Out(e), Out(e)', sid) /\ KeepsCmds(stream_cmds[e], stream_cmds'[e], sid)
      BY <1>1, <1>3, <1>4, MsgsKept, CmdsKept
    <2>2. (Gives(e, sid)' => Gives(e, sid)) /\ (Done(e, sid)' => Done(e, sid))
      BY <1>1, <1>6 DEF Gives, Done
    <2> QED
      BY <1>1, <1>4, <2>1, <2>2, SelfFlow
  <1>8. ClosedOK(e, sid)'
    BY <1>1, <1>4, <1>6, SelfClosed
  <1>9. StartOK(e, sid)'
    <2>1. Flip(sid) \in Known(Other(e))' <=> Flip(sid) \in Known(Other(e))
      BY <1>1, <1>2, <1>a DEF KnownSame
    <2>2. Count(e, sid) = 0 => Count(e, sid)' = 0
      <3>1. Count(e, sid)' = Len(got'[e][sid]) + Len(data'[e][sid])
        BY <1>1 DEF Count, KnownSame
      <3>2. PICK m \in Nat : m = Len(got[e][sid])
        BY <1>3
      <3>3. PICK n \in Nat : n = Len(data[e][sid])
        BY <1>3
      <3>4. Count(e, sid) = m + n /\ Count(e, sid)' = m + 0
        BY <1>3, <1>4, <1>5, <3>1, <3>2, <3>3
      <3> QED
        BY <3>4
    <2> QED
      BY <1>2, <2>1, <2>2 DEF StreamOK, StartOK
  <1>10. EofOK(e, sid)'
    BY <1>6 DEF EofOK, Finished
  <1>11. ReadOK(e, sid)'
    <2>a. PICK a \in Seq(Bodies) : a = got[e][sid]
      BY <1>3
    <2>b. PICK d \in Seq(Bodies) : d = data[e][sid]
      BY <1>3
    <2>1. InOrderOf(a \o d, o, g)
      BY <1>2, <1>a, <1>b, <2>a, <2>b DEF StreamOK, ReadOK
    <2>2. a \o <<>> = a /\ \A i \in 1 .. Len(a) : i \in 1 .. Len(a \o d) /\ (a \o d)[i] = a[i]
      OBVIOUS
    <2>3. InOrderOf(a \o <<>>, o, g)
      BY <2>1, <2>2 DEF InOrderOf
    <2> QED
      BY <1>4, <1>5, <1>a, <1>b, <2>3, <2>a DEF ReadOK
  <1>12. ASSUME g \in Known(o)' PROVE StreamOK(o, g)'
    <2>1. g \in Known(o) /\ Out(o)' = Out(o)
      BY <1>1, <1>2, <1>12 DEF KnownSame
    <2>2. FlowOK(o, g)'
      BY <1>1, <1>6, <1>a, <1>b, <2>1, OtherFlow
    <2>3. EofOK(o, g)'
      BY <1>1, <1>4, <1>6, <1>a, <1>b, <2>1, OtherEof
    <2> QED
      BY <1>1, <1>a, <1>b, <2>1, <2>2, <2>3, OtherOK
  <1> QED
    BY <1>1, <1>7, <1>8, <1>9, <1>10, <1>11, <1>12, <1>a, <1>b, TouchBoth DEF StreamOK

LEMMA ReadsTouches ==
    ASSUME TypeInv, FramesInv, OpenInv, NEW e \in Ends, Reads(e), NEW sid, sid = Received(e), NEW o, o = Other(e)
    PROVE  /\ Touches(e, sid) /\ sid \in StreamID /\ sid \in Known(e) /\ Flip(sid) \in Known(o) /\ KnownSame
           /\ Out(e)' = Out(e) /\ Out(o) # <<>> /\ Out(o)' = Tail(Out(o)) /\ SidOf(Head(Out(o))) = Flip(sid)
           /\ Running(e) /\ UNCHANGED <<stream_cmds, stream_receiver, handle, historyVars>>
           /\ Head(Out(o)) \in Frames /\ Head(Out(o)) = Head(wire[o])
  <1>0. o \in Ends /\ TablesInv /\ DomInv /\ streams \in [Ends -> SUBSET StreamID]
    BY TheOther, TypeParts DEF IdInv
  <1>1. /\ Out(e)' = Out(e) /\ Out(o) # <<>> /\ Out(o)' = Tail(Out(o))
        /\ Running(e) /\ Running(e)' /\ Running(o)' = Running(o)
        /\ Head(Out(o)) \in Frames /\ Head(Out(o)) = Head(wire[o])
        /\ SidOf(Head(Out(o))) = Flip(sid) /\ sid \in StreamID
        /\ TagOf(Head(Out(o))) # "NewStream"
        /\ task'[o] = task[o]
        /\ UNCHANGED <<chanVars, handle, historyVars>>
        /\ streams'[o] = streams[o] /\ streams_stat'[o] = streams_stat[o] /\ data'[o] = data[o]
        /\ KnownSame
    BY ReadsEffect
  <1>2. sid \in Known(e) /\ Flip(sid) \in Known(o)
    BY <1>1, HeadFacts
  <1>3. \A s : SameAt(o, s)
    BY <1>0, <1>1 DEF SameAt, KnownSame, historyVars
  <1>4. ASSUME NEW s, s # sid PROVE SameAt(e, s)
    <2>1. /\ s \in DOMAIN streams_stat'[e] <=> s \in DOMAIN streams_stat[e]
          /\ s \in DOMAIN streams_stat[e] => streams_stat'[e][s] = streams_stat[e][s]
      <3>1. CASE streams_stat'[e] = streams_stat[e]
        BY <3>1
      <3>2. CASE streams_stat'[e] = Remove(streams_stat[e], sid)
        BY <1>4, <3>2 DEF Remove
      <3>3. CASE streams_stat'[e] = [streams_stat[e] EXCEPT ![sid] = "RecvClosed"]
        BY <1>4, <3>3
      <3> QED
        BY <3>1, <3>2, <3>3, ReadsStat
    <2>2. s \in streams'[e] <=> s \in streams[e]
      <3>1. CASE OnMessageIgnored(e)
        BY <1>0, <1>4, <3>1 DEF OnMessageIgnored
      <3>2. CASE OnMessage(e)
        BY <3>2 DEF OnMessage, tableVars
      <3>3. CASE OnClose(e) \/ OnReset(e)
        BY <1>4, <3>3, ReadsStat
      <3> QED
        BY <3>1, <3>2, <3>3 DEF Reads
    <2>3. data'[e][s] = data[e][s]
      <3>1. CASE OnMessageIgnored(e)
        BY <3>1 DEF OnMessageIgnored
      <3>2. CASE OnMessage(e)
        BY <1>0, <1>4, <3>2 DEF OnMessage, DomInv
      <3>3. CASE OnClose(e) \/ OnReset(e)
        BY <3>3, ReadsStat
      <3> QED
        BY <3>1, <3>2, <3>3 DEF Reads
    <2> QED
      BY <1>1, <2>1, <2>2, <2>3 DEF SameAt, KnownSame, historyVars
  <1>5. \A z \in Ends : /\ Running(z)' <=> Running(z)
                        /\ ~Running(z) => task'[z] = task[z]
                        /\ stream_receiver'[z] = "open" => stream_receiver[z] = "open"
    BY <1>1, TheOther DEF chanVars
  <1>6. Touches(e, sid)
    <2>1. Known(o)' = Known(o) /\ Known(e)' = Known(e)
      BY <1>0, <1>1 DEF KnownSame
    <2>2. stream_cmds' = stream_cmds /\ was_reset' = was_reset
      BY <1>1 DEF chanVars, historyVars
    <2> QED
      BY <1>0, <1>1, <1>3, <1>4, <1>5, <2>1, <2>2 DEF Touches
  <1> QED
    BY <1>1, <1>2, <1>6 DEF chanVars

\* A message is taken and is the next one; a Close comes after all of them.
LEMMA StreamsReads ==
    ASSUME TypeInv, FramesInv, OpenInv, StageInv, SentInv, StreamInv, NEW e \in Ends, Reads(e)
    PROVE  StreamInv'
  <1>a. PICK o : o = Other(e)
    OBVIOUS
  <1>b. PICK sid : sid = Received(e)
    OBVIOUS
  <1>c. PICK g : g = Flip(sid)
    OBVIOUS
  <1>d. PICK f : f = Head(Out(o))
    OBVIOUS
  <1>1. /\ Touches(e, sid) /\ sid \in StreamID /\ sid \in Known(e) /\ g \in Known(o) /\ KnownSame
        /\ Out(e)' = Out(e) /\ Out(o) # <<>> /\ Out(o)' = Tail(Out(o)) /\ SidOf(f) = g
        /\ Running(e) /\ UNCHANGED <<stream_cmds, stream_receiver, handle, historyVars>>
        /\ f \in Frames /\ f = Head(wire[o])
    BY <1>a, <1>b, <1>c, <1>d, ReadsTouches
  <1>2. /\ o \in Ends /\ Other(o) = e /\ Flip(g) = sid /\ g \in StreamID /\ StreamOK(e, sid) /\ StreamOK(o, g)
        /\ NotReset(o, g) <=> NotReset(e, sid)
        /\ NotReset(e, sid)' <=> NotReset(e, sid)
    <2>1. o \in Ends /\ Other(o) = e /\ Flip(g) = sid /\ g \in StreamID /\ (NotReset(o, g) <=> NotReset(e, sid))
      BY <1>1, <1>a, <1>c, NamedTwice
    <2>2. NotReset(e, sid)' <=> NotReset(e, sid)
      BY <1>1 DEF NotReset, historyVars
    <2> QED
      BY <1>1, <2>1, <2>2 DEF StreamInv
  <1>3. /\ stream_cmds[e] \in Seq(Commands) /\ Out(e) \in Seq(Frames) /\ Out(o) \in Seq(Frames)
        /\ Count(e, sid) \in Nat /\ written[o][g] \in Nat
        /\ got[e][sid] \in Seq(Bodies) /\ data[e][sid] \in Seq(Bodies)
        /\ Count(e, sid) = Len(got[e][sid]) + Len(data[e][sid])
        /\ DomInv
    BY <1>1, <1>2, StreamTypes, TypeParts
  <1>4. /\ Sent(o, TagOf(f), g)
        /\ TagOf(f) = "Close" => ~Has(Tail(Out(o)), "Message", g)
        /\ TagOf(f) = "Message" <=> OnMessageIgnored(e) \/ OnMessage(e)
        /\ TagOf(f) = "Close" <=> OnClose(e)
        /\ TagOf(f) = "Reset" <=> OnReset(e)
        /\ TagOf(f) # "NewStream"
    <2>1. TagOf(f) # "NewStream" /\ (TagOf(f) = "Message" <=> OnMessageIgnored(e) \/ OnMessage(e))
          /\ (TagOf(f) = "Close" <=> OnClose(e)) /\ (TagOf(f) = "Reset" <=> OnReset(e))
      BY <1>a, <1>d, ReadsEffect
    <2>2. Sent(o, TagOf(f), g) /\ (TagOf(f) = "Close" => ~Has(Tail(Out(o)), "Message", g))
      BY <1>1, <1>a, <1>c, <1>d, <2>1, HeadFacts
    <2> QED
      BY <2>1, <2>2
  <1>5. OnReset(e) => ~NotReset(e, sid)
    BY <1>2, <1>4 DEF SentInv
  <1>6. /\ Dropped(e, sid)' <=> Dropped(e, sid)
        /\ CanSend(e, sid)' <=> CanSend(e, sid)
        /\ Sent(e, "Close", sid)' <=> Sent(e, "Close", sid)
        /\ Writable(e, sid)' => Writable(e, sid)
        /\ ~OnReset(e) => (Writable(e, sid)' <=> Writable(e, sid))
        /\ Running(e)'
    <2>1. /\ Dropped(e, sid)' <=> Dropped(e, sid)
          /\ CanSend(e, sid)' <=> CanSend(e, sid)
          /\ Sent(e, "Close", sid)' <=> Sent(e, "Close", sid)
      BY <1>1 DEF Dropped, CanSend, Sent
    <2>2. Writable(e, sid)' => Writable(e, sid)
      BY ReadsStat
    <2>3. ASSUME ~OnReset(e), Writable(e, sid) PROVE Writable(e, sid)'
      <3>1. CASE streams_stat'[e] = streams_stat[e]
        BY <2>3, <3>1 DEF Writable
      <3>2. CASE streams_stat'[e] = [streams_stat[e] EXCEPT ![sid] = "RecvClosed"]
        BY <2>3, <3>2 DEF Writable, can_write
      <3> QED
        BY <1>b, <2>3, <3>1, <3>2, ReadsStat DEF Writable, can_write
    <2>4. Running(e)'
      BY ReadsEffect
    <2> QED
      BY <2>1, <2>2, <2>3, <2>4
  <1>7. FlowOK(e, sid)'
    <2>1. KeepsMsgs(Out(e), Out(e)', sid) /\ KeepsCmds(stream_cmds[e], stream_cmds'[e], sid)
      BY <1>1, <1>3, MsgsKept, CmdsKept
    <2>2. (Gives(e, sid)' => Gives(e, sid)) /\ (Done(e, sid)' => Done(e, sid))
      BY <1>1, <1>2, <1>6 DEF Gives, Done
    <2> QED
      BY <1>1, <2>1, <2>2, SelfFlow DEF historyVars
  <1>8. ClosedOK(e, sid)'
    BY <1>1, <1>2, <1>5, <1>6, SelfClosed
  <1>9. StartOK(e, sid)'
    <2>1. g \in Known(o)'
      BY <1>1, <1>2 DEF KnownSame
    <2> QED
      BY <1>a, <1>c, <2>1 DEF StartOK
  <1>10. EofOK(o, g)'
    BY <1>1, <1>6, <1>a, <1>c, OtherEof DEF historyVars
  <1>11. CASE OnMessage(e)
    <2>1. /\ data' = [data EXCEPT ![e][sid] = Append(@, f.body)] /\ Deliverable(e, sid)
          /\ streams' = streams /\ streams_stat' = streams_stat
      BY <1>1, <1>11, <1>a, <1>b DEF OnMessage, tableVars
    <2>2. Deliverable(e, sid)'
      BY <1>6, <2>1 DEF Deliverable
    <2>3. MsgVal(f, g) = f.body.n /\ BodyOK(f.body, o, g) /\ f.body.n \in Nat \ {0}
      <3>1. 1 \in DOMAIN Out(o) /\ Out(o)[1] = f /\ TagOf(f) = "Message"
        BY <1>1, <1>3, <1>4, <1>11, <1>d
      <3>2. BodyOK(f.body, o, g)
        BY <1>1, <1>2, <3>1 DEF FramesInv, FramesOK
      <3> QED
        BY <1>1, <3>1, <3>2 DEF BodyOK, MsgVal
    <2>4. FlowAt(Out(o), Count(e, sid), stream_cmds[o], written[o][g], g, TRUE, Gives(o, g), Done(o, g))
      <3>1. Takes(o, g)
        BY <1>2, <2>1 DEF Takes
      <3>2. FlowAt(Out(o), Count(e, sid), stream_cmds[o], written[o][g], g, Takes(o, g), Gives(o, g), Done(o, g))
        BY <1>2 DEF StreamOK, FlowOK
      <3> QED
        BY <3>1, <3>2 DEF FlowAt
    <2>5. /\ f.body.n = Count(e, sid) + 1
          /\ FlowAt(Tail(Out(o)), Count(e, sid) + 1, stream_cmds[o], written[o][g], g, TRUE, Gives(o, g), Done(o, g))
      <3>1. Out(o) # <<>> /\ MsgVal(Head(Out(o)), g) # 0
        BY <1>1, <1>d, <2>3
      <3>2. /\ MsgVal(Head(Out(o)), g) = Count(e, sid) + 1
            /\ FlowAt(Tail(Out(o)), Count(e, sid) + 1, stream_cmds[o], written[o][g], g, TRUE, Gives(o, g), Done(o, g))
        BY <1>3, <2>4, <3>1, FlowTake
      <3> QED
        BY <1>d, <2>3, <3>2
    <2>6. data'[e][sid] = Append(data[e][sid], f.body) /\ got'[e][sid] = got[e][sid]
      BY <1>1, <1>3, <2>1 DEF DomInv, Known, historyVars
    <2>a. PICK a \in Seq(Bodies) : a = got[e][sid]
      BY <1>3
    <2>b. PICK d \in Seq(Bodies) : d = data[e][sid]
      BY <1>3
    <2>c. PICK m \in Nat : m = Len(a)
      OBVIOUS
    <2>d. PICK n \in Nat : n = Len(d)
      OBVIOUS
    <2>7. f.body \in Bodies /\ Len(Append(d, f.body)) = n + 1
      BY <1>1, <2>d DEF Frames
    <2>8. Count(e, sid) = m + n /\ Count(e, sid)' = m + (n + 1)
      <3>1. Count(e, sid) = m + n
        BY <1>3, <2>a, <2>b, <2>c, <2>d
      <3>2. Count(e, sid)' = Len(got'[e][sid]) + Len(data'[e][sid])
        BY <1>1 DEF Count, KnownSame
      <3> QED
        BY <2>6, <2>7, <2>a, <2>b, <2>c, <3>1, <3>2
    <2>9. Count(e, sid)' = Count(e, sid) + 1
      BY <2>8
    <2>10. FlowOK(o, g)'
      <3>1. /\ Gives(o, g)' => Gives(o, g)
            /\ stream_cmds'[o] = stream_cmds[o]
            /\ Done(o, g)' => Done(o, g)
            /\ written'[o][g] = written[o][g]
        BY <1>1, <1>a, <1>c, OtherKept
      <3>2. FlowAt(Out(o)', Count(e, sid)', stream_cmds'[o], written'[o][g], g, Takes(o, g)', Gives(o, g)', Done(o, g)')
        BY <1>1, <2>5, <2>9, <3>1 DEF FlowAt
      <3> QED
        BY <1>2, <3>2 DEF FlowOK
    <2>11. EofOK(e, sid)'
      BY <2>2 DEF EofOK, Finished
    <2>12. ReadOK(e, sid)'
      <3>1. InOrderOf(a \o d, o, g)
        BY <1>2, <1>a, <1>c, <2>a, <2>b DEF StreamOK, ReadOK
      <3>2. f.body = [from |-> o, sid |-> g, n |-> m + n + 1]
        BY <2>3, <2>5, <2>8 DEF BodyOK
      <3>3. /\ Len(a \o Append(d, f.body)) = m + n + 1 /\ Len(a \o d) = m + n
            /\ \A i \in 1 .. m + n : (a \o Append(d, f.body))[i] = (a \o d)[i]
            /\ (a \o Append(d, f.body))[m + n + 1] = f.body
        BY <2>7, <2>c, <2>d
      <3>4. InOrderOf(a \o Append(d, f.body), o, g)
        <4> SUFFICES ASSUME NEW i \in 1 .. m + n + 1 PROVE (a \o Append(d, f.body))[i] = [from |-> o, sid |-> g, n |-> i]
          BY <3>3 DEF InOrderOf
        <4>1. CASE i = m + n + 1
          BY <3>2, <3>3, <4>1
        <4>2. CASE i \in 1 .. m + n
          BY <3>1, <3>3, <4>2 DEF InOrderOf
        <4>3. i = m + n + 1 \/ i \in 1 .. m + n
          BY <2>c, <2>d
        <4> QED
          BY <4>1, <4>2, <4>3
      <3> QED
        BY <1>a, <1>c, <2>6, <2>a, <2>b, <3>4 DEF ReadOK
    <2>13. StreamOK(o, g)'
      BY <1>1, <1>10, <1>a, <1>c, <2>10, OtherOK
    <2> QED
      BY <1>1, <1>7, <1>8, <1>9, <1>a, <1>c, <2>11, <2>12, <2>13, TouchBoth DEF StreamOK
  <1>12. CASE ~OnMessage(e)
    <2>1. data' = data /\ Count(e, sid)' = Count(e, sid)
      <3>1. data' = data
        BY <1>12, ReadsStat DEF Reads, OnMessageIgnored
      <3> QED
        BY <1>1, <3>1 DEF Count, Known, historyVars
    <2>2. ~Deliverable(e, sid)'
      <3>1. CASE OnMessageIgnored(e)
        <4>1. ~Deliverable(e, sid) /\ streams_stat' = streams_stat /\ handle' = handle
          BY <1>b, <3>1 DEF OnMessageIgnored
        <4>2. streams'[e] \subseteq streams[e]
          BY <3>1, TypeParts DEF OnMessageIgnored, IdInv
        <4> QED
          BY <1>6, <4>1, <4>2 DEF Deliverable
      <3>2. CASE OnClose(e) \/ OnReset(e)
        BY <1>b, <3>2, ReadsStat DEF Deliverable
      <3> QED
        BY <1>12, <3>1, <3>2 DEF Reads
    <2>3. FlowOK(o, g)'
      BY <1>1, <1>a, <1>c, <2>2, OtherFlow
    <2>4. ReadOK(e, sid)'
      BY <1>1, <1>2, <2>1 DEF ReadOK, StreamOK, historyVars
    <2>5. EofOK(e, sid)'
      <3>1. CASE ~Deliverable(e, sid)
        BY <1>1, <1>6, <2>1, <3>1, SelfEof DEF Finished
      <3>2. CASE OnReset(e)
        BY <1>2, <1>5, <3>2 DEF EofOK, Finished
      <3>3. CASE Deliverable(e, sid) /\ OnClose(e) /\ NotReset(e, sid)
        <4>1. Takes(o, g) /\ Done(o, g)
          BY <1>2, <1>4, <3>3 DEF Takes, Done
        <4>2. FlowAt(Out(o), Count(e, sid), stream_cmds[o], written[o][g], g, TRUE, Gives(o, g), TRUE)
          <5>1. FlowAt(Out(o), Count(e, sid), stream_cmds[o], written[o][g], g, Takes(o, g), Gives(o, g), Done(o, g))
            BY <1>2 DEF StreamOK, FlowOK
          <5> QED
            BY <4>1, <5>1 DEF FlowAt
        <4>3. \A i \in DOMAIN Out(o) : MsgVal(Out(o)[i], g) = 0
          <5>1. ~Has(Out(o), "Message", g)
            BY <1>1, <1>3, <1>4, <1>d, <3>3, HasStep
          <5> QED
            BY <5>1 DEF Has, MsgVal
        <4>4. Count(e, sid) = written[o][g]
          BY <1>3, <4>2, <4>3, FlowTaken
        <4>5. ~CanSend(o, g)
          <5>1. CASE Running(o)
            <6>1. ~Writable(o, g)
              BY <1>2, <1>4, <3>3 DEF SentInv
            <6> QED
              BY <1>2, <3>3, <5>1, <6>1 DEF StreamOK, ClosedOK
          <5>2. CASE ~Running(o)
            BY <1>2, <5>2 DEF StageInv, CanSend
          <5> QED
            BY <5>1, <5>2
        <4>6. (CanSend(o, g)' => CanSend(o, g)) /\ written'[o][g] = written[o][g] /\ g \in Known(o)'
          BY <1>1, <1>a, <1>c, OtherKept
        <4> QED
          BY <1>a, <1>c, <2>1, <4>4, <4>5, <4>6 DEF EofOK
      <3>4. CASE ~NotReset(e, sid)
        BY <1>2, <3>4 DEF EofOK, Finished
      <3> QED
        BY <1>12, <1>b, <3>1, <3>2, <3>3, <3>4 DEF Reads, OnMessageIgnored
    <2>6. StreamOK(o, g)'
      BY <1>1, <1>10, <1>a, <1>c, <2>3, OtherOK
    <2> QED
      BY <1>1, <1>7, <1>8, <1>9, <1>a, <1>c, <2>4, <2>5, <2>6, TouchBoth DEF StreamOK
  <1> QED
    BY <1>11, <1>12

\* A table that may differ at one stream only.
Elsewhere(f, h, sid) == \A s : s # sid => /\ s \in DOMAIN h <=> s \in DOMAIN f
                                          /\ s \in DOMAIN f => h[s] = f[s]

LEMMA ElsewhereIs ==
    ASSUME NEW f, NEW sid
    PROVE  /\ Elsewhere(f, f, sid) /\ Elsewhere(f, Remove(f, sid), sid)
           /\ \A v : Elsewhere(f, Insert(f, sid, v), sid) /\ Elsewhere(f, [f EXCEPT ![sid] = v], sid)
  BY DEF Elsewhere, Remove, Insert

LEMMA TouchesIs ==
    ASSUME TypeInv, NEW e \in Ends, NEW sid \in StreamID, NEW o, o = Other(e),
           streams'[o] = streams[o], streams_stat'[o] = streams_stat[o], handle'[o] = handle[o], data'[o] = data[o],
           got'[o] = got[o], written'[o] = written[o], stream_cmds'[o] = stream_cmds[o], task'[o] = task[o],
           Running(e), Running(e)', stream_receiver' = stream_receiver, was_reset \subseteq was_reset',
           Known(e)' = Known(e) \/ Known(e)' = Known(e) \cup {sid},
           \A s : s # sid => (s \in streams'[e] <=> s \in streams[e]),
           Elsewhere(streams_stat[e], streams_stat'[e], sid), Elsewhere(handle[e], handle'[e], sid),
           Elsewhere(data[e], data'[e], sid), Elsewhere(got[e], got'[e], sid), Elsewhere(written[e], written'[e], sid),
           \/ stream_cmds'[e] = stream_cmds[e]
           \/ stream_cmds[e] # <<>> /\ Head(stream_cmds[e]).sid = sid /\ stream_cmds'[e] = Tail(stream_cmds[e]),
           Out(e)' = Out(e) \/ \E f \in Frames : SidOf(f) = sid /\ Out(e)' = Append(Out(e), f),
           Out(o)' = Out(o) \/ (Out(o) # <<>> /\ SidOf(Head(Out(o))) = Flip(sid) /\ Out(o)' = Tail(Out(o)))
    PROVE  Touches(e, sid)
  <1>1. o \in Ends /\ TablesInv
    BY TheOther, TypeParts
  <1>2. DOMAIN got[e] = Known(e) /\ DOMAIN written[e] = Known(e)
    BY <1>1 DEF TablesInv, Tables, Known
  <1>3. Known(o)' = Known(o)
    BY DEF Known
  <1>4. \A s : SameAt(o, s)
    BY <1>3 DEF SameAt
  <1>5. ASSUME NEW s, s # sid PROVE SameAt(e, s)
    <2>1. s \in Known(e)' <=> s \in Known(e)
      BY <1>5
    <2>2. s \in streams'[e] <=> s \in streams[e]
      BY <1>5
    <2>3. /\ s \in DOMAIN streams_stat'[e] <=> s \in DOMAIN streams_stat[e]
          /\ s \in DOMAIN streams_stat[e] => streams_stat'[e][s] = streams_stat[e][s]
      BY <1>5 DEF Elsewhere
    <2>4. /\ s \in DOMAIN handle'[e] <=> s \in DOMAIN handle[e]
          /\ s \in DOMAIN handle[e] => handle'[e][s] = handle[e][s]
      BY <1>5 DEF Elsewhere
    <2>5. s \in Known(e) => /\ data'[e][s] = data[e][s] /\ got'[e][s] = got[e][s]
                            /\ written'[e][s] = written[e][s]
      BY <1>2, <1>5 DEF Elsewhere, Known
    <2> QED
      BY <2>1, <2>2, <2>3, <2>4, <2>5 DEF SameAt
  <1>6. \A z \in Ends : /\ Running(z)' <=> Running(z)
                        /\ ~Running(z) => task'[z] = task[z]
                        /\ stream_receiver'[z] = "open" => stream_receiver[z] = "open"
    <2>1. Running(o)' <=> Running(o)
      BY DEF Running
    <2> QED
      BY <2>1, TheOther
  <1> QED
    BY <1>3, <1>4, <1>5, <1>6 DEF Touches

\* A step that changes no number of messages.
LEMMA StreamsSent ==
    ASSUME TypeInv, StreamInv, NEW e \in Ends, NEW sid \in StreamID, Touches(e, sid), sid \in Known(e),
           UNCHANGED <<data, got, written>>, Out(Other(e))' = Out(Other(e)),
           Deliverable(e, sid)' => Deliverable(e, sid), CanSend(e, sid)' => CanSend(e, sid),
           ClosedOK(e, sid)', FlowOK(e, sid)', EofOK(e, sid)'
    PROVE  StreamInv'
  <1>a. PICK o : o = Other(e)
    OBVIOUS
  <1>b. PICK g : g = Flip(sid)
    OBVIOUS
  <1>1. Count(e, sid)' = Count(e, sid) /\ written'[e][sid] = written[e][sid]
    BY DEF Count, Known
  <1>2. StartOK(e, sid)'
    BY <1>1, SelfStart
  <1>3. ReadOK(e, sid)'
    BY DEF StreamInv, StreamOK, ReadOK
  <1>4. ASSUME g \in Known(o)' PROVE StreamOK(o, g)'
    <2>1. g \in Known(o)
      BY <1>4, <1>a, <1>b, OtherKept
    <2>2. FlowOK(o, g)'
      BY <1>1, <1>a, <1>b, <2>1, OtherFlow
    <2>3. EofOK(o, g)'
      BY <1>1, <1>a, <1>b, <2>1, OtherEof
    <2> QED
      BY <1>a, <1>b, <2>1, <2>2, <2>3, OtherOK
  <1> QED
    BY <1>2, <1>3, <1>4, <1>a, <1>b, TouchBoth DEF StreamOK

LEMMA StreamsSendFrame ==
    ASSUME MplexInv, StreamInv, NEW e \in Ends, OnSendFrame(e)
    PROVE  StreamInv'
  <1>a. PICK o : o = Other(e)
    OBVIOUS
  <1>b. PICK c : c = Head(stream_cmds[e])
    OBVIOUS
  <1>c. PICK sid : sid = c.sid
    OBVIOUS
  <1>d. PICK g : g = Flip(sid)
    OBVIOUS
  <1>e. PICK f : f = Frame("Message", sid, c.body)
    OBVIOUS
  <1>0. TypeInv /\ SentInv
    BY DEF MplexInv
  <1>1. /\ TakeStreamCmd(e, "SendFrame")
        /\ \/ Writable(e, sid) /\ SendFrame(e, f, Nothing)
           \/ ~Writable(e, sid) /\ UNCHANGED <<wire, task, reply, handle>>
        /\ UNCHANGED <<streams, streams_stat, stream_receiver, data, historyVars>>
    BY <1>b, <1>c, <1>e DEF OnSendFrame, tableVars
  <1>2. /\ task[e].at = "select" /\ stream_cmds[e] # <<>>
        /\ stream_cmds'[e] = Tail(stream_cmds[e]) /\ stream_cmds'[o] = stream_cmds[o]
        /\ c \in Commands /\ sid \in StreamID /\ c.body \in Bodies /\ sid \in Known(e)
        /\ c.type = "SendFrame" /\ BodyOK(c.body, e, sid)
    BY <1>1, <1>a, <1>b, <1>c, TakeEffect
  <1>3. /\ f \in Frames /\ TagOf(f) = "Message" /\ SidOf(f) = sid /\ f.body = c.body
        /\ Nothing \in Hands /\ Nothing.status = "none"
    BY <1>2, <1>e, FrameTypes, FrameRead, HandTypes DEF Tags
  <1>4. /\ o \in Ends /\ Other(o) = e /\ Flip(g) = sid /\ StreamOK(e, sid)
        /\ stream_cmds[e] \in Seq(Commands) /\ Out(e) \in Seq(Frames) /\ written[e][sid] \in Nat /\ Count(o, g) \in Nat
    BY <1>0, <1>2, <1>a, <1>d, NamedTwice, StreamTypes DEF StreamInv
  <1>5. CmdVal(c, sid) = c.body.n /\ MsgVal(f, sid) = c.body.n /\ c.body.n # 0
    BY <1>2, <1>3, <1>c DEF CmdVal, MsgVal, BodyOK
  <1>6. /\ handle' = handle /\ task'[o] = task[o] /\ Out(o)' = Out(o) /\ Running(e) /\ Running(e)'
        /\ \/ Writable(e, sid) /\ Out(e)' = Append(Out(e), f)
           \/ ~Writable(e, sid) /\ Out(e)' = Out(e)
    <2>1. CASE Writable(e, sid) /\ SendFrame(e, f, Nothing)
      <3>1. /\ Out(e)' = Append(Out(e), f) /\ Out(o)' = Out(o) /\ Running(e) /\ Running(e)' /\ task'[o] = task[o]
        BY <1>0, <1>2, <1>3, <1>a, <2>1, SendEffect
      <3>2. handle' = handle
        BY <1>3, <2>1 DEF SendFrame, Finish
      <3> QED
        BY <2>1, <3>1, <3>2
    <2>2. CASE ~Writable(e, sid) /\ UNCHANGED <<wire, task, reply, handle>>
      BY <1>2, <2>2 DEF Out, Running
    <2> QED
      BY <1>1, <2>1, <2>2
  <1>7. Touches(e, sid)
    <2>1. Known(e)' = Known(e) /\ was_reset' = was_reset /\ got' = got /\ written' = written
      BY <1>1 DEF Known, historyVars
    <2>2. Out(e)' = Out(e) \/ \E x \in Frames : SidOf(x) = sid /\ Out(e)' = Append(Out(e), x)
      BY <1>3, <1>6
    <2>3. /\ Elsewhere(streams_stat[e], streams_stat'[e], sid) /\ Elsewhere(handle[e], handle'[e], sid)
          /\ Elsewhere(data[e], data'[e], sid) /\ Elsewhere(got[e], got'[e], sid)
          /\ Elsewhere(written[e], written'[e], sid)
      BY <1>1, <1>6, <2>1, ElsewhereIs
    <2> QED
      BY <1>0, <1>1, <1>2, <1>6, <1>a, <1>b, <1>c, <2>1, <2>2, <2>3, TouchesIs
  <1>8. /\ Deliverable(e, sid)' <=> Deliverable(e, sid)
        /\ Dropped(e, sid)' <=> Dropped(e, sid)
        /\ Writable(e, sid)' <=> Writable(e, sid)
        /\ NotReset(e, sid)' <=> NotReset(e, sid)
        /\ CanSend(e, sid)' <=> CanSend(e, sid)
        /\ Count(e, sid)' = Count(e, sid)
        /\ written'[e][sid] = written[e][sid]
    BY <1>1, <1>6 DEF Deliverable, Dropped, Writable, NotReset, CanSend, Count, Known, historyVars
  <1>9. Sent(e, "Close", sid)' => Sent(e, "Close", sid)
    <2>1. CASE Out(e)' = Append(Out(e), f)
      BY <1>3, <1>4, <2>1, HasStep DEF Sent
    <2>2. CASE Out(e)' = Out(e)
      BY <2>2 DEF Sent
    <2> QED
      BY <1>6, <2>1, <2>2
  <1>10. FlowOK(e, sid)'
    <2>1. CASE Writable(e, sid) /\ Out(e)' = Append(Out(e), f)
      <3>1. Gives(e, sid)
        BY <1>6, <2>1 DEF Gives
      <3>2. ~Done(e, sid)'
        BY <1>0, <1>2, <1>6, <1>9, <2>1 DEF Done, SentInv
      <3>3. FlowAt(Out(e), Count(o, g), stream_cmds[e], written[e][sid], sid, Takes(e, sid), TRUE, Done(e, sid))
        <4>1. FlowAt(Out(e), Count(o, g), stream_cmds[e], written[e][sid], sid, Takes(e, sid), Gives(e, sid), Done(e, sid))
          BY <1>4, <1>a, <1>d DEF StreamOK, FlowOK
        <4> QED
          BY <3>1, <4>1 DEF FlowAt
      <3>4. FlowAt(Append(Out(e), f), Count(o, g), Tail(stream_cmds[e]), written[e][sid], sid, Takes(e, sid), TRUE, FALSE)
        <4>1. CmdVal(Head(stream_cmds[e]), sid) # 0 /\ MsgVal(f, sid) = CmdVal(Head(stream_cmds[e]), sid)
          BY <1>5, <1>b
        <4> QED
          BY <1>2, <1>3, <1>4, <3>3, <4>1, FlowMove
      <3>5. Count(o, g)' = Count(o, g) /\ (Takes(e, sid)' <=> Takes(e, sid))
        <4>1. /\ Count(o, g)' = Count(o, g)
              /\ Deliverable(o, g)' <=> Deliverable(o, g)
              /\ g \in Known(o)' <=> g \in Known(o)
          BY <1>0, <1>2, <1>7, <1>a, <1>d, OtherKept
        <4> QED
          BY <1>a, <1>d, <4>1 DEF Takes
      <3>6. FlowAt(Out(e)', Count(o, g)', stream_cmds'[e], written'[e][sid], sid, Takes(e, sid)', Gives(e, sid)', Done(e, sid)')
        BY <1>2, <1>8, <2>1, <3>2, <3>4, <3>5 DEF FlowAt
      <3> QED
        BY <1>a, <1>d, <3>6 DEF FlowOK
    <2>2. CASE ~Writable(e, sid) /\ Out(e)' = Out(e)
      <3>1. KeepsMsgs(Out(e), Out(e)', sid)
        BY <1>4, <2>2, MsgsKept
      <3>2. Gives(e, sid)' => FALSE
        <4>1. Gives(e, sid)' => NotReset(e, sid)
          BY <1>8, <2>2 DEF Gives
        <4>2. NotReset(e, sid) => ZeroCmds(stream_cmds[e], sid)
          BY <1>4, <1>6, <2>2 DEF StreamOK, ClosedOK
        <4>3. ~ZeroCmds(stream_cmds[e], sid)
          BY <1>2, <1>4, <1>5, <1>b, CmdsKept
        <4> QED
          BY <4>1, <4>2, <4>3
      <3>3. Done(e, sid)' => Done(e, sid)
        BY <1>6, <1>8, <1>9 DEF Done
      <3> QED
        BY <1>0, <1>2, <1>7, <1>8, <3>1, <3>2, <3>3, SelfFlow
    <2> QED
      BY <1>6, <2>1, <2>2
  <1>11. ClosedOK(e, sid)'
    <2>1. ZeroCmds(stream_cmds[e], sid) => ZeroCmds(stream_cmds'[e], sid)
      BY <1>2, <1>4, CmdsKept
    <2> QED
      BY <1>0, <1>2, <1>7, <1>8, <2>1, SelfClosed
  <1>12. EofOK(e, sid)'
    BY <1>0, <1>2, <1>7, <1>8, SelfEof DEF Finished
  <1> QED
    BY <1>0, <1>1, <1>2, <1>6, <1>7, <1>8, <1>10, <1>11, <1>12, <1>a, StreamsSent DEF historyVars

\* The Close goes out after the last message, and the Stream that asked for it sends no more.
LEMMA StreamsCloseStream ==
    ASSUME MplexInv, StreamInv, NEW e \in Ends, OnCloseStream(e)
    PROVE  StreamInv'
  <1>a. PICK o : o = Other(e)
    OBVIOUS
  <1>b. PICK c : c = Head(stream_cmds[e])
    OBVIOUS
  <1>c. PICK sid : sid = c.sid
    OBVIOUS
  <1>d. PICK g : g = Flip(sid)
    OBVIOUS
  <1>e. PICK f : f = Frame("Close", sid, NoBody)
    OBVIOUS
  <1>0. TypeInv /\ CommandInv /\ DomInv
    BY TypeParts DEF MplexInv
  <1>1. /\ TakeStreamCmd(e, "CloseStream")
        /\ \/ /\ Writable(e, sid)
              /\ streams_stat' = IF streams_stat[e][sid] = "RecvClosed"
                                 THEN [streams_stat EXCEPT ![e] = Remove(@, sid)]
                                 ELSE [streams_stat EXCEPT ![e][sid] = "SendClosed"]
              /\ SendFrame(e, f, Nothing)
           \/ ~Writable(e, sid) /\ UNCHANGED <<wire, task, reply, handle, streams_stat>>
        /\ UNCHANGED <<streams, stream_receiver, data, historyVars>>
    BY <1>b, <1>c, <1>e DEF OnCloseStream
  <1>2. /\ task[e].at = "select" /\ stream_cmds[e] # <<>>
        /\ stream_cmds'[e] = Tail(stream_cmds[e]) /\ stream_cmds'[o] = stream_cmds[o]
        /\ c \in Commands /\ sid \in StreamID /\ sid \in Known(e) /\ sid \in DOMAIN handle[e]
        /\ c.type = "CloseStream" /\ \A i \in DOMAIN stream_cmds'[e] : stream_cmds'[e][i].sid # sid
    BY <1>1, <1>a, <1>b, <1>c, TakeEffect
  <1>3. /\ f \in Frames /\ TagOf(f) = "Close" /\ SidOf(f) = sid
        /\ Nothing \in Hands /\ Nothing.status = "none"
    BY <1>2, <1>e, FrameTypes, FrameRead, HandTypes DEF Tags
  <1>4. /\ o \in Ends /\ Other(o) = e /\ Flip(g) = sid /\ StreamOK(e, sid)
        /\ stream_cmds[e] \in Seq(Commands) /\ Tail(stream_cmds[e]) \in Seq(Commands)
        /\ Out(e) \in Seq(Frames) /\ written[e][sid] \in Nat /\ Count(o, g) \in Nat
    BY <1>0, <1>2, <1>a, <1>d, NamedTwice, StreamTypes, CommandTypes DEF StreamInv
  <1>5. /\ KeepsCmds(stream_cmds[e], stream_cmds'[e], sid) /\ ZeroCmds(stream_cmds'[e], sid)
        /\ ~CanSend(e, sid) /\ MsgVal(f, sid) = 0
    <2>1. CmdVal(c, sid) = 0 /\ MsgVal(f, sid) = 0 /\ ZeroCmds(stream_cmds'[e], sid)
      BY <1>2, <1>3 DEF CmdVal, MsgVal, ZeroCmds
    <2>2. handle[e][sid] \in {"closed", "dropped"}
      <3>1. 1 \in DOMAIN stream_cmds[e] /\ stream_cmds[e][1] = c
        BY <1>0, <1>2, <1>b, CommandTypes
      <3> QED
        BY <1>0, <1>2, <1>c, <3>1 DEF CommandInv, CommandsOK
    <2> QED
      BY <1>2, <1>4, <1>b, <2>1, <2>2, CmdsKept DEF CanSend
  <1>6. /\ handle' = handle /\ task'[o] = task[o] /\ Out(o)' = Out(o) /\ Running(e) /\ Running(e)'
        /\ \/ Writable(e, sid) /\ Out(e)' = Append(Out(e), f)
           \/ ~Writable(e, sid) /\ Out(e)' = Out(e) /\ streams_stat' = streams_stat
    <2>1. CASE Writable(e, sid) /\ SendFrame(e, f, Nothing)
      <3>1. /\ Out(e)' = Append(Out(e), f) /\ Out(o)' = Out(o) /\ Running(e) /\ Running(e)' /\ task'[o] = task[o]
        BY <1>0, <1>2, <1>3, <1>a, <2>1, SendEffect
      <3>2. handle' = handle
        BY <1>3, <2>1 DEF SendFrame, Finish
      <3> QED
        BY <2>1, <3>1, <3>2
    <2>2. CASE ~Writable(e, sid) /\ UNCHANGED <<wire, task, reply, handle, streams_stat>>
      BY <1>2, <2>2 DEF Out, Running
    <2> QED
      BY <1>1, <2>1, <2>2
  <1>7. /\ streams_stat'[o] = streams_stat[o]
        /\ \/ streams_stat'[e] = streams_stat[e]
           \/ /\ sid \in DOMAIN streams_stat[e] /\ streams_stat[e][sid] = "RecvClosed"
              /\ streams_stat'[e] = Remove(streams_stat[e], sid)
           \/ /\ sid \in DOMAIN streams_stat[e] /\ streams_stat[e][sid] # "RecvClosed"
              /\ streams_stat'[e] = [streams_stat[e] EXCEPT ![sid] = "SendClosed"]
    <2>1. CASE streams_stat' = streams_stat
      BY <2>1
    <2>2. CASE /\ Writable(e, sid)
               /\ streams_stat' = IF streams_stat[e][sid] = "RecvClosed"
                                  THEN [streams_stat EXCEPT ![e] = Remove(@, sid)]
                                  ELSE [streams_stat EXCEPT ![e][sid] = "SendClosed"]
      BY <1>0, <1>a, <2>2, TheOther DEF DomInv, Writable
    <2> QED
      BY <1>1, <2>1, <2>2
  <1>8. /\ Elsewhere(streams_stat[e], streams_stat'[e], sid)
        /\ Deliverable(e, sid)' <=> Deliverable(e, sid)
    <2>0. Dropped(e, sid)' <=> Dropped(e, sid)
      BY <1>6 DEF Dropped
    <2>1. CASE streams_stat'[e] = streams_stat[e]
      BY <1>1, <2>0, <2>1, ElsewhereIs DEF Deliverable
    <2>2. CASE /\ sid \in DOMAIN streams_stat[e] /\ streams_stat[e][sid] = "RecvClosed"
               /\ streams_stat'[e] = Remove(streams_stat[e], sid)
      <3>1. ~Deliverable(e, sid)' /\ ~Deliverable(e, sid)
        BY <2>2 DEF Deliverable, Remove
      <3> QED
        BY <2>2, <3>1, ElsewhereIs
    <2>3. CASE /\ sid \in DOMAIN streams_stat[e] /\ streams_stat[e][sid] # "RecvClosed"
               /\ streams_stat'[e] = [streams_stat[e] EXCEPT ![sid] = "SendClosed"]
      <3>1. Deliverable(e, sid)' <=> Deliverable(e, sid)
        BY <1>1, <2>0, <2>3 DEF Deliverable
      <3> QED
        BY <2>3, <3>1, ElsewhereIs
    <2> QED
      BY <1>7, <2>1, <2>2, <2>3
  <1>9. Touches(e, sid)
    <2>1. Known(e)' = Known(e) /\ was_reset' = was_reset /\ got' = got /\ written' = written
      BY <1>1 DEF Known, historyVars
    <2>2. Out(e)' = Out(e) \/ \E x \in Frames : SidOf(x) = sid /\ Out(e)' = Append(Out(e), x)
      BY <1>3, <1>6
    <2>3. /\ Elsewhere(handle[e], handle'[e], sid)
          /\ Elsewhere(data[e], data'[e], sid) /\ Elsewhere(got[e], got'[e], sid)
          /\ Elsewhere(written[e], written'[e], sid)
      BY <1>1, <1>6, <2>1, ElsewhereIs
    <2> QED
      BY <1>0, <1>1, <1>2, <1>6, <1>7, <1>8, <1>a, <1>b, <1>c, <2>1, <2>2, <2>3, TouchesIs
  <1>10. /\ Dropped(e, sid)' <=> Dropped(e, sid)
         /\ NotReset(e, sid)' <=> NotReset(e, sid)
         /\ ~CanSend(e, sid)'
         /\ Count(e, sid)' = Count(e, sid)
         /\ written'[e][sid] = written[e][sid]
    BY <1>1, <1>5, <1>6 DEF Dropped, NotReset, CanSend, Count, Known, historyVars
  <1>11. KeepsMsgs(Out(e), Out(e)', sid)
    BY <1>3, <1>4, <1>5, <1>6, MsgsKept
  <1>12. FlowOK(e, sid)'
    <2>1. CASE Writable(e, sid)
      <3>1. Gives(e, sid)
        BY <1>6, <2>1 DEF Gives
      <3>2. FlowAt(Out(e), Count(o, g), stream_cmds[e], written[e][sid], sid, Takes(e, sid), Gives(e, sid), Done(e, sid))
        BY <1>4, <1>a, <1>d DEF StreamOK, FlowOK
      <3>3. FlowAt(Out(e)', Count(o, g), stream_cmds'[e], written[e][sid], sid, Takes(e, sid), TRUE, FALSE)
        BY <1>4, <1>5, <1>11, <3>1, <3>2, FlowKeep
      <3>4. FlowAt(Out(e)', Count(o, g), stream_cmds'[e], written[e][sid], sid, Takes(e, sid), TRUE, TRUE)
        BY <1>2, <1>4, <1>5, <3>3, FlowDone
      <3>5. Count(o, g)' = Count(o, g) /\ (Takes(e, sid)' <=> Takes(e, sid))
        <4>1. /\ Count(o, g)' = Count(o, g)
              /\ Deliverable(o, g)' <=> Deliverable(o, g)
              /\ g \in Known(o)' <=> g \in Known(o)
          BY <1>0, <1>2, <1>9, <1>a, <1>d, OtherKept
        <4> QED
          BY <1>a, <1>d, <4>1 DEF Takes
      <3>6. FlowAt(Out(e)', Count(o, g)', stream_cmds'[e], written'[e][sid], sid, Takes(e, sid)', Gives(e, sid)', Done(e, sid)')
        BY <1>10, <3>4, <3>5 DEF FlowAt
      <3> QED
        BY <1>a, <1>d, <3>6 DEF FlowOK
    <2>2. CASE ~Writable(e, sid)
      <3>1. Out(e)' = Out(e) /\ (Writable(e, sid)' <=> Writable(e, sid))
        BY <1>6, <2>2 DEF Writable
      <3>2. (Gives(e, sid)' => Gives(e, sid)) /\ (Done(e, sid)' => Done(e, sid))
        BY <1>6, <1>10, <3>1 DEF Gives, Done, Sent
      <3> QED
        BY <1>0, <1>2, <1>5, <1>9, <1>10, <1>11, <3>2, SelfFlow
    <2> QED
      BY <2>1, <2>2
  <1>13. ClosedOK(e, sid)'
    BY <1>5, <1>10 DEF ClosedOK
  <1>14. EofOK(e, sid)'
    BY <1>0, <1>2, <1>8, <1>9, <1>10, SelfEof DEF Finished
  <1> QED
    BY <1>0, <1>1, <1>2, <1>6, <1>8, <1>9, <1>10, <1>12, <1>13, <1>14, <1>a, StreamsSent DEF historyVars

\* A stream that is reset promises nothing: what is left is that nothing goes astray.
LEMMA StreamsGone ==
    ASSUME TypeInv, StreamInv, NEW e \in Ends, NEW sid \in StreamID, Touches(e, sid), sid \in Known(e),
           UNCHANGED <<data, got, written>>, Out(Other(e))' = Out(Other(e)), sid \notin DOMAIN streams_stat'[e],
           was_reset' = was_reset \cup {Stream(e, sid)}, CanSend(e, sid)' => CanSend(e, sid),
           NEW f \in Frames, TagOf(f) = "Reset", Out(e)' = Append(Out(e), f)
    PROVE  StreamInv'
  <1>1. ~NotReset(e, sid)' /\ ~Deliverable(e, sid)' /\ ~Writable(e, sid)'
    BY DEF NotReset, Deliverable, Writable
  <1>2. ClosedOK(e, sid)' /\ EofOK(e, sid)'
    BY <1>1 DEF ClosedOK, EofOK, Finished
  <1>3. FlowOK(e, sid)'
    <2>1. MsgVal(f, sid) = 0 /\ Out(e) \in Seq(Frames)
      BY StreamTypes DEF MsgVal
    <2>2. KeepsMsgs(Out(e), Out(e)', sid)
      BY <2>1, MsgsKept
    <2>3. ~Gives(e, sid)' /\ ~Done(e, sid)'
      BY <1>1 DEF Gives, Done
    <2> QED
      BY <2>2, <2>3, SelfFlow
  <1> QED
    BY <1>1, <1>2, <1>3, StreamsSent

LEMMA StreamsResetStream ==
    ASSUME MplexInv, StreamInv, NEW e \in Ends, OnResetStream(e)
    PROVE  StreamInv'
  <1>a. PICK o : o = Other(e)
    OBVIOUS
  <1>b. PICK c : c = Head(stream_cmds[e])
    OBVIOUS
  <1>c. PICK sid : sid = c.sid
    OBVIOUS
  <1>d. PICK f : f = Frame("Reset", sid, NoBody)
    OBVIOUS
  <1>e. PICK h : h = [req |-> NoReq, sid |-> sid, status |-> "closed"]
    OBVIOUS
  <1>0. TypeInv /\ CommandInv /\ DomInv /\ o \in Ends
    BY <1>a, TypeParts, TheOther DEF MplexInv
  <1>1. /\ TakeStreamCmd(e, "ResetStream")
        /\ \/ /\ RemoveStream(e, sid) /\ was_reset' = was_reset \cup {Stream(e, sid)} /\ SendFrame(e, f, h)
           \/ Finish(e, h) /\ UNCHANGED <<wire, task, streams, streams_stat, was_reset>>
        /\ UNCHANGED <<stream_receiver, data, written, got>>
    BY <1>b, <1>c, <1>d, <1>e DEF OnResetStream
  <1>2. /\ task[e].at = "select" /\ stream_cmds[e] # <<>>
        /\ stream_cmds'[e] = Tail(stream_cmds[e]) /\ stream_cmds'[o] = stream_cmds[o]
        /\ c \in Commands /\ sid \in StreamID /\ sid \in Known(e) /\ sid \in DOMAIN handle[e]
        /\ c.type = "ResetStream" /\ handle[e][sid] = "resetting"
    BY <1>1, <1>a, <1>b, <1>c, TakeEffect
  <1>3. /\ f \in Frames /\ TagOf(f) = "Reset" /\ SidOf(f) = sid
        /\ h \in Hands /\ h.status = "closed" /\ h.sid = sid
    <2>1. f \in Frames /\ TagOf(f) = "Reset" /\ SidOf(f) = sid
      BY <1>2, <1>d, FrameTypes, FrameRead, HandTypes DEF Tags
    <2>2. h \in Hands /\ h.status = "closed" /\ h.sid = sid
      BY <1>2, <1>e, HandTypes
    <2> QED
      BY <2>1, <2>2
  <1>4. /\ handle'[o] = handle[o]
        /\ handle'[e] = handle[e] \/ handle'[e] = Insert(handle[e], sid, "closed")
    <2>1. CASE SendFrame(e, f, h)
      BY <1>0, <1>2, <1>3, <1>a, <2>1, SendHandle
    <2>2. CASE Finish(e, h)
      BY <1>0, <1>3, <1>a, <2>2, FinishEffect
    <2> QED
      BY <1>1, <2>1, <2>2
  <1>5. /\ Elsewhere(handle[e], handle'[e], sid) /\ ~CanSend(e, sid)'
        /\ ~Dropped(e, sid) /\ ~Dropped(e, sid)'
    <2>1. CASE handle'[e] = handle[e]
      BY <1>2, <2>1, ElsewhereIs DEF CanSend, Dropped
    <2>2. CASE handle'[e] = Insert(handle[e], sid, "closed")
      <3>1. sid \in DOMAIN handle'[e] /\ handle'[e][sid] = "closed"
        BY <2>2 DEF Insert
      <3> QED
        BY <1>2, <2>2, <3>1, ElsewhereIs DEF CanSend, Dropped
    <2> QED
      BY <1>4, <2>1, <2>2
  <1>6. /\ Known(e)' = Known(e)
        /\ Elsewhere(data[e], data'[e], sid) /\ Elsewhere(got[e], got'[e], sid)
        /\ Elsewhere(written[e], written'[e], sid)
    BY <1>1, ElsewhereIs DEF Known
  <1>7. CASE RemoveStream(e, sid) /\ was_reset' = was_reset \cup {Stream(e, sid)} /\ SendFrame(e, f, h)
    <2>1. /\ streams'[e] = streams[e] \ {sid} /\ streams'[o] = streams[o]
          /\ streams_stat'[e] = Remove(streams_stat[e], sid) /\ streams_stat'[o] = streams_stat[o]
      BY <1>0, <1>7, <1>a, RemoveEffect
    <2>2. /\ Out(e)' = Append(Out(e), f) /\ Out(o)' = Out(o) /\ Running(e) /\ Running(e)' /\ task'[o] = task[o]
      BY <1>0, <1>2, <1>3, <1>7, <1>a, SendEffect
    <2>3. Touches(e, sid)
      <3>1. \E x \in Frames : SidOf(x) = sid /\ Out(e)' = Append(Out(e), x)
        BY <1>3, <2>2
      <3>2. /\ Elsewhere(streams_stat[e], streams_stat'[e], sid)
            /\ \A s : s # sid => (s \in streams'[e] <=> s \in streams[e])
            /\ was_reset \subseteq was_reset'
        BY <1>7, <2>1, ElsewhereIs
      <3> QED
        BY <1>0, <1>1, <1>2, <1>4, <1>5, <1>6, <1>a, <1>b, <1>c, <2>1, <2>2, <3>1, <3>2, TouchesIs
    <2>4. sid \notin DOMAIN streams_stat'[e]
      BY <2>1 DEF Remove
    <2> QED
      BY <1>0, <1>1, <1>2, <1>3, <1>5, <1>7, <1>a, <2>2, <2>3, <2>4, StreamsGone
  <1>8. CASE Finish(e, h) /\ UNCHANGED <<wire, task, streams, streams_stat, was_reset>>
    <2>1. /\ Out(e)' = Out(e) /\ Out(o)' = Out(o) /\ Running(e) /\ Running(e)'
      BY <1>2, <1>8 DEF Out, Running
    <2>2. Touches(e, sid)
      <3>1. /\ Elsewhere(streams_stat[e], streams_stat'[e], sid)
            /\ was_reset \subseteq was_reset'
        BY <1>8, ElsewhereIs
      <3> QED
        BY <1>0, <1>1, <1>2, <1>4, <1>5, <1>6, <1>8, <1>a, <1>b, <1>c, <2>1, <3>1, TouchesIs
    <2>3. /\ Deliverable(e, sid)' <=> Deliverable(e, sid)
          /\ Writable(e, sid)' <=> Writable(e, sid)
          /\ NotReset(e, sid)' <=> NotReset(e, sid)
          /\ Count(e, sid)' = Count(e, sid)
          /\ Sent(e, "Close", sid)' <=> Sent(e, "Close", sid)
          /\ written'[e][sid] = written[e][sid]
      BY <1>1, <1>5, <1>8, <2>1 DEF Deliverable, Writable, NotReset, Count, Known, Sent
    <2>4. /\ KeepsCmds(stream_cmds[e], stream_cmds'[e], sid)
          /\ KeepsMsgs(Out(e), Out(e)', sid)
      <3>1. CmdVal(c, sid) = 0 /\ stream_cmds[e] \in Seq(Commands) /\ Out(e) \in Seq(Frames)
        BY <1>0, <1>2, StreamTypes DEF CmdVal
      <3> QED
        BY <1>2, <1>b, <2>1, <3>1, CmdsKept, MsgsKept
    <2>5. FlowOK(e, sid)'
      <3>1. (Gives(e, sid)' => Gives(e, sid)) /\ (Done(e, sid)' => Done(e, sid))
        BY <2>1, <2>3 DEF Gives, Done
      <3> QED
        BY <1>0, <1>2, <2>2, <2>3, <2>4, <3>1, SelfFlow
    <2>6. ClosedOK(e, sid)'
      BY <1>0, <1>2, <1>5, <2>2, <2>3, <2>4, SelfClosed DEF KeepsCmds
    <2>7. EofOK(e, sid)'
      BY <1>0, <1>2, <1>5, <2>2, <2>3, SelfEof DEF Finished
    <2> QED
      BY <1>0, <1>1, <1>2, <1>5, <1>a, <2>1, <2>2, <2>3, <2>5, <2>6, <2>7, StreamsSent
  <1> QED
    BY <1>1, <1>7, <1>8

LEMMA StreamsTimeout ==
    ASSUME MplexInv, StreamInv, NEW e \in Ends, DeliverTimeout(e)
    PROVE  StreamInv'
  <1>a. PICK sid : sid = task[e].sid
    OBVIOUS
  <1>b. PICK f : f = Frame("Reset", sid, NoBody)
    OBVIOUS
  <1>c. PICK o : o = Other(e)
    OBVIOUS
  <1>0. TypeInv /\ DeliverInv /\ o \in Ends
    BY <1>c, TheOther DEF MplexInv
  <1>1. /\ task[e].at = "deliver" /\ RemoveStream(e, sid) /\ was_reset' = was_reset \cup {Stream(e, sid)}
        /\ SendFrame(e, f, Nothing)
        /\ UNCHANGED <<stream_cmds, stream_receiver, data, written, got>>
    BY <1>a, <1>b DEF DeliverTimeout, chanVars
  <1>2. /\ sid \in StreamID /\ sid \in Known(e) /\ f \in Frames /\ TagOf(f) = "Reset" /\ SidOf(f) = sid
        /\ Nothing \in Hands /\ Nothing.status = "none"
    BY <1>0, <1>1, <1>a, <1>b, TaskTypes, FrameTypes, FrameRead, HandTypes DEF Tags, DeliverInv
  <1>3. /\ streams'[e] = streams[e] \ {sid} /\ streams'[o] = streams[o]
        /\ streams_stat'[e] = Remove(streams_stat[e], sid) /\ streams_stat'[o] = streams_stat[o]
    BY <1>0, <1>1, <1>c, RemoveEffect
  <1>4. /\ Out(e)' = Append(Out(e), f) /\ Out(o)' = Out(o) /\ Running(e) /\ Running(e)' /\ task'[o] = task[o]
    BY <1>0, <1>1, <1>2, <1>c, SendEffect
  <1>5. handle' = handle
    BY <1>1, <1>2 DEF SendFrame, Finish
  <1>6. Touches(e, sid)
    <2>1. \E x \in Frames : SidOf(x) = sid /\ Out(e)' = Append(Out(e), x)
      BY <1>2, <1>4
    <2>2. /\ Elsewhere(streams_stat[e], streams_stat'[e], sid) /\ Elsewhere(handle[e], handle'[e], sid)
          /\ Elsewhere(data[e], data'[e], sid) /\ Elsewhere(got[e], got'[e], sid)
          /\ Elsewhere(written[e], written'[e], sid)
          /\ \A s : s # sid => (s \in streams'[e] <=> s \in streams[e])
          /\ was_reset \subseteq was_reset' /\ Known(e)' = Known(e)
      BY <1>1, <1>3, <1>5, ElsewhereIs DEF Known
    <2> QED
      BY <1>0, <1>1, <1>2, <1>3, <1>4, <1>5, <1>c, <2>1, <2>2, TouchesIs
  <1>7. sid \notin DOMAIN streams_stat'[e] /\ (CanSend(e, sid)' => CanSend(e, sid))
    BY <1>1, <1>3, <1>5 DEF Remove, CanSend
  <1> QED
    BY <1>0, <1>1, <1>2, <1>4, <1>6, <1>7, <1>c, StreamsGone

\* A Stream that was just made.
LEMMA StreamStarts ==
    ASSUME TypeInv, FramesInv, CommandInv, NEW e \in Ends, NEW sid \in StreamID, sid \notin Known(e), NewStream(e, sid),
           sid \in DOMAIN handle'[e] => handle'[e][sid] = "open",
           Count(Other(e), Flip(sid))' = 0, stream_cmds'[e] = stream_cmds[e],
           \/ Out(e)' = Out(e)
           \/ \E f \in Frames : TagOf(f) = "NewStream" /\ Out(e)' = Append(Out(e), f)
    PROVE  StreamOK(e, sid)'
  <1>1. /\ streams'[e] = streams[e] \cup {sid} /\ streams_stat'[e] = Insert(streams_stat[e], sid, "Open")
        /\ data'[e] = Insert(data[e], sid, <<>>) /\ written'[e] = Insert(written[e], sid, 0)
        /\ got'[e] = Insert(got[e], sid, <<>>) /\ Known(e)' = Known(e) \cup {sid}
    BY NewStreamEffect
  <1>2. /\ sid \in DOMAIN streams_stat'[e] /\ streams_stat'[e][sid] = "Open"
        /\ data'[e][sid] = <<>> /\ got'[e][sid] = <<>> /\ written'[e][sid] = 0
    BY <1>1 DEF Insert
  <1>3. Writable(e, sid)' /\ Deliverable(e, sid)'
    BY <1>1, <1>2 DEF Writable, can_write, Deliverable, Dropped
  <1>4. Out(e) \in Seq(Frames) /\ stream_cmds[e] \in Seq(Commands) /\ TablesInv
    BY StreamTypes, TypeParts
  <1>5. ClosedOK(e, sid)' /\ EofOK(e, sid)'
    BY <1>3 DEF ClosedOK, EofOK, Finished
  <1>6. StartOK(e, sid)'
    <2>1. sid \in Known(e)' /\ Len(<<>>) = 0
      BY <1>1
    <2>2. Count(e, sid)' = Len(got'[e][sid]) + Len(data'[e][sid])
      BY <2>1 DEF Count
    <2>3. Count(e, sid)' = 0
      BY <1>2, <2>1, <2>2
    <2> QED
      BY <2>3 DEF StartOK
  <1>7. ReadOK(e, sid)'
    <2>1. <<>> \o <<>> = <<>> /\ \A i \in 1 .. Len(<<>>) : FALSE
      OBVIOUS
    <2> QED
      BY <1>2, <2>1 DEF ReadOK, InOrderOf
  <1>8. FlowOK(e, sid)'
    <2>1. ZeroCmds(stream_cmds'[e], sid)
      BY <1>4 DEF ZeroCmds, CmdVal, CommandInv, CommandsOK, TablesInv, Tables, Known
    <2>2. \A i \in DOMAIN Out(e) : MsgVal(Out(e)[i], sid) = 0
      BY DEF FramesInv, FramesOK, MsgVal
    <2>3. Out(e)' \in Seq(Frames) /\ \A i \in DOMAIN Out(e)' : MsgVal(Out(e)'[i], sid) = 0
      <3>1. CASE Out(e)' = Out(e)
        BY <1>4, <2>2, <3>1
      <3>2. CASE \E f \in Frames : TagOf(f) = "NewStream" /\ Out(e)' = Append(Out(e), f)
        <4>1. PICK f \in Frames : TagOf(f) = "NewStream" /\ Out(e)' = Append(Out(e), f)
          BY <3>2
        <4>2. MsgVal(f, sid) = 0
          BY <4>1 DEF MsgVal
        <4> QED
          BY <1>4, <2>2, <4>1, <4>2
      <3> QED
        BY <3>1, <3>2
    <2>4. FlowAt(Out(e)', 0, stream_cmds'[e], 0, sid, Takes(e, sid)', Gives(e, sid)', Done(e, sid)')
      BY <1>4, <2>1, <2>3, FlowFresh
    <2> QED
      BY <1>2, <2>4 DEF FlowOK
  <1> QED
    BY <1>5, <1>6, <1>7, <1>8 DEF StreamOK

LEMMA NextIsNew ==
    ASSUME TypeInv, OpenInv, NEW e \in Ends, NEW sid, sid = [id |-> next_stream_id[e], initiator |-> TRUE]
    PROVE  sid \in StreamID /\ sid \notin Known(e) /\ Flip(sid) \notin Known(Other(e))
  <1>a. PICK n : n = next_stream_id[e]
    OBVIOUS
  <1>b. PICK g : g = Flip(sid)
    OBVIOUS
  <1>1. n \in Nat
    BY <1>a, NetTypes
  <1>2. sid \in StreamID /\ sid.id = n /\ sid.initiator /\ g \in StreamID /\ g.id = n /\ ~g.initiator
    BY <1>1, <1>a, <1>b DEF StreamID, Flip
  <1>3. PICK lo \in 0 .. n : /\ {s \in Known(e) : s.initiator} = Numbered(n, TRUE)
                             /\ {s \in Known(Other(e)) : ~s.initiator} = Numbered(lo, FALSE)
    BY <1>a DEF OpenInv, OpenOK
  <1>4. lo \in Nat /\ lo <= n
    BY <1>1
  <1>5. sid \notin Numbered(n, TRUE)
    <2>1. ~(sid.id < n)
      BY <1>1, <1>2
    <2> QED
      BY <1>1, <1>2, <2>1, NumberedHere
  <1>6. g \notin Numbered(lo, FALSE)
    <2>1. ~(g.id < lo)
      BY <1>1, <1>2, <1>4
    <2> QED
      BY <1>2, <1>4, <2>1, NumberedHere
  <1> QED
    BY <1>2, <1>3, <1>5, <1>6, <1>b

LEMMA StreamsOpenStream ==
    ASSUME MplexInv, StreamInv, NEW e \in Ends, OnOpenStream(e)
    PROVE  StreamInv'
  <1>a. PICK sid : sid = [id |-> next_stream_id[e], initiator |-> TRUE]
    OBVIOUS
  <1>b. PICK f : f = Frame("NewStream", sid, NoBody)
    OBVIOUS
  <1>c. PICK h : h = [req |-> Head(control_cmds[e]), sid |-> sid, status |-> "open"]
    OBVIOUS
  <1>d. PICK o : o = Other(e)
    OBVIOUS
  <1>0. /\ TypeInv /\ FramesInv /\ OpenInv /\ CommandInv /\ TablesInv /\ o \in Ends
    BY <1>d, TheOther, TypeParts DEF MplexInv
  <1>1. /\ task[e].at = "select" /\ control_cmds[e] # <<>> /\ NewStream(e, sid) /\ SendFrame(e, f, h)
        /\ UNCHANGED <<stream_cmds, stream_receiver, was_reset>>
    BY <1>a, <1>b, <1>c DEF OnOpenStream, TakeControlCmd, Selecting, Select
  <1>2. sid \in StreamID /\ sid.initiator /\ sid \notin Known(e) /\ Flip(sid) \notin Known(o)
    BY <1>0, <1>a, <1>d, NextIsNew
  <1>3. f \in Frames /\ TagOf(f) = "NewStream" /\ SidOf(f) = sid
    BY <1>2, <1>b, FrameTypes, FrameRead, HandTypes DEF Tags
  <1>4. h \in Hands /\ h.status = "open" /\ h.sid = sid
    <2>1. Head(control_cmds[e]) \in Requests
      BY <1>0, <1>1, ControlTypes
    <2> QED
      BY <1>2, <1>c, <2>1, HandTypes
  <1>5. /\ streams'[e] = streams[e] \cup {sid} /\ streams'[o] = streams[o]
        /\ data'[e] = Insert(data[e], sid, <<>>) /\ data'[o] = data[o]
        /\ streams_stat'[e] = Insert(streams_stat[e], sid, "Open") /\ streams_stat'[o] = streams_stat[o]
        /\ written'[e] = Insert(written[e], sid, 0) /\ written'[o] = written[o]
        /\ got'[e] = Insert(got[e], sid, <<>>) /\ got'[o] = got[o]
        /\ Known(e)' = Known(e) \cup {sid} /\ Known(o)' = Known(o)
    BY <1>0, <1>1, <1>2, <1>d, NewStreamEffect
  <1>6. /\ Out(e)' = Append(Out(e), f) /\ Out(o)' = Out(o) /\ Running(e) /\ Running(e)' /\ task'[o] = task[o]
    BY <1>0, <1>1, <1>3, <1>4, <1>d, SendEffect
  <1>7. /\ handle'[o] = handle[o]
        /\ handle'[e] = handle[e] \/ handle'[e] = Insert(handle[e], sid, "open")
    BY <1>0, <1>1, <1>3, <1>4, <1>d, SendHandle
  <1>8. /\ Elsewhere(handle[e], handle'[e], sid)
        /\ sid \in DOMAIN handle'[e] => handle'[e][sid] = "open"
    <2>1. CASE handle'[e] = handle[e]
      BY <1>0, <1>2, <2>1, ElsewhereIs DEF TablesInv, Tables, Known
    <2>2. CASE handle'[e] = Insert(handle[e], sid, "open")
      <3>1. handle'[e][sid] = "open"
        BY <2>2 DEF Insert
      <3> QED
        BY <2>2, <3>1, ElsewhereIs
    <2> QED
      BY <1>7, <2>1, <2>2
  <1>9. Touches(e, sid)
    <2>1. \E x \in Frames : SidOf(x) = sid /\ Out(e)' = Append(Out(e), x)
      BY <1>3, <1>6
    <2>2. /\ Elsewhere(streams_stat[e], streams_stat'[e], sid)
          /\ Elsewhere(data[e], data'[e], sid) /\ Elsewhere(got[e], got'[e], sid)
          /\ Elsewhere(written[e], written'[e], sid)
          /\ \A s : s # sid => (s \in streams'[e] <=> s \in streams[e])
          /\ was_reset \subseteq was_reset'
      BY <1>1, <1>5, ElsewhereIs
    <2> QED
      BY <1>0, <1>1, <1>2, <1>5, <1>6, <1>7, <1>8, <1>d, <2>1, <2>2, TouchesIs
  <1>10. StreamOK(e, sid)'
    <2>1. Count(Other(e), Flip(sid))' = 0
      BY <1>2, <1>5, <1>d DEF Count
    <2>2. \E x \in Frames : TagOf(x) = "NewStream" /\ Out(e)' = Append(Out(e), x)
      BY <1>3, <1>6
    <2> QED
      BY <1>0, <1>1, <1>2, <1>8, <2>1, <2>2, StreamStarts
  <1>11. Flip(sid) \notin Known(o)'
    BY <1>2, <1>5
  <1> QED
    BY <1>0, <1>2, <1>9, <1>10, <1>11, <1>d, TouchBoth

\* The other end has opened a stream: its messages come after, and are not read yet.
LEMMA StreamsNewStream ==
    ASSUME MplexInv, StreamInv, NEW e \in Ends, OnNewStream(e)
    PROVE  StreamInv'
  <1>a. PICK o : o = Other(e)
    OBVIOUS
  <1>b. PICK sid : sid = Received(e)
    OBVIOUS
  <1>c. PICK g : g = Flip(sid)
    OBVIOUS
  <1>d. PICK f : f = Head(Out(o))
    OBVIOUS
  <1>0. TypeInv /\ FramesInv /\ OpenInv /\ CommandInv /\ TablesInv /\ o \in Ends /\ Other(o) = e
    BY <1>a, TheOther, TypeParts DEF MplexInv
  <1>1. /\ Out(e)' = Out(e) /\ Out(o) # <<>> /\ Out(o)' = Tail(Out(o))
        /\ Running(e) /\ Running(e)' /\ f \in Frames /\ TagOf(f) = "NewStream" /\ SidOf(f) = g
        /\ sid \in StreamID /\ task' = task /\ NewStream(e, sid)
        /\ UNCHANGED <<stream_cmds, stream_receiver, was_reset>>
        /\ sid \notin Known(e)
    BY <1>0, <1>a, <1>b, <1>c, <1>d, OnNewStreamEffect DEF chanVars
  <1>2. g \in StreamID /\ Flip(g) = sid /\ g \in Known(o) /\ StreamOK(o, g) /\ Out(o) \in Seq(Frames)
    <2>1. g \in StreamID /\ Flip(g) = sid /\ Out(o) \in Seq(Frames)
      <3>1. g \in StreamID /\ Flip(g) = sid
        BY <1>1, <1>c, FlipFlip
      <3>2. Out(o) \in Seq(Frames)
        BY <1>0, StreamTypes
      <3> QED
        BY <3>1, <3>2
    <2>2. 1 \in DOMAIN Out(o) /\ Out(o)[1] = f
      BY <1>1, <1>d, <2>1
    <2>3. g \in Known(o)
      BY <1>0, <1>1, <2>2 DEF FramesInv, FramesOK
    <2> QED
      BY <1>0, <2>1, <2>3 DEF StreamInv
  <1>3. /\ streams'[e] = streams[e] \cup {sid} /\ streams'[o] = streams[o]
        /\ data'[e] = Insert(data[e], sid, <<>>) /\ data'[o] = data[o]
        /\ streams_stat'[e] = Insert(streams_stat[e], sid, "Open") /\ streams_stat'[o] = streams_stat[o]
        /\ written'[e] = Insert(written[e], sid, 0) /\ written'[o] = written[o]
        /\ got'[e] = Insert(got[e], sid, <<>>) /\ got'[o] = got[o]
        /\ Known(e)' = Known(e) \cup {sid} /\ Known(o)' = Known(o)
    BY <1>0, <1>1, <1>a, NewStreamEffect
  <1>4. /\ handle'[o] = handle[o]
        /\ handle'[e] = handle[e] \/ handle'[e] = Insert(handle[e], sid, "open")
    BY <1>0, <1>a, <1>b, OnNewStreamHands
  <1>5. /\ Elsewhere(handle[e], handle'[e], sid)
        /\ sid \in DOMAIN handle'[e] => handle'[e][sid] = "open"
    <2>1. CASE handle'[e] = handle[e]
      BY <1>0, <1>1, <2>1, ElsewhereIs DEF TablesInv, Tables, Known
    <2>2. CASE handle'[e] = Insert(handle[e], sid, "open")
      <3>1. handle'[e][sid] = "open"
        BY <2>2 DEF Insert
      <3> QED
        BY <2>2, <3>1, ElsewhereIs
    <2> QED
      BY <1>4, <2>1, <2>2
  <1>6. Touches(e, sid)
    <2>1. /\ Elsewhere(streams_stat[e], streams_stat'[e], sid)
          /\ Elsewhere(data[e], data'[e], sid) /\ Elsewhere(got[e], got'[e], sid)
          /\ Elsewhere(written[e], written'[e], sid)
          /\ \A s : s # sid => (s \in streams'[e] <=> s \in streams[e])
          /\ was_reset \subseteq was_reset'
      BY <1>1, <1>3, ElsewhereIs
    <2>2. SidOf(Head(Out(o))) = Flip(sid)
      BY <1>1, <1>c, <1>d
    <2> QED
      BY <1>0, <1>1, <1>3, <1>4, <1>5, <1>a, <2>1, <2>2, TouchesIs
  <1>7. Count(o, g)' = Count(o, g) /\ Count(o, g) = 0
    <2>1. Count(o, g)' = Count(o, g)
      BY <1>0, <1>1, <1>6, <1>a, <1>c, OtherKept
    <2> QED
      BY <1>0, <1>1, <1>2, <2>1 DEF StreamOK, StartOK
  <1>8. StreamOK(e, sid)'
    BY <1>0, <1>1, <1>5, <1>7, <1>a, <1>c, StreamStarts
  <1>9. FlowOK(o, g)'
    <2>1. Takes(o, g)
      BY <1>0, <1>1, <1>2 DEF Takes
    <2>2. KeepsMsgs(Out(o), Out(o)', g)
      <3>1. MsgVal(Head(Out(o)), g) = 0
        BY <1>1, <1>d DEF MsgVal
      <3> QED
        BY <1>1, <1>2, <3>1, MsgsKept
    <2>3. Count(e, sid)' = Count(e, sid)
      <3>1. sid \in Known(e)' /\ Len(<<>>) = 0 /\ data'[e][sid] = <<>> /\ got'[e][sid] = <<>>
        BY <1>3 DEF Insert
      <3>2. Count(e, sid) = 0
        BY <1>1 DEF Count
      <3>3. Count(e, sid)' = Len(got'[e][sid]) + Len(data'[e][sid])
        BY <3>1 DEF Count
      <3> QED
        BY <3>1, <3>2, <3>3
    <2>4. /\ Gives(o, g)' => Gives(o, g)
          /\ KeepsCmds(stream_cmds[o], stream_cmds'[o], g)
          /\ Done(o, g)' => Done(o, g)
          /\ written'[o][g] = written[o][g]
      BY <1>0, <1>1, <1>2, <1>6, <1>a, <1>c, OtherKept
    <2>5. Count(Other(o), Flip(g))' = Count(Other(o), Flip(g))
      BY <1>0, <1>2, <2>3
    <2>6. FlowOK(o, g)
      BY <1>2 DEF StreamOK
    <2> QED
      BY <1>0, <1>2, <2>1, <2>2, <2>4, <2>5, <2>6, StayFlow
  <1>10. EofOK(o, g)'
    <2>1. Finished(o, g)' => Finished(o, g)
      BY <1>0, <1>1, <1>6, <1>a, <1>c, OtherKept
    <2>2. Finished(o, g) => ~Running(o)
      BY <1>0, <1>1, <1>2 DEF StreamOK, EofOK
    <2>3. ~Finished(o, g)
      BY <1>0, <1>1, <2>2 DEF Finished
    <2> QED
      BY <2>1, <2>3 DEF EofOK
  <1>11. StreamOK(o, g)'
    BY <1>0, <1>1, <1>2, <1>6, <1>9, <1>10, <1>a, <1>c, OtherOK
  <1> QED
    BY <1>0, <1>1, <1>6, <1>8, <1>11, <1>a, <1>c, TouchBoth

-----------------------------------------------------------------------------
(* A task ends. *)

LEMMA EndsFacts ==
    ASSUME MplexInv, NEW e \in Ends, NEW o, o = Other(e), Ends1(e)
    PROVE  \E cause \in Causes :
              /\ o \in Ends /\ o # e /\ Other(o) = e /\ Running(e) /\ ~Running(e)'
              /\ task'[e] = Ended(cause) /\ task'[o] = task[o] /\ (Running(o)' <=> Running(o))
              /\ Out(e)' = wire[e] /\ Out(o)' = Out(o)
              /\ Out(e) = wire[e] \/ \E f \in Frames : Out(e) = Append(wire[e], f)
              /\ cause = "eof" => ~Running(o) /\ Out(o) = <<>>
              /\ cause = "closed" => Out(e) = wire[e] /\ stream_cmds[e] = <<>>
              /\ UNCHANGED <<data, historyVars>> /\ KnownSame
              /\ streams_stat'[e] = Empty /\ streams_stat'[o] = streams_stat[o]
              /\ streams'[e] = {} /\ streams'[o] = streams[o]
              /\ stream_cmds'[e] = <<>> /\ stream_cmds'[o] = stream_cmds[o]
              /\ stream_receiver'[e] = "terminated" /\ stream_receiver'[o] = stream_receiver[o]
              /\ handle'[o] = handle[o]
              /\ \A x \in Ends : \A s : Dropped(x, s)' <=> Dropped(x, s)
  <1>0. /\ TypeInv /\ StageInv /\ o \in Ends /\ o # e /\ Other(o) = e /\ ChannelInv /\ DomInv
    BY TheOther, TypeParts DEF MplexInv
  <1>1a. PICK cause \in Causes : \E h : /\ End(e, cause, h) /\ wire' = wire /\ task[e].at \in {"select", "write"}
                                        /\ cause = "eof" => ~Running(o) /\ wire[o] = <<>>
                                        /\ cause = "closed" => task[e].at = "select" /\ control_receiver[e] = "closed"
    BY DEF Ends1, ReadFails, WriteFails, OnOpenStreamNoId, OnNoControlCommand, TakeControlCmd, Causes, Selecting, Select
  <1>1. PICK h : /\ End(e, cause, h) /\ wire' = wire /\ task[e].at \in {"select", "write"}
                 /\ cause = "eof" => ~Running(o) /\ wire[o] = <<>>
                 /\ cause = "closed" => task[e].at = "select" /\ control_receiver[e] = "closed"
    BY <1>1a
  <1>2. /\ Out(e)' = wire[e] /\ Out(o)' = Out(o) /\ ~Running(e)' /\ Running(o)' = Running(o)
        /\ task'[e] = Ended(cause) /\ task'[o] = task[o]
        /\ Out(e) = wire[e] \/ \E f \in Frames : Out(e) = Append(wire[e], f)
    BY <1>0, <1>1, EndEffect
  <1>3. Running(e) /\ (cause = "eof" => ~Running(o) /\ Out(o) = <<>>) /\ (cause = "closed" => Out(e) = wire[e])
    BY <1>1 DEF Running, Out
  <1>4. cause = "closed" => stream_cmds[e] = <<>>
    BY <1>0, <1>1 DEF StageInv
  <1>5. UNCHANGED <<data, historyVars>> /\ KnownSame
    BY <1>1 DEF End, KnownSame, Known
  <1>6. /\ streams_stat'[e] = Empty /\ streams_stat'[o] = streams_stat[o]
        /\ streams'[e] = {} /\ streams'[o] = streams[o]
        /\ stream_cmds'[e] = <<>> /\ stream_cmds'[o] = stream_cmds[o]
        /\ stream_receiver'[e] = "terminated" /\ stream_receiver'[o] = stream_receiver[o]
    BY <1>0, <1>1, TypeParts DEF End, DomInv, ChannelInv, IdInv
  <1>7. handle'[o] = handle[o]
    BY <1>0, <1>1 DEF End, DomInv
  <1>8. ASSUME NEW s PROVE Dropped(e, s)' <=> Dropped(e, s)
    BY <1>0, <1>1 DEF End, DomInv, Dropped
  <1>9. ASSUME NEW s PROVE Dropped(o, s)' <=> Dropped(o, s)
    BY <1>7 DEF Dropped
  <1>10. ASSUME NEW x \in Ends PROVE x = e \/ x = o
    BY <1>0 DEF Ends
  <1>11. \A x \in Ends : \A s : Dropped(x, s)' <=> Dropped(x, s)
    BY <1>8, <1>9, <1>10
  <1> QED
    BY <1>0, <1>2, <1>3, <1>4, <1>5, <1>6, <1>7, <1>11

\* Messages sent, but for the one the socket did not take, and all of them once the stream
\* was closed or the connection was.
LEMMA StreamsEndsFlow ==
    ASSUME MplexInv, StreamInv, NEW e \in Ends, Ends1(e), NEW s \in Known(e)
    PROVE  FlowOK(e, s)'
  <1>a. PICK o : o = Other(e)
    OBVIOUS
  <1>b. PICK g : g = Flip(s)
    OBVIOUS
  <1>0. TypeInv /\ FramesInv /\ StageInv
    BY DEF MplexInv
  <1>1. PICK cause \in Causes :
              /\ o \in Ends /\ o # e /\ Other(o) = e /\ Running(e) /\ ~Running(e)'
              /\ task'[e] = Ended(cause) /\ Out(e)' = wire[e]
              /\ Out(e) = wire[e] \/ \E f \in Frames : Out(e) = Append(wire[e], f)
              /\ cause = "closed" => Out(e) = wire[e] /\ stream_cmds[e] = <<>>
              /\ UNCHANGED <<data, historyVars>> /\ KnownSame
              /\ streams_stat'[o] = streams_stat[o] /\ streams'[o] = streams[o]
              /\ stream_cmds'[e] = <<>> /\ handle'[o] = handle[o]
    BY <1>a, EndsFacts
  <1>2. PICK w \in Nat : w = written[e][s] /\ w = written'[e][s]
    BY <1>0, <1>1, StreamTypes DEF historyVars
  <1>3. PICK k \in Nat : k = Count(o, g) /\ k = Count(o, g)'
    <2>1. Count(o, g)' = Count(o, g)
      BY <1>1 DEF Count, Known, historyVars
    <2>2. Count(o, g) \in Nat
      BY <1>0, <1>1, StreamTypes
    <2> QED
      BY <2>1, <2>2
  <1>4. /\ Takes(e, s)' <=> Takes(e, s)
        /\ ~Gives(e, s)'
        /\ NotReset(e, s)' <=> NotReset(e, s)
    <2>1. Deliverable(o, g)' <=> Deliverable(o, g)
      BY <1>1 DEF Deliverable, Dropped
    <2>2. ~Gives(e, s)'
      BY <1>1 DEF Gives
    <2>3. g \in Known(o)' <=> g \in Known(o)
      BY <1>1 DEF KnownSame
    <2>4. NotReset(e, s)' <=> NotReset(e, s)
      BY <1>1 DEF NotReset, historyVars
    <2> QED
      BY <2>1, <2>2, <2>3, <2>4, <1>a, <1>b DEF Takes
  <1>5. FlowAt(Out(e), k, stream_cmds[e], w, s, Takes(e, s), Gives(e, s), Done(e, s))
    <2>1. FlowOK(e, s)
      BY DEF StreamInv, StreamOK
    <2> QED
      BY <1>2, <1>3, <1>a, <1>b, <2>1 DEF FlowOK
  <1>6. SUFFICES FlowAt(wire[e], k, stream_cmds'[e], w, s, Takes(e, s), Gives(e, s)', Done(e, s)')
    <2>1. ASSUME FlowAt(wire[e], k, stream_cmds'[e], w, s, Takes(e, s), Gives(e, s)', Done(e, s)')
          PROVE  FlowAt(Out(e)', Count(o, g)', stream_cmds'[e], written'[e][s], s, Takes(e, s)', Gives(e, s)', Done(e, s)')
      BY <1>1, <1>2, <1>3, <1>4, <2>1 DEF FlowAt
    <2> QED
      BY <1>a, <1>b, <2>1 DEF FlowOK
  <1>7. CASE cause = "closed"
    <2>1. stream_cmds[e] \in Seq(Commands) /\ ZeroCmds(stream_cmds[e], s) /\ Out(e) = wire[e] /\ stream_cmds[e] = <<>>
      <3>1. Out(e) = wire[e] /\ stream_cmds[e] = <<>> /\ DOMAIN <<>> = {}
        BY <1>1, <1>7
      <3>2. stream_cmds[e] \in Seq(Commands)
        BY <1>0, StreamTypes
      <3> QED
        BY <3>1, <3>2 DEF ZeroCmds
    <2>2. CASE NotReset(e, s)
      <3>1. Gives(e, s)
        BY <1>1, <2>2 DEF Gives
      <3>2. FlowAt(Out(e), k, stream_cmds[e], w, s, Takes(e, s), TRUE, Done(e, s))
        BY <1>5, <3>1 DEF FlowAt
      <3>3. FlowAt(Out(e), k, stream_cmds[e], w, s, Takes(e, s), TRUE, TRUE)
        BY <2>1, <3>2, FlowDone
      <3> QED
        BY <1>4, <2>1, <3>3 DEF FlowAt
    <2>3. CASE ~NotReset(e, s)
      <3>1. ~Done(e, s)'
        BY <1>4, <2>3 DEF Done
      <3> QED
        BY <1>4, <1>5, <2>1, <3>1 DEF FlowAt
    <2> QED
      BY <2>2, <2>3
  <1>8. CASE cause # "closed"
    <2>1. task'[e].cause # "closed"
      BY <1>1, <1>8 DEF Ended
    <2>2. Done(e, s)' => NotReset(e, s) /\ Has(wire[e], "Close", s)
      BY <1>1, <1>4, <2>1 DEF Done, Sent
    <2>3. CASE Out(e) = wire[e]
      <3>1. Done(e, s)' => Done(e, s)
        BY <2>2, <2>3 DEF Done, Sent
      <3> QED
        BY <1>4, <1>5, <2>3, <3>1 DEF FlowAt
    <2>4. CASE \E f \in Frames : Out(e) = Append(wire[e], f)
      <3>1. PICK f \in Frames : Out(e) = Append(wire[e], f)
        BY <2>4
      <3>2. wire[e] \in Seq(Frames)
        BY <1>0, TypeParts DEF SocketInv
      <3>3. ASSUME Done(e, s)' PROVE Done(e, s) /\ MsgVal(f, s) = 0
        <4>1. PICK i \in DOMAIN wire[e] : TagOf(wire[e][i]) = "Close" /\ SidOf(wire[e][i]) = s
          BY <2>2, <3>3 DEF Has
        <4>2. PICK n \in Nat : n = Len(wire[e])
          BY <3>2
        <4>3. /\ i \in 1 .. n /\ i \in DOMAIN Out(e) /\ Out(e)[i] = wire[e][i]
              /\ Len(Out(e)) = n + 1 /\ Out(e)[n + 1] = f
          BY <3>1, <3>2, <4>2
        <4>4. n + 1 \in i + 1 .. Len(Out(e))
          BY <4>2, <4>3
        <4>5. SidOf(Out(e)[n + 1]) = s => TagOf(Out(e)[n + 1]) = "Reset"
          BY <1>0, <4>1, <4>3, <4>4 DEF FramesInv, FramesOK
        <4>6. MsgVal(f, s) = 0
          BY <4>3, <4>5 DEF MsgVal
        <4>7. Sent(e, "Close", s)
          BY <4>1, <4>3 DEF Sent, Has
        <4> QED
          BY <2>2, <3>3, <4>6, <4>7 DEF Done
      <3>4. FlowAt(Append(wire[e], f), k, stream_cmds[e], w, s, Takes(e, s), Gives(e, s), Done(e, s))
        BY <1>5, <3>1
      <3>5. Done(e, s)' => Done(e, s) /\ MsgVal(f, s) = 0
        BY <3>3
      <3> QED
        BY <1>4, <3>2, <3>4, <3>5, FlowLost
    <2> QED
      BY <1>1, <2>3, <2>4
  <1> QED
    BY <1>7, <1>8

\* The end of file of a connection that the other end closed comes after all it has sent.
LEMMA StreamsEndsEof ==
    ASSUME MplexInv, StreamInv, NEW e \in Ends, Ends1(e), NEW s \in Known(e)
    PROVE  EofOK(e, s)'
  <1>a. PICK o : o = Other(e)
    OBVIOUS
  <1>b. PICK g : g = Flip(s)
    OBVIOUS
  <1>0. TypeInv /\ StageInv
    BY DEF MplexInv
  <1>1. PICK cause \in Causes :
              /\ o \in Ends /\ o # e /\ Other(o) = e /\ Running(e) /\ ~Running(e)'
              /\ task'[e] = Ended(cause) /\ task'[o] = task[o]
              /\ cause = "eof" => ~Running(o) /\ Out(o) = <<>>
              /\ UNCHANGED <<data, historyVars>> /\ KnownSame
              /\ stream_receiver'[o] = stream_receiver[o]
              /\ \A x \in Ends : \A t : Dropped(x, t)' <=> Dropped(x, t)
    BY <1>a, EndsFacts
  <1>2. SUFFICES ASSUME Finished(e, s)', g \in Known(o)
                 PROVE  Count(e, s)' = written'[o][g] /\ ~CanSend(o, g)'
    BY <1>1, <1>a, <1>b DEF EofOK, KnownSame
  <1>3. cause = "eof" /\ ~Running(o) /\ task[o].cause = "closed" /\ NotReset(e, s) /\ ~Dropped(e, s)
    <2>1. task'[e].cause = "eof" /\ ~Running(o)' /\ task'[o].cause = "closed" /\ NotReset(e, s)' /\ ~Dropped(e, s)'
      BY <1>1, <1>2, <1>a DEF Finished
    <2> QED
      BY <1>1, <2>1 DEF Ended, Running, NotReset, historyVars
  <1>4. ~CanSend(o, g)'
    BY <1>0, <1>1, <1>3 DEF StageInv, CanSend
  <1>5. Count(e, s)' = Count(e, s) /\ written'[o][g] = written[o][g]
    BY <1>1 DEF Count, Known, historyVars
  <1>6. Count(e, s) = written[o][g]
    <2>1. CASE Deliverable(e, s)
      <3>1. s \in StreamID /\ Flip(g) = s /\ g \in StreamID
        BY <1>0, <1>b, StreamTypes, FlipFlip
      <3>2. Takes(o, g)
        BY <1>1, <2>1, <3>1 DEF Takes
      <3>3. NotReset(o, g)
        BY <1>3, <1>a, <1>b, <3>1, StreamFlip DEF NotReset
      <3>4. Done(o, g)
        BY <1>3, <3>3 DEF Done
      <3>5. FlowOK(o, g)
        BY <1>1, <1>2 DEF StreamInv, StreamOK
      <3>6. FlowAt(Out(o), Count(e, s), stream_cmds[o], written[o][g], g, TRUE, Gives(o, g), TRUE)
        BY <1>1, <3>1, <3>2, <3>4, <3>5 DEF FlowOK, FlowAt
      <3>7. Count(e, s) \in Nat /\ written[o][g] \in Nat /\ Out(o) \in Seq(Frames)
        BY <1>0, <1>1, <1>2, StreamTypes
      <3>8. \A i \in DOMAIN Out(o) : MsgVal(Out(o)[i], g) = 0
        BY <1>1, <1>3
      <3> QED
        BY <3>6, <3>7, <3>8, FlowTaken
    <2>2. CASE ~Deliverable(e, s)
      <3>1. Finished(e, s)
        BY <1>1, <1>3, <2>2 DEF Finished
      <3>2. EofOK(e, s)
        BY DEF StreamInv, StreamOK
      <3> QED
        BY <1>2, <1>a, <1>b, <3>1, <3>2 DEF EofOK
    <2> QED
      BY <2>1, <2>2
  <1> QED
    BY <1>4, <1>5, <1>6

LEMMA StreamsEndsOther ==
    ASSUME MplexInv, StreamInv, NEW e \in Ends, Ends1(e), NEW o, o = Other(e), NEW g \in Known(o)
    PROVE  StreamOK(o, g)'
  <1>b. PICK s : s = Flip(g)
    OBVIOUS
  <1>0. TypeInv /\ StageInv
    BY DEF MplexInv
  <1>1. /\ o \in Ends /\ o # e /\ Other(o) = e /\ Running(e) /\ ~Running(e)'
        /\ task'[o] = task[o] /\ (Running(o)' <=> Running(o)) /\ Out(o)' = Out(o)
        /\ UNCHANGED <<data, historyVars>> /\ KnownSame
        /\ streams_stat'[e] = Empty /\ streams_stat'[o] = streams_stat[o]
        /\ streams'[e] = {} /\ streams'[o] = streams[o]
        /\ stream_cmds'[o] = stream_cmds[o]
        /\ stream_receiver'[e] = "terminated" /\ stream_receiver'[o] = stream_receiver[o]
        /\ handle'[o] = handle[o]
    <2>1. o = Other(e)
      OBVIOUS
    <2> QED
      BY <2>1, EndsFacts
  <1>2. StreamOK(o, g) /\ Out(o) \in Seq(Frames) /\ stream_cmds[o] \in Seq(Commands)
    <2>1. StreamOK(o, g)
      BY <1>1 DEF StreamInv
    <2> QED
      BY <1>0, <1>1, <2>1, StreamTypes
  <1>3. \A t : /\ Writable(o, t)' <=> Writable(o, t)
               /\ Deliverable(o, t)' <=> Deliverable(o, t)
               /\ Dropped(o, t)' <=> Dropped(o, t)
               /\ NotReset(o, t)' <=> NotReset(o, t)
               /\ CanSend(o, t)' <=> CanSend(o, t)
    BY <1>1 DEF Writable, Deliverable, Dropped, NotReset, CanSend, historyVars
  <1>4. ~Deliverable(e, s)' /\ ~CanSend(e, s)'
    BY <1>1 DEF Deliverable, CanSend
  <1>5. \A x, t : Count(x, t)' = Count(x, t)
    BY <1>1 DEF Count, Known, historyVars
  <1>6. ClosedOK(o, g)'
    BY <1>1, <1>2, <1>3 DEF ClosedOK, StreamOK
  <1>7. FlowOK(o, g)'
    <2>1. Takes(o, g)' => Takes(o, g)
      BY <1>1, <1>4, <1>b DEF Takes, KnownSame
    <2>2. KeepsMsgs(Out(o), Out(o)', g) /\ KeepsCmds(stream_cmds[o], stream_cmds'[o], g)
      BY <1>1, <1>2, MsgsKept, CmdsKept
    <2>3. Gives(o, g)' => Gives(o, g)
      BY <1>1, <1>3 DEF Gives
    <2>4. Done(o, g)' => Done(o, g)
      BY <1>1, <1>3 DEF Done, Sent
    <2>5. FlowOK(o, g) /\ written'[o][g] = written[o][g]
      BY <1>1, <1>2 DEF StreamOK, historyVars
    <2> QED
      BY <1>0, <1>1, <1>5, <2>1, <2>2, <2>3, <2>4, <2>5, StayFlow
  <1>8. StartOK(o, g)'
    BY <1>1, <1>2, <1>5 DEF StartOK, StreamOK, KnownSame
  <1>9. EofOK(o, g)'
    <2>1. Finished(o, g)' => Finished(o, g)
      BY <1>0, <1>1, <1>3 DEF Finished, StageInv
    <2>2. EofOK(o, g)
      BY <1>2 DEF StreamOK
    <2>3. g \in StreamID /\ (s \in Known(e)' <=> s \in Known(e)) /\ written' = written
      BY <1>0, <1>1, StreamTypes DEF KnownSame, historyVars
    <2> QED
      BY <1>1, <1>4, <1>5, <1>b, <2>1, <2>2, <2>3 DEF EofOK
  <1>10. ReadOK(o, g)'
    BY <1>1, <1>2 DEF ReadOK, StreamOK, historyVars
  <1> QED
    BY <1>6, <1>7, <1>8, <1>9, <1>10 DEF StreamOK

LEMMA StreamsEnds ==
    ASSUME MplexInv, StreamInv, NEW e \in Ends, Ends1(e)
    PROVE  StreamInv'
  <1>a. PICK o : o = Other(e)
    OBVIOUS
  <1>1. /\ o \in Ends /\ o # e /\ ~Running(e)' /\ UNCHANGED <<data, historyVars>> /\ KnownSame
    BY <1>a, EndsFacts
  <1>2. ASSUME NEW s \in Known(e) PROVE StreamOK(e, s)'
    <2>1. FlowOK(e, s)' /\ EofOK(e, s)'
      BY StreamsEndsFlow, StreamsEndsEof
    <2>2. StreamOK(e, s)
      BY DEF StreamInv
    <2>3. ClosedOK(e, s)'
      BY <1>1 DEF ClosedOK
    <2>4. StartOK(e, s)'
      <3>1. Count(e, s)' = Count(e, s) /\ Known(o)' = Known(o)
        BY <1>1 DEF Count, Known, KnownSame, historyVars
      <3> QED
        BY <1>a, <2>2, <3>1 DEF StartOK, StreamOK
    <2>5. ReadOK(e, s)'
      BY <1>1, <2>2 DEF ReadOK, StreamOK, historyVars
    <2> QED
      BY <2>1, <2>3, <2>4, <2>5 DEF StreamOK
  <1>3. ASSUME NEW s \in Known(o) PROVE StreamOK(o, s)'
    BY <1>a, StreamsEndsOther
  <1>4. ASSUME NEW x \in Ends PROVE (x = e \/ x = o) /\ Known(x)' = Known(x)
    BY <1>1 DEF Ends, KnownSame
  <1> QED
    BY <1>2, <1>3, <1>4 DEF StreamInv

-----------------------------------------------------------------------------
(* Every step. *)

LEMMA StreamsStep == MplexInv /\ StreamInv /\ [Next]_vars => StreamInv'
  <1> SUFFICES ASSUME MplexInv, StreamInv, [Next]_vars PROVE StreamInv'
    OBVIOUS
  <1>0. TypeInv /\ FramesInv /\ OpenInv /\ HandInv /\ PendingInv /\ CommandInv /\ StageInv /\ SentInv
    BY DEF MplexInv
  <1>1. ASSUME NEW e \in Ends, Quiet(e) PROVE StreamInv'
    BY <1>0, <1>1, StreamsQuiet
  <1>2. ASSUME NEW e \in Ends, NEW sid, Use(e, sid) PROVE StreamInv'
    <2>1. CASE Write(e, sid)
      BY <1>0, <2>1, StreamsWrite
    <2>2. CASE Drop(e, sid)
      BY <1>0, <2>2, StreamsDrop
    <2>3. CASE Close(e, sid) \/ Reset(e, sid) \/ Read(e, sid)
      BY <1>0, <2>3, StreamsUseSame
    <2> QED
      BY <1>2, <2>1, <2>2, <2>3 DEF Use
  <1>3. ASSUME NEW e \in Ends, Connection(e) PROVE StreamInv'
    <2>1. \/ Quiet(e) \/ Reads(e) \/ Ends1(e)
          \/ OnNewStream(e) \/ WriteDone(e) \/ OnSendFrame(e) \/ OnCloseStream(e) \/ OnResetStream(e)
          \/ DeliverTimeout(e) \/ OnOpenStream(e) \/ OnAcceptStream(e)
      BY <1>3 DEF Connection, OnFrame, OnStreamCommand, OnControlCommand, Quiet, Reads, Ends1
    <2>2. CASE Quiet(e)
      BY <1>1, <2>2
    <2>3. CASE Reads(e)
      BY <1>0, <2>3, StreamsReads
    <2>4. CASE Ends1(e)
      BY <2>4, StreamsEnds
    <2>5. CASE OnNewStream(e) \/ OnOpenStream(e)
      BY <2>5, StreamsNewStream, StreamsOpenStream
    <2>6. CASE WriteDone(e) \/ OnAcceptStream(e)
      BY <1>0, <2>6, StreamsWriteDone, StreamsAccept
    <2>7. CASE OnSendFrame(e) \/ OnCloseStream(e) \/ OnResetStream(e) \/ DeliverTimeout(e)
      BY <2>7, StreamsSendFrame, StreamsCloseStream, StreamsResetStream, StreamsTimeout
    <2> QED
      BY <2>1, <2>2, <2>3, <2>4, <2>5, <2>6, <2>7
  <1>4. ASSUME Break \/ \E r \in Requests : Call(r) PROVE StreamInv'
    <2>1. "A" \in Ends /\ Quiet("A")
      BY <1>4 DEF Quiet, Ends
    <2> QED
      BY <1>1, <2>1
  <1>5. CASE UNCHANGED vars
    <2>1. /\ UNCHANGED <<streams, streams_stat, data, stream_cmds, historyVars, wire, task, handle, stream_receiver>>
      BY <1>5 DEF vars, socketVars, tableVars, chanVars
    <2>2. /\ KnownSame
          /\ \A x \in Ends : /\ Out(x)' = Out(x)
                             /\ Running(x)' <=> Running(x)
                             /\ \A s : /\ Dropped(x, s)' <=> Dropped(x, s)
                                       /\ CanSend(x, s)' => CanSend(x, s)
      BY <2>1 DEF KnownSame, Known, Out, Running, Dropped, CanSend
    <2> QED
      BY <1>0, <2>1, <2>2, StreamsKept
  <1> QED
    BY <1>2, <1>3, <1>4, <1>5 DEF Next, Application, Use

LEMMA StreamsHold == Spec => [](MplexInv /\ StreamInv)
  <1>1. Init => StreamInv
    BY DEF Init, StreamInv, Known, Empty
  <1>2. MplexInv /\ StreamInv /\ [Next]_vars => StreamInv'
    BY StreamsStep
  <1> QED
    BY <1>1, <1>2, CoreHolds, PTL DEF Spec

\* What a Stream has read and what waits in its channel is what the other end wrote to that
\* stream, from the first write on, in order, with no gap and no duplicate: no frame that
\* on_frame ignores, no command that on_stream_command drops, no reset, timeout or end of a
\* task takes one out of the middle or hands it to another stream.
THEOREM MplexInOrder == Spec => []InOrder
  <1>1. MplexInv /\ StreamInv => InOrder
    <2> SUFFICES ASSUME StreamInv, NEW e \in Ends, NEW sid \in DOMAIN data[e]
                 PROVE  LET read == got[e][sid] \o data[e][sid] IN
                        \A i \in 1 .. Len(read) : read[i] = [from |-> Other(e), sid |-> Flip(sid), n |-> i]
      BY DEF InOrder
    <2>1. ReadOK(e, sid)
      BY DEF StreamInv, StreamOK, Known
    <2> QED
      BY <2>1 DEF ReadOK, InOrderOf
  <1> QED
    BY <1>1, StreamsHold, PTL

\* poll_read says end of file on a stream that is not reset only after the Stream has read
\* all that poll_write took at the other end: a close of the stream and a close of the
\* connection both let the queued commands go out first.
THEOREM MplexEofMeansAll == Spec => []EofMeansAll
  <1>1. MplexInv /\ StreamInv => EofMeansAll
    <2> SUFFICES ASSUME MplexInv, StreamInv, NEW e \in Ends, NEW sid \in DOMAIN handle[e], NEW o, o = Other(e),
                        handle[e][sid] \in {"open", "closed"}, sid \notin streams[e], data[e][sid] = <<>>,
                        Stream(e, sid) \notin was_reset, Running(e) \/ task[e].cause = "eof",
                        Running(o) \/ task[o].cause = "closed", Flip(sid) \in DOMAIN written[o]
                 PROVE  Len(got[e][sid]) = written[o][Flip(sid)]
      BY DEF EofMeansAll
    <2>1. TypeInv /\ TablesInv /\ StageInv /\ o \in Ends
      BY TheOther, TypeParts DEF MplexInv
    <2>2. sid \in Known(e) /\ Flip(sid) \in Known(o)
      BY <2>1 DEF TablesInv, Tables, Known
    <2>3. Finished(e, sid)
      <3>1. NotReset(e, sid) /\ ~Dropped(e, sid) /\ ~Deliverable(e, sid)
        BY DEF NotReset, Dropped, Deliverable
      <3>2. ~Running(e) => task[e].cause = "eof" /\ ~Running(o)
        BY <2>1 DEF StageInv
      <3> QED
        BY <3>1, <3>2 DEF Finished
    <2>4. Count(e, sid) = written[o][Flip(sid)]
      BY <2>2, <2>3 DEF StreamInv, StreamOK, EofOK
    <2>5. Count(e, sid) = Len(got[e][sid]) + Len(data[e][sid]) /\ got[e][sid] \in Seq(Bodies)
      BY <2>1, <2>2, StreamTypes
    <2>6. PICK n \in Nat : n = Len(got[e][sid])
      BY <2>5
    <2>7. Len(data[e][sid]) = 0
      OBVIOUS
    <2> QED
      BY <2>4, <2>5, <2>6, <2>7
  <1> QED
    BY <1>1, StreamsHold, PTL
=============================================================================
