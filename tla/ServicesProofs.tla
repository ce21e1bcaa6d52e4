--------------------------- MODULE ServicesProofs ---------------------------
(***************************************************************************)
(* What holds of the parts beside the swarm's main loop for all keys,      *)
(* configurations, sizes and bounds: the secure channels, handshake and    *)
(* stream, the requests between two Kademlia nodes, Ping, and the peer     *)
(* store.                                                                  *)
(***************************************************************************)
EXTENDS Services, SequenceTheorems, TLAPS

(***************************************************************************)
(* The encrypted stream.                                                   *)
(***************************************************************************)

\* The number of the last byte of frame f.
Upto(f) == IF f = 0 THEN 0 ELSE frames[f][Len(frames[f])]

\* The bytes of frame n + 1 that the reader has taken from the socket.
Taken == Len(rs.hdr) + Len(rs.body)

StreamType ==
  /\ kind \in {"noise", "secio"} /\ closed \in {"no", "clean", "cut"}
  /\ written \in Nat /\ ws \in Nat
  /\ send_buffer \in Seq(Nat) /\ recv_buffer \in Seq(Nat) /\ received \in Seq(Nat)
  /\ frames \in Seq(Seq(Nat)) /\ wire \in Seq(Nat \X Nat)
  /\ rs \in [st : {"ReadLen", "ReadData", "Eof", "UnexpectedEof"},
             hdr : Seq(Nat \X Nat), body : Seq(Nat \X Nat), n : Nat]

\* The frames hold the bytes in order, and what is buffered follows them.
Framed ==
  /\ \A f \in 1..Len(frames) :
       /\ frames[f] # <<>>
       /\ \A i \in 1..Len(frames[f]) : frames[f][i] = Upto(f - 1) + i
       /\ kind = "noise" => Len(frames[f]) <= MAX_FRAME_LEN
  /\ \A f \in 0..Len(frames) : Upto(f) <= Upto(Len(frames))
  /\ \A i \in 1..Len(send_buffer) : send_buffer[i] = Upto(Len(frames)) + i
  /\ Upto(Len(frames)) + Len(send_buffer) = written
  /\ kind = "noise" => Len(send_buffer) <= MAX_FRAME_LEN
  /\ kind = "secio" => send_buffer = <<>>

\* The socket holds consecutive bytes of the frames ...
OnWire ==
  /\ \A i \in 1..Len(wire) : /\ wire[i][1] \in 1..Len(frames)
                             /\ wire[i][2] \in 1..S!FrameBytes(wire[i][1])
  /\ \A i, j \in 1..Len(wire) :
       i <= j /\ wire[i][2] + (j - i) <= S!FrameBytes(wire[i][1]) =>
         wire[j] = <<wire[i][1], wire[i][2] + (j - i)>>
  /\ \A i, j \in 1..Len(wire) :
       j = i + 1 /\ wire[i][2] = S!FrameBytes(wire[i][1]) => wire[j] = <<wire[i][1] + 1, 1>>

\* ... up to the one written last ...
WriterAt ==
  /\ IF frames = <<>> THEN ws = 0 ELSE ws <= S!FrameBytes(Len(frames))
  /\ closed # "cut" =>
       IF wire # <<>>
       THEN \/ ws > 0 /\ wire[Len(wire)] = <<Len(frames), ws>>
            \/ ws = 0 /\ wire[Len(wire)] = <<Len(frames) - 1, S!FrameBytes(Len(frames) - 1)>>
       ELSE \/ Taken = 0 /\ rs.n = Len(frames) /\ S!is_ready
            \/ Taken = ws /\ rs.n + 1 = Len(frames) /\ ~S!is_ready
  /\ closed = "clean" => send_buffer = <<>> /\ S!is_ready

\* ... from the one that the reader takes next.
ReaderAt ==
  /\ rs.n <= Len(frames)
  /\ Taken > 0 => rs.n + 1 <= Len(frames) /\ Taken < S!FrameBytes(rs.n + 1)
  /\ wire # <<>> => wire[1] = <<rs.n + 1, Taken + 1>>
  /\ \A i \in 1..Len(rs.hdr) : rs.hdr[i] = <<rs.n + 1, i>>
  /\ \A i \in 1..Len(rs.body) : rs.body[i] = <<rs.n + 1, S!Header + i>>
  /\ rs.st \in {"ReadLen", "Eof"} => Len(rs.hdr) < S!Header /\ rs.body = <<>>
  /\ rs.st \notin {"ReadLen", "Eof"} => Len(rs.hdr) = S!Header
  /\ rs.st \notin {"ReadLen", "ReadData"} => wire = <<>> /\ closed # "no" /\ recv_buffer = <<>>

\* What was decrypted are the bytes of the first n frames.
Decrypted ==
  /\ Len(received) + Len(recv_buffer) = Upto(rs.n)
  /\ \A i \in 1..Len(received) : received[i] = i
  /\ \A i \in 1..Len(recv_buffer) : recv_buffer[i] = Len(received) + i

StreamInv == StreamType /\ Framed /\ OnWire /\ WriterAt /\ ReaderAt /\ Decrypted

LEMMA StreamInitInv == S!Init => StreamInv
<1> SUFFICES ASSUME S!Init PROVE StreamInv OBVIOUS
<1> USE DEF S!Init
<1>1. StreamType BY DEF StreamType
<1>2. Len(frames) = 0 /\ Len(wire) = 0 /\ Len(rs.hdr) = 0 /\ Len(rs.body) = 0 /\ rs.n = 0
      /\ Len(send_buffer) = 0 /\ Len(received) = 0 /\ Len(recv_buffer) = 0 OBVIOUS
<1>3. Upto(0) = 0 BY DEF Upto
<1>4. Framed BY <1>2, <1>3, StreamBounds DEF Framed
<1>5. OnWire BY <1>2 DEF OnWire
<1>6. S!is_ready BY DEF S!is_ready
<1>7. Taken = 0 BY <1>2 DEF Taken
<1>8. WriterAt BY <1>2, <1>6, <1>7 DEF WriterAt
<1>9. ReaderAt BY <1>2, <1>7 DEF ReaderAt, S!Header
<1>10. Decrypted BY <1>2, <1>3 DEF Decrypted
<1>11. QED BY <1>1, <1>4, <1>5, <1>8, <1>9, <1>10 DEF StreamInv

LEMMA HeaderNat == StreamType => S!Header \in {2, 4}
  BY DEF S!Header, StreamType

LEMMA FrameBytesNat ==
  ASSUME StreamType, NEW f \in 1..Len(frames)
  PROVE  S!FrameBytes(f) \in Nat /\ S!FrameBytes(f) > 0 /\ S!FrameBytes(f) = S!Header + Len(frames[f]) + Tag
<1>1. frames[f] \in Seq(Nat) BY DEF StreamType
<1>2. Len(frames[f]) \in Nat BY <1>1
<1>3. QED BY <1>2, HeaderNat, StreamBounds DEF S!FrameBytes

LEMMA UptoNat ==
  ASSUME StreamType, Framed, NEW f \in 0..Len(frames)
  PROVE  Upto(f) \in Nat
<1>1. CASE f = 0 BY <1>1 DEF Upto
<1>2. CASE f # 0
  <2>1. f \in 1..Len(frames) BY <1>2 DEF StreamType
  <2>2. frames[f] \in Seq(Nat) /\ frames[f] # <<>>
    <3>1. frames[f] \in Seq(Nat) BY <2>1 DEF StreamType
    <3>2. frames[f] # <<>> BY <2>1 DEF Framed
    <3>3. QED BY <3>1, <3>2
  <2>3. Len(frames[f]) \in 1..Len(frames[f]) BY <2>2
  <2>4. frames[f][Len(frames[f])] \in Nat BY <2>2, <2>3
  <2>5. QED BY <2>4, <1>2 DEF Upto
<1>3. QED BY <1>1, <1>2

LEMMA UptoNext ==
  ASSUME StreamType, Framed, NEW f \in 1..Len(frames)
  PROVE  Upto(f) = Upto(f - 1) + Len(frames[f])
<1>1. frames[f] \in Seq(Nat) /\ frames[f] # <<>> BY DEF StreamType, Framed
<1>2. Len(frames[f]) \in 1..Len(frames[f]) BY <1>1
<1>3. frames[f][Len(frames[f])] = Upto(f - 1) + Len(frames[f]) BY <1>2 DEF Framed
<1>4. f # 0 BY DEF StreamType
<1>5. QED BY <1>3, <1>4 DEF Upto

\* A new frame leaves the earlier ones as they are.
LEMMA FramesGrow ==
  ASSUME StreamType, NEW d \in Seq(Nat), frames' = Append(frames, d), kind' = kind
  PROVE  /\ frames' \in Seq(Seq(Nat)) /\ Len(frames') = Len(frames) + 1
         /\ \A f \in 1..Len(frames) : frames'[f] = frames[f] /\ S!FrameBytes(f)' = S!FrameBytes(f)
         /\ \A f \in 0..Len(frames) : Upto(f)' = Upto(f)
         /\ frames'[Len(frames) + 1] = d
         /\ S!Header' = S!Header
<1>1. frames \in Seq(Seq(Nat)) BY DEF StreamType
<1>2. frames' \in Seq(Seq(Nat)) /\ Len(frames') = Len(frames) + 1 BY <1>1
<1>3. \A f \in 1..Len(frames) : frames'[f] = frames[f] BY <1>1
<1>4. frames'[Len(frames) + 1] = d BY <1>1
<1>5. S!Header' = S!Header BY DEF S!Header
<1>6. \A f \in 1..Len(frames) : S!FrameBytes(f)' = S!FrameBytes(f) BY <1>3, <1>5 DEF S!FrameBytes
<1>7. \A f \in 0..Len(frames) : Upto(f)' = Upto(f)
  <2> SUFFICES ASSUME NEW f \in 0..Len(frames) PROVE Upto(f)' = Upto(f) OBVIOUS
  <2>1. CASE f = 0 BY <2>1 DEF Upto
  <2>2. CASE f # 0
    <3>1. f \in 1..Len(frames) BY <2>2, <1>1
    <3>2. QED BY <3>1, <1>3, <2>2 DEF Upto
  <2>3. QED BY <2>1, <2>2
<1>8. QED BY <1>2, <1>3, <1>4, <1>5, <1>6, <1>7

\* start_send: the frame follows what was sent, and what is left in the buffer follows the frame.
LEMMA StartSend ==
  ASSUME StreamInv, closed = "no", S!is_ready,
         NEW d \in Seq(Nat), d # <<>>, frames' = Append(frames, d), ws' = 0,
         \A i \in 1..Len(d) : d[i] = Upto(Len(frames)) + i,
         kind = "noise" => Len(d) <= MAX_FRAME_LEN,
         send_buffer' \in Seq(Nat), written' = Upto(Len(frames)) + Len(d) + Len(send_buffer'),
         \A i \in 1..Len(send_buffer') : send_buffer'[i] = Upto(Len(frames)) + Len(d) + i,
         kind = "noise" => Len(send_buffer') <= MAX_FRAME_LEN,
         kind = "secio" => send_buffer' = <<>>,
         UNCHANGED <<kind, wire, closed, rs, recv_buffer, received>>
  PROVE  StreamInv'
<1> USE DEF StreamInv
<1>n. PICK n \in Nat : n = Len(frames) BY DEF StreamType
<1>0. n \in Nat /\ Len(d) \in Nat /\ Len(d) > 0 OBVIOUS
<1>1. /\ frames' \in Seq(Seq(Nat)) /\ Len(frames') = n + 1
      /\ \A f \in 1..n : frames'[f] = frames[f] /\ S!FrameBytes(f)' = S!FrameBytes(f)
      /\ \A f \in 0..n : Upto(f)' = Upto(f)
      /\ frames'[n + 1] = d
      /\ S!Header' = S!Header
  BY FramesGrow, <1>n
<1>2. Upto(n) \in Nat BY UptoNat, <1>0, <1>n
<1>3. Upto(n + 1)' = Upto(n) + Len(d)
  <2>1. d[Len(d)] = Upto(n) + Len(d) BY <1>0, <1>n
  <2>2. Upto(n + 1)' = frames'[n + 1][Len(frames'[n + 1])] BY <1>0, <1>1 DEF Upto
  <2>3. QED BY <2>1, <2>2, <1>1
<1>4. StreamType'
  <2>1. Len(send_buffer') \in Nat OBVIOUS
  <2>2. written' \in Nat BY <2>1, <1>0, <1>2, <1>n
  <2>3. QED BY <1>1, <2>2 DEF StreamType
<1>5. Framed'
  <2>1. ASSUME NEW f \in 1..(n + 1)
        PROVE  /\ frames'[f] # <<>>
               /\ \A i \in 1..Len(frames'[f]) : frames'[f][i] = Upto(f - 1)' + i
               /\ kind' = "noise" => Len(frames'[f]) <= MAX_FRAME_LEN
    <3>1. CASE f = n + 1
      <4>1. f - 1 = n /\ n \in 0..n BY <3>1, <1>0
      <4>2. Upto(f - 1)' = Upto(n) BY <4>1, <1>1
      <4>3. QED BY <3>1, <1>1, <4>2, <1>n
    <3>2. CASE f # n + 1
      <4>1. f \in 1..n /\ f - 1 \in 0..n BY <3>2, <1>0
      <4>2. Upto(f - 1)' = Upto(f - 1) /\ frames'[f] = frames[f] BY <4>1, <1>1
      <4>3. QED BY <4>1, <4>2, <1>n DEF Framed
    <3>3. QED BY <3>1, <3>2
  <2>2. ASSUME NEW f \in 0..(n + 1) PROVE Upto(f)' <= Upto(n + 1)'
    <3>1. CASE f = n + 1 BY <3>1, <1>3, <1>2, <1>0
    <3>2. CASE f # n + 1
      <4>1. f \in 0..n BY <3>2, <1>0
      <4>2. Upto(f)' = Upto(f) /\ Upto(f) <= Upto(n) BY <4>1, <1>1, <1>n DEF Framed
      <4>3. Upto(f) \in Nat BY <4>1, UptoNat, <1>n
      <4>4. QED BY <4>2, <4>3, <1>3, <1>2, <1>0
    <3>3. QED BY <3>1, <3>2
  <2>3. \A i \in 1..Len(send_buffer') : send_buffer'[i] = Upto(n + 1)' + i BY <1>3, <1>n
  <2>4. Upto(n + 1)' + Len(send_buffer') = written' BY <1>3, <1>n
  <2>5. QED BY <2>1, <2>2, <2>3, <2>4, <1>1 DEF Framed
<1>6. OnWire'
  <2>1. ASSUME NEW i \in 1..Len(wire)
        PROVE  /\ wire'[i][1] \in 1..Len(frames')
               /\ S!FrameBytes(wire[i][1])' = S!FrameBytes(wire[i][1])
    <3>1. PICK f \in 1..n : f = wire[i][1] BY <1>n DEF OnWire
    <3>2. f \in 1..(n + 1) BY <1>0
    <3>3. wire' = wire OBVIOUS
    <3>4. S!FrameBytes(f)' = S!FrameBytes(f) BY <1>1
    <3>5. QED BY <3>1, <3>2, <3>3, <3>4, <1>1
  <2>2. wire' = wire OBVIOUS
  <2>3. \A i \in 1..Len(wire) : wire[i][2] \in 1..S!FrameBytes(wire[i][1])' BY <2>1 DEF OnWire
  <2>4. ASSUME NEW i \in 1..Len(wire), NEW j \in 1..Len(wire)
        PROVE  /\ i <= j /\ wire[i][2] + (j - i) <= S!FrameBytes(wire[i][1])' =>
                     wire[j] = <<wire[i][1], wire[i][2] + (j - i)>>
               /\ j = i + 1 /\ wire[i][2] = S!FrameBytes(wire[i][1])' => wire[j] = <<wire[i][1] + 1, 1>>
    BY <2>1 DEF OnWire
  <2>5. QED BY <2>1, <2>2, <2>3, <2>4 DEF OnWire
<1>7. S!FrameBytes(n + 1)' \in Nat /\ S!FrameBytes(n + 1)' > 0
  <2>1. S!FrameBytes(n + 1)' = S!Header + Len(d) + Tag BY <1>1 DEF S!FrameBytes
  <2>2. PICK h \in Nat : h = S!Header BY HeaderNat
  <2>3. PICK l \in Nat : l = Len(d) /\ l > 0 BY <1>0
  <2>4. Tag \in Nat BY StreamBounds
  <2>5. S!FrameBytes(n + 1)' = h + l + Tag BY <2>1, <2>2, <2>3
  <2>6. h + l + Tag \in Nat /\ h + l + Tag > 0 BY <2>3, <2>4
  <2>7. QED BY <2>5, <2>6
<1>8. WriterAt'
  <2>1. frames' # <<>>
    <3>1. Len(frames') = n + 1 BY <1>1
    <3>2. n + 1 > 0 BY <1>0
    <3>3. SUFFICES ASSUME frames' = <<>> PROVE FALSE OBVIOUS
    <3>4. Len(frames') = 0 BY <3>3
    <3>5. QED BY <3>1, <3>2, <3>4
  <2>2. ~(S!is_ready)' BY <2>1, <1>1, <1>7 DEF S!is_ready
  <2>3. CASE wire # <<>>
    <3>0. wire \in Seq(Nat \X Nat) BY DEF StreamType
    <3>1. Len(wire) \in 1..Len(wire) BY <2>3, <3>0
    <3>2. wire[Len(wire)][1] \in 1..n /\ wire[Len(wire)][2] \in 1..S!FrameBytes(wire[Len(wire)][1]) BY <3>1, <1>n DEF OnWire
    <3>3. frames # <<>> /\ n \in 1..n BY <3>2, <1>0, <1>n
    <3>4. ws = S!FrameBytes(n) BY <3>3, <1>n DEF S!is_ready
    <3>5. ws > 0 BY <3>4, <3>3, <1>n, FrameBytesNat
    <3>6. wire[Len(wire)] = <<n, ws>> BY <2>3, <3>5, <1>n DEF WriterAt
    <3>7. S!FrameBytes(n)' = ws BY <3>3, <3>4, <1>1
    <3>8. (n + 1) - 1 = n BY <1>0
    <3>9. QED BY <2>1, <2>3, <3>6, <3>7, <3>8, <1>1, <1>7 DEF WriterAt
  <2>4. CASE wire = <<>>
    <3>1. Taken = 0 /\ rs.n = n BY <2>4, <1>n DEF WriterAt
    <3>2. Taken' = 0 BY <3>1 DEF Taken
    <3>3. QED BY <2>1, <2>2, <2>4, <3>1, <3>2, <1>1, <1>7 DEF WriterAt
  <2>5. QED BY <2>3, <2>4
<1>9. ReaderAt'
  <2>1. Taken' = Taken BY DEF Taken
  <2>2. rs.n \in Nat BY DEF StreamType
  <2>3. Taken > 0 => rs.n + 1 \in 1..n BY <2>2, <1>0, <1>n DEF ReaderAt
  <2>4. Taken > 0 => S!FrameBytes(rs.n + 1)' = S!FrameBytes(rs.n + 1) BY <2>3, <1>1
  <2>5. rs.n <= n + 1 /\ (Taken > 0 => rs.n + 1 <= n + 1) BY <2>2, <2>3, <1>0, <1>n DEF ReaderAt
  <2>6. QED BY <2>1, <2>3, <2>4, <2>5, <1>1 DEF ReaderAt
<1>10. Decrypted'
  <2>1. rs.n \in 0..n BY <1>0, <1>n DEF ReaderAt, StreamType
  <2>2. Upto(rs.n)' = Upto(rs.n)
    <3>1. PICK m : m = rs.n OBVIOUS
    <3>2. Upto(m)' = Upto(m) BY <3>1, <2>1, <1>1
    <3>3. m' = rs'.n BY <3>1
    <3>4. QED BY <3>1, <3>2, <3>3
  <2>3. QED BY <2>2 DEF Decrypted
<1>11. QED BY <1>4, <1>5, <1>6, <1>8, <1>9, <1>10

LEMMA MinTwo ==
  ASSUME NEW a \in Nat, NEW b \in Nat
  PROVE  S!Min({a, b}) = IF a <= b THEN a ELSE b
<1>1. CASE a <= b
  <2>1. a \in {a, b} /\ \A y \in {a, b} : a <= y BY <1>1
  <2>2. \A x \in {a, b} : (\A y \in {a, b} : x <= y) => x = a BY <1>1
  <2>3. QED BY <2>1, <2>2, <1>1 DEF S!Min
<1>2. CASE ~(a <= b)
  <2>1. b \in {a, b} /\ \A y \in {a, b} : b <= y BY <1>2
  <2>2. \A x \in {a, b} : (\A y \in {a, b} : x <= y) => x = b BY <1>2
  <2>3. QED BY <2>1, <2>2, <1>2 DEF S!Min
<1>3. QED BY <1>1, <1>2

\* t is s and the next m bytes of the writer.
Extends(t, s, m) ==
  /\ t \in Seq(Nat) /\ Len(t) = Len(s) + m
  /\ \A i \in 1..Len(s) : t[i] = s[i]
  /\ \A i \in 1..m : t[Len(s) + i] = written + i

LEMMA FreshBytes ==
  ASSUME NEW s \in Seq(Nat), NEW m \in Nat, written \in Nat, NEW t, t = s \o S!Fresh(m)
  PROVE  Extends(t, s, m)
<1>1. S!Fresh(m) \in Seq(Nat) /\ Len(S!Fresh(m)) = m /\ \A i \in 1..m : S!Fresh(m)[i] = written + i
  BY DEF S!Fresh
<1>2. PICK r \in Seq(Nat) : r = S!Fresh(m) BY <1>1
<1>3. Len(r) = m /\ \A i \in 1..m : r[i] = written + i BY <1>1, <1>2
<1>4. t = s \o r BY <1>2
<1>5. t \in Seq(Nat) /\ Len(t) = Len(s) + m BY <1>3, <1>4
<1>6. \A i \in 1..Len(s) : t[i] = s[i] BY <1>4
<1>7. ASSUME NEW i \in 1..m PROVE t[Len(s) + i] = written + i
  <2>1. Len(s) \in Nat OBVIOUS
  <2>2. Len(s) + i \in 1..(Len(s) + Len(r)) /\ Len(s) + i > Len(s) /\ (Len(s) + i) - Len(s) = i BY <2>1, <1>3
  <2>3. (s \o r)[Len(s) + i] = r[i] BY <2>2
  <2>4. QED BY <2>3, <1>3, <1>4
<1>8. QED BY <1>5, <1>6, <1>7 DEF Extends

\* Nothing of what was framed, sent or read changes.
LEMMA SameFrames ==
  ASSUME UNCHANGED <<kind, frames>>
  PROVE  /\ \A f : S!FrameBytes(f)' = S!FrameBytes(f) /\ Upto(f)' = Upto(f)
         /\ S!Header' = S!Header
         /\ ws' = ws => (S!is_ready' <=> S!is_ready)
<1>1. S!Header' = S!Header BY DEF S!Header
<1>2. \A f : S!FrameBytes(f)' = S!FrameBytes(f) BY <1>1 DEF S!FrameBytes
<1>3. \A f : Upto(f)' = Upto(f) BY DEF Upto
<1>4. ws' = ws => (S!is_ready' <=> S!is_ready) BY <1>2 DEF S!is_ready
<1>5. QED BY <1>1, <1>2, <1>3, <1>4

LEMMA SameOnWire ==
  ASSUME StreamInv, UNCHANGED <<kind, frames, wire>>
  PROVE  OnWire'
<1>1. \A f : S!FrameBytes(f)' = S!FrameBytes(f) BY SameFrames
<1>2. wire' = wire /\ frames' = frames OBVIOUS
<1>3. QED BY <1>1, <1>2 DEF OnWire, StreamInv

LEMMA SameReader ==
  ASSUME StreamInv, UNCHANGED <<kind, frames, wire, rs, recv_buffer, received>>,
         closed' = closed \/ closed' # "no"
  PROVE  ReaderAt' /\ Decrypted' /\ Taken' = Taken
<1> USE DEF StreamInv
<1>1. \A f : S!FrameBytes(f)' = S!FrameBytes(f) /\ Upto(f)' = Upto(f) BY SameFrames
<1>2. S!Header' = S!Header BY SameFrames
<1>3. Taken' = Taken BY DEF Taken
<1>4. ReaderAt' BY <1>1, <1>2, <1>3 DEF ReaderAt
<1>5. Decrypted' BY <1>1 DEF Decrypted
<1>6. QED BY <1>3, <1>4, <1>5

\* More bytes are buffered.
LEMMA Buffered ==
  ASSUME StreamInv, closed = "no", NEW m \in Nat, kind = "noise",
         send_buffer' = send_buffer \o S!Fresh(m), written' = written + m,
         Len(send_buffer) + m <= MAX_FRAME_LEN,
         UNCHANGED <<kind, frames, ws, wire, closed, rs, recv_buffer, received>>
  PROVE  StreamInv'
<1> USE DEF StreamInv
<1>0. send_buffer \in Seq(Nat) /\ written \in Nat /\ Len(frames) \in 0..Len(frames) /\ frames' = frames
      /\ kind' = "noise" BY DEF StreamType
<1>1. /\ send_buffer' \in Seq(Nat) /\ Len(send_buffer') = Len(send_buffer) + m
      /\ \A i \in 1..Len(send_buffer) : send_buffer'[i] = send_buffer[i]
      /\ \A i \in 1..m : send_buffer'[Len(send_buffer) + i] = written + i
  <2>1. PICK s, t : s = send_buffer /\ t = send_buffer' OBVIOUS
  <2>2. s \in Seq(Nat) /\ t = s \o S!Fresh(m) BY <1>0, <2>1
  <2>3. Extends(t, s, m) BY <1>0, <2>2, FreshBytes
  <2>4. QED BY <2>1, <2>3 DEF Extends
<1>2. PICK l \in Nat : l = Len(send_buffer) BY <1>0
<1>3. PICK u \in Nat : u = Upto(Len(frames)) BY <1>0, UptoNat
<1>4. u + l = written BY <1>2, <1>3 DEF Framed
<1>5. \A f : Upto(f)' = Upto(f) BY SameFrames
<1>6. ASSUME NEW i \in 1..Len(send_buffer') PROVE send_buffer'[i] = u + i
  <2>1. CASE i <= l
    <3>1. i \in 1..l BY <2>1, <1>1, <1>2
    <3>2. send_buffer'[i] = send_buffer[i] /\ send_buffer[i] = u + i BY <3>1, <1>1, <1>2, <1>3 DEF Framed
    <3>3. QED BY <3>2
  <2>2. CASE i > l
    <3>1. i - l \in 1..m /\ l + (i - l) = i BY <2>2, <1>1, <1>2
    <3>2. send_buffer'[l + (i - l)] = written + (i - l) BY <3>1, <1>1, <1>2
    <3>3. QED BY <3>1, <3>2, <1>4
  <2>3. QED BY <2>1, <2>2, <1>2, <1>1
<1>7. Framed'
  <2>1. \A f \in 1..Len(frames) :
           /\ frames[f] # <<>>
           /\ \A i \in 1..Len(frames[f]) : frames[f][i] = Upto(f - 1)' + i
           /\ Len(frames[f]) <= MAX_FRAME_LEN BY <1>5 DEF Framed
  <2>2. \A f \in 0..Len(frames) : Upto(f)' <= Upto(Len(frames))' BY <1>5 DEF Framed
  <2>3. Upto(Len(frames))' = u BY <1>5, <1>3, <1>0
  <2>4. u + Len(send_buffer') = written' BY <1>1, <1>2, <1>4
  <2>5. Len(send_buffer') <= MAX_FRAME_LEN BY <1>1
  <2>6. QED BY <2>1, <2>2, <2>3, <2>4, <2>5, <1>6, <1>0 DEF Framed
<1>8. StreamType' BY <1>0, <1>1 DEF StreamType
<1>9. OnWire' BY SameOnWire
<1>10. ReaderAt' /\ Decrypted' /\ Taken' = Taken BY SameReader
<1>11. WriterAt'
  <2>1. \A f : S!FrameBytes(f)' = S!FrameBytes(f) BY SameFrames
  <2>2. S!is_ready' <=> S!is_ready BY SameFrames
  <2>3. QED BY <2>1, <2>2, <1>10 DEF WriterAt
<1>12. QED BY <1>7, <1>8, <1>9, <1>10, <1>11

LEMMA NoisePollWrite ==
  ASSUME StreamInv, NEW k \in 1..MaxWrite, S!noise_poll_write(k)
  PROVE  StreamInv'
<1> USE DEF StreamInv
<1>0. k \in Nat /\ kind = "noise" /\ closed = "no" BY StreamBounds DEF S!noise_poll_write
<1>1. MAX_FRAME_LEN \in Nat /\ MAX_FRAME_LEN > 0 BY StreamBounds
<1>2. send_buffer \in Seq(Nat) /\ Len(send_buffer) \in Nat /\ Len(send_buffer) <= MAX_FRAME_LEN /\ written \in Nat
  BY <1>0 DEF StreamType, Framed
<1>3. CASE Len(send_buffer) = MAX_FRAME_LEN
  <2>1. PICK m \in Nat : m = S!Min({k, MAX_FRAME_LEN}) /\ m <= MAX_FRAME_LEN
    BY <1>0, <1>1, MinTwo
  <2>e. << >> \in Seq(Nat) OBVIOUS
  <2>2. PICK e \in Seq(Nat) : e = << >> BY <2>e
  <2>2a. Len(e) = 0 BY <2>2
  <2>3. /\ S!is_ready /\ frames' = Append(frames, send_buffer) /\ ws' = 0
        /\ send_buffer' = e \o S!Fresh(m) /\ written' = written + m
        /\ UNCHANGED <<kind, wire, closed, rs, recv_buffer, received>>
    <3>1. Len(<<>>) = 0 /\ MAX_FRAME_LEN - 0 = MAX_FRAME_LEN BY <1>1
    <3>2. QED BY <1>3, <2>1, <2>2, <3>1 DEF S!noise_poll_write, S!start_send
  <2>4. /\ send_buffer' \in Seq(Nat) /\ Len(send_buffer') = Len(e) + m
        /\ \A i \in 1..m : send_buffer'[Len(e) + i] = written + i
    <3>1. send_buffer' = e \o S!Fresh(m) BY <2>3
    <3>2. PICK t : t = send_buffer' OBVIOUS
    <3>3. t = e \o S!Fresh(m) BY <3>1, <3>2
    <3>4. Extends(t, e, m) BY <3>3, <1>2, FreshBytes
    <3>5. QED BY <3>2, <3>4 DEF Extends
  <2>5. Upto(Len(frames)) \in Nat
    <3>1. Len(frames) \in Nat BY DEF StreamType
    <3>2. Len(frames) \in 0..Len(frames) BY <3>1
    <3>3. QED BY <3>2, UptoNat
  <2>6. Upto(Len(frames)) + Len(send_buffer) = written BY DEF Framed
  <2>7. Len(send_buffer') = m /\ \A i \in 1..m : send_buffer'[i] = written + i BY <2>4, <2>2a
  <2>8. send_buffer # <<>> BY <1>3, <1>1
  <2>9. \A i \in 1..Len(send_buffer) : send_buffer[i] = Upto(Len(frames)) + i BY DEF Framed
  <2>10. written' = Upto(Len(frames)) + Len(send_buffer) + Len(send_buffer') BY <2>3, <2>6, <2>7
  <2>11. \A i \in 1..Len(send_buffer') : send_buffer'[i] = Upto(Len(frames)) + Len(send_buffer) + i BY <2>6, <2>7
  <2>12. kind = "noise" => Len(send_buffer') <= MAX_FRAME_LEN BY <2>7, <2>1
  <2>13. kind = "noise" => Len(send_buffer) <= MAX_FRAME_LEN BY <1>3, <1>1
  <2>14. kind = "secio" => send_buffer' = <<>> BY <1>0
  <2>15. QED BY <1>0, <1>2, <2>3, <2>4, <2>8, <2>9, <2>10, <2>11, <2>12, <2>13, <2>14, StartSend
<1>4. CASE Len(send_buffer) # MAX_FRAME_LEN
  <2>1. MAX_FRAME_LEN - Len(send_buffer) \in Nat BY <1>1, <1>2
  <2>2. PICK m \in Nat : m = S!Min({k, MAX_FRAME_LEN - Len(send_buffer)}) /\ m <= MAX_FRAME_LEN - Len(send_buffer)
    BY <2>1, <1>0, MinTwo
  <2>3. /\ send_buffer' = send_buffer \o S!Fresh(m) /\ written' = written + m
        /\ UNCHANGED <<kind, frames, ws, wire, closed, rs, recv_buffer, received>>
    BY <1>4, <2>2 DEF S!noise_poll_write
  <2>4. Len(send_buffer) + m <= MAX_FRAME_LEN BY <2>2, <1>1, <1>2
  <2>5. QED BY <1>0, <2>3, <2>4, Buffered
<1>5. QED BY <1>3, <1>4

LEMMA SecioPollWrite ==
  ASSUME StreamInv, NEW k \in 1..MaxWrite, S!secio_poll_write(k)
  PROVE  StreamInv'
<1> USE DEF StreamInv
<1>0. k \in Nat /\ k > 0 /\ kind = "secio" /\ closed = "no" /\ written \in Nat /\ send_buffer = <<>>
  BY StreamBounds DEF S!secio_poll_write, StreamType, Framed
<1>1. /\ S!is_ready /\ frames' = Append(frames, S!Fresh(k)) /\ ws' = 0 /\ written' = written + k
      /\ UNCHANGED <<kind, send_buffer, wire, closed, rs, recv_buffer, received>>
  BY DEF S!secio_poll_write, S!start_send
<1>2. PICK d \in Seq(Nat) : /\ d = S!Fresh(k) /\ Len(d) = k
                            /\ \A i \in 1..k : d[i] = written + i
  <2>1. S!Fresh(k) \in Seq(Nat) /\ Len(S!Fresh(k)) = k /\ \A i \in 1..k : S!Fresh(k)[i] = written + i
    BY <1>0 DEF S!Fresh
  <2>2. QED BY <2>1
<1>3. Len(send_buffer) = 0 BY <1>0
<1>4. Upto(Len(frames)) \in Nat BY UptoNat DEF StreamType
<1>5. Upto(Len(frames)) = written BY <1>3, <1>4 DEF Framed
<1>6. d # <<>> /\ frames' = Append(frames, d) BY <1>0, <1>1, <1>2
<1>7. send_buffer' \in Seq(Nat) /\ Len(send_buffer') = 0 /\ send_buffer' = <<>> BY <1>0, <1>1
<1>8. written' = Upto(Len(frames)) + Len(d) + Len(send_buffer') BY <1>1, <1>2, <1>5, <1>7, <1>0
<1>9. \A i \in 1..Len(d) : d[i] = Upto(Len(frames)) + i BY <1>2, <1>5
<1>10. \A i \in 1..Len(send_buffer') : send_buffer'[i] = Upto(Len(frames)) + Len(d) + i BY <1>7
<1>11. (kind = "noise" => Len(d) <= MAX_FRAME_LEN) /\ (kind = "noise" => Len(send_buffer') <= MAX_FRAME_LEN) BY <1>0
<1>12. QED BY <1>0, <1>1, <1>6, <1>7, <1>8, <1>9, <1>10, <1>11, StartSend

LEMMA FlushFrame ==
  ASSUME StreamInv, S!flush_frame
  PROVE  StreamInv'
<1> USE DEF StreamInv
<1>1. /\ closed = "no" /\ send_buffer # <<>> /\ S!is_ready /\ frames' = Append(frames, send_buffer) /\ ws' = 0
      /\ send_buffer' = <<>> /\ written' = written
      /\ UNCHANGED <<kind, wire, closed, rs, recv_buffer, received>>
  BY DEF S!flush_frame, S!start_send
<1>2. send_buffer' \in Seq(Nat) /\ Len(send_buffer') = 0 BY <1>1
<1>3. send_buffer \in Seq(Nat) /\ Len(send_buffer) \in Nat BY DEF StreamType
<1>4. Upto(Len(frames)) \in Nat BY UptoNat DEF StreamType
<1>5. written' = Upto(Len(frames)) + Len(send_buffer) + Len(send_buffer') BY <1>1, <1>2, <1>3, <1>4 DEF Framed
<1>6. \A i \in 1..Len(send_buffer') : send_buffer'[i] = Upto(Len(frames)) + Len(send_buffer) + i BY <1>2
<1>7. \A i \in 1..Len(send_buffer) : send_buffer[i] = Upto(Len(frames)) + i BY DEF Framed
<1>8. (kind = "noise" => Len(send_buffer) <= MAX_FRAME_LEN) BY DEF Framed
<1>9. (kind = "noise" => Len(send_buffer') <= MAX_FRAME_LEN) BY <1>2, StreamBounds
<1>10. QED BY <1>1, <1>2, <1>3, <1>5, <1>6, <1>7, <1>8, <1>9, StartSend

\* Steps that leave the bytes where they are.
LEMMA StreamRests ==
  ASSUME StreamInv, UNCHANGED <<kind, written, send_buffer, frames, ws, wire, rs, recv_buffer, received>>,
         \/ closed' = closed
         \/ closed = "no" /\ closed' = "clean" /\ send_buffer = <<>> /\ S!is_ready
  PROVE  StreamInv'
<1> USE DEF StreamInv
<1>1. OnWire' BY SameOnWire
<1>2. ReaderAt' /\ Decrypted' /\ Taken' = Taken BY SameReader
<1>3. \A f : S!FrameBytes(f)' = S!FrameBytes(f) /\ Upto(f)' = Upto(f) BY SameFrames
<1>4. S!is_ready' <=> S!is_ready BY SameFrames
<1>5. StreamType' BY DEF StreamType
<1>6. Framed' BY <1>3 DEF Framed
<1>7. WriterAt' BY <1>2, <1>3, <1>4 DEF WriterAt
<1>8. QED BY <1>1, <1>2, <1>5, <1>6, <1>7

LEMMA IoWriteStep ==
  ASSUME StreamInv, NEW m \in 1..Room, S!io_write(m)
  PROVE  StreamInv'
<1> USE DEF StreamInv
<1>0. /\ ~S!is_ready /\ closed = "no" /\ ws + m <= S!FrameBytes(Len(frames))
      /\ wire' = wire \o [i \in 1..m |-> <<Len(frames), ws + i>>] /\ ws' = ws + m
      /\ UNCHANGED <<kind, written, send_buffer, frames, closed, rs, recv_buffer, received>>
  BY DEF S!io_write
<1>1. m \in Nat /\ m > 0 /\ ws \in Nat BY StreamBounds DEF StreamType
<1>2. PICK n \in Nat : n = Len(frames) BY DEF StreamType
<1>3. frames # <<>> /\ ws # S!FrameBytes(n) BY <1>0, <1>2 DEF S!is_ready
<1>4. n \in 1..Len(frames) BY <1>2, <1>3 DEF StreamType
<1>5. PICK b \in Nat : b = S!FrameBytes(n) /\ b > 0 BY <1>4, FrameBytesNat
<1>6. ws < b /\ ws + m <= b BY <1>0, <1>1, <1>2, <1>3, <1>5 DEF WriterAt
<1>7. PICK L \in Nat : L = Len(wire) BY DEF StreamType
<1>8. PICK c \in Seq(Nat \X Nat) : /\ wire' = wire \o c /\ Len(c) = m
                                   /\ \A i \in 1..m : c[i] = <<n, ws + i>>
  <2>1. PICK c : c = [i \in 1..m |-> <<n, ws + i>>] OBVIOUS
  <2>2. c \in Seq(Nat \X Nat) /\ Len(c) = m BY <2>1, <1>1
  <2>3. \A i \in 1..m : c[i] = <<n, ws + i>> BY <2>1
  <2>4. wire' = wire \o c BY <2>1, <1>0, <1>2
  <2>5. QED BY <2>2, <2>3, <2>4
<1>9. /\ wire' \in Seq(Nat \X Nat) /\ Len(wire') = L + m
      /\ \A i \in 1..L : wire'[i] = wire[i]
  <2>1. wire \in Seq(Nat \X Nat) BY DEF StreamType
  <2>2. wire \o c \in Seq(Nat \X Nat) /\ Len(wire \o c) = Len(wire) + Len(c) BY <2>1
  <2>3. \A i \in 1..Len(wire) : (wire \o c)[i] = wire[i] BY <2>1
  <2>4. QED BY <2>2, <2>3, <1>7, <1>8
<1>10. ASSUME NEW j \in (L + 1)..(L + m) PROVE wire'[j] = <<n, ws + (j - L)>>
  <2>1. j - L \in 1..m /\ j > L /\ j <= L + m BY <1>1, <1>7
  <2>2. wire \in Seq(Nat \X Nat) BY DEF StreamType
  <2>3. (wire \o c)[j] = c[j - L] BY <2>1, <2>2, <1>7, <1>8
  <2>4. QED BY <2>1, <2>3, <1>8
<1>11. \A f : S!FrameBytes(f)' = S!FrameBytes(f) /\ Upto(f)' = Upto(f) BY <1>0, SameFrames
<1>12. ASSUME L > 0
       PROVE  /\ L \in 1..L /\ wire[L][1] \in 1..n /\ wire[L][2] \in Nat
              /\ \/ ws > 0 /\ wire[L] = <<n, ws>>
                 \/ ws = 0 /\ wire[L] = <<n - 1, S!FrameBytes(n - 1)>> /\ n - 1 \in 1..n
  <2>1. L \in 1..L /\ wire # <<>> BY <1>12, <1>7
  <2>2. wire[L][1] \in 1..n /\ wire[L][2] \in 1..S!FrameBytes(wire[L][1]) BY <2>1, <1>2, <1>7 DEF OnWire
  <2>3. \/ ws > 0 /\ wire[L] = <<n, ws>>
        \/ ws = 0 /\ wire[L] = <<n - 1, S!FrameBytes(n - 1)>>
    BY <2>1, <1>0, <1>2, <1>7 DEF WriterAt
  <2>4. ws = 0 /\ wire[L] = <<n - 1, S!FrameBytes(n - 1)>> => n - 1 \in 1..n BY <2>2
  <2>5. QED BY <2>1, <2>2, <2>3, <2>4
<1>13. OnWire'
  <2>1. ASSUME NEW i \in 1..(L + m)
        PROVE wire'[i][1] \in 1..n /\ wire'[i][2] \in 1..S!FrameBytes(wire'[i][1])
    <3>1. CASE i <= L
      <4>1. i \in 1..L BY <3>1, <1>1
      <4>2. QED BY <4>1, <1>9, <1>2, <1>7 DEF OnWire
    <3>2. CASE i > L
      <4>1. i \in (L + 1)..(L + m) /\ i - L \in 1..m BY <3>2, <1>1
      <4>2. wire'[i] = <<n, ws + (i - L)>> BY <4>1, <1>10
      <4>3. ws + (i - L) \in 1..b BY <4>1, <1>1, <1>6
      <4>4. QED BY <4>2, <4>3, <1>4, <1>5, <1>2
    <3>3. QED BY <3>1, <3>2, <1>1
  <2>2. ASSUME NEW i \in 1..(L + m), NEW j \in 1..(L + m), i <= j,
               wire'[i][2] + (j - i) <= S!FrameBytes(wire'[i][1])
        PROVE  wire'[j] = <<wire'[i][1], wire'[i][2] + (j - i)>>
    <3>1. CASE j <= L
      <4>1. i \in 1..L /\ j \in 1..L BY <3>1, <2>2, <1>1
      <4>2. QED BY <4>1, <1>9, <1>7, <2>2 DEF OnWire
    <3>2. CASE i > L
      <4>1. i \in (L + 1)..(L + m) /\ j \in (L + 1)..(L + m) BY <3>2, <2>2, <1>1
      <4>2. wire'[i] = <<n, ws + (i - L)>> /\ wire'[j] = <<n, ws + (j - L)>> BY <4>1, <1>10
      <4>3. ws + (j - L) = ws + (i - L) + (j - i) BY <4>1, <1>1
      <4>4. QED BY <4>2, <4>3
    <3>3. CASE i <= L /\ j > L
      <4>1. i \in 1..L /\ L > 0 /\ j \in (L + 1)..(L + m) BY <3>3, <1>1
      <4>2. PICK f \in 1..n, y \in Nat : wire[i] = <<f, y>> /\ y \in 1..S!FrameBytes(f)
        <5>1. wire[i] \in Nat \X Nat BY <4>1, <1>7 DEF StreamType
        <5>2. wire[i][1] \in 1..n /\ wire[i][2] \in 1..S!FrameBytes(wire[i][1]) BY <4>1, <1>2, <1>7 DEF OnWire
        <5>3. wire[i] = <<wire[i][1], wire[i][2]>> /\ wire[i][2] \in Nat BY <5>1
        <5>4. QED BY <5>2, <5>3
      <4>3. PICK bf \in Nat : bf = S!FrameBytes(f) BY <1>2, FrameBytesNat
      <4>w. wire'[i] = <<f, y>> BY <4>1, <4>2, <1>9
      <4>4. y + (j - i) <= bf BY <2>2, <4>w, <4>3
      <4>5. y + (L - i) < bf BY <4>4, <4>1, <1>1
      <4>6. wire[L] = <<f, y + (L - i)>>
        <5>1. L \in 1..L /\ i <= L BY <4>1
        <5>2. wire[i][2] + (L - i) <= S!FrameBytes(wire[i][1]) BY <4>2, <4>3, <4>5, <5>1
        <5>3. wire[L] = <<wire[i][1], wire[i][2] + (L - i)>> BY <4>1, <5>1, <5>2, <1>7 DEF OnWire
        <5>4. QED BY <5>3, <4>2
      <4>7. ws > 0 /\ wire[L] = <<n, ws>>
        <5>1. SUFFICES ASSUME ws = 0, wire[L] = <<n - 1, S!FrameBytes(n - 1)>> PROVE FALSE
          BY <4>1, <1>12
        <5>2. f = n - 1 /\ y + (L - i) = bf BY <5>1, <4>6, <4>3
        <5>3. QED BY <5>2, <4>5
      <4>8. f = n /\ ws = y + (L - i) BY <4>6, <4>7
      <4>9. wire'[j] = <<n, ws + (j - L)>> BY <4>1, <1>10
      <4>10. ws + (j - L) = y + (j - i) BY <4>8, <4>1, <1>1
      <4>11. QED BY <4>w, <4>8, <4>9, <4>10
    <3>4. QED BY <3>1, <3>2, <3>3, <1>1
  <2>3. ASSUME NEW i \in 1..(L + m), NEW j \in 1..(L + m), j = i + 1,
               wire'[i][2] = S!FrameBytes(wire'[i][1])
        PROVE  wire'[j] = <<wire'[i][1] + 1, 1>>
    <3>1. CASE j <= L
      <4>1. i \in 1..L /\ j \in 1..L BY <3>1, <2>3, <1>1
      <4>2. QED BY <4>1, <1>9, <1>7, <2>3 DEF OnWire
    <3>2. CASE i > L
      <4>1. i \in (L + 1)..(L + m) /\ i - L \in 1..m /\ (i + 1) - L <= m BY <3>2, <2>3, <1>1
      <4>2. wire'[i] = <<n, ws + (i - L)>> BY <4>1, <1>10
      <4>3. ws + (i - L) = b BY <4>2, <2>3, <1>5
      <4>4. QED BY <4>1, <4>3, <1>6, <1>1
    <3>3. CASE i = L
      <4>1. L > 0 /\ j \in (L + 1)..(L + m) /\ j - L = 1 /\ i \in 1..L BY <3>3, <2>3, <1>1
      <4>2. wire'[j] = <<n, ws + 1>> BY <4>1, <1>10
      <4>3. wire'[i] = wire[L] BY <4>1, <3>3, <1>9
      <4>4. CASE ws > 0 /\ wire[L] = <<n, ws>> BY <4>4, <4>3, <2>3, <1>3
      <4>5. CASE ws = 0 /\ wire[L] = <<n - 1, S!FrameBytes(n - 1)>> BY <4>5, <4>3, <4>2
      <4>6. QED BY <4>1, <4>4, <4>5, <1>12
    <3>4. QED BY <3>1, <3>2, <3>3, <2>3, <1>1
  <2>4. frames' = frames BY <1>0
  <2>5. QED BY <2>1, <2>2, <2>3, <2>4, <1>2, <1>9, <1>11 DEF OnWire
<1>14. StreamType'
  <2>1. ws' \in Nat BY <1>0, <1>1
  <2>2. wire' \in Seq(Nat \X Nat) BY <1>9
  <2>3. QED BY <1>0, <2>1, <2>2 DEF StreamType
<1>15. Framed' BY <1>0, <1>11 DEF Framed
<1>16. L + m \in (L + 1)..(L + m) /\ wire' # <<>> BY <1>1, <1>9
<1>17. WriterAt'
  <2>1. wire'[Len(wire')] = <<n, ws'>>
    <3>1. wire'[L + m] = <<n, ws + ((L + m) - L)>> BY <1>16, <1>10
    <3>2. (L + m) - L = m BY <1>1
    <3>3. QED BY <3>1, <3>2, <1>9, <1>0
  <2>2. ws' > 0 /\ ws' <= b BY <1>0, <1>1, <1>6
  <2>3. QED BY <2>1, <2>2, <1>0, <1>2, <1>3, <1>5, <1>11, <1>16 DEF WriterAt
<1>18. ReaderAt'
  <2>1. Taken' = Taken BY <1>0 DEF Taken
  <2>2. wire'[1] = <<rs.n + 1, Taken + 1>>
    <3>1. CASE L > 0
      <4>1. 1 \in 1..L /\ wire # <<>> BY <3>1, <1>7
      <4>2. QED BY <4>1, <1>9 DEF ReaderAt
    <3>2. CASE L = 0
      <4>1. wire = <<>> BY <3>2, <1>7 DEF StreamType
      <4>2. Taken = ws /\ rs.n + 1 = n BY <4>1, <1>0, <1>2 DEF WriterAt
      <4>3. 1 \in (L + 1)..(L + m) /\ 1 - L = 1 BY <3>2, <1>1
      <4>4. wire'[1] = <<n, ws + 1>> BY <4>3, <1>10
      <4>5. QED BY <4>2, <4>4
    <3>3. QED BY <3>1, <3>2
  <2>3. S!Header' = S!Header BY <1>0, SameFrames
  <2>4. rs.st \in {"ReadLen", "ReadData"} BY <1>0 DEF ReaderAt
  <2>5. QED BY <2>1, <2>2, <2>3, <2>4, <1>0, <1>11 DEF ReaderAt
<1>19. Decrypted' BY <1>0, <1>11 DEF Decrypted
<1>20. QED BY <1>13, <1>14, <1>15, <1>17, <1>18, <1>19

\* Bytes that the reader takes are the next ones of the frame it is at.
LEMMA BytesTaken ==
  ASSUME StreamInv, NEW m \in Nat, m > 0, m <= Len(wire),
         Taken + m <= S!FrameBytes(rs.n + 1),
         wire' = SubSeq(wire, m + 1, Len(wire)),
         UNCHANGED <<kind, frames, ws, closed, send_buffer>>,
         rs'.n \in Nat, Taken' \in Nat,
         \/ Taken + m < S!FrameBytes(rs.n + 1) /\ rs'.n = rs.n /\ Taken' = Taken + m
         \/ Taken + m = S!FrameBytes(rs.n + 1) /\ rs'.n = rs.n + 1 /\ Taken' = 0
  PROVE  /\ OnWire' /\ WriterAt' /\ wire' \in Seq(Nat \X Nat)
         /\ \A i \in 1..m : wire[i] = <<rs.n + 1, Taken + i>>
         /\ rs'.n <= Len(frames)
         /\ Taken' > 0 => rs'.n + 1 <= Len(frames) /\ Taken' < S!FrameBytes(rs'.n + 1)
         /\ wire' # <<>> => wire'[1] = <<rs'.n + 1, Taken' + 1>>
<1> USE DEF StreamInv
<1>0. wire \in Seq(Nat \X Nat) /\ ws \in Nat BY DEF StreamType
<1>1. PICK L \in Nat : L = Len(wire) BY <1>0
<1>2. L > 0 /\ m <= L /\ 1 \in 1..L /\ L \in 1..L /\ m \in 1..L /\ wire # <<>> BY <1>1
<1>3. PICK n \in Nat : n = Len(frames) BY DEF StreamType
<1>4. PICK f \in Nat : f = rs.n + 1 BY DEF StreamType
<1>5. PICK T \in Nat : T = Taken BY DEF Taken, StreamType
<1>6. wire[1] = <<f, T + 1>> BY <1>2, <1>4, <1>5 DEF ReaderAt
<1>7. f \in 1..n BY <1>6, <1>2, <1>1, <1>3 DEF OnWire
<1>8. PICK b \in Nat : b = S!FrameBytes(f) BY <1>7, <1>3, FrameBytesNat
<1>9. T + m <= b BY <1>4, <1>5, <1>8
<1>10. ASSUME NEW i \in 1..L, T + i <= b PROVE wire[i] = <<f, T + i>>
  <2>1. wire[1][2] + (i - 1) = T + i /\ wire[1][1] = f BY <1>6
  <2>2. wire[i] = <<wire[1][1], wire[1][2] + (i - 1)>> BY <2>1, <1>10, <1>8, <1>2, <1>1 DEF OnWire
  <2>3. QED BY <2>1, <2>2
<1>11. \A i \in 1..m : wire[i] = <<f, T + i>> BY <1>10, <1>9, <1>2
<1>12. wire' \in Seq(Nat \X Nat) /\ Len(wire') = L - m /\ \A i \in 1..(L - m) : wire'[i] = wire[m + i]
  <2>1. m + 1 \in 1..(L + 1) /\ L \in m..L BY <1>2
  <2>2. SubSeq(wire, m + 1, L) \in Seq(Nat \X Nat) BY <1>0, <1>1, <1>2
  <2>3. Len(SubSeq(wire, m + 1, L)) = L - m
    <3>1. CASE m = L BY <3>1, <1>0, <1>1
    <3>2. CASE m # L BY <3>2, <1>0, <1>1, <1>2
    <3>3. QED BY <3>1, <3>2
  <2>4. \A i \in 1..(L - m) : SubSeq(wire, m + 1, L)[i] = wire[m + i] BY <1>0, <1>1, <1>2, <2>3
  <2>5. QED BY <2>2, <2>3, <2>4, <1>1
<1>13. \A x : S!FrameBytes(x)' = S!FrameBytes(x) BY SameFrames
<1>14. OnWire'
  <2>1. ASSUME NEW i \in 1..(L - m)
        PROVE wire'[i] = wire[m + i] /\ m + i \in 1..L BY <1>12, <1>2
  <2>2. ASSUME NEW i \in 1..(L - m)
        PROVE wire'[i][1] \in 1..n /\ wire'[i][2] \in 1..S!FrameBytes(wire'[i][1])
    BY <2>1, <1>1, <1>3 DEF OnWire
  <2>3. ASSUME NEW i \in 1..(L - m), NEW j \in 1..(L - m)
        PROVE  /\ i <= j /\ wire'[i][2] + (j - i) <= S!FrameBytes(wire'[i][1]) =>
                     wire'[j] = <<wire'[i][1], wire'[i][2] + (j - i)>>
               /\ j = i + 1 /\ wire'[i][2] = S!FrameBytes(wire'[i][1]) => wire'[j] = <<wire'[i][1] + 1, 1>>
    <3>1. PICK p \in 1..L, q \in 1..L : p = m + i /\ q = m + j BY <2>1
    <3>a. wire'[i] = wire[p] /\ wire'[j] = wire[q] BY <3>1, <2>1
    <3>b. i \in Nat /\ j \in Nat /\ p = m + i /\ q = m + j BY <3>1
    <3>c. q - p = j - i /\ (i <= j <=> p <= q) /\ (j = i + 1 <=> q = p + 1) BY <3>b
    <3>2. wire'[i] = wire[p] /\ wire'[j] = wire[q] /\ q - p = j - i /\ (i <= j <=> p <= q) /\ (j = i + 1 <=> q = p + 1)
      BY <3>a, <3>c
    <3>3. /\ p <= q /\ wire[p][2] + (q - p) <= S!FrameBytes(wire[p][1]) => wire[q] = <<wire[p][1], wire[p][2] + (q - p)>>
          /\ q = p + 1 /\ wire[p][2] = S!FrameBytes(wire[p][1]) => wire[q] = <<wire[p][1] + 1, 1>>
      BY <1>1 DEF OnWire
    <3>4. QED BY <3>2, <3>3
  <2>4. frames' = frames OBVIOUS
  <2>5. QED BY <2>2, <2>3, <2>4, <1>3, <1>12, <1>13 DEF OnWire
<1>15. wire' # <<>> => wire'[1] = <<rs'.n + 1, Taken' + 1>>
  <2> SUFFICES ASSUME wire' # <<>> PROVE wire'[1] = <<rs'.n + 1, Taken' + 1>> OBVIOUS
  <2>1. L - m > 0 BY <1>12, <1>2
  <2>2. m + 1 \in 1..L /\ wire'[1] = wire[m + 1] BY <2>1, <1>12, <1>2
  <2>3. CASE T + m < b
    <3>1. wire[m + 1] = <<f, T + (m + 1)>> BY <2>3, <2>2, <1>10
    <3>2. rs'.n = rs.n /\ Taken' = T + m BY <2>3, <1>4, <1>5, <1>8
    <3>3. T + (m + 1) = T + m + 1 OBVIOUS
    <3>4. QED BY <3>1, <3>2, <3>3, <2>2, <1>4
  <2>4. CASE T + m = b
    <3>0. m \in 1..m OBVIOUS
    <3>1. wire[m] = <<f, b>> BY <2>4, <1>11, <3>0
    <3>2. wire[m + 1] = <<f + 1, 1>> BY <3>1, <2>2, <1>2, <1>1, <1>8 DEF OnWire
    <3>3. rs'.n = f /\ Taken' = 0 BY <2>4, <1>4, <1>5, <1>8
    <3>4. QED BY <3>2, <3>3, <2>2
  <2>5. QED BY <2>3, <2>4, <1>9
<1>16. rs'.n <= n /\ (Taken' > 0 => rs'.n + 1 <= n /\ Taken' < S!FrameBytes(rs'.n + 1))
  <2>1. CASE T + m < b
    <3>1. rs'.n + 1 = f /\ Taken' = T + m BY <2>1, <1>4, <1>5, <1>8
    <3>2. QED BY <3>1, <2>1, <1>7, <1>8
  <2>2. CASE T + m = b
    <3>1. rs'.n = f /\ Taken' = 0 BY <2>2, <1>4, <1>5, <1>8
    <3>2. QED BY <3>1, <1>7
  <2>3. QED BY <2>1, <2>2, <1>9
<1>17. WriterAt'
  <2>1. closed' = closed /\ frames' = frames /\ ws' = ws /\ send_buffer' = send_buffer OBVIOUS
  <2>2. S!is_ready' <=> S!is_ready BY SameFrames
  <2>3. ASSUME closed # "cut", wire' # <<>>
        PROVE  \/ ws > 0 /\ wire'[Len(wire')] = <<n, ws>>
               \/ ws = 0 /\ wire'[Len(wire')] = <<n - 1, S!FrameBytes(n - 1)>>
    <3>1. L - m \in 1..(L - m) BY <2>3, <1>12, <1>2
    <3>2. wire'[L - m] = wire[m + (L - m)] BY <3>1, <1>12
    <3>3. m + (L - m) = L OBVIOUS
    <3>4. QED BY <3>2, <3>3, <2>3, <1>1, <1>2, <1>3, <1>12 DEF WriterAt
  <2>4. ASSUME closed # "cut", wire' = <<>>
        PROVE  \/ Taken' = 0 /\ rs'.n = n /\ S!is_ready
               \/ Taken' = ws /\ rs'.n + 1 = n /\ ~S!is_ready
    <3>0. Len(wire') = 0 /\ m \in 1..m BY <2>4
    <3>1. L = m BY <3>0, <1>12, <1>2
    <3>2. wire[L] = <<f, T + m>> BY <3>1, <1>11, <3>0
    <3>3. \/ ws > 0 /\ f = n /\ T + m = ws
          \/ ws = 0 /\ f = n - 1 /\ T + m = S!FrameBytes(n - 1)
      BY <3>2, <2>4, <1>1, <1>2, <1>3 DEF WriterAt
    <3>4. frames # <<>> BY <1>7, <1>3
    <3>5. n \in 1..Len(frames) BY <1>7, <1>3
    <3>6. S!FrameBytes(n) > 0 /\ S!FrameBytes(n) \in Nat BY <3>5, FrameBytesNat
    <3>7. S!is_ready <=> ws = S!FrameBytes(n) BY <3>4, <1>3 DEF S!is_ready
    <3>8. CASE T + m < b
      <4>1. rs'.n + 1 = f /\ Taken' = T + m BY <3>8, <1>4, <1>5, <1>8
      <4>2. ws > 0 /\ f = n /\ T + m = ws
        <5>1. ~(f = n - 1 /\ T + m = S!FrameBytes(n - 1)) BY <3>8, <1>8
        <5>2. QED BY <5>1, <3>3
      <4>3. QED BY <4>1, <4>2, <3>7, <3>8, <1>8
    <3>9. CASE T + m = b
      <4>1. rs'.n = f /\ Taken' = 0 BY <3>9, <1>4, <1>5, <1>8
      <4>2. CASE ws > 0 /\ f = n /\ T + m = ws BY <4>1, <4>2, <3>7, <3>9, <1>8
      <4>3. CASE ws = 0 /\ f = n - 1 BY <4>1, <4>3, <3>6, <3>7
      <4>4. QED BY <4>2, <4>3, <3>3
    <3>10. QED BY <3>8, <3>9, <1>9
  <2>5. QED BY <2>1, <2>2, <2>3, <2>4, <1>3, <1>13 DEF WriterAt
<1>18. QED BY <1>4, <1>5, <1>3, <1>11, <1>12, <1>14, <1>15, <1>16, <1>17

\* r is s followed by the first m bytes of w.
Extended(r, s, w, m) ==
  /\ r \in Seq(Nat \X Nat) /\ Len(r) = Len(s) + m
  /\ \A i \in 1..Len(s) : r[i] = s[i]
  /\ \A i \in 1..m : r[Len(s) + i] = w[i]

LEMMA TakeFront ==
  ASSUME NEW s \in Seq(Nat \X Nat), NEW w \in Seq(Nat \X Nat), NEW m \in Nat, m <= Len(w)
  PROVE  Extended(s \o SubSeq(w, 1, m), s, w, m)
<1>0. PICK r : r = s \o SubSeq(w, 1, m) OBVIOUS
<1>1. SubSeq(w, 1, m) \in Seq(Nat \X Nat) OBVIOUS
<1>2. Len(SubSeq(w, 1, m)) = m OBVIOUS
<1>3. \A i \in 1..m : SubSeq(w, 1, m)[i] = w[i] BY <1>2
<1>4. PICK g \in Seq(Nat \X Nat) : g = SubSeq(w, 1, m) BY <1>1
<1>5. Len(g) = m /\ \A i \in 1..m : g[i] = w[i] BY <1>2, <1>3, <1>4
<1>6. r = s \o g BY <1>0, <1>4
<1>7. r \in Seq(Nat \X Nat) /\ Len(r) = Len(s) + m
  <2>1. s \o g \in Seq(Nat \X Nat) /\ Len(s \o g) = Len(s) + Len(g) OBVIOUS
  <2>2. QED BY <2>1, <1>5, <1>6
<1>8. \A i \in 1..Len(s) : r[i] = s[i] BY <1>6
<1>9. ASSUME NEW i \in 1..m PROVE r[Len(s) + i] = w[i]
  <2>0. Len(s) \in Nat OBVIOUS
  <2>1. PICK l \in Nat : l = Len(s) BY <2>0
  <2>a. l + i \in 1..(l + m) /\ l + i > l /\ (l + i) - l = i OBVIOUS
  <2>2. Len(s) + i \in 1..(Len(s) + Len(g)) /\ Len(s) + i > Len(s) /\ (Len(s) + i) - Len(s) = i BY <2>a, <2>1, <1>5
  <2>3. (s \o g)[Len(s) + i] = g[i] BY <2>2
  <2>4. QED BY <2>3, <1>5, <1>6
<1>10. Extended(r, s, w, m) BY <1>7, <1>8, <1>9 DEF Extended
<1>11. QED BY <1>0, <1>10

\* The reader is within the length prefix of the next frame.
LengthRead(m, r) ==
  /\ rs.st = "ReadLen" /\ Len(rs.hdr) + m <= S!Header
  /\ wire' = SubSeq(wire, m + 1, Len(wire))
  /\ r \in Seq(Nat \X Nat) /\ Len(r) = Len(rs.hdr) + m
  /\ \A i \in 1..Len(rs.hdr) : r[i] = rs.hdr[i]
  /\ \A i \in 1..m : r[Len(rs.hdr) + i] = wire[i]
  /\ rs'.hdr = r /\ rs'.body = rs.body /\ rs'.n = rs.n
  /\ rs'.st = IF Len(rs.hdr) + m = S!Header THEN "ReadData" ELSE "ReadLen"
  /\ rs' = [st |-> rs'.st, hdr |-> rs'.hdr, body |-> rs'.body, n |-> rs'.n]
  /\ UNCHANGED <<kind, written, send_buffer, frames, ws, closed, recv_buffer, received>>

LEMMA ReadLength ==
  ASSUME StreamInv, NEW m \in Nat, m > 0, m <= Len(wire), NEW r, LengthRead(m, r)
  PROVE  StreamInv'
<1> USE DEF StreamInv
<1>0. wire \in Seq(Nat \X Nat) /\ rs.hdr \in Seq(Nat \X Nat) /\ rs.body \in Seq(Nat \X Nat) /\ rs.n \in Nat BY DEF StreamType
<1>u. kind' = kind /\ written' = written /\ send_buffer' = send_buffer /\ frames' = frames /\ ws' = ws
      /\ closed' = closed /\ recv_buffer' = recv_buffer /\ received' = received BY DEF LengthRead
<1>1. PICK h \in Nat : h = Len(rs.hdr)
  <2>1. Len(rs.hdr) \in Nat BY <1>0
  <2>2. QED BY <2>1
<1>v. rs.st = "ReadLen" /\ h + m <= S!Header BY <1>1 DEF LengthRead
<1>2. rs.body = <<>> /\ h < S!Header BY <1>1, <1>v DEF ReaderAt
<1>6. Len(r) = h + m /\ (\A i \in 1..h : r[i] = rs.hdr[i]) /\ \A i \in 1..m : r[h + i] = wire[i] BY <1>1 DEF LengthRead
<1>8. /\ rs'.hdr = r /\ rs'.body = <<>> /\ rs'.n = rs.n
      /\ rs'.st = IF h + m = S!Header THEN "ReadData" ELSE "ReadLen"
  BY <1>1, <1>2 DEF LengthRead
<1>9. Len(rs.body) = 0 /\ Len(rs'.body) = 0 BY <1>2, <1>8
<1>3. Taken = h BY <1>1, <1>9 DEF Taken
<1>10. Taken' = h + m
  <2>1. Taken' = Len(rs'.hdr) + Len(rs'.body) BY DEF Taken
  <2>2. QED BY <2>1, <1>6, <1>8, <1>9
<1>11. wire # <<>> /\ 1 \in 1..Len(wire)
  <2>1. Len(wire) \in Nat /\ Len(wire) > 0 BY <1>0
  <2>2. QED BY <2>1
<1>12. rs.n + 1 \in 1..Len(frames)
  <2>1. wire[1] = <<rs.n + 1, Taken + 1>> BY <1>11 DEF ReaderAt
  <2>2. wire[1][1] \in 1..Len(frames) BY <1>11 DEF OnWire
  <2>3. QED BY <2>1, <2>2
<1>13. S!Header < S!FrameBytes(rs.n + 1) /\ S!Header \in {2, 4} /\ S!FrameBytes(rs.n + 1) \in Nat
  <2>0. PICK f \in 1..Len(frames) : f = rs.n + 1 BY <1>12
  <2>1. f \in DOMAIN frames /\ frames \in Seq(Seq(Nat)) BY DEF StreamType
  <2>2. frames[f] \in Seq(Nat) /\ frames[f] # <<>> BY <2>1 DEF Framed
  <2>3. Len(frames[f]) \in Nat /\ Len(frames[f]) > 0 BY <2>2
  <2>4. S!FrameBytes(f) = S!Header + Len(frames[f]) + Tag /\ S!FrameBytes(f) \in Nat BY FrameBytesNat
  <2>5. S!Header \in {2, 4} BY HeaderNat
  <2>6. S!Header < S!FrameBytes(f) BY <2>3, <2>4, <2>5, StreamBounds
  <2>7. QED BY <2>0, <2>4, <2>5, <2>6
<1>14. h + m < S!FrameBytes(rs.n + 1) BY <1>v, <1>13
<1>15. /\ OnWire' /\ WriterAt' /\ wire' \in Seq(Nat \X Nat)
       /\ \A i \in 1..m : wire[i] = <<rs.n + 1, Taken + i>>
       /\ rs'.n <= Len(frames)
       /\ Taken' > 0 => rs'.n + 1 <= Len(frames) /\ Taken' < S!FrameBytes(rs'.n + 1)
       /\ wire' # <<>> => wire'[1] = <<rs'.n + 1, Taken' + 1>>
  <2>1. Taken + m < S!FrameBytes(rs.n + 1) /\ Taken + m <= S!FrameBytes(rs.n + 1) BY <1>14, <1>3, <1>13
  <2>2. Taken' = Taken + m /\ Taken' \in Nat BY <1>10, <1>3
  <2>3. rs'.n = rs.n /\ rs'.n \in Nat BY <1>8, <1>0
  <2>4. wire' = SubSeq(wire, m + 1, Len(wire)) BY DEF LengthRead
  <2>5. QED BY <2>1, <2>2, <2>3, <2>4, <1>u, BytesTaken
<1>16. StreamType'
  <2>1. rs' \in [st : {"ReadLen", "ReadData", "Eof", "UnexpectedEof"},
                 hdr : Seq(Nat \X Nat), body : Seq(Nat \X Nat), n : Nat]
    <3>1. rs'.st \in {"ReadLen", "ReadData"} /\ rs'.body \in Seq(Nat \X Nat) /\ rs'.n \in Nat BY <1>0, <1>8
    <3>2. rs' = [st |-> rs'.st, hdr |-> rs'.hdr, body |-> rs'.body, n |-> rs'.n] /\ r \in Seq(Nat \X Nat) BY DEF LengthRead
    <3>3. QED BY <3>1, <3>2, <1>8
  <2>2. QED BY <2>1, <1>15, <1>u DEF StreamType
<1>17. \A f : S!FrameBytes(f)' = S!FrameBytes(f) /\ Upto(f)' = Upto(f) BY <1>u, SameFrames
<1>18. Framed' BY <1>17, <1>u DEF Framed
<1>19. Decrypted' BY <1>17, <1>8, <1>u DEF Decrypted
<1>20. ReaderAt'
  <2>1. S!Header' = S!Header BY <1>u, SameFrames
  <2>2. ASSUME NEW i \in 1..(h + m) PROVE r[i] = <<rs.n + 1, i>>
    <3>1. CASE i <= h
      <4>1. i \in 1..h /\ r[i] = rs.hdr[i] BY <3>1, <1>6
      <4>2. rs.hdr[i] = <<rs.n + 1, i>> BY <4>1, <1>1 DEF ReaderAt
      <4>3. QED BY <4>1, <4>2
    <3>2. CASE i > h
      <4>1. i \in (h + 1)..(h + m) /\ i - h \in 1..m /\ h + (i - h) = i BY <3>2
      <4>2. wire[i - h] = <<rs.n + 1, h + (i - h)>> BY <4>1, <1>15, <1>3
      <4>3. r[h + (i - h)] = wire[i - h] BY <4>1, <1>6
      <4>4. QED BY <4>1, <4>2, <4>3
    <3>3. QED BY <3>1, <3>2
  <2>3. \A i \in 1..Len(rs'.hdr) : rs'.hdr[i] = <<rs'.n + 1, i>> BY <2>2, <1>6, <1>8
  <2>4. \A i \in 1..Len(rs'.body) : rs'.body[i] = <<rs'.n + 1, S!Header' + i>> BY <1>8, <1>9
  <2>5. rs'.st \in {"ReadLen", "Eof"} => Len(rs'.hdr) < S!Header' /\ rs'.body = <<>>
    <3>1. rs'.st \in {"ReadLen", "Eof"} => h + m # S!Header BY <1>8
    <3>2. h + m <= S!Header BY <1>v
    <3>3. S!Header \in Nat BY <1>13
    <3>4. QED BY <3>1, <3>2, <3>3, <1>6, <1>8, <2>1
  <2>6. rs'.st \notin {"ReadLen", "Eof"} => Len(rs'.hdr) = S!Header' BY <1>6, <1>8, <2>1
  <2>7. rs'.st \in {"ReadLen", "ReadData"} BY <1>8
  <2>8. frames' = frames BY <1>u
  <2>9. QED BY <2>3, <2>4, <2>5, <2>6, <2>7, <2>8, <1>15, <1>17 DEF ReaderAt
<1>21. QED BY <1>15, <1>16, <1>18, <1>19, <1>20

LEMMA AtFrame ==
  ASSUME StreamInv, wire # <<>>
  PROVE  /\ rs.n \in Nat /\ rs.n + 1 \in 1..Len(frames)
         /\ S!Header \in {2, 4} /\ S!FrameBytes(rs.n + 1) \in Nat /\ S!Header < S!FrameBytes(rs.n + 1)
         /\ frames[rs.n + 1] \in Seq(Nat) /\ frames[rs.n + 1] # <<>>
         /\ S!FrameBytes(rs.n + 1) = S!Header + Len(frames[rs.n + 1]) + Tag
<1> USE DEF StreamInv
<1>1. wire \in Seq(Nat \X Nat) /\ rs.n \in Nat BY DEF StreamType
<1>2. 1 \in 1..Len(wire) BY <1>1
<1>3. wire[1] = <<rs.n + 1, Taken + 1>> BY DEF ReaderAt
<1>4. wire[1][1] \in 1..Len(frames) BY <1>2 DEF OnWire
<1>5. PICK f \in 1..Len(frames) : f = rs.n + 1 BY <1>3, <1>4
<1>6. f \in DOMAIN frames /\ frames \in Seq(Seq(Nat)) BY DEF StreamType
<1>7. frames[f] \in Seq(Nat) /\ frames[f] # <<>> BY <1>6 DEF Framed
<1>8. Len(frames[f]) \in Nat /\ Len(frames[f]) > 0 BY <1>7
<1>9. S!FrameBytes(f) = S!Header + Len(frames[f]) + Tag /\ S!FrameBytes(f) \in Nat BY FrameBytesNat
<1>10. S!Header \in {2, 4} BY HeaderNat
<1>11. S!Header < S!FrameBytes(f) BY <1>8, <1>9, <1>10, StreamBounds
<1>12. QED BY <1>1, <1>5, <1>7, <1>9, <1>10, <1>11

\* The length prefix says how long the frame is.
LEMMA SizeOfFrame ==
  ASSUME StreamInv, wire # <<>>, rs.st = "ReadData"
  PROVE  S!Size(rs.hdr) = S!FrameBytes(rs.n + 1) - S!Header
<1> USE DEF StreamInv
<1>1. PICK f \in 1..Len(frames) : f = rs.n + 1 BY AtFrame
<1>2. S!Header \in {2, 4} BY AtFrame
<1>3. rs.hdr \in Seq(Nat \X Nat) /\ Len(rs.hdr) = S!Header /\ \A i \in 1..S!Header : rs.hdr[i] = <<f, i>>
  BY <1>1 DEF StreamType, ReaderAt
<1>4. rs.hdr = [i \in 1..S!Header |-> <<f, i>>]
  <2>1. PICK h : h = S!Header OBVIOUS
  <2>2. PICK s \in Seq(Nat \X Nat) : s = rs.hdr BY <1>3
  <2>3. DOMAIN s = 1..h /\ s = [i \in DOMAIN s |-> s[i]] BY <1>3, <2>1, <2>2
  <2>4. \A i \in 1..h : s[i] = <<f, i>> BY <1>3, <2>1, <2>2
  <2>5. s = [i \in 1..h |-> <<f, i>>] BY <2>3, <2>4
  <2>6. QED BY <2>1, <2>2, <2>5
<1>5. f \in DOMAIN frames BY DEF StreamType
<1>6. 1 \in 1..S!Header BY <1>2
<1>7. rs.hdr[1][1] = f BY <1>3, <1>6
<1>8. S!Size(rs.hdr) = Len(frames[f]) + Tag BY <1>4, <1>5, <1>7 DEF S!Size
<1>9. S!FrameBytes(f) = S!Header + Len(frames[f]) + Tag /\ frames[f] \in Seq(Nat) BY <1>1, AtFrame
<1>10. Len(frames[f]) \in Nat BY <1>9
<1>11. QED BY <1>1, <1>2, <1>8, <1>9, <1>10, StreamBounds

\* The reader is within the data of the next frame.
DataRead(m, r) ==
  /\ rs.st = "ReadData" /\ Len(rs.body) + m < S!Size(rs.hdr)
  /\ wire' = SubSeq(wire, m + 1, Len(wire))
  /\ r \in Seq(Nat \X Nat) /\ Len(r) = Len(rs.body) + m
  /\ \A i \in 1..Len(rs.body) : r[i] = rs.body[i]
  /\ \A i \in 1..m : r[Len(rs.body) + i] = wire[i]
  /\ rs'.hdr = rs.hdr /\ rs'.body = r /\ rs'.n = rs.n /\ rs'.st = rs.st
  /\ rs' = [st |-> rs'.st, hdr |-> rs'.hdr, body |-> rs'.body, n |-> rs'.n]
  /\ UNCHANGED <<kind, written, send_buffer, frames, ws, closed, recv_buffer, received>>

LEMMA ReadData ==
  ASSUME StreamInv, NEW m \in Nat, m > 0, m <= Len(wire), NEW r, DataRead(m, r)
  PROVE  StreamInv'
<1> USE DEF StreamInv
<1>0. wire \in Seq(Nat \X Nat) /\ rs.hdr \in Seq(Nat \X Nat) /\ rs.body \in Seq(Nat \X Nat) /\ rs.n \in Nat BY DEF StreamType
<1>u. kind' = kind /\ written' = written /\ send_buffer' = send_buffer /\ frames' = frames /\ ws' = ws
      /\ closed' = closed /\ recv_buffer' = recv_buffer /\ received' = received BY DEF DataRead
<1>1. PICK b \in Nat : b = Len(rs.body)
  <2>1. Len(rs.body) \in Nat BY <1>0
  <2>2. QED BY <2>1
<1>v. wire # <<>> BY <1>0
<1>w. /\ S!Header \in {2, 4} /\ S!FrameBytes(rs.n + 1) \in Nat /\ S!Header < S!FrameBytes(rs.n + 1) BY <1>v, AtFrame
<1>2. rs.st = "ReadData" /\ b + m < S!FrameBytes(rs.n + 1) - S!Header BY <1>1, <1>v, SizeOfFrame DEF DataRead
<1>3. Len(rs.hdr) = S!Header BY <1>2 DEF ReaderAt
<1>4. Taken = S!Header + b BY <1>1, <1>3 DEF Taken
<1>6. Len(r) = b + m /\ (\A i \in 1..b : r[i] = rs.body[i]) /\ \A i \in 1..m : r[b + i] = wire[i] BY <1>1 DEF DataRead
<1>8. /\ rs'.hdr = rs.hdr /\ rs'.body = r /\ rs'.n = rs.n /\ rs'.st = "ReadData" BY <1>2 DEF DataRead
<1>10. Taken' = S!Header + b + m
  <2>1. Taken' = Len(rs'.hdr) + Len(rs'.body) BY DEF Taken
  <2>2. QED BY <2>1, <1>3, <1>6, <1>8, <1>w
<1>15. /\ OnWire' /\ WriterAt' /\ wire' \in Seq(Nat \X Nat)
       /\ \A i \in 1..m : wire[i] = <<rs.n + 1, Taken + i>>
       /\ rs'.n <= Len(frames)
       /\ Taken' > 0 => rs'.n + 1 <= Len(frames) /\ Taken' < S!FrameBytes(rs'.n + 1)
       /\ wire' # <<>> => wire'[1] = <<rs'.n + 1, Taken' + 1>>
  <2>1. Taken + m < S!FrameBytes(rs.n + 1) /\ Taken + m <= S!FrameBytes(rs.n + 1) BY <1>2, <1>4, <1>w
  <2>2. Taken' = Taken + m /\ Taken' \in Nat BY <1>10, <1>4, <1>w
  <2>3. rs'.n = rs.n /\ rs'.n \in Nat BY <1>8, <1>0
  <2>4. wire' = SubSeq(wire, m + 1, Len(wire)) BY DEF DataRead
  <2>5. QED BY <2>1, <2>2, <2>3, <2>4, <1>u, BytesTaken
<1>16. StreamType'
  <2>1. rs' \in [st : {"ReadLen", "ReadData", "Eof", "UnexpectedEof"},
                 hdr : Seq(Nat \X Nat), body : Seq(Nat \X Nat), n : Nat]
    <3>2. rs' = [st |-> rs'.st, hdr |-> rs'.hdr, body |-> rs'.body, n |-> rs'.n] /\ r \in Seq(Nat \X Nat) BY DEF DataRead
    <3>3. QED BY <3>2, <1>8, <1>0
  <2>2. QED BY <2>1, <1>15, <1>u DEF StreamType
<1>17. \A f : S!FrameBytes(f)' = S!FrameBytes(f) /\ Upto(f)' = Upto(f) BY <1>u, SameFrames
<1>18. Framed' BY <1>17, <1>u DEF Framed
<1>19. Decrypted' BY <1>17, <1>8, <1>u DEF Decrypted
<1>20. ReaderAt'
  <2>1. S!Header' = S!Header BY <1>u, SameFrames
  <2>2. ASSUME NEW i \in 1..(b + m) PROVE r[i] = <<rs.n + 1, S!Header + i>>
    <3>1. CASE i <= b
      <4>1. i \in 1..b /\ r[i] = rs.body[i] BY <3>1, <1>6
      <4>2. rs.body[i] = <<rs.n + 1, S!Header + i>> BY <4>1, <1>1 DEF ReaderAt
      <4>3. QED BY <4>1, <4>2
    <3>2. CASE i > b
      <4>1. i - b \in 1..m /\ b + (i - b) = i BY <3>2
      <4>2. wire[i - b] = <<rs.n + 1, S!Header + b + (i - b)>> BY <4>1, <1>15, <1>4
      <4>3. r[b + (i - b)] = wire[i - b] BY <4>1, <1>6
      <4>4. S!Header + b + (i - b) = S!Header + i BY <1>w
      <4>5. QED BY <4>1, <4>2, <4>3, <4>4
    <3>3. QED BY <3>1, <3>2
  <2>3. \A i \in 1..Len(rs'.hdr) : rs'.hdr[i] = <<rs'.n + 1, i>> BY <1>8 DEF ReaderAt
  <2>4. \A i \in 1..Len(rs'.body) : rs'.body[i] = <<rs'.n + 1, S!Header' + i>> BY <1>8, <1>6, <2>1, <2>2
  <2>6. Len(rs'.hdr) = S!Header' BY <1>3, <1>8, <2>1
  <2>7. rs'.st = "ReadData" BY <1>8
  <2>9. QED BY <2>3, <2>4, <2>6, <2>7, <1>u, <1>15, <1>17 DEF ReaderAt
<1>21. QED BY <1>15, <1>16, <1>18, <1>19, <1>20

\* The frame is complete and is decrypted.
FrameRead(m) ==
  /\ rs.st = "ReadData" /\ Len(rs.body) + m = S!Size(rs.hdr) /\ recv_buffer = <<>>
  /\ wire' = SubSeq(wire, m + 1, Len(wire))
  /\ rs' = [st |-> "ReadLen", hdr |-> <<>>, body |-> <<>>, n |-> rs.n + 1]
  /\ recv_buffer' = frames[rs.n + 1]
  /\ UNCHANGED <<kind, written, send_buffer, frames, ws, closed, received>>

LEMMA ReadFrame ==
  ASSUME StreamInv, NEW m \in Nat, m > 0, m <= Len(wire), FrameRead(m)
  PROVE  StreamInv'
<1> USE DEF StreamInv
<1>0. wire \in Seq(Nat \X Nat) /\ rs.body \in Seq(Nat \X Nat) /\ rs.n \in Nat BY DEF StreamType
<1>u. kind' = kind /\ written' = written /\ send_buffer' = send_buffer /\ frames' = frames /\ ws' = ws
      /\ closed' = closed /\ received' = received /\ recv_buffer' = frames[rs.n + 1] BY DEF FrameRead
<1>1. PICK b \in Nat : b = Len(rs.body)
  <2>1. Len(rs.body) \in Nat BY <1>0
  <2>2. QED BY <2>1
<1>v. wire # <<>> BY <1>0
<1>w. /\ S!Header \in {2, 4} /\ S!FrameBytes(rs.n + 1) \in Nat /\ rs.n + 1 \in 1..Len(frames)
      /\ frames[rs.n + 1] \in Seq(Nat) BY <1>v, AtFrame
<1>2. rs.st = "ReadData" /\ b + m = S!FrameBytes(rs.n + 1) - S!Header BY <1>1, <1>v, SizeOfFrame DEF FrameRead
<1>3. Len(rs.hdr) = S!Header BY <1>2 DEF ReaderAt
<1>4. Taken = S!Header + b BY <1>1, <1>3 DEF Taken
<1>8. rs'.hdr = <<>> /\ rs'.body = <<>> /\ rs'.n = rs.n + 1 /\ rs'.st = "ReadLen" BY DEF FrameRead
<1>9. Len(rs'.hdr) = 0 /\ Len(rs'.body) = 0 BY <1>8
<1>10. Taken' = 0
  <2>1. Taken' = Len(rs'.hdr) + Len(rs'.body) BY DEF Taken
  <2>2. QED BY <2>1, <1>9
<1>15. /\ OnWire' /\ WriterAt' /\ wire' \in Seq(Nat \X Nat)
       /\ rs'.n <= Len(frames)
       /\ wire' # <<>> => wire'[1] = <<rs'.n + 1, Taken' + 1>>
  <2>1. Taken + m = S!FrameBytes(rs.n + 1) /\ Taken + m <= S!FrameBytes(rs.n + 1) BY <1>2, <1>4, <1>w
  <2>2. Taken' = 0 /\ Taken' \in Nat BY <1>10
  <2>3. rs'.n = rs.n + 1 /\ rs'.n \in Nat BY <1>8, <1>0
  <2>4. wire' = SubSeq(wire, m + 1, Len(wire)) BY DEF FrameRead
  <2>5. QED BY <2>1, <2>2, <2>3, <2>4, <1>u, BytesTaken
<1>16. StreamType'
  <2>1. rs' \in [st : {"ReadLen", "ReadData", "Eof", "UnexpectedEof"},
                 hdr : Seq(Nat \X Nat), body : Seq(Nat \X Nat), n : Nat]
    <3>1. << >> \in Seq(Nat \X Nat) /\ rs.n + 1 \in Nat BY <1>0
    <3>2. QED BY <3>1 DEF FrameRead
  <2>2. QED BY <2>1, <1>15, <1>u, <1>w DEF StreamType
<1>17. \A f : S!FrameBytes(f)' = S!FrameBytes(f) /\ Upto(f)' = Upto(f) BY <1>u, SameFrames
<1>18. Framed' BY <1>17, <1>u DEF Framed
<1>19. Decrypted'
  <2>1. PICK f \in 1..Len(frames) : f = rs.n + 1 BY <1>w
  <2>2. Upto(f) = Upto(f - 1) + Len(frames[f]) BY UptoNext
  <2>3. f - 1 = rs.n
    <3>1. PICK k \in Nat : k = rs.n BY <1>0
    <3>2. f = k + 1 BY <2>1, <3>1
    <3>3. QED BY <3>1, <3>2
  <2>4. Len(recv_buffer) = 0 /\ Len(received) \in Nat BY DEF FrameRead, StreamType
  <2>5. Len(received) = Upto(rs.n) BY <2>4 DEF Decrypted
  <2>6. \A i \in 1..Len(frames[f]) : frames[f][i] = Upto(f - 1) + i BY DEF Framed
  <2>7. Len(received) + Len(frames[f]) = Upto(f) BY <2>2, <2>3, <2>5
  <2>8. \A i \in 1..Len(frames[f]) : frames[f][i] = Len(received) + i BY <2>3, <2>5, <2>6
  <2>9. rs'.n = f /\ recv_buffer' = frames[f] BY <1>8, <1>u, <2>1
  <2>10. Upto(rs.n)' = Upto(f)
    <3>1. Upto(rs.n)' = IF rs'.n = 0 THEN 0 ELSE frames'[rs'.n][Len(frames'[rs'.n])] BY DEF Upto
    <3>2. QED BY <3>1, <2>9, <1>u DEF Upto
  <2>11. \A i \in 1..Len(received) : received[i] = i BY DEF Decrypted
  <2>12. Len(received') + Len(recv_buffer') = Upto(rs.n)' BY <2>7, <2>9, <2>10, <1>u
  <2>13. QED BY <2>8, <2>9, <2>11, <2>12, <1>u DEF Decrypted
<1>20. ReaderAt'
  <2>1. S!Header' = S!Header BY <1>u, SameFrames
  <2>2. 0 < S!Header' BY <2>1, <1>w
  <2>9. QED BY <2>2, <1>8, <1>9, <1>10, <1>u, <1>15 DEF ReaderAt
<1>21. QED BY <1>15, <1>16, <1>18, <1>19, <1>20

LEMMA IoReadStep ==
  ASSUME StreamInv, NEW m \in 1..Room, S!io_read(m)
  PROVE  StreamInv'
<1> USE DEF StreamInv
<1>0. m \in Nat /\ m > 0 /\ m <= Len(wire) /\ recv_buffer = <<>> /\ wire' = SubSeq(wire, m + 1, Len(wire))
  BY StreamBounds DEF S!io_read
<1>u. UNCHANGED <<kind, written, send_buffer, frames, ws, closed, received>> BY DEF S!io_read
<1>1. wire \in Seq(Nat \X Nat) /\ rs.hdr \in Seq(Nat \X Nat) /\ rs.body \in Seq(Nat \X Nat) /\ rs.n \in Nat
      /\ rs = [st |-> rs.st, hdr |-> rs.hdr, body |-> rs.body, n |-> rs.n]
  BY DEF StreamType
<1>a. wire \in Seq(Nat \X Nat) /\ rs.hdr \in Seq(Nat \X Nat) /\ rs.body \in Seq(Nat \X Nat) BY <1>1
<1>b. m \in Nat /\ m > 0 /\ m <= Len(wire) BY <1>0
<1>2. wire # <<>> BY <1>a, <1>b
<1>3. CASE /\ rs.st = "ReadLen" /\ Len(rs.hdr) + m <= S!Header
           /\ rs' = [rs EXCEPT !.hdr = @ \o SubSeq(wire, 1, m),
                               !.st = IF Len(rs.hdr) + m = S!Header THEN "ReadData" ELSE "ReadLen"]
           /\ UNCHANGED recv_buffer
  <2>1. PICK r : r = rs.hdr \o SubSeq(wire, 1, m) OBVIOUS
  <2>2. /\ r \in Seq(Nat \X Nat) /\ Len(r) = Len(rs.hdr) + m
        /\ \A i \in 1..Len(rs.hdr) : r[i] = rs.hdr[i]
        /\ \A i \in 1..m : r[Len(rs.hdr) + i] = wire[i]
    <3>1. Extended(rs.hdr \o SubSeq(wire, 1, m), rs.hdr, wire, m) BY <1>a, <1>b, TakeFront
    <3>2. QED BY <3>1, <2>1 DEF Extended
  <2>3. /\ rs'.hdr = r /\ rs'.body = rs.body /\ rs'.n = rs.n
        /\ rs'.st = IF Len(rs.hdr) + m = S!Header THEN "ReadData" ELSE "ReadLen"
        /\ rs' = [st |-> rs'.st, hdr |-> rs'.hdr, body |-> rs'.body, n |-> rs'.n]
    BY <2>1, <1>1, <1>3
  <2>4. LengthRead(m, r) BY <2>2, <2>3, <1>0, <1>u, <1>3 DEF LengthRead
  <2>5. QED BY <2>4, <1>0, ReadLength
<1>4. CASE /\ rs.st = "ReadData" /\ Len(rs.body) + m <= S!Size(rs.hdr)
           /\ IF Len(rs.body \o SubSeq(wire, 1, m)) < S!Size(rs.hdr)
              THEN rs' = [rs EXCEPT !.body = rs.body \o SubSeq(wire, 1, m)] /\ UNCHANGED recv_buffer
              ELSE IF S!Decrypts(rs.body \o SubSeq(wire, 1, m), rs.n + 1)
              THEN /\ rs' = [st |-> "ReadLen", hdr |-> <<>>, body |-> <<>>, n |-> rs.n + 1]
                   /\ recv_buffer' = frames[rs.n + 1]
              ELSE rs' = [rs EXCEPT !.st = "DecErr"] /\ UNCHANGED recv_buffer
  <2>1. PICK r : r = rs.body \o SubSeq(wire, 1, m) OBVIOUS
  <2>2. /\ r \in Seq(Nat \X Nat) /\ Len(r) = Len(rs.body) + m
        /\ \A i \in 1..Len(rs.body) : r[i] = rs.body[i]
        /\ \A i \in 1..m : r[Len(rs.body) + i] = wire[i]
    <3>1. Extended(rs.body \o SubSeq(wire, 1, m), rs.body, wire, m) BY <1>a, <1>b, TakeFront
    <3>2. QED BY <3>1, <2>1 DEF Extended
  <2>3. CASE Len(r) < S!Size(rs.hdr)
    <3>1. rs' = [rs EXCEPT !.body = r] /\ UNCHANGED recv_buffer BY <2>1, <2>3, <1>4
    <3>2. /\ rs'.hdr = rs.hdr /\ rs'.body = r /\ rs'.n = rs.n /\ rs'.st = rs.st
          /\ rs' = [st |-> rs'.st, hdr |-> rs'.hdr, body |-> rs'.body, n |-> rs'.n]
      BY <3>1, <1>1
    <3>3. DataRead(m, r) BY <3>1, <3>2, <2>2, <2>3, <1>0, <1>u, <1>4 DEF DataRead
    <3>4. QED BY <3>3, <1>0, ReadData
  <2>4. CASE ~(Len(r) < S!Size(rs.hdr))
    <3>1. PICK f \in Nat : f = rs.n + 1 BY <1>1
    <3>2. /\ S!Header \in {2, 4} /\ S!FrameBytes(f) \in Nat /\ f \in 1..Len(frames)
          /\ S!FrameBytes(f) = S!Header + Len(frames[f]) + Tag /\ frames[f] \in Seq(Nat) BY <3>1, <1>2, AtFrame
    <3>3. S!Size(rs.hdr) = S!FrameBytes(f) - S!Header BY <3>1, <1>2, <1>4, SizeOfFrame
    <3>4. PICK b \in Nat : b = Len(rs.body)
      <4>1. Len(rs.body) \in Nat BY <1>1
      <4>2. QED BY <4>1
    <3>5. b + m <= S!FrameBytes(f) - S!Header BY <3>3, <3>4, <1>4
    <3>6. Len(r) = S!FrameBytes(f) - S!Header /\ b + m = S!FrameBytes(f) - S!Header
      <4>1. Len(r) = b + m BY <2>2, <3>4
      <4>2. PICK z \in Int : z = S!FrameBytes(f) - S!Header BY <3>2
      <4>3. ~(b + m < z) /\ b + m <= z BY <4>1, <4>2, <3>3, <3>5, <2>4
      <4>4. b + m = z BY <4>3, <1>b
      <4>5. QED BY <4>1, <4>2, <4>4
    <3>7. Len(rs.hdr) = S!Header BY <1>4 DEF ReaderAt
    <3>8. Taken = S!Header + b BY <3>4, <3>7 DEF Taken
    <3>9. ASSUME NEW i \in 1..m PROVE wire[i] = <<f, S!Header + (b + i)>>
      <4>1. 1 \in 1..Len(wire) /\ i \in 1..Len(wire) /\ 1 <= i 
        <5>1. PICK z \in Nat : z = Len(wire) BY <1>a
        <5>2. m <= z BY <5>1, <1>b
        <5>3. 1 \in 1..z /\ i \in 1..z /\ 1 <= i BY <5>2, <1>b
        <5>4. QED BY <5>1, <5>3
      <4>2. wire[1] = <<f, Taken + 1>> BY <1>2, <3>1 DEF ReaderAt
      <4>3. wire[1][1] = f /\ wire[1][2] = S!Header + b + 1 BY <4>2, <3>8
      <4>4. S!Header + b + 1 + (i - 1) = S!Header + (b + i) BY <3>2
      <4>5. S!Header + (b + i) <= S!FrameBytes(f) BY <3>6, <3>2
      <4>6. wire[i] = <<wire[1][1], wire[1][2] + (i - 1)>> BY <4>1, <4>3, <4>4, <4>5 DEF OnWire
      <4>7. QED BY <4>3, <4>4, <4>6
    <3>10. ASSUME NEW i \in 1..Len(r) PROVE r[i] = <<f, S!Header + i>>
      <4>0. i \in 1..(b + m) BY <2>2, <3>4
      <4>1. CASE i <= b
        <5>1. i \in 1..Len(rs.body) BY <4>1, <4>0, <3>4
        <5>2. rs.body[i] = <<f, S!Header + i>> BY <5>1, <3>1 DEF ReaderAt
        <5>3. QED BY <5>1, <5>2, <2>2
      <4>2. CASE i > b
        <5>1. i - b \in 1..m /\ b + (i - b) = i BY <4>2, <4>0
        <5>2. r[b + (i - b)] = wire[i - b] BY <5>1, <2>2, <3>4
        <5>3. wire[i - b] = <<f, S!Header + (b + (i - b))>> BY <5>1, <3>9
        <5>4. QED BY <5>1, <5>2, <5>3
      <4>3. QED BY <4>0, <4>1, <4>2
    <3>11. S!Decrypts(r, f)
      <4>1. f \in DOMAIN frames BY <3>2 DEF StreamType
      <4>2. PICK k : k = S!FrameBytes(f) - S!Header OBVIOUS
      <4>3. DOMAIN r = 1..k /\ r = [i \in DOMAIN r |-> r[i]] BY <2>2, <3>6, <4>2
      <4>4. \A i \in 1..k : r[i] = <<f, S!Header + i>> BY <3>10, <3>6, <4>2
      <4>5. r = [i \in 1..k |-> <<f, S!Header + i>>] BY <4>3, <4>4
      <4>6. QED BY <4>1, <4>2, <4>5 DEF S!Decrypts
    <3>12. /\ rs' = [st |-> "ReadLen", hdr |-> <<>>, body |-> <<>>, n |-> rs.n + 1]
           /\ recv_buffer' = frames[rs.n + 1]
      BY <3>1, <3>11, <2>1, <2>4, <1>4
    <3>13. FrameRead(m) BY <3>12, <3>3, <3>4, <3>6, <1>0, <1>u, <1>4 DEF FrameRead
    <3>14. QED BY <3>13, <1>0, ReadFrame
  <2>5. QED BY <2>3, <2>4
<1>5. QED BY <1>3, <1>4 DEF S!io_read

LEMMA ReadEof ==
  ASSUME StreamInv, S!read_eof
  PROVE  StreamInv'
<1> USE DEF StreamInv
<1>1. /\ rs.st \in {"ReadLen", "ReadData"} /\ recv_buffer = <<>> /\ wire = <<>> /\ closed # "no"
      /\ UNCHANGED <<kind, written, send_buffer, frames, ws, wire, closed, recv_buffer, received>>
  BY DEF S!read_eof
<1>2. /\ rs' = [st |-> IF rs.st = "ReadLen" THEN "Eof" ELSE "UnexpectedEof", hdr |-> rs.hdr, body |-> rs.body, n |-> rs.n]
      /\ rs' \in [st : {"ReadLen", "ReadData", "Eof", "UnexpectedEof"},
                  hdr : Seq(Nat \X Nat), body : Seq(Nat \X Nat), n : Nat]
  BY DEF S!read_eof, StreamType
<1>3. /\ rs'.hdr = rs.hdr /\ rs'.body = rs.body /\ rs'.n = rs.n
      /\ rs'.st = IF rs.st = "ReadLen" THEN "Eof" ELSE "UnexpectedEof" BY <1>2
<1>4. Taken' = Taken BY <1>3 DEF Taken
<1>5. \A f : S!FrameBytes(f)' = S!FrameBytes(f) /\ Upto(f)' = Upto(f) BY <1>1, SameFrames
<1>6. S!Header' = S!Header /\ (S!is_ready' <=> S!is_ready) BY <1>1, SameFrames
<1>7. StreamType' BY <1>1, <1>2 DEF StreamType
<1>8. Framed' BY <1>1, <1>5 DEF Framed
<1>9. OnWire' BY <1>1, SameOnWire
<1>10. WriterAt' BY <1>1, <1>3, <1>4, <1>5, <1>6 DEF WriterAt
<1>11. ReaderAt'
  <2>1. /\ rs.n <= Len(frames)
        /\ Taken > 0 => rs.n + 1 <= Len(frames) /\ Taken < S!FrameBytes(rs.n + 1)
        /\ \A i \in 1..Len(rs.hdr) : rs.hdr[i] = <<rs.n + 1, i>>
        /\ \A i \in 1..Len(rs.body) : rs.body[i] = <<rs.n + 1, S!Header + i>> BY DEF ReaderAt
  <2>2. rs.st = "ReadLen" => Len(rs.hdr) < S!Header /\ rs.body = <<>> BY DEF ReaderAt
  <2>3. rs.st = "ReadData" => Len(rs.hdr) = S!Header BY DEF ReaderAt
  <2>4. QED BY <2>1, <2>2, <2>3, <1>1, <1>3, <1>4, <1>5, <1>6 DEF ReaderAt
<1>12. Decrypted' BY <1>1, <1>3, <1>5 DEF Decrypted
<1>13. QED BY <1>7, <1>8, <1>9, <1>10, <1>11, <1>12

LEMMA FrontOf ==
  ASSUME NEW q \in Seq(Nat), NEW n \in Nat, n <= Len(q)
  PROVE  /\ SubSeq(q, 1, n) \in Seq(Nat) /\ Len(SubSeq(q, 1, n)) = n
         /\ \A i \in 1..n : SubSeq(q, 1, n)[i] = q[i]
<1>1. SubSeq(q, 1, n) \in Seq(Nat) OBVIOUS
<1>2. Len(SubSeq(q, 1, n)) = n OBVIOUS
<1>3. \A i \in 1..n : SubSeq(q, 1, n)[i] = q[i] BY <1>2
<1>4. QED BY <1>1, <1>2, <1>3

LEMMA BackOf ==
  ASSUME NEW q \in Seq(Nat), NEW n \in Nat, n <= Len(q)
  PROVE  /\ SubSeq(q, n + 1, Len(q)) \in Seq(Nat) /\ Len(SubSeq(q, n + 1, Len(q))) = Len(q) - n
         /\ \A i \in 1..(Len(q) - n) : SubSeq(q, n + 1, Len(q))[i] = q[n + i]
<1>0. Len(q) \in Nat OBVIOUS
<1>1. SubSeq(q, n + 1, Len(q)) \in Seq(Nat) BY <1>0
<1>2. Len(SubSeq(q, n + 1, Len(q))) = Len(q) - n BY <1>0
<1>3. ASSUME NEW i \in 1..(Len(q) - n) PROVE SubSeq(q, n + 1, Len(q))[i] = q[n + i]
  <2>1. i \in 1..Len(SubSeq(q, n + 1, Len(q))) BY <1>2
  <2>2. SubSeq(q, n + 1, Len(q))[i] = q[(n + 1) + i - 1] BY <2>1, <1>0
  <2>3. (n + 1) + i - 1 = n + i BY <1>0
  <2>4. QED BY <2>2, <2>3
<1>4. QED BY <1>1, <1>2, <1>3

LEMMA PollReadStep ==
  ASSUME StreamInv, NEW r \in 1..MaxWrite, S!poll_read(r)
  PROVE  StreamInv'
<1> USE DEF StreamInv
<1>u. UNCHANGED <<kind, written, send_buffer, frames, ws, wire, closed, rs>> BY DEF S!poll_read
<1>1. PICK q \in Seq(Nat), t \in Seq(Nat) : q = recv_buffer /\ t = received BY DEF StreamType
<1>2. PICK b \in Nat : b = Len(q)
  <2>1. Len(q) \in Nat OBVIOUS
  <2>2. QED BY <2>1
<1>3. q # <<>> BY <1>1 DEF S!poll_read
<1>4. b > 0 BY <1>2, <1>3
<1>5. r \in Nat /\ r > 0 BY StreamBounds
<1>6. PICK n \in Nat : n = S!Min({r, b}) /\ n <= b
  <2>1. S!Min({r, b}) = IF r <= b THEN r ELSE b BY <1>5, MinTwo
  <2>2. QED BY <2>1, <1>5
<1>7. received' = t \o SubSeq(q, 1, n) /\ recv_buffer' = SubSeq(q, n + 1, b)
  BY <1>1, <1>2, <1>6 DEF S!poll_read, S!Copied
<1>8. PICK x \in Seq(Nat) : x = SubSeq(q, 1, n) /\ Len(x) = n /\ \A i \in 1..n : x[i] = q[i]
  <2>1. n <= Len(q) BY <1>2, <1>6
  <2>2. /\ SubSeq(q, 1, n) \in Seq(Nat) /\ Len(SubSeq(q, 1, n)) = n
        /\ \A i \in 1..n : SubSeq(q, 1, n)[i] = q[i] BY <2>1, FrontOf
  <2>3. QED BY <2>2
<1>9. PICK y \in Seq(Nat) : y = SubSeq(q, n + 1, b) /\ Len(y) = b - n /\ \A i \in 1..(b - n) : y[i] = q[n + i]
  <2>1. n <= Len(q) BY <1>2, <1>6
  <2>2. /\ SubSeq(q, n + 1, Len(q)) \in Seq(Nat) /\ Len(SubSeq(q, n + 1, Len(q))) = Len(q) - n
        /\ \A i \in 1..(Len(q) - n) : SubSeq(q, n + 1, Len(q))[i] = q[n + i] BY <2>1, BackOf
  <2>3. QED BY <2>2, <1>2
<1>10. received' = t \o x /\ recv_buffer' = y BY <1>7, <1>8, <1>9
<1>11. PICK k \in Nat : k = Len(t)
  <2>1. Len(t) \in Nat OBVIOUS
  <2>2. QED BY <2>1
<1>12. /\ received' \in Seq(Nat) /\ Len(received') = k + n
       /\ \A i \in 1..k : received'[i] = t[i]
       /\ \A i \in 1..(k + n) : i > k => received'[i] = x[i - k]
  BY <1>8, <1>10, <1>11
<1>12a. n <= b BY <1>6
<1>13. /\ \A i \in 1..k : t[i] = i
       /\ \A i \in 1..b : q[i] = k + i
       /\ k + b = Upto(rs.n)
  BY <1>1, <1>2, <1>11 DEF Decrypted
<1>14. Upto(rs.n)' = Upto(rs.n) BY <1>u DEF Upto
<1>15. Decrypted'
  <2>1. Len(received') + Len(recv_buffer') = Upto(rs.n)' BY <1>9, <1>10, <1>12, <1>13, <1>14, <1>6
  <2>2. \A i \in 1..Len(received') : received'[i] = i
    <3> SUFFICES ASSUME NEW i \in 1..(k + n) PROVE received'[i] = i BY <1>12
    <3>1. CASE i <= k
      <4>1. i \in 1..k BY <3>1
      <4>2. QED BY <4>1, <1>12, <1>13
    <3>2. CASE i > k
      <4>1. received'[i] = x[i - k] /\ i - k \in 1..n BY <3>2, <1>12
      <4>2. x[i - k] = q[i - k] BY <4>1, <1>8
      <4>5. i - k \in 1..b BY <4>1, <1>12a
      <4>3. q[i - k] = k + (i - k) BY <4>5, <1>13
      <4>4. QED BY <4>1, <4>2, <4>3
    <3>3. QED BY <3>1, <3>2
  <2>3. \A i \in 1..Len(recv_buffer') : recv_buffer'[i] = Len(received') + i
    <3> SUFFICES ASSUME NEW i \in 1..(b - n) PROVE y[i] = (k + n) + i BY <1>9, <1>10, <1>12
    <3>0. n + i \in 1..b BY <1>12a
    <3>1. y[i] = q[n + i] /\ n + i \in 1..b BY <3>0, <1>9
    <3>2. q[n + i] = k + (n + i) BY <3>1, <1>13
    <3>3. QED BY <3>1, <3>2
  <2>4. QED BY <2>1, <2>2, <2>3 DEF Decrypted
<1>16. StreamType' BY <1>u, <1>10, <1>12 DEF StreamType
<1>17. \A f : S!FrameBytes(f)' = S!FrameBytes(f) /\ Upto(f)' = Upto(f) BY <1>u, SameFrames
<1>18. S!Header' = S!Header /\ (S!is_ready' <=> S!is_ready) BY <1>u, SameFrames
<1>19. Taken' = Taken BY <1>u DEF Taken
<1>20. Framed' BY <1>u, <1>17 DEF Framed
<1>21. OnWire' BY <1>u, SameOnWire
<1>22. WriterAt' BY <1>u, <1>17, <1>18, <1>19 DEF WriterAt
<1>23. ReaderAt'
  <2>1. rs.st \in {"ReadLen", "ReadData"} BY <1>1, <1>3 DEF ReaderAt
  <2>2. QED BY <2>1, <1>u, <1>17, <1>18, <1>19 DEF ReaderAt
<1>24. QED BY <1>15, <1>16, <1>20, <1>21, <1>22, <1>23

LEMMA CutStep ==
  ASSUME StreamInv, S!Cut
  PROVE  StreamInv'
<1> USE DEF StreamInv
<1>u. /\ UNCHANGED <<kind, written, send_buffer, frames, ws, rs, recv_buffer, received>>
      /\ closed = "no" /\ closed' = "cut" BY DEF S!Cut
<1>1. PICK k \in 0..Len(wire) : wire' = SubSeq(wire, 1, k) BY DEF S!Cut
<1>2. PICK w \in Seq(Nat \X Nat) : w = wire BY DEF StreamType
<1>3. k \in Nat /\ k <= Len(w) BY <1>2
<1>4. SubSeq(w, 1, k) \in Seq(Nat \X Nat) /\ Len(SubSeq(w, 1, k)) = k BY <1>3
<1>5. \A i \in 1..k : SubSeq(w, 1, k)[i] = w[i] BY <1>3
<1>6. wire' \in Seq(Nat \X Nat) /\ Len(wire') = k BY <1>1, <1>2, <1>4
<1>7. \A i \in 1..k : wire'[i] = wire[i] /\ i \in 1..Len(wire) BY <1>1, <1>2, <1>3, <1>5
<1>8. \A f : S!FrameBytes(f)' = S!FrameBytes(f) /\ Upto(f)' = Upto(f) BY <1>u, SameFrames
<1>9. S!Header' = S!Header BY <1>u, SameFrames
<1>10. Taken' = Taken BY <1>u DEF Taken
<1>11. StreamType' BY <1>u, <1>6 DEF StreamType
<1>12. Framed' BY <1>u, <1>8 DEF Framed
<1>13. OnWire'
  <2>1. \A i \in 1..Len(wire') : wire'[i] = wire[i] /\ i \in 1..Len(wire) BY <1>6, <1>7
  <2>2. \A i \in 1..Len(wire') : /\ wire'[i][1] \in 1..Len(frames')
                                 /\ wire'[i][2] \in 1..S!FrameBytes(wire[i][1])'
    BY <2>1, <1>u, <1>8 DEF OnWire
  <2>3. ASSUME NEW i \in 1..Len(wire'), NEW j \in 1..Len(wire'),
               i <= j, wire'[i][2] + (j - i) <= S!FrameBytes(wire[i][1])'
        PROVE  wire'[j] = <<wire'[i][1], wire'[i][2] + (j - i)>>
    <3>1. wire'[i] = wire[i] /\ i \in 1..Len(wire) /\ wire'[j] = wire[j] /\ j \in 1..Len(wire) BY <2>1
    <3>2. wire[i][2] + (j - i) <= S!FrameBytes(wire[i][1]) BY <2>3, <3>1, <1>8
    <3>3. QED BY <3>1, <3>2, <2>3 DEF OnWire
  <2>4. ASSUME NEW i \in 1..Len(wire'), NEW j \in 1..Len(wire'),
               j = i + 1, wire'[i][2] = S!FrameBytes(wire[i][1])'
        PROVE  wire'[j] = <<wire'[i][1] + 1, 1>>
    <3>1. wire'[i] = wire[i] /\ i \in 1..Len(wire) /\ wire'[j] = wire[j] /\ j \in 1..Len(wire) BY <2>1
    <3>2. wire[i][2] = S!FrameBytes(wire[i][1]) BY <2>4, <3>1, <1>8
    <3>3. QED BY <3>1, <3>2, <2>4 DEF OnWire
  <2>5. QED BY <2>2, <2>3, <2>4, <2>1 DEF OnWire
<1>14. WriterAt' BY <1>u, <1>8 DEF WriterAt
<1>15. ReaderAt'
  <2>1. wire' # <<>> => wire'[1] = <<rs.n + 1, Taken + 1>>
    <3>1. SUFFICES ASSUME wire' # <<>> PROVE wire'[1] = <<rs.n + 1, Taken + 1>> OBVIOUS
    <3>2. Len(wire') # 0 BY <3>1, <1>6
    <3>3. 1 \in 1..k BY <3>2, <1>6, <1>3
    <3>4. wire'[1] = wire[1] /\ wire # <<>> BY <3>3, <1>7
    <3>5. QED BY <3>4 DEF ReaderAt
  <2>2. rs.st \notin {"ReadLen", "ReadData"} => FALSE BY <1>u DEF ReaderAt
  <2>3. QED BY <2>1, <2>2, <1>u, <1>8, <1>9, <1>10 DEF ReaderAt
<1>16. Decrypted' BY <1>u, <1>8 DEF Decrypted
<1>17. QED BY <1>11, <1>12, <1>13, <1>14, <1>15, <1>16

LEMMA StreamNext == StreamInv /\ S!Next => StreamInv'
<1> SUFFICES ASSUME StreamInv, S!Next PROVE StreamInv' OBVIOUS
<1>1. ASSUME NEW k \in 1..MaxWrite, S!noise_poll_write(k) PROVE StreamInv' BY <1>1, NoisePollWrite
<1>2. ASSUME NEW k \in 1..MaxWrite, S!secio_poll_write(k) PROVE StreamInv' BY <1>2, SecioPollWrite
<1>3. ASSUME NEW w \in {"flush", "close"}, S!poll_flush(w) PROVE StreamInv'
  BY <1>3, StreamRests DEF S!poll_flush
<1>4. CASE S!flush_frame BY <1>4, FlushFrame
<1>5. CASE S!flushed
  <2>1. UNCHANGED <<kind, written, send_buffer, frames, ws, wire, rs, recv_buffer, received>>
    BY <1>5 DEF S!flushed
  <2>2. closed' = closed \/ (closed = "no" /\ closed' = "clean" /\ send_buffer = <<>> /\ S!is_ready)
    BY <1>5 DEF S!flushed
  <2>3. QED BY <2>1, <2>2, StreamRests
<1>6. CASE S!IoWrite BY <1>6, IoWriteStep DEF S!IoWrite
<1>7. CASE S!IoRead BY <1>7, IoReadStep DEF S!IoRead
<1>8. CASE S!read_eof BY <1>8, ReadEof
<1>9. CASE S!PollRead BY <1>9, PollReadStep DEF S!PollRead
<1>10. CASE S!Cut BY <1>10, CutStep
<1>11. QED BY <1>1, <1>2, <1>3, <1>4, <1>5, <1>6, <1>7, <1>8, <1>9, <1>10 DEF S!Next

\* Everything that is decrypted has been written.
LEMMA StreamSafe == StreamInv => S!InOrder /\ S!EofMeansAll
<1> SUFFICES ASSUME StreamInv PROVE S!InOrder /\ S!EofMeansAll OBVIOUS
<1> USE DEF StreamInv
<1>1. rs.n \in 0..Len(frames) /\ Len(frames) \in 0..Len(frames)
  <2>1. rs.n \in Nat /\ Len(frames) \in Nat BY DEF StreamType
  <2>2. QED BY <2>1 DEF ReaderAt
<1>2. Upto(rs.n) \in Nat /\ Upto(Len(frames)) \in Nat BY <1>1, UptoNat
<1>3. Upto(rs.n) <= Upto(Len(frames)) BY <1>1 DEF Framed
<1>4. Len(received) \in Nat /\ Len(recv_buffer) \in Nat /\ Len(send_buffer) \in Nat BY DEF StreamType
<1>5. Len(received) <= written BY <1>2, <1>3, <1>4 DEF Framed, Decrypted
<1>6. received = [i \in 1..Len(received) |-> i]
  <2>1. DOMAIN received = 1..Len(received) /\ received = [i \in DOMAIN received |-> received[i]] BY DEF StreamType
  <2>2. \A i \in 1..Len(received) : received[i] = i BY DEF Decrypted
  <2>3. QED BY <2>1, <2>2
<1>7. rs.st # "DecErr" BY DEF StreamType
<1>8. kind = "noise" => \A f \in DOMAIN frames : Len(frames[f]) <= MAX_FRAME_LEN
  <2>1. DOMAIN frames = 1..Len(frames) BY DEF StreamType
  <2>2. QED BY <2>1 DEF Framed
<1>9. S!InOrder BY <1>5, <1>6, <1>7, <1>8 DEF S!InOrder
<1>10. ASSUME rs.st = "Eof", closed = "clean" PROVE Len(received) = written
  <2>1. wire = <<>> /\ recv_buffer = <<>> BY <1>10 DEF ReaderAt
  <2>2. send_buffer = <<>> /\ S!is_ready BY <1>10 DEF WriterAt
  <2>3. rs.n = Len(frames) BY <1>10, <2>1, <2>2 DEF WriterAt
  <2>4. Len(recv_buffer) = 0 /\ Len(send_buffer) = 0 BY <2>1, <2>2
  <2>5. QED BY <2>3, <2>4, <1>2, <1>4 DEF Framed, Decrypted
<1>11. rs.st = "Eof" => Len(rs.hdr) < S!Header /\ rs.body = <<>> BY DEF ReaderAt
<1>12. S!EofMeansAll BY <1>10, <1>11 DEF S!EofMeansAll
<1>13. QED BY <1>9, <1>12

(***************************************************************************)
(* The secure handshakes.                                                  *)
(***************************************************************************)

\* The frames on their way to end s.
FramesTo(s) == {wire[s][i] : i \in DOMAIN wire[s]}

IsFrame(f) == f = [tag |-> f.tag, key |-> f.key, nonce |-> f.nonce, algs |-> f.algs, epub |-> f.epub,
                   sig |-> f.sig, seen |-> f.seen, legacy |-> f.legacy]
IsContext(c) == c = [pc |-> c.pc, remote |-> c.remote, algs |-> c.algs, enc |-> c.enc, dec |-> c.dec,
                     peer |-> c.peer, seen |-> c.seen]

WireType == /\ wire = [s \in H!Sides |-> wire[s]]
            /\ \A s \in H!Sides : \E X : wire[s] \in Seq(X)

HandType ==
  /\ kind \in {"secio", "noise", "plaintext"}
  /\ config \in [H!Sides -> Configs]
  /\ hash \in [Keys \X H!Nonces -> 1..2]
  /\ ctx = [s \in H!Sides |-> ctx[s]] /\ \A s \in H!Sides : IsContext(ctx[s])
  /\ WireType
  /\ \A s \in H!Sides : \A f \in FramesTo(s) : IsFrame(f)

\* secio: an exchange names the propositions its sender has seen, data comes
\* from an end that has the keys ...
SecioFrame(s, f) ==
  /\ f.tag = "exchange" =>
       /\ ctx[H!Other(s)].algs # <<>>
       /\ f.sig = <<config[H!Other(s)].key, H!Propose(H!Other(s)), ctx[H!Other(s)].remote,
                    H!Ephemeral(H!Other(s))>>
  /\ f.tag = "data" => ctx[H!Other(s)].enc # <<>>

\* ... an end that has the keys has seen the other's proposition, and the other
\* has seen this end's ...
Keyed(s) ==
  /\ ctx[s].algs # <<>> /\ ctx[s].remote = H!Propose(H!Other(s))
  /\ ctx[H!Other(s)].algs # <<>> /\ ctx[H!Other(s)].remote = H!Propose(s)
  /\ H!hashes_ordering(s, ctx[s].remote) # "Equal"
  /\ ctx[s].enc = H!infos(s, H!Ephemeral(H!Other(s))).enc
  /\ ctx[s].dec = H!infos(s, H!Ephemeral(H!Other(s))).dec

\* ... and each end goes through the handshake once.
SecioEnd(s) ==
  /\ ctx[s].pc \in {"start", "propose"} => ctx[s].algs = <<>>
  /\ ctx[s].pc \in {"start", "propose", "exchange"} => ctx[s].enc = <<>>
  /\ ctx[s].pc = "exchange" => ctx[s].algs # <<>>
  /\ ctx[s].pc = "nonce" => ctx[s].enc # <<>>
  /\ ctx[s].algs # <<>> =>
       /\ ctx[s].remote.key \in Keys \ {config[s].key}
       /\ ctx[s].algs = H!chosen(s, ctx[s].remote)
  /\ ctx[s].enc # <<>> => Keyed(s)
  /\ H!Done(s) => /\ ctx[s].enc # <<>> /\ ctx[H!Other(s)].enc # <<>>
                  /\ ctx[s].peer = ctx[s].remote.key

SecioInv == kind = "secio" =>
  \A s \in H!Sides : SecioEnd(s) /\ \A f \in FramesTo(s) : SecioFrame(s, f)

\* noise: what b's identity says when it can still be read by a, and a's by b ...
NoiseToA(f) == f.tag = "noise" =>
  /\ f.nonce = "2" /\ f.key = config["b"].key
  /\ ctx["b"].pc \notin {"start", "recv_empty"}
  /\ Len(ctx["b"].seen) >= 2 /\ ctx["b"].seen[2] = f /\ f.seen = <<ctx["b"].seen[1]>>
NoiseToB(f) == f.tag = "noise" /\ f.nonce = "3" =>
  /\ f.key = config["a"].key /\ H!Done("a")
  /\ ctx["a"].seen[3] = f /\ f.seen = <<ctx["a"].seen[1], ctx["a"].seen[2]>>

\* ... and what each end has seen: a is through when b has seen the same two
\* messages, b when a has seen all three.
NoiseEndA ==
  /\ ctx["a"].pc \in {"start", "recv", "done", "failed"}
  /\ ctx["a"].pc = "recv" => ctx["a"].seen = <<ctx["a"].seen[1]>>
  /\ H!Done("a") =>
       /\ ctx["a"].peer = config["b"].key
       /\ ctx["a"].seen = <<ctx["a"].seen[1], ctx["a"].seen[2], ctx["a"].seen[3]>>
       /\ ctx["b"].pc \notin {"start", "recv_empty"}
       /\ Len(ctx["b"].seen) >= 2
       /\ ctx["b"].seen[1] = ctx["a"].seen[1] /\ ctx["b"].seen[2] = ctx["a"].seen[2]
NoiseEndB ==
  /\ ctx["b"].pc \in {"start", "recv_empty", "recv", "done", "failed"}
  /\ ctx["b"].pc = "recv" => ctx["b"].seen = <<ctx["b"].seen[1], ctx["b"].seen[2]>>
  /\ H!Done("b") =>
       /\ ctx["b"].peer = config["a"].key /\ H!Done("a") /\ ctx["b"].seen = ctx["a"].seen

NoiseInv == kind = "noise" =>
  /\ \A f \in FramesTo("a") : NoiseToA(f)
  /\ \A f \in FramesTo("b") : NoiseToB(f)
  /\ NoiseEndA /\ NoiseEndB

PlainInv == kind = "plaintext" => \A s \in H!Sides :
  /\ \A f \in FramesTo(s) : f.tag = "plain" => f.epub \in {config[H!Other(s)].key, "ex"}
  /\ H!Done(s) => ctx[s].peer = config[H!Other(s)].key /\ config[s].key # config[H!Other(s)].key

HandInv == HandType /\ SecioInv /\ NoiseInv /\ PlainInv

LEMMA SideFacts ==
  ASSUME NEW s \in H!Sides
  PROVE  /\ H!Other(s) \in H!Sides /\ H!Other(s) # s /\ H!Other(H!Other(s)) = s
         /\ \A t \in H!Sides : t = s \/ t = H!Other(s)
  BY DEF H!Sides, H!Other

LEMMA HandInitInv == H!Init => HandInv
<1> SUFFICES ASSUME H!Init PROVE HandInv OBVIOUS
<1>1. \A s \in H!Sides : /\ ctx[s] = H!Fresh /\ wire[s] = <<>> BY DEF H!Init
<1>2. \A s \in H!Sides : FramesTo(s) = {} BY <1>1 DEF FramesTo
<1>3. WireType
  <2>1. << >> \in Seq({}) OBVIOUS
  <2>2. \A s \in H!Sides : wire[s] \in Seq({}) BY <2>1, <1>1
  <2>3. wire = [s \in H!Sides |-> wire[s]] BY DEF H!Init
  <2>4. QED BY <2>2, <2>3 DEF WireType
<1>4. \A s \in H!Sides : /\ IsContext(ctx[s]) /\ ctx[s].pc = "start" /\ ctx[s].algs = <<>> /\ ctx[s].enc = <<>>
                         /\ ctx[s].seen = <<>> BY <1>1 DEF H!Fresh, IsContext
<1>5. HandType BY <1>2, <1>3, <1>4 DEF HandType, H!Init
<1>6. SecioInv BY <1>2, <1>4 DEF SecioInv, SecioEnd, H!Done
<1>7. NoiseInv
  <2>1. "a" \in H!Sides /\ "b" \in H!Sides BY DEF H!Sides
  <2>2. QED BY <2>1, <1>2, <1>4 DEF NoiseInv, NoiseEndA, NoiseEndB, H!Done
<1>8. PlainInv BY <1>2, <1>4 DEF PlainInv, H!Done
<1>9. QED BY <1>5, <1>6, <1>7, <1>8 DEF HandInv

\* What appending to a queue and taking from it do to its contents.
LEMMA RangeAppend ==
  ASSUME NEW X, NEW q \in Seq(X), NEW f
  PROVE  /\ Append(q, f) \in Seq(X \union {f})
         /\ \A i \in DOMAIN Append(q, f) : Append(q, f)[i] \in {q[j] : j \in DOMAIN q} \union {f}
<1>1. q \in Seq(X \union {f}) /\ f \in X \union {f}
  <2>1. X \subseteq X \union {f} OBVIOUS
  <2>2. \A i \in 1..Len(q) : q[i] \in X \union {f} OBVIOUS
  <2>3. Len(q) \in Nat /\ q = [i \in 1..Len(q) |-> q[i]] OBVIOUS
  <2>4. QED BY <2>2, <2>3
<1>2. Append(q, f) \in Seq(X \union {f}) BY <1>1
<1>3. DOMAIN Append(q, f) = 1..(Len(q) + 1) /\ DOMAIN q = 1..Len(q) /\ Len(q) \in Nat BY <1>1
<1>4. ASSUME NEW i \in 1..(Len(q) + 1) PROVE Append(q, f)[i] \in {q[j] : j \in DOMAIN q} \union {f}
  <2>1. CASE i = Len(q) + 1 BY <2>1, <1>1
  <2>2. CASE i # Len(q) + 1
    <3>1. i \in DOMAIN q BY <2>2, <1>3
    <3>2. Append(q, f)[i] = q[i] BY <3>1, <1>1
    <3>3. QED BY <3>1, <3>2
  <2>3. QED BY <2>1, <2>2
<1>5. QED BY <1>2, <1>3, <1>4

LEMMA RangeTail ==
  ASSUME NEW X, NEW q \in Seq(X), q # <<>>
  PROVE  /\ Tail(q) \in Seq(X) /\ Head(q) \in {q[j] : j \in DOMAIN q}
         /\ \A i \in DOMAIN Tail(q) : Tail(q)[i] \in {q[j] : j \in DOMAIN q}
<1>1. DOMAIN q = 1..Len(q) /\ Len(q) \in Nat /\ Len(q) # 0 OBVIOUS
<1>2. Tail(q) \in Seq(X) /\ Len(Tail(q)) = Len(q) - 1 OBVIOUS
<1>3. DOMAIN Tail(q) = 1..(Len(q) - 1) BY <1>2
<1>4. ASSUME NEW i \in 1..(Len(q) - 1) PROVE Tail(q)[i] \in {q[j] : j \in DOMAIN q}
  <2>1. i + 1 \in DOMAIN q BY <1>1
  <2>2. Tail(q)[i] = q[i + 1] BY <1>2
  <2>3. QED BY <2>1, <2>2
<1>5. Head(q) \in {q[j] : j \in DOMAIN q}
  <2>1. 1 \in DOMAIN q BY <1>1
  <2>2. Head(q) = q[1] OBVIOUS
  <2>3. QED BY <2>1, <2>2
<1>6. QED BY <1>2, <1>3, <1>4, <1>5

\* End s takes a frame or none and sends one or none.
Moved(s) ==
  /\ wire' = [t \in H!Sides |-> wire'[t]]
  /\ wire'[s] \in {wire[s], <<>>} \/ (wire[s] # <<>> /\ wire'[s] = Tail(wire[s]))

LEMMA Received ==
  ASSUME WireType, NEW s \in H!Sides, Moved(s)
  PROVE  (\E X : wire'[s] \in Seq(X)) /\ FramesTo(s)' \subseteq FramesTo(s)
<1>1. PICK X : wire[s] \in Seq(X) BY DEF WireType
<1>2. PICK q \in Seq(X) : q = wire[s] BY <1>1
<1>3. CASE wire'[s] = wire[s] BY <1>3, <1>1 DEF FramesTo
<1>4. CASE wire'[s] = <<>>
  <2>1. << >> \in Seq(X) OBVIOUS
  <2>2. FramesTo(s)' = {} BY <1>4 DEF FramesTo
  <2>3. QED BY <2>1, <2>2, <1>4
<1>5. CASE wire[s] # <<>> /\ wire'[s] = Tail(wire[s])
  <2>1. /\ Tail(q) \in Seq(X) /\ \A i \in DOMAIN Tail(q) : Tail(q)[i] \in {q[j] : j \in DOMAIN q}
    BY <1>2, <1>5, RangeTail
  <2>2. QED BY <2>1, <1>2, <1>5 DEF FramesTo
<1>6. QED BY <1>3, <1>4, <1>5 DEF Moved

LEMMA Quiet ==
  ASSUME WireType, NEW s \in H!Sides, Moved(s), wire'[H!Other(s)] = wire[H!Other(s)]
  PROVE  WireType' /\ FramesTo(s)' \subseteq FramesTo(s) /\ FramesTo(H!Other(s))' \subseteq FramesTo(H!Other(s))
<1>1. (\E X : wire'[s] \in Seq(X)) /\ FramesTo(s)' \subseteq FramesTo(s) BY Received
<1>2. FramesTo(H!Other(s))' = FramesTo(H!Other(s)) BY DEF FramesTo
<1>3. \E X : wire'[H!Other(s)] \in Seq(X) BY SideFacts DEF WireType
<1>4. \A t \in H!Sides : \E X : wire'[t] \in Seq(X) BY <1>1, <1>3, SideFacts
<1>5. QED BY <1>1, <1>2, <1>4 DEF WireType, Moved

LEMMA Sends ==
  ASSUME WireType, NEW s \in H!Sides, Moved(s), NEW f,
         wire'[H!Other(s)] = IF H!Other(s) \in gone THEN <<>> ELSE Append(wire[H!Other(s)], f)
  PROVE  /\ WireType' /\ FramesTo(s)' \subseteq FramesTo(s)
         /\ FramesTo(H!Other(s))' \subseteq FramesTo(H!Other(s)) \union {f}
<1>1. (\E X : wire'[s] \in Seq(X)) /\ FramesTo(s)' \subseteq FramesTo(s) BY Received
<1>2. PICK X : wire[H!Other(s)] \in Seq(X) BY SideFacts DEF WireType
<1>3. PICK q \in Seq(X) : q = wire[H!Other(s)] BY <1>2
<1>4. (\E Y : wire'[H!Other(s)] \in Seq(Y)) /\ FramesTo(H!Other(s))' \subseteq FramesTo(H!Other(s)) \union {f}
  <2>1. CASE H!Other(s) \in gone
    <3>1. wire'[H!Other(s)] = <<>> /\ << >> \in Seq(X) BY <2>1
    <3>2. FramesTo(H!Other(s))' = {}
      <4>1. DOMAIN << >> = {} OBVIOUS
      <4>2. PICK w : w = wire'[H!Other(s)] OBVIOUS
      <4>3. FramesTo(H!Other(s))' = {w[i] : i \in DOMAIN w} BY <4>2 DEF FramesTo
      <4>4. QED BY ONLY <4>1, <4>2, <4>3, <3>1
    <3>3. QED BY <3>1, <3>2
  <2>2. CASE H!Other(s) \notin gone
    <3>1. wire'[H!Other(s)] = Append(q, f) BY <2>2, <1>3
    <3>2. /\ Append(q, f) \in Seq(X \union {f})
          /\ \A i \in DOMAIN Append(q, f) : Append(q, f)[i] \in {q[j] : j \in DOMAIN q} \union {f}
      BY RangeAppend
    <3>3. FramesTo(H!Other(s))' \subseteq FramesTo(H!Other(s)) \union {f} BY <3>1, <3>2, <1>3 DEF FramesTo
    <3>4. QED BY <3>1, <3>2, <3>3
  <2>3. QED BY <2>1, <2>2
<1>5. \A t \in H!Sides : \E Y : wire'[t] \in Seq(Y) BY <1>1, <1>4, SideFacts
<1>6. QED BY <1>1, <1>4, <1>5 DEF WireType, Moved

\* What a step of end s may do to the frames under way.
OnlyTakes(s) ==
  /\ WireType' /\ FramesTo(s)' \subseteq FramesTo(s) /\ FramesTo(H!Other(s))' \subseteq FramesTo(H!Other(s))
TakesAndSends(s, f) ==
  /\ WireType' /\ FramesTo(s)' \subseteq FramesTo(s)
  /\ FramesTo(H!Other(s))' \subseteq FramesTo(H!Other(s)) \union {f}

LEMMA WireSend ==
  ASSUME WireType, NEW s \in H!Sides, NEW f, wire' = H!Send(s, f)
  PROVE  TakesAndSends(s, f)
<1>1. wire = [t \in H!Sides |-> wire[t]] BY DEF WireType
<1>2. H!Other(s) \in H!Sides /\ H!Other(s) # s BY SideFacts
<1>3. wire'[s] = wire[s] BY <1>1, <1>2 DEF H!Send
<1>4. wire'[H!Other(s)] = IF H!Other(s) \in gone THEN <<>> ELSE Append(wire[H!Other(s)], f)
  BY <1>1, <1>2 DEF H!Send
<1>5. wire' = [t \in H!Sides |-> wire'[t]] BY <1>1 DEF H!Send
<1>6. Moved(s) BY <1>3, <1>5 DEF Moved
<1>7. QED BY <1>4, <1>6, Sends DEF TakesAndSends

LEMMA WireTook ==
  ASSUME WireType, NEW s \in H!Sides, wire[s] # <<>>, wire' = H!Took(s)
  PROVE  OnlyTakes(s)
<1>1. wire = [t \in H!Sides |-> wire[t]] BY DEF WireType
<1>2. H!Other(s) \in H!Sides /\ H!Other(s) # s BY SideFacts
<1>3. wire'[s] = Tail(wire[s]) BY <1>1 DEF H!Took
<1>4. wire'[H!Other(s)] = wire[H!Other(s)] BY <1>1, <1>2 DEF H!Took
<1>5. wire' = [t \in H!Sides |-> wire'[t]] BY <1>1 DEF H!Took
<1>6. Moved(s) BY <1>3, <1>5 DEF Moved
<1>7. QED BY <1>4, <1>6, Quiet DEF OnlyTakes

LEMMA WireTookAndSent ==
  ASSUME WireType, NEW s \in H!Sides, NEW f, wire[s] # <<>>, wire' = H!TookAndSent(s, f)
  PROVE  TakesAndSends(s, f)
<1>1. wire = [t \in H!Sides |-> wire[t]] BY DEF WireType
<1>2. H!Other(s) \in H!Sides /\ H!Other(s) # s BY SideFacts
<1>3. PICK w : w = H!Took(s) OBVIOUS
<1>4. w = [t \in H!Sides |-> w[t]] /\ w[s] = Tail(wire[s]) /\ w[H!Other(s)] = wire[H!Other(s)]
  BY <1>1, <1>2, <1>3 DEF H!Took
<1>5. wire' = [w EXCEPT ![H!Other(s)] = IF H!Other(s) \in gone THEN <<>> ELSE Append(@, f)]
  BY <1>3 DEF H!TookAndSent
<1>6. wire'[s] = Tail(wire[s]) BY <1>2, <1>4, <1>5
<1>7. wire'[H!Other(s)] = IF H!Other(s) \in gone THEN <<>> ELSE Append(wire[H!Other(s)], f)
  BY <1>2, <1>4, <1>5
<1>8. wire' = [t \in H!Sides |-> wire'[t]] BY <1>4, <1>5
<1>9. Moved(s) BY <1>6, <1>8 DEF Moved
<1>10. QED BY <1>7, <1>9, Sends DEF TakesAndSends

LEMMA WireDropped ==
  ASSUME WireType, NEW s \in H!Sides, wire' = [wire EXCEPT ![s] = <<>>]
  PROVE  OnlyTakes(s)
<1>1. wire = [t \in H!Sides |-> wire[t]] BY DEF WireType
<1>2. H!Other(s) \in H!Sides /\ H!Other(s) # s BY SideFacts
<1>3. wire'[s] = <<>> BY <1>1
<1>4. wire'[H!Other(s)] = wire[H!Other(s)] BY <1>1, <1>2
<1>5. wire' = [t \in H!Sides |-> wire'[t]] BY <1>1
<1>6. Moved(s) BY <1>3, <1>5 DEF Moved
<1>7. QED BY <1>4, <1>6, Quiet DEF OnlyTakes

LEMMA WireStays ==
  ASSUME WireType, NEW s \in H!Sides, wire' = wire
  PROVE  OnlyTakes(s)
<1>1. Moved(s) BY DEF WireType, Moved
<1>2. QED BY <1>1, Quiet DEF OnlyTakes

LEMMA HeadIsFrame ==
  ASSUME HandType, NEW s \in H!Sides, wire[s] # <<>>
  PROVE  Head(wire[s]) \in FramesTo(s) /\ IsFrame(Head(wire[s]))
<1>1. PICK X : wire[s] \in Seq(X) BY DEF HandType, WireType
<1>2. PICK q \in Seq(X) : q = wire[s] BY <1>1
<1>3. Head(q) \in {q[j] : j \in DOMAIN q} BY <1>2, RangeTail
<1>4. QED BY <1>2, <1>3 DEF FramesTo, HandType

\* A damaged frame keeps its signature and what it has seen, and its tag if it
\* can still be parsed; what is sealed cannot be read any more.
LEMMA DamagedFrame ==
  ASSUME NEW f, IsFrame(f), NEW g \in H!Damaged(f)
  PROVE  /\ IsFrame(g) /\ g.sig = f.sig /\ g.seen = f.seen
         /\ g.tag = "garbage" \/ (g.tag = f.tag /\ ~H!Sealed(f))
         /\ g.epub \in {f.epub, "ex"} /\ g.nonce \in {f.nonce, "nx"}
<1> USE DEF IsFrame
<1>1. CASE H!Sealed(f) BY <1>1 DEF H!Damaged
<1>2. CASE ~H!Sealed(f)
  <2>1. CASE g = [f EXCEPT !.tag = "garbage"] BY <2>1
  <2>2. CASE g = [f EXCEPT !.nonce = "nx"] BY <2>2, <1>2
  <2>3. CASE g = [f EXCEPT !.epub = "ex"] BY <2>3, <1>2
  <2>4. ASSUME NEW k \in Keys, g = [f EXCEPT !.key = k]
        PROVE  IsFrame(g) /\ g.sig = f.sig /\ g.seen = f.seen /\ g.tag = f.tag /\ g.epub = f.epub /\ g.nonce = f.nonce
    BY <2>4
  <2>5. ASSUME NEW x, g = [f EXCEPT !.algs = x]
        PROVE  IsFrame(g) /\ g.sig = f.sig /\ g.seen = f.seen /\ g.tag = f.tag /\ g.epub = f.epub /\ g.nonce = f.nonce
    BY <2>5
  <2>6. \/ g = [f EXCEPT !.tag = "garbage"] \/ g = [f EXCEPT !.nonce = "nx"] \/ g = [f EXCEPT !.epub = "ex"]
        \/ \E k \in Keys : g = [f EXCEPT !.key = k]
        \/ \E x : g = [f EXCEPT !.algs = x]
    BY <1>2 DEF H!Damaged
  <2>7. QED BY <2>1, <2>2, <2>3, <2>4, <2>5, <2>6, <1>2
<1>3. QED BY <1>1, <1>2

LEMMA CorruptFrames ==
  ASSUME HandType, NEW s \in H!Sides, H!Corrupt(s)
  PROVE  /\ WireType' /\ FramesTo(H!Other(s))' = FramesTo(H!Other(s))
         /\ \E f \in FramesTo(s) : \E g \in H!Damaged(f) :
              IsFrame(f) /\ FramesTo(s)' \subseteq FramesTo(s) \union {g}
<1>1. PICK X : wire[s] \in Seq(X) BY DEF HandType, WireType
<1>2. PICK q \in Seq(X) : q = wire[s] BY <1>1
<1>3. PICK g \in H!Damaged(q[Len(q)]) : wire' = [wire EXCEPT ![s][Len(q)] = g]
  BY <1>2 DEF H!Corrupt, H!Last
<1>4. q # <<>> BY <1>2 DEF H!Corrupt
<1>5. Len(q) \in Nat /\ Len(q) # 0 /\ DOMAIN q = 1..Len(q) /\ q = [i \in 1..Len(q) |-> q[i]] BY <1>4
<1>6. Len(q) \in DOMAIN q BY <1>5
<1>7. q[Len(q)] \in FramesTo(s) /\ IsFrame(q[Len(q)]) BY <1>2, <1>6 DEF FramesTo, HandType
<1>8. wire = [t \in H!Sides |-> wire[t]] BY DEF HandType, WireType
<1>9. wire'[s] = [q EXCEPT ![Len(q)] = g] BY <1>2, <1>3, <1>8
<1>10. wire' = [t \in H!Sides |-> wire'[t]] BY <1>3, <1>8
<1>11. H!Other(s) \in H!Sides /\ H!Other(s) # s /\ wire'[H!Other(s)] = wire[H!Other(s)]
  BY <1>3, <1>8, SideFacts
<1>12. FramesTo(H!Other(s))' = FramesTo(H!Other(s)) BY <1>11 DEF FramesTo
<1>13. PICK r : r = [q EXCEPT ![Len(q)] = g] OBVIOUS
<1>14. DOMAIN r = 1..Len(q) /\ \A i \in 1..Len(q) : r[i] \in {q[j] : j \in DOMAIN q} \union {g} BY <1>13, <1>5
<1>15. r \in Seq(X \union {g})
  <2>1. \A i \in 1..Len(q) : r[i] \in X \union {g} BY <1>13, <1>5
  <2>2. r = [i \in 1..Len(q) |-> r[i]] BY <1>13, <1>5
  <2>3. QED BY <2>1, <2>2, <1>5
<1>16. WireType'
  <2>1. \E Y : wire'[s] \in Seq(Y) BY <1>15, <1>13, <1>9
  <2>2. \E Y : wire'[H!Other(s)] \in Seq(Y) BY <1>11 DEF HandType, WireType
  <2>3. \A t \in H!Sides : \E Y : wire'[t] \in Seq(Y) BY <2>1, <2>2, SideFacts
  <2>4. QED BY <2>3, <1>10 DEF WireType
<1>17. FramesTo(s)' \subseteq FramesTo(s) \union {g} BY <1>14, <1>13, <1>9, <1>2 DEF FramesTo
<1>18. QED BY <1>7, <1>12, <1>16, <1>17

\* A step of end s leaves it with context c, and the other end alone.
Context(s, c) ==
  /\ ctx' = [t \in H!Sides |-> ctx'[t]] /\ ctx'[s] = c
  /\ ctx'[H!Other(s)] = ctx[H!Other(s)] /\ IsContext(c)

Fixed == UNCHANGED <<kind, config, hash>>

LEMMA TypeKept ==
  ASSUME HandType, Fixed, NEW s \in H!Sides, NEW c, Context(s, c), NEW f, IsFrame(f),
         OnlyTakes(s) \/ TakesAndSends(s, f)
  PROVE  HandType'
<1>1. \A t \in H!Sides : IsContext(ctx'[t])
  BY SideFacts DEF Context, HandType
<1>2. WireType' BY DEF OnlyTakes, TakesAndSends
<1>3. \A t \in H!Sides : \A g \in FramesTo(t)' : IsFrame(g)
  <2>1. \A g \in FramesTo(s)' : g \in FramesTo(s) BY DEF OnlyTakes, TakesAndSends
  <2>2. \A g \in FramesTo(H!Other(s))' : g \in FramesTo(H!Other(s)) \/ g = f BY DEF OnlyTakes, TakesAndSends
  <2>3. \A t \in H!Sides : \A g \in FramesTo(t) : IsFrame(g) BY DEF HandType
  <2>4. H!Other(s) \in H!Sides /\ \A t \in H!Sides : t = s \/ t = H!Other(s) BY SideFacts
  <2>5. QED BY <2>1, <2>2, <2>3, <2>4
<1>4. ctx' = [t \in H!Sides |-> ctx'[t]] BY DEF Context
<1>5. kind' = kind /\ config' = config /\ hash' = hash BY DEF Fixed
<1>6. kind' \in {"secio", "noise", "plaintext"} /\ config' \in [H!Sides -> Configs]
      /\ hash' \in [Keys \X H!Nonces -> 1..2] BY <1>5 DEF HandType
<1>7. \A t \in H!Sides : IsContext(ctx[t])' BY <1>1 DEF IsContext
<1>8. QED BY <1>2, <1>3, <1>4, <1>6, <1>7 DEF HandType

LEMMA FixedOps ==
  ASSUME Fixed
  PROVE  /\ \A t : H!Propose(t)' = H!Propose(t)
         /\ \A t, p : H!hashes_ordering(t, p)' = H!hashes_ordering(t, p) /\ H!chosen(t, p)' = H!chosen(t, p)
<1>1. config' = config /\ hash' = hash BY DEF Fixed
<1>2. \A t : H!Propose(t)' = H!Propose(t) BY <1>1 DEF H!Propose
<1>3. \A t, p : H!hashes_ordering(t, p)' = H!hashes_ordering(t, p) BY <1>1 DEF H!hashes_ordering
<1>4. \A t, p : H!chosen(t, p)' = H!chosen(t, p)
  BY <1>1, <1>3 DEF H!chosen, H!chosen_exchange, H!chosen_cipher, H!chosen_hash
<1>5. QED BY <1>2, <1>3, <1>4

LEMMA FailStep ==
  ASSUME HandType, NEW s \in H!Sides, H!Fail(s)
  PROVE  /\ OnlyTakes(s)
         /\ Context(s, [pc |-> "failed", remote |-> ctx[s].remote, algs |-> ctx[s].algs, enc |-> ctx[s].enc,
                        dec |-> ctx[s].dec, peer |-> ctx[s].peer, seen |-> ctx[s].seen])
<1>1. OnlyTakes(s) BY WireDropped DEF H!Fail, HandType
<1>2. ctx' = [ctx EXCEPT ![s].pc = "failed"] BY DEF H!Fail
<1>3. ctx = [t \in H!Sides |-> ctx[t]] /\ IsContext(ctx[s]) BY DEF HandType
<1>4. H!Other(s) \in H!Sides /\ H!Other(s) # s BY SideFacts
<1>5. ctx' = [t \in H!Sides |-> ctx'[t]] /\ ctx'[H!Other(s)] = ctx[H!Other(s)] BY <1>2, <1>3, <1>4
<1>6. ctx'[s] = [ctx[s] EXCEPT !.pc = "failed"] BY <1>2, <1>3
<1>7. QED BY <1>1, <1>3, <1>5, <1>6 DEF Context, IsContext

(***************************************************************************)
(* secio                                                                   *)
(***************************************************************************)

\* End s keeps what it has agreed on.
SameSecrets(s, c) ==
  Context(s, c) /\ c.remote = ctx[s].remote /\ c.algs = ctx[s].algs /\ c.enc = ctx[s].enc /\ c.dec = ctx[s].dec

LEMMA SecioSame ==
  ASSUME Fixed, NEW s \in H!Sides, NEW c, SameSecrets(s, c)
  PROVE  \A t \in H!Sides : (Keyed(t)' <=> Keyed(t)) /\ (\A f : SecioFrame(t, f)' <=> SecioFrame(t, f))
<1>1. \A t \in H!Sides : /\ ctx'[t].remote = ctx[t].remote /\ ctx'[t].algs = ctx[t].algs
                         /\ ctx'[t].enc = ctx[t].enc /\ ctx'[t].dec = ctx[t].dec
  BY SideFacts DEF SameSecrets, Context
<1>2. \A t \in H!Sides : H!Other(t) \in H!Sides BY SideFacts
<1>3. config' = config BY DEF Fixed
<1>4. /\ \A t : H!Propose(t)' = H!Propose(t)
      /\ \A t, p : H!hashes_ordering(t, p)' = H!hashes_ordering(t, p) BY FixedOps
<1>5. ASSUME NEW t \in H!Sides PROVE \A e : H!infos(t, e)' = H!infos(t, e)
  <2>1. ctx'[t].remote = ctx[t].remote /\ ctx'[t].algs = ctx[t].algs BY <1>1
  <2>2. H!hashes_ordering(t, ctx[t].remote)' = H!hashes_ordering(t, ctx[t].remote) BY <2>1, <1>4
  <2>3. QED BY <2>1, <2>2 DEF H!infos
<1>6. ASSUME NEW t \in H!Sides PROVE Keyed(t)' <=> Keyed(t)
  <2>1. H!hashes_ordering(t, ctx[t].remote)' = H!hashes_ordering(t, ctx[t].remote) BY <1>1, <1>4
  <2>2. H!infos(t, H!Ephemeral(H!Other(t)))' = H!infos(t, H!Ephemeral(H!Other(t))) BY <1>5
  <2>3. H!Propose(t)' = H!Propose(t) /\ H!Propose(H!Other(t))' = H!Propose(H!Other(t)) BY <1>4
  <2>4. QED BY <2>1, <2>2, <2>3, <1>1, <1>2 DEF Keyed
<1>7. ASSUME NEW t \in H!Sides, NEW f PROVE SecioFrame(t, f)' <=> SecioFrame(t, f)
  <2>1. H!Propose(H!Other(t))' = H!Propose(H!Other(t)) BY <1>4
  <2>2. QED BY <2>1, <1>1, <1>2, <1>3 DEF SecioFrame
<1>8. QED BY <1>6, <1>7

LEMMA SecioEndSame ==
  ASSUME HandInv, kind = "secio", Fixed, NEW s \in H!Sides, NEW c, SameSecrets(s, c),
         \/ c.pc = "failed"
         \/ c.pc = "propose" /\ ctx[s].pc = "start"
         \/ c.pc = "done" /\ ctx[s].enc # <<>> /\ ctx[H!Other(s)].enc # <<>> /\ c.peer = ctx[s].remote.key
  PROVE  \A t \in H!Sides : SecioEnd(t)'
<1>0. \A t \in H!Sides : SecioEnd(t) BY DEF HandInv, SecioInv
<1>1. \A t \in H!Sides : Keyed(t)' <=> Keyed(t) BY SecioSame
<1>2. \A t, p : H!chosen(t, p)' = H!chosen(t, p) BY FixedOps
<1>3. config' = config BY DEF Fixed
<1>4. H!Other(s) \in H!Sides /\ H!Other(H!Other(s)) = s /\ \A t \in H!Sides : t = s \/ t = H!Other(s) BY SideFacts
<1>5. /\ ctx'[s] = c /\ c.remote = ctx[s].remote /\ c.algs = ctx[s].algs /\ c.enc = ctx[s].enc
      /\ ctx'[H!Other(s)] = ctx[H!Other(s)] BY DEF SameSecrets, Context
<1>6. SecioEnd(s)'
  <2>1. H!chosen(s, ctx[s].remote)' = H!chosen(s, ctx[s].remote) BY <1>2, <1>5
  <2>2. SecioEnd(s) BY <1>0
  <2>3. Keyed(s)' <=> Keyed(s) BY <1>1
  <2>4. QED BY <2>1, <2>2, <2>3, <1>3, <1>5 DEF SecioEnd, H!Done
<1>7. SecioEnd(H!Other(s))'
  <2>0. PICK o \in H!Sides : o = H!Other(s) BY <1>4
  <2>1. H!chosen(o, ctx[o].remote)' = H!chosen(o, ctx[o].remote) BY <1>2, <1>5, <2>0
  <2>2. SecioEnd(o) BY <1>0
  <2>3. Keyed(o)' <=> Keyed(o) BY <1>1
  <2>4. ctx'[o] = ctx[o] /\ H!Other(o) = s /\ ctx'[s].enc = ctx[s].enc BY <2>0, <1>4, <1>5
  <2>5. SecioEnd(o)' BY <2>1, <2>2, <2>3, <2>4, <1>3 DEF SecioEnd, H!Done
  <2>6. QED BY <2>5, <2>0
<1>8. QED BY <1>4, <1>6, <1>7

\* The frames that remain are as they were, and a frame that is sent is a good one.
LEMMA SecioFrames ==
  ASSUME HandInv, kind = "secio", NEW s \in H!Sides, NEW f,
         OnlyTakes(s) \/ TakesAndSends(s, f),
         \A t \in H!Sides : \A g \in FramesTo(t) : SecioFrame(t, g) => SecioFrame(t, g)',
         SecioFrame(H!Other(s), f)'
  PROVE  \A t \in H!Sides : \A g \in FramesTo(t)' : SecioFrame(t, g)'
<1>1. \A t \in H!Sides : \A g \in FramesTo(t) : SecioFrame(t, g) BY DEF HandInv, SecioInv
<1>2. FramesTo(s)' \subseteq FramesTo(s) BY DEF OnlyTakes, TakesAndSends
<1>3. FramesTo(H!Other(s))' \subseteq FramesTo(H!Other(s)) \union {f} BY DEF OnlyTakes, TakesAndSends
<1>4. H!Other(s) \in H!Sides /\ \A t \in H!Sides : t = s \/ t = H!Other(s) BY SideFacts
<1>5. \A g \in FramesTo(s)' : SecioFrame(s, g)' BY <1>1, <1>2
<1>6. \A g \in FramesTo(H!Other(s))' : SecioFrame(H!Other(s), g)' BY <1>1, <1>3, <1>4
<1>7. QED BY <1>4, <1>5, <1>6

\* A step that leaves the secrets alone.
LEMMA SecioPlainStep ==
  ASSUME HandInv, kind = "secio", Fixed, NEW s \in H!Sides, NEW c, SameSecrets(s, c),
         \/ c.pc = "failed"
         \/ c.pc = "propose" /\ ctx[s].pc = "start"
         \/ c.pc = "done" /\ ctx[s].enc # <<>> /\ ctx[H!Other(s)].enc # <<>> /\ c.peer = ctx[s].remote.key,
         NEW f, IsFrame(f), f.tag \notin {"exchange", "data"},
         OnlyTakes(s) \/ TakesAndSends(s, f)
  PROVE  HandInv'
<1>1. HandType'
  <2>1. Context(s, c) /\ HandType BY DEF SameSecrets, HandInv
  <2>2. QED BY <2>1, TypeKept
<1>2. \A t \in H!Sides : SecioEnd(t)' BY SecioEndSame
<1>3. \A t \in H!Sides : \A g \in FramesTo(t)' : SecioFrame(t, g)'
  <2>1. \A t \in H!Sides : \A g : SecioFrame(t, g)' <=> SecioFrame(t, g) BY SecioSame
  <2>2. SecioFrame(H!Other(s), f)' BY DEF SecioFrame
  <2>3. QED BY <2>1, <2>2, SecioFrames
<1>4. kind' = "secio" BY DEF Fixed
<1>5. SecioInv' BY <1>2, <1>3 DEF SecioInv
<1>6. NoiseInv' /\ PlainInv' BY <1>4 DEF NoiseInv, PlainInv
<1>7. QED BY <1>1, <1>5, <1>6 DEF HandInv

LEMMA NothingIsFrame == IsFrame(H!Nothing) /\ H!Nothing.tag = "none"
  BY DEF IsFrame, H!Nothing

LEMMA ProposeIsFrame ==
  ASSUME NEW s
  PROVE  /\ IsFrame(H!Propose(s)) /\ H!Propose(s).tag = "propose" /\ H!Propose(s).key = config[s].key
         /\ H!Propose(s).nonce = H!Nonce(s)
         /\ H!Propose(s).algs = <<config[s].exchanges, config[s].ciphers, config[s].hashes>>
<1>1. PICK x : x = <<config[s].exchanges, config[s].ciphers, config[s].hashes>> OBVIOUS
<1>2. H!Propose(s) = [H!Nothing EXCEPT !.tag = "propose", !.key = config[s].key, !.nonce = H!Nonce(s), !.algs = x]
  BY <1>1 DEF H!Propose
<1>3. /\ IsFrame(H!Propose(s)) /\ H!Propose(s).tag = "propose" /\ H!Propose(s).key = config[s].key
      /\ H!Propose(s).nonce = H!Nonce(s) /\ H!Propose(s).algs = x
  BY <1>2 DEF IsFrame, H!Nothing
<1>4. QED BY <1>1, <1>3

LEMMA SecioFail ==
  ASSUME HandInv, kind = "secio", Fixed, NEW s \in H!Sides, H!Fail(s)
  PROVE  HandInv'
<1>1. PICK c : c = [pc |-> "failed", remote |-> ctx[s].remote, algs |-> ctx[s].algs, enc |-> ctx[s].enc,
                    dec |-> ctx[s].dec, peer |-> ctx[s].peer, seen |-> ctx[s].seen] OBVIOUS
<1>2. OnlyTakes(s) /\ Context(s, c) BY <1>1, FailStep DEF HandInv
<1>3. SameSecrets(s, c) /\ c.pc = "failed" BY <1>1, <1>2 DEF SameSecrets
<1>4. PICK f : f = H!Nothing OBVIOUS
<1>5. IsFrame(f) /\ f.tag \notin {"exchange", "data"} BY <1>4, NothingIsFrame
<1>6. QED BY <1>2, <1>3, <1>5, SecioPlainStep

LEMMA SecioStart ==
  ASSUME HandInv, NEW s \in H!Sides, H!secio_start(s)
  PROVE  HandInv'
<1>0. /\ kind = "secio" /\ ctx[s].pc = "start" /\ wire' = H!Send(s, H!Propose(s))
      /\ ctx' = [ctx EXCEPT ![s].pc = "propose"] BY DEF H!secio_start
<1>f. Fixed BY DEF H!secio_start, H!Keep, Fixed
<1>1. PICK c : c = [pc |-> "propose", remote |-> ctx[s].remote, algs |-> ctx[s].algs, enc |-> ctx[s].enc,
                    dec |-> ctx[s].dec, peer |-> ctx[s].peer, seen |-> ctx[s].seen] OBVIOUS
<1>2. Context(s, c)
  <2>1. ctx = [t \in H!Sides |-> ctx[t]] /\ IsContext(ctx[s]) BY DEF HandType, HandInv
  <2>2. H!Other(s) \in H!Sides /\ H!Other(s) # s BY SideFacts
  <2>3. ctx' = [t \in H!Sides |-> ctx'[t]] /\ ctx'[H!Other(s)] = ctx[H!Other(s)] BY <1>0, <2>1, <2>2
  <2>4. ctx'[s] = [ctx[s] EXCEPT !.pc = "propose"] BY <1>0, <2>1
  <2>5. QED BY <1>1, <2>1, <2>3, <2>4 DEF Context, IsContext
<1>3. SameSecrets(s, c) /\ c.pc = "propose" BY <1>1, <1>2 DEF SameSecrets
<1>4. PICK f : f = H!Propose(s) OBVIOUS
<1>5. IsFrame(f) /\ f.tag \notin {"exchange", "data"} BY <1>4, ProposeIsFrame
<1>6. TakesAndSends(s, f) BY <1>0, <1>4, WireSend DEF HandInv, HandType
<1>7. QED BY <1>0, <1>f, <1>3, <1>5, <1>6, SecioPlainStep

LEMMA SecioVerifyNonce ==
  ASSUME HandInv, NEW s \in H!Sides, H!verify_nonce(s)
  PROVE  HandInv'
<1>0. kind = "secio" /\ ctx[s].pc = "nonce" /\ wire[s] # <<>> BY DEF H!verify_nonce, H!At
<1>f. Fixed BY DEF H!verify_nonce, H!Keep, Fixed
<1>1. CASE H!Fail(s) BY <1>0, <1>f, <1>1, SecioFail
<1>2. CASE ~H!Fail(s)
  <2>0. /\ Head(wire[s]).tag = "data" /\ wire' = H!Took(s)
        /\ ctx' = [ctx EXCEPT ![s].pc = "done", ![s].peer = ctx[s].remote.key]
    BY <1>2 DEF H!verify_nonce, H!make_secure_output
  <2>1. PICK c : c = [pc |-> "done", remote |-> ctx[s].remote, algs |-> ctx[s].algs, enc |-> ctx[s].enc,
                      dec |-> ctx[s].dec, peer |-> ctx[s].remote.key, seen |-> ctx[s].seen] OBVIOUS
  <2>2. Context(s, c)
    <3>1. ctx = [t \in H!Sides |-> ctx[t]] /\ IsContext(ctx[s]) BY DEF HandType, HandInv
    <3>2. H!Other(s) \in H!Sides /\ H!Other(s) # s BY SideFacts
    <3>3. ctx' = [t \in H!Sides |-> ctx'[t]] /\ ctx'[H!Other(s)] = ctx[H!Other(s)] BY <2>0, <3>1, <3>2
    <3>4. ctx'[s] = [ctx[s] EXCEPT !.pc = "done", !.peer = ctx[s].remote.key] BY <2>0, <3>1
    <3>5. QED BY <2>1, <3>1, <3>3, <3>4 DEF Context, IsContext
  <2>3. SameSecrets(s, c) /\ c.pc = "done" /\ c.peer = ctx[s].remote.key BY <2>1, <2>2 DEF SameSecrets
  <2>4. Head(wire[s]) \in FramesTo(s) BY <1>0, HeadIsFrame DEF HandInv
  <2>5. SecioFrame(s, Head(wire[s])) /\ SecioEnd(s) BY <2>4, <1>0 DEF HandInv, SecioInv
  <2>6. ctx[s].enc # <<>> /\ ctx[H!Other(s)].enc # <<>> BY <2>5, <2>0, <1>0 DEF SecioFrame, SecioEnd
  <2>7. PICK f : f = H!Nothing OBVIOUS
  <2>8. IsFrame(f) /\ f.tag \notin {"exchange", "data"} BY <2>7, NothingIsFrame
  <2>9. OnlyTakes(s) BY <2>0, <1>0, WireTook DEF HandInv, HandType
  <2>10. QED BY <1>0, <1>f, <2>3, <2>6, <2>8, <2>9, SecioPlainStep
<1>3. QED BY <1>1, <1>2

LEMMA SecioWithRemote ==
  ASSUME HandInv, NEW s \in H!Sides, H!with_remote(s)
  PROVE  HandInv'
<1>0. kind = "secio" /\ ctx[s].pc = "propose" /\ wire[s] # <<>> BY DEF H!with_remote, H!At
<1>f. Fixed BY DEF H!with_remote, H!Keep, Fixed
<1>1. CASE H!Fail(s) BY <1>0, <1>f, <1>1, SecioFail
<1>2. CASE ~H!Fail(s)
  <2>p. PICK p : p = Head(wire[s]) OBVIOUS
  <2>0. /\ p.key # config[s].key /\ p.key \in Keys
        /\ ctx' = [ctx EXCEPT ![s].pc = "exchange", ![s].remote = p, ![s].algs = H!chosen(s, p)]
        /\ wire' = H!TookAndSent(s, H!Exchange(s, p))
    BY <1>2, <2>p DEF H!with_remote
  <2>1. PICK c : c = [pc |-> "exchange", remote |-> p, algs |-> H!chosen(s, p), enc |-> ctx[s].enc,
                      dec |-> ctx[s].dec, peer |-> ctx[s].peer, seen |-> ctx[s].seen] OBVIOUS
  <2>s. H!Other(s) \in H!Sides /\ H!Other(s) # s /\ H!Other(H!Other(s)) = s
        /\ \A t \in H!Sides : t = s \/ t = H!Other(s) BY SideFacts
  <2>2. Context(s, c)
    <3>1. ctx = [t \in H!Sides |-> ctx[t]] /\ IsContext(ctx[s]) BY DEF HandType, HandInv
    <3>3. ctx' = [t \in H!Sides |-> ctx'[t]] /\ ctx'[H!Other(s)] = ctx[H!Other(s)] BY <2>0, <3>1, <2>s
    <3>4. ctx'[s] = [ctx[s] EXCEPT !.pc = "exchange", !.remote = p, !.algs = H!chosen(s, p)] BY <2>0, <3>1
    <3>5. QED BY <2>1, <3>1, <3>3, <3>4 DEF Context, IsContext
  <2>3. PICK f : f = H!Exchange(s, p) OBVIOUS
  <2>4. /\ IsFrame(f) /\ f.tag = "exchange"
        /\ f.sig = <<config[s].key, H!Propose(s), p, H!Ephemeral(s)>>
    BY <2>3 DEF H!Exchange, H!Nothing, IsFrame
  <2>5. TakesAndSends(s, f) BY <2>0, <2>3, <1>0, WireTookAndSent DEF HandInv, HandType
  <2>6. HandType' BY <2>2, <2>4, <2>5, <1>f, TypeKept DEF HandInv
  <2>7. ctx[s].algs = <<>> /\ ctx[s].enc = <<>> BY <1>0 DEF HandInv, SecioInv, SecioEnd
  <2>8. c.algs # <<>>
    <3>1. H!chosen(s, p) # <<>> BY DEF H!chosen
    <3>2. QED BY <3>1, <2>1
  <2>9. ctx'[s] = c /\ ctx'[H!Other(s)] = ctx[H!Other(s)] BY <2>2 DEF Context
  <2>10. /\ \A t : H!Propose(t)' = H!Propose(t)
         /\ \A t, q : H!chosen(t, q)' = H!chosen(t, q) BY <1>f, FixedOps
  <2>11. config' = config /\ kind' = "secio" BY <1>f, <1>0 DEF Fixed
  <2>12. SecioEnd(s)'
    <3>1. H!chosen(s, ctx[s].remote)' = H!chosen(s, p) BY <2>10, <2>9, <2>1
    <3>2. QED BY <3>1, <2>0, <2>1, <2>7, <2>8, <2>9, <2>11 DEF SecioEnd, H!Done
  <2>13. SecioEnd(H!Other(s))'
    <3>0. PICK o \in H!Sides : o = H!Other(s) /\ H!Other(o) = s BY <2>s
    <3>1. H!chosen(o, ctx[o].remote)' = H!chosen(o, ctx[o].remote) BY <2>9, <2>10, <3>0
    <3>2. SecioEnd(o) BY <1>0 DEF HandInv, SecioInv
    <3>3. ctx[o].enc = <<>> /\ ~H!Done(o) BY <3>0, <3>2, <2>7 DEF SecioEnd, Keyed
    <3>4. ctx'[o] = ctx[o] BY <2>9, <3>0
    <3>5. SecioEnd(o)' BY <3>1, <3>2, <3>3, <3>4, <2>11 DEF SecioEnd, H!Done
    <3>6. QED BY <3>0, <3>5
  <2>14. SecioFrame(H!Other(s), f)' BY <2>s, <2>1, <2>4, <2>8, <2>9, <2>10, <2>11 DEF SecioFrame
  <2>15. \A t \in H!Sides : \A g \in FramesTo(t) : SecioFrame(t, g) => SecioFrame(t, g)'
    <3>1. ASSUME NEW g, SecioFrame(s, g) PROVE SecioFrame(s, g)'
      BY <3>1, <2>9, <2>10, <2>11 DEF SecioFrame
    <3>2. ASSUME NEW g, SecioFrame(H!Other(s), g) PROVE SecioFrame(H!Other(s), g)'
      BY <3>2, <2>s, <2>7, <2>9 DEF SecioFrame
    <3>3. QED BY <3>1, <3>2, <2>s
  <2>16. \A t \in H!Sides : \A g \in FramesTo(t)' : SecioFrame(t, g)'
    BY <2>5, <2>14, <2>15, <1>0, SecioFrames
  <2>17. SecioInv' BY <2>12, <2>13, <2>16, <2>s DEF SecioInv
  <2>18. NoiseInv' /\ PlainInv' BY <2>11 DEF NoiseInv, PlainInv
  <2>19. QED BY <2>6, <2>17, <2>18 DEF HandInv
<1>3. QED BY <1>1, <1>2

LEMMA SecioVerifyExchange ==
  ASSUME HandInv, NEW s \in H!Sides, H!verify_exchange(s)
  PROVE  HandInv'
<1>0. kind = "secio" /\ ctx[s].pc = "exchange" /\ wire[s] # <<>> BY DEF H!verify_exchange, H!At
<1>f. Fixed BY DEF H!verify_exchange, H!Keep, Fixed
<1>1. CASE H!Fail(s) BY <1>0, <1>f, <1>1, SecioFail
<1>2. CASE ~H!Fail(s)
  <2>h. PICK h : h = Head(wire[s]) OBVIOUS
  <2>r. PICK r : r = ctx[s].remote OBVIOUS
  <2>k. PICK k : k = H!infos(s, h.epub) OBVIOUS
  <2>0. /\ h.tag = "exchange" /\ h.sig = <<r.key, r, H!Propose(s), h.epub>> /\ H!hashes_ordering(s, r) # "Equal"
        /\ ctx' = [ctx EXCEPT ![s].pc = "nonce", ![s].enc = k.enc, ![s].dec = k.dec]
        /\ wire' = H!TookAndSent(s, [H!Nothing EXCEPT !.tag = "data", !.nonce = r.nonce, !.sig = k.enc])
    BY <1>2, <2>h, <2>r, <2>k DEF H!verify_exchange
  <2>1. PICK c : c = [pc |-> "nonce", remote |-> r, algs |-> ctx[s].algs, enc |-> k.enc,
                      dec |-> k.dec, peer |-> ctx[s].peer, seen |-> ctx[s].seen] OBVIOUS
  <2>s. H!Other(s) \in H!Sides /\ H!Other(s) # s /\ H!Other(H!Other(s)) = s
        /\ \A t \in H!Sides : t = s \/ t = H!Other(s) BY SideFacts
  <2>2. Context(s, c)
    <3>1. ctx = [t \in H!Sides |-> ctx[t]] /\ IsContext(ctx[s]) BY DEF HandType, HandInv
    <3>3. ctx' = [t \in H!Sides |-> ctx'[t]] /\ ctx'[H!Other(s)] = ctx[H!Other(s)] BY <2>0, <3>1, <2>s
    <3>4. ctx'[s] = [ctx[s] EXCEPT !.pc = "nonce", !.enc = k.enc, !.dec = k.dec] BY <2>0, <3>1
    <3>5. QED BY <2>1, <2>r, <3>1, <3>3, <3>4 DEF Context, IsContext
  <2>3. PICK f : f = [H!Nothing EXCEPT !.tag = "data", !.nonce = r.nonce, !.sig = k.enc] OBVIOUS
  <2>4. IsFrame(f) /\ f.tag = "data" BY <2>3 DEF H!Nothing, IsFrame
  <2>5. TakesAndSends(s, f) BY <2>0, <2>3, <1>0, WireTookAndSent DEF HandInv, HandType
  <2>6. HandType' BY <2>2, <2>4, <2>5, <1>f, TypeKept DEF HandInv
  <2>7. h \in FramesTo(s) BY <2>h, <1>0, HeadIsFrame DEF HandInv
  <2>8. SecioFrame(s, h) /\ SecioEnd(s) BY <2>7, <1>0 DEF HandInv, SecioInv
  <2>9. /\ ctx[H!Other(s)].algs # <<>>
        /\ h.sig = <<config[H!Other(s)].key, H!Propose(H!Other(s)), ctx[H!Other(s)].remote, H!Ephemeral(H!Other(s))>>
    BY <2>8, <2>0 DEF SecioFrame
  <2>10. r = H!Propose(H!Other(s)) /\ ctx[H!Other(s)].remote = H!Propose(s) /\ h.epub = H!Ephemeral(H!Other(s))
    BY <2>0, <2>9
  <2>11. ctx[s].algs # <<>>
    BY <2>8, <1>0 DEF SecioEnd
  <2>12. k.enc # <<>>
    <3>1. PICK q, x : q = H!agree(H!Ephemeral(s), h.epub) /\ x = ctx[s].algs OBVIOUS
    <3>2. k.enc = <<q, x, 1>> \/ k.enc = <<q, x, 2>>
      BY <2>k, <3>1 DEF H!infos, H!stretch_key
    <3>3. QED BY <3>2
  <2>13. ctx'[s] = c /\ ctx'[H!Other(s)] = ctx[H!Other(s)] BY <2>2 DEF Context
  <2>14. /\ \A t : H!Propose(t)' = H!Propose(t)
         /\ \A t, q : H!chosen(t, q)' = H!chosen(t, q) /\ H!hashes_ordering(t, q)' = H!hashes_ordering(t, q)
    BY <1>f, FixedOps
  <2>15. config' = config /\ kind' = "secio" BY <1>f, <1>0 DEF Fixed
  <2>16. c.remote = r /\ c.algs = ctx[s].algs /\ c.enc = k.enc /\ c.dec = k.dec /\ c.pc = "nonce" BY <2>1
  <2>17. \A t \in H!Sides : \A e : H!infos(t, e)' = H!infos(t, e)
    <3>1. ASSUME NEW e PROVE H!infos(s, e)' = H!infos(s, e)
      <4>1. ctx'[s].remote = r /\ ctx'[s].algs = ctx[s].algs BY <2>13, <2>16
      <4>2. H!hashes_ordering(s, ctx[s].remote)' = H!hashes_ordering(s, ctx[s].remote) BY <4>1, <2>r, <2>14
      <4>3. QED BY <4>1, <4>2 DEF H!infos
    <3>2. PICK o \in H!Sides : o = H!Other(s) BY <2>s
    <3>3. ASSUME NEW e PROVE H!infos(o, e)' = H!infos(o, e)
      <4>1. ctx'[o] = ctx[o] BY <2>13, <3>2
      <4>2. H!hashes_ordering(o, ctx[o].remote)' = H!hashes_ordering(o, ctx[o].remote) BY <4>1, <2>14
      <4>3. QED BY <4>1, <4>2 DEF H!infos
    <3>4. QED BY <3>1, <3>2, <3>3, <2>s
  <2>18. Keyed(s)'
    <3>1. H!hashes_ordering(s, ctx[s].remote)' # "Equal" BY <2>0, <2>13, <2>14, <2>16
    <3>2. H!infos(s, H!Ephemeral(H!Other(s)))' = k BY <2>17, <2>10, <2>k
    <3>3. /\ ctx'[s].algs # <<>> /\ ctx'[s].remote = H!Propose(H!Other(s))'
          /\ ctx'[H!Other(s)].algs # <<>> /\ ctx'[H!Other(s)].remote = H!Propose(s)'
      BY <2>9, <2>10, <2>11, <2>13, <2>14, <2>16
    <3>4. QED BY <3>1, <3>2, <3>3, <2>13, <2>16 DEF Keyed
  <2>19. SecioEnd(s)'
    <3>1. H!chosen(s, ctx[s].remote)' = H!chosen(s, ctx[s].remote) BY <2>13, <2>14, <2>16, <2>r
    <3>2. ctx'[s].remote = ctx[s].remote /\ ctx'[s].algs = ctx[s].algs /\ ctx'[s].enc # <<>> /\ ctx'[s].pc = "nonce"
      BY <2>12, <2>13, <2>16, <2>r
    <3>3. QED BY <3>1, <3>2, <2>8, <2>11, <2>15, <2>18 DEF SecioEnd, H!Done
  <2>20. SecioEnd(H!Other(s))'
    <3>0. PICK o \in H!Sides : o = H!Other(s) /\ H!Other(o) = s BY <2>s
    <3>1. H!chosen(o, ctx[o].remote)' = H!chosen(o, ctx[o].remote) BY <2>13, <2>14, <3>0
    <3>2. SecioEnd(o) BY <1>0 DEF HandInv, SecioInv
    <3>3. ctx'[o] = ctx[o] BY <2>13, <3>0
    <3>4. Keyed(o) => Keyed(o)'
      <4>1. H!hashes_ordering(o, ctx[o].remote)' = H!hashes_ordering(o, ctx[o].remote) BY <3>3, <2>14
      <4>2. H!infos(o, H!Ephemeral(s))' = H!infos(o, H!Ephemeral(s)) BY <2>17
      <4>3. ctx'[s].algs = ctx[s].algs /\ ctx'[s].remote = ctx[s].remote BY <2>13, <2>16, <2>r
      <4>4. H!Propose(o)' = H!Propose(o) /\ H!Propose(s)' = H!Propose(s) BY <2>14
      <4>5. QED BY <4>1, <4>2, <4>3, <4>4, <3>0, <3>3 DEF Keyed
    <3>5. ctx'[s].enc # <<>> BY <2>12, <2>13, <2>16
    <3>6. SecioEnd(o)' BY <3>0, <3>1, <3>2, <3>3, <3>4, <3>5, <2>15 DEF SecioEnd, H!Done
    <3>7. QED BY <3>0, <3>6
  <2>21. SecioFrame(H!Other(s), f)' BY <2>s, <2>4, <2>12, <2>13, <2>16 DEF SecioFrame
  <2>22. \A t \in H!Sides : \A g \in FramesTo(t) : SecioFrame(t, g) => SecioFrame(t, g)'
    <3>1. ASSUME NEW g, SecioFrame(s, g) PROVE SecioFrame(s, g)'
      BY <3>1, <2>13, <2>14, <2>15 DEF SecioFrame
    <3>2. ASSUME NEW g, SecioFrame(H!Other(s), g) PROVE SecioFrame(H!Other(s), g)'
      <4>1. ctx'[s].algs = ctx[s].algs /\ ctx'[s].remote = ctx[s].remote /\ ctx'[s].enc # <<>>
        BY <2>12, <2>13, <2>16, <2>r
      <4>2. H!Propose(s)' = H!Propose(s) BY <2>14
      <4>3. QED BY <3>2, <4>1, <4>2, <2>s, <2>15 DEF SecioFrame
    <3>3. QED BY <3>1, <3>2, <2>s
  <2>23. \A t \in H!Sides : \A g \in FramesTo(t)' : SecioFrame(t, g)'
    BY <2>5, <2>21, <2>22, <1>0, SecioFrames
  <2>24. SecioInv' BY <2>19, <2>20, <2>23, <2>s DEF SecioInv
  <2>25. NoiseInv' /\ PlainInv' BY <2>15 DEF NoiseInv, PlainInv
  <2>26. QED BY <2>6, <2>24, <2>25 DEF HandInv
<1>3. QED BY <1>1, <1>2

(***************************************************************************)
(* plaintext                                                               *)
(***************************************************************************)

LEMMA PlainStep ==
  ASSUME HandInv, kind = "plaintext", Fixed, NEW s \in H!Sides, NEW c, Context(s, c),
         c.pc = "done" => c.peer = config[H!Other(s)].key /\ config[s].key # config[H!Other(s)].key,
         NEW f, IsFrame(f), f.tag = "plain" => f.epub = config[s].key,
         OnlyTakes(s) \/ TakesAndSends(s, f)
  PROVE  HandInv'
<1>1. HandType' BY TypeKept DEF HandInv
<1>2. H!Other(s) \in H!Sides /\ H!Other(H!Other(s)) = s /\ \A t \in H!Sides : t = s \/ t = H!Other(s) BY SideFacts
<1>3. config' = config /\ kind' = kind BY DEF Fixed
<1>4. FramesTo(s)' \subseteq FramesTo(s) BY DEF OnlyTakes, TakesAndSends
<1>5. FramesTo(H!Other(s))' \subseteq FramesTo(H!Other(s)) \union {f} BY DEF OnlyTakes, TakesAndSends
<1>6. \A t \in H!Sides : /\ \A g \in FramesTo(t) : g.tag = "plain" => g.epub \in {config[H!Other(t)].key, "ex"}
                         /\ H!Done(t) => ctx[t].peer = config[H!Other(t)].key /\ config[t].key # config[H!Other(t)].key
  BY DEF HandInv, PlainInv
<1>7. ctx'[s] = c /\ ctx'[H!Other(s)] = ctx[H!Other(s)] BY DEF Context
<1>8. \A g \in FramesTo(s)' : g.tag = "plain" => g.epub \in {config[H!Other(s)].key, "ex"} BY <1>4, <1>6
<1>9. \A g \in FramesTo(H!Other(s))' : g.tag = "plain" => g.epub \in {config[H!Other(H!Other(s))].key, "ex"}
  BY <1>2, <1>5, <1>6
<1>10. H!Done(s)' => ctx'[s].peer = config[H!Other(s)].key /\ config[s].key # config[H!Other(s)].key
  BY <1>7 DEF H!Done
<1>11. H!Done(H!Other(s))' => /\ ctx'[H!Other(s)].peer = config[H!Other(H!Other(s))].key
                              /\ config[H!Other(s)].key # config[H!Other(H!Other(s))].key
  <2>1. H!Done(H!Other(s))' => H!Done(H!Other(s)) BY <1>7 DEF H!Done
  <2>2. QED BY <2>1, <1>2, <1>6, <1>7
<1>12. PlainInv' BY <1>2, <1>3, <1>8, <1>9, <1>10, <1>11 DEF PlainInv
<1>13. SecioInv' /\ NoiseInv' BY <1>3 DEF SecioInv, NoiseInv
<1>14. QED BY <1>1, <1>12, <1>13 DEF HandInv

LEMMA PlainFail ==
  ASSUME HandInv, kind = "plaintext", Fixed, NEW s \in H!Sides, H!Fail(s)
  PROVE  HandInv'
<1>1. PICK c : c = [pc |-> "failed", remote |-> ctx[s].remote, algs |-> ctx[s].algs, enc |-> ctx[s].enc,
                    dec |-> ctx[s].dec, peer |-> ctx[s].peer, seen |-> ctx[s].seen] OBVIOUS
<1>2. OnlyTakes(s) /\ Context(s, c) BY <1>1, FailStep DEF HandInv
<1>3. c.pc # "done" BY <1>1
<1>4. PICK f : f = H!Nothing OBVIOUS
<1>5. IsFrame(f) /\ f.tag # "plain" BY <1>4, NothingIsFrame
<1>6. QED BY <1>2, <1>3, <1>5, PlainStep

LEMMA PlainStart ==
  ASSUME HandInv, NEW s \in H!Sides, H!plaintext_start(s)
  PROVE  HandInv'
<1>f. Fixed BY DEF H!plaintext_start, H!Keep, Fixed
<1>1. PICK f : f = [H!Nothing EXCEPT !.tag = "plain", !.key = config[s].key, !.epub = config[s].key] OBVIOUS
<1>2. kind = "plaintext" /\ ctx' = [ctx EXCEPT ![s].pc = "remote"] /\ wire' = H!Send(s, f)
  BY <1>1 DEF H!plaintext_start
<1>3. IsFrame(f) /\ f.epub = config[s].key BY <1>1 DEF IsFrame, H!Nothing
<1>4. TakesAndSends(s, f) BY <1>2, WireSend DEF HandInv, HandType
<1>5. PICK c : c = [ctx[s] EXCEPT !.pc = "remote"] OBVIOUS
<1>6. Context(s, c) /\ c.pc # "done"
  <2>1. ctx = [t \in H!Sides |-> ctx[t]] /\ IsContext(ctx[s]) BY DEF HandType, HandInv
  <2>2. H!Other(s) \in H!Sides /\ H!Other(s) # s BY SideFacts
  <2>3. ctx' = [t \in H!Sides |-> ctx'[t]] /\ ctx'[H!Other(s)] = ctx[H!Other(s)] BY <1>2, <2>1, <2>2
  <2>4. ctx'[s] = c BY <1>2, <1>5, <2>1
  <2>5. IsContext(c) /\ c.pc = "remote" BY <1>5, <2>1 DEF IsContext
  <2>6. QED BY <2>3, <2>4, <2>5 DEF Context
<1>7. QED BY <1>f, <1>2, <1>3, <1>4, <1>6, PlainStep

LEMMA PlainRemote ==
  ASSUME HandInv, NEW s \in H!Sides, H!plaintext_remote(s)
  PROVE  HandInv'
<1>0. kind = "plaintext" /\ wire[s] # <<>> BY DEF H!plaintext_remote, H!At
<1>f. Fixed BY DEF H!plaintext_remote, H!Keep, Fixed
<1>1. CASE H!Fail(s) BY <1>0, <1>f, <1>1, PlainFail
<1>2. CASE ~H!Fail(s)
  <2>1. PICK h : h = Head(wire[s]) OBVIOUS
  <2>2. /\ h.tag = "plain" /\ h.key \in Keys /\ h.epub = h.key /\ h.key # config[s].key
        /\ ctx' = [ctx EXCEPT ![s].pc = "done", ![s].peer = h.key] /\ wire' = H!Took(s)
    BY <1>2, <2>1 DEF H!plaintext_remote, H!PlainTextOutput, H!ConnectSelf
  <2>3. h \in FramesTo(s) BY <1>0, <2>1, HeadIsFrame DEF HandInv
  <2>4. h.epub \in {config[H!Other(s)].key, "ex"} BY <2>2, <2>3, <1>0 DEF HandInv, PlainInv
  <2>5. h.key = config[H!Other(s)].key BY <2>2, <2>4, SecureKeys
  <2>6. PICK c : c = [ctx[s] EXCEPT !.pc = "done", !.peer = h.key] OBVIOUS
  <2>7. Context(s, c) /\ c.peer = h.key
    <3>1. ctx = [t \in H!Sides |-> ctx[t]] /\ IsContext(ctx[s]) BY DEF HandType, HandInv
    <3>2. H!Other(s) \in H!Sides /\ H!Other(s) # s BY SideFacts
    <3>3. ctx' = [t \in H!Sides |-> ctx'[t]] /\ ctx'[H!Other(s)] = ctx[H!Other(s)] BY <2>2, <3>1, <3>2
    <3>4. ctx'[s] = c BY <2>2, <2>6, <3>1
    <3>5. IsContext(c) /\ c.peer = h.key BY <2>6, <3>1 DEF IsContext
    <3>6. QED BY <3>3, <3>4, <3>5 DEF Context
  <2>8. PICK f : f = H!Nothing OBVIOUS
  <2>9. IsFrame(f) /\ f.tag # "plain" BY <2>8, NothingIsFrame
  <2>10. OnlyTakes(s) BY <2>2, <1>0, WireTook DEF HandInv, HandType
  <2>11. QED BY <1>0, <1>f, <2>2, <2>5, <2>7, <2>9, <2>10, PlainStep
<1>3. QED BY <1>1, <1>2

(***************************************************************************)
(* A damaged frame.                                                        *)
(***************************************************************************)

LEMMA CorruptStep ==
  ASSUME HandInv, NEW s \in H!Sides, H!Corrupt(s)
  PROVE  HandInv'
<1>u. UNCHANGED <<kind, config, hash, ctx>> BY DEF H!Corrupt
<1>f. Fixed BY <1>u DEF Fixed
<1>t. HandType BY DEF HandInv
<1>1. /\ WireType' /\ FramesTo(H!Other(s))' = FramesTo(H!Other(s))
      /\ \E f \in FramesTo(s) : \E g \in H!Damaged(f) :
           IsFrame(f) /\ FramesTo(s)' \subseteq FramesTo(s) \union {g} BY <1>t, CorruptFrames
<1>2. PICK f \in FramesTo(s) : \E g \in H!Damaged(f) :
           IsFrame(f) /\ FramesTo(s)' \subseteq FramesTo(s) \union {g} BY <1>1
<1>3. PICK g \in H!Damaged(f) : IsFrame(f) /\ FramesTo(s)' \subseteq FramesTo(s) \union {g} BY <1>2
<1>4. /\ IsFrame(g) /\ g.sig = f.sig /\ g.seen = f.seen
      /\ g.tag = "garbage" \/ (g.tag = f.tag /\ ~H!Sealed(f))
      /\ g.epub \in {f.epub, "ex"} /\ g.nonce \in {f.nonce, "nx"} BY <1>3, DamagedFrame
<1>5. H!Other(s) \in H!Sides /\ H!Other(H!Other(s)) = s /\ \A t \in H!Sides : t = s \/ t = H!Other(s) BY SideFacts
<1>6. \A t \in H!Sides : \A x \in FramesTo(t)' : x \in FramesTo(t) \/ (t = s /\ x = g) BY <1>1, <1>3, <1>5
<1>7. HandType'
  <2>1. \A t \in H!Sides : \A x \in FramesTo(t)' : IsFrame(x) BY <1>4, <1>6, <1>t DEF HandType
  <2>2. \A t \in H!Sides : IsContext(ctx[t])' BY <1>u, <1>t DEF HandType, IsContext
  <2>3. QED BY <2>1, <2>2, <1>1, <1>u, <1>t DEF HandType
<1>8. SecioInv'
  <2>1. SUFFICES ASSUME kind' = "secio" PROVE \A t \in H!Sides : SecioEnd(t)' /\ \A x \in FramesTo(t)' : SecioFrame(t, x)'
    BY DEF SecioInv
  <2>2. \A t \in H!Sides : SecioEnd(t) /\ \A x \in FramesTo(t) : SecioFrame(t, x) BY <2>1, <1>u DEF HandInv, SecioInv
  <2>3. \A t \in H!Sides : (Keyed(t)' <=> Keyed(t)) /\ (\A x : SecioFrame(t, x)' <=> SecioFrame(t, x))
    <3>1. PICK c : c = ctx[s] OBVIOUS
    <3>2. SameSecrets(s, c) BY <3>1, <1>u, <1>t, <1>5 DEF SameSecrets, Context, HandType
    <3>3. QED BY <3>2, <1>f, SecioSame
  <2>4. SecioFrame(s, g)
    <3>1. SecioFrame(s, f) BY <2>2
    <3>2. QED BY <3>1, <1>4 DEF SecioFrame, H!Sealed
  <2>5. \A t, p : H!chosen(t, p)' = H!chosen(t, p) BY <1>f, FixedOps
  <2>6. ASSUME NEW t \in H!Sides PROVE SecioEnd(t)'
    <3>1. SecioEnd(t) /\ (Keyed(t)' <=> Keyed(t)) BY <2>2, <2>3
    <3>2. H!chosen(t, ctx[t].remote)' = H!chosen(t, ctx[t].remote) BY <2>5, <1>u
    <3>3. QED BY <3>1, <3>2, <1>u DEF SecioEnd, H!Done
  <2>7. QED BY <2>2, <2>3, <2>4, <2>6, <1>6
<1>9. PlainInv'
  <2>1. SUFFICES ASSUME kind' = "plaintext" PROVE PlainInv' BY DEF PlainInv
  <2>2. \A x \in FramesTo(s) : x.tag = "plain" => x.epub \in {config[H!Other(s)].key, "ex"}
    BY <2>1, <1>u DEF HandInv, PlainInv
  <2>3. g.tag = "plain" => g.epub \in {config[H!Other(s)].key, "ex"} BY <2>2, <1>4
  <2>4. \A t \in H!Sides : \A x \in FramesTo(t)' : x.tag = "plain" => x.epub \in {config[H!Other(t)].key, "ex"}
    BY <2>1, <2>3, <1>6, <1>u DEF HandInv, PlainInv
  <2>5. \A t \in H!Sides : H!Done(t)' => ctx'[t].peer = config[H!Other(t)].key /\ config[t].key # config[H!Other(t)].key
    BY <2>1, <1>u DEF HandInv, PlainInv, H!Done
  <2>6. QED BY <2>4, <2>5, <1>u DEF PlainInv
<1>10. NoiseInv'
  <2>1. SUFFICES ASSUME kind' = "noise" PROVE NoiseInv' BY DEF NoiseInv
  <2>2. NoiseInv /\ kind = "noise" BY <2>1, <1>u DEF HandInv
  <2>3. ASSUME s = "a" PROVE g.tag # "noise" BY <2>2, <2>3, <1>4 DEF NoiseInv, NoiseToA, H!Sealed
  <2>4. ASSUME s = "b" PROVE ~(g.tag = "noise" /\ g.nonce = "3") BY <2>2, <2>4, <1>4 DEF NoiseInv, NoiseToB, H!Sealed
  <2>5. "a" \in H!Sides /\ "b" \in H!Sides BY DEF H!Sides
  <2>6. \A x \in FramesTo("a")' : x.tag = "noise" => x \in FramesTo("a") BY <2>3, <2>5, <1>6
  <2>7. \A x \in FramesTo("b")' : x.tag = "noise" /\ x.nonce = "3" => x \in FramesTo("b") BY <2>4, <2>5, <1>6
  <2>8. QED BY <2>2, <2>6, <2>7, <1>u DEF NoiseInv, NoiseToA, NoiseToB, NoiseEndA, NoiseEndB, H!Done
<1>11. QED BY <1>7, <1>8, <1>9, <1>10 DEF HandInv

(***************************************************************************)
(* noise                                                                   *)
(***************************************************************************)

LEMMA AB == /\ "a" \in H!Sides /\ "b" \in H!Sides /\ H!Other("a") = "b" /\ H!Other("b") = "a"
            /\ \A s \in H!Sides : s = "a" \/ s = "b"
  BY DEF H!Sides, H!Other

\* A step of an end, as far as the other invariants are concerned.
LEMMA NoiseRest ==
  ASSUME HandInv, kind = "noise", Fixed, NEW s \in H!Sides, NEW c, Context(s, c), NEW f, IsFrame(f),
         OnlyTakes(s) \/ TakesAndSends(s, f),
         \A g \in FramesTo("a")' : NoiseToA(g)', \A g \in FramesTo("b")' : NoiseToB(g)',
         NoiseEndA', NoiseEndB'
  PROVE  HandInv'
<1>1. HandType' BY TypeKept DEF HandInv
<1>2. NoiseInv' BY DEF NoiseInv
<1>3. kind' = "noise" BY DEF Fixed
<1>4. SecioInv' /\ PlainInv' BY <1>3 DEF SecioInv, PlainInv
<1>5. QED BY <1>1, <1>2, <1>4 DEF HandInv

LEMMA NoiseFail ==
  ASSUME HandInv, kind = "noise", Fixed, NEW s \in H!Sides, ~H!Done(s), H!Fail(s)
  PROVE  HandInv'
<1>1. PICK c : c = [pc |-> "failed", remote |-> ctx[s].remote, algs |-> ctx[s].algs, enc |-> ctx[s].enc,
                    dec |-> ctx[s].dec, peer |-> ctx[s].peer, seen |-> ctx[s].seen] OBVIOUS
<1>2. OnlyTakes(s) /\ Context(s, c) BY <1>1, FailStep DEF HandInv
<1>3. PICK f : f = H!Nothing OBVIOUS
<1>4. IsFrame(f) BY <1>3, NothingIsFrame
<1>5. /\ \A g \in FramesTo("a") : NoiseToA(g)
      /\ \A g \in FramesTo("b") : NoiseToB(g)
      /\ NoiseEndA /\ NoiseEndB BY DEF HandInv, NoiseInv
<1>6. FramesTo("a")' \subseteq FramesTo("a") /\ FramesTo("b")' \subseteq FramesTo("b")
  BY <1>2, AB DEF OnlyTakes
<1>7. ctx'[s] = c /\ ctx'[H!Other(s)] = ctx[H!Other(s)] BY <1>2 DEF Context
<1>8. config' = config BY DEF Fixed
<1>9. CASE s = "a"
  <2>1. ctx'["a"] = c /\ ctx'["b"] = ctx["b"] /\ ~H!Done("a") /\ ~H!Done("a")' BY <1>1, <1>7, <1>9, AB DEF H!Done
  <2>2. \A g \in FramesTo("a")' : NoiseToA(g)' BY <2>1, <1>5, <1>6, <1>8 DEF NoiseToA
  <2>3. \A g \in FramesTo("b")' : NoiseToB(g)' BY <2>1, <1>5, <1>6 DEF NoiseToB
  <2>4. NoiseEndA' BY <2>1, <1>1 DEF NoiseEndA
  <2>5. NoiseEndB'
    <3>1. H!Done("b")' => H!Done("b") BY <2>1 DEF H!Done
    <3>2. QED BY <2>1, <3>1, <1>5, <1>8 DEF NoiseEndB
  <2>6. QED BY <1>2, <1>4, <2>2, <2>3, <2>4, <2>5, NoiseRest
<1>10. CASE s = "b"
  <2>1. /\ ctx'["b"] = c /\ ctx'["a"] = ctx["a"] /\ ~H!Done("b")' /\ (H!Done("a")' <=> H!Done("a"))
        /\ c.seen = ctx["b"].seen /\ c.pc = "failed"
    BY <1>1, <1>7, <1>10, AB DEF H!Done
  <2>2. \A g \in FramesTo("a")' : NoiseToA(g)' BY <2>1, <1>5, <1>6, <1>8 DEF NoiseToA
  <2>3. \A g \in FramesTo("b")' : NoiseToB(g)' BY <2>1, <1>5, <1>6, <1>8 DEF NoiseToB
  <2>4. NoiseEndA' BY <2>1, <1>5, <1>8 DEF NoiseEndA
  <2>5. NoiseEndB' BY <2>1 DEF NoiseEndB
  <2>6. QED BY <1>2, <1>4, <2>2, <2>3, <2>4, <2>5, NoiseRest
<1>11. QED BY <1>9, <1>10, AB

LEMMA NoiseStart ==
  ASSUME HandInv, NEW s \in H!Sides, H!noise_start(s)
  PROVE  HandInv'
<1>f. Fixed BY DEF H!noise_start, H!Keep, Fixed
<1>0. kind = "noise" /\ ctx[s].pc = "start" BY DEF H!noise_start
<1>c. ctx = [t \in H!Sides |-> ctx[t]] /\ IsContext(ctx[s]) BY DEF HandType, HandInv
<1>5. /\ \A g \in FramesTo("a") : NoiseToA(g)
      /\ \A g \in FramesTo("b") : NoiseToB(g)
      /\ NoiseEndA /\ NoiseEndB BY <1>0 DEF HandInv, NoiseInv
<1>8. config' = config BY <1>f DEF Fixed
<1>9. CASE s = "a"
  <2>1. PICK f : f = H!Empty(s) OBVIOUS
  <2>2. IsFrame(f) /\ f.nonce = "1" BY <2>1 DEF H!Empty, IsFrame, H!Nothing
  <2>3. ctx' = [ctx EXCEPT ![s].pc = "recv", ![s].seen = <<f>>] /\ wire' = H!Send(s, f)
    BY <2>1, <1>9 DEF H!noise_start, H!initiator
  <2>4. PICK c : c = [ctx[s] EXCEPT !.pc = "recv", !.seen = <<f>>] OBVIOUS
  <2>5. c.pc = "recv" /\ c.seen = <<f>> /\ IsContext(c) BY <2>4, <1>c DEF IsContext
  <2>6. Context(s, c)
    <3>1. H!Other(s) \in H!Sides /\ H!Other(s) # s BY SideFacts
    <3>2. ctx' = [t \in H!Sides |-> ctx'[t]] /\ ctx'[H!Other(s)] = ctx[H!Other(s)] BY <2>3, <3>1, <1>c
    <3>3. ctx'[s] = c BY <2>3, <2>4, <1>c
    <3>4. QED BY <2>5, <3>2, <3>3 DEF Context
  <2>7. TakesAndSends(s, f) BY <2>3, WireSend DEF HandInv, HandType
  <2>8. FramesTo("a")' \subseteq FramesTo("a") /\ FramesTo("b")' \subseteq FramesTo("b") \union {f}
    BY <2>7, <1>9, AB DEF TakesAndSends
  <2>9. ctx'["a"] = c /\ ctx'["b"] = ctx["b"] /\ ~H!Done("a") /\ ~H!Done("a")'
    BY <2>5, <2>6, <1>0, <1>9, AB DEF Context, H!Done
  <2>10. \A g \in FramesTo("a")' : NoiseToA(g)' BY <2>8, <2>9, <1>5, <1>8 DEF NoiseToA
  <2>11. \A g \in FramesTo("b")' : NoiseToB(g)' BY <2>2, <2>8, <2>9, <1>5 DEF NoiseToB
  <2>12. NoiseEndA' BY <2>5, <2>9 DEF NoiseEndA
  <2>13. NoiseEndB'
    <3>1. H!Done("b")' => H!Done("b") BY <2>9 DEF H!Done
    <3>2. QED BY <2>9, <3>1, <1>5, <1>8 DEF NoiseEndB
  <2>14. QED BY <1>0, <1>f, <2>2, <2>6, <2>7, <2>10, <2>11, <2>12, <2>13, NoiseRest
<1>10. CASE s = "b"
  <2>1. PICK f : f = H!Nothing OBVIOUS
  <2>2. IsFrame(f) BY <2>1, NothingIsFrame
  <2>3. ctx' = [ctx EXCEPT ![s].pc = "recv_empty"] /\ wire' = wire
    BY <1>10 DEF H!noise_start, H!initiator
  <2>4. PICK c : c = [ctx[s] EXCEPT !.pc = "recv_empty"] OBVIOUS
  <2>5. c.pc = "recv_empty" /\ IsContext(c) BY <2>4, <1>c DEF IsContext
  <2>6. Context(s, c)
    <3>1. H!Other(s) \in H!Sides /\ H!Other(s) # s BY SideFacts
    <3>2. ctx' = [t \in H!Sides |-> ctx'[t]] /\ ctx'[H!Other(s)] = ctx[H!Other(s)] BY <2>3, <3>1, <1>c
    <3>3. ctx'[s] = c BY <2>3, <2>4, <1>c
    <3>4. QED BY <2>5, <3>2, <3>3 DEF Context
  <2>7. OnlyTakes(s) BY <2>3, WireStays DEF HandInv, HandType
  <2>8. FramesTo("a")' \subseteq FramesTo("a") /\ FramesTo("b")' \subseteq FramesTo("b")
    BY <2>7, <1>10, AB DEF OnlyTakes
  <2>9. ctx'["b"] = c /\ ctx'["a"] = ctx["a"] /\ ~H!Done("b")' /\ (H!Done("a")' <=> H!Done("a")) /\ ctx["b"].pc = "start"
    BY <2>5, <2>6, <1>0, <1>10, AB DEF Context, H!Done
  <2>10. \A g \in FramesTo("a")' : NoiseToA(g)' BY <2>8, <2>9, <1>5 DEF NoiseToA
  <2>11. \A g \in FramesTo("b")' : NoiseToB(g)' BY <2>8, <2>9, <1>5, <1>8 DEF NoiseToB
  <2>12. NoiseEndA' BY <2>9, <1>5 DEF NoiseEndA
  <2>13. NoiseEndB' BY <2>5, <2>9 DEF NoiseEndB
  <2>14. QED BY <1>0, <1>f, <2>2, <2>6, <2>7, <2>10, <2>11, <2>12, <2>13, NoiseRest
<1>11. QED BY <1>9, <1>10, AB

LEMMA NoiseRecvEmpty ==
  ASSUME HandInv, NEW s \in H!Sides, H!recv_empty(s)
  PROVE  HandInv'
<1>f. Fixed BY DEF H!recv_empty, H!Keep, Fixed
<1>0. kind = "noise" /\ ctx[s].pc = "recv_empty" /\ wire[s] # <<>> BY DEF H!recv_empty, H!At
<1>1. CASE H!Fail(s) BY <1>0, <1>f, <1>1, NoiseFail DEF H!Done
<1>2. CASE ~H!Fail(s)
  <2>c. ctx = [t \in H!Sides |-> ctx[t]] /\ IsContext(ctx[s]) BY DEF HandType, HandInv
  <2>e. /\ \A g \in FramesTo("a") : NoiseToA(g)
        /\ \A g \in FramesTo("b") : NoiseToB(g)
        /\ NoiseEndA /\ NoiseEndB BY <1>0 DEF HandInv, NoiseInv
  <2>b. s = "b" BY <1>0, <2>e, AB DEF NoiseEndA
  <2>g. config' = config BY <1>f DEF Fixed
  <2>h. PICK h : h = Head(wire[s]) OBVIOUS
  <2>1. PICK f : f = [H!Identity(s, "2") EXCEPT !.seen = <<h>>] OBVIOUS
  <2>2. IsFrame(f) /\ f.nonce = "2" /\ f.key = config[s].key /\ f.seen = <<h>>
    BY <2>1 DEF H!Identity, IsFrame, H!Nothing
  <2>3. ctx' = [ctx EXCEPT ![s].pc = "recv", ![s].seen = <<h, f>>] /\ wire' = H!TookAndSent(s, f)
    BY <2>1, <2>h, <1>2 DEF H!recv_empty
  <2>4. PICK c : c = [ctx[s] EXCEPT !.pc = "recv", !.seen = <<h, f>>] OBVIOUS
  <2>5. c.pc = "recv" /\ c.seen = <<h, f>> /\ IsContext(c) BY <2>4, <2>c DEF IsContext
  <2>6. Context(s, c)
    <3>1. H!Other(s) \in H!Sides /\ H!Other(s) # s BY SideFacts
    <3>2. ctx' = [t \in H!Sides |-> ctx'[t]] /\ ctx'[H!Other(s)] = ctx[H!Other(s)] BY <2>3, <3>1, <2>c
    <3>3. ctx'[s] = c BY <2>3, <2>4, <2>c
    <3>4. QED BY <2>5, <3>2, <3>3 DEF Context
  <2>7. TakesAndSends(s, f) BY <2>3, <1>0, WireTookAndSent DEF HandInv, HandType
  <2>8. FramesTo("b")' \subseteq FramesTo("b") /\ FramesTo("a")' \subseteq FramesTo("a") \union {f}
    BY <2>7, <2>b, AB DEF TakesAndSends
  <2>9. /\ ctx'["b"] = c /\ ctx'["a"] = ctx["a"] /\ ~H!Done("b")' /\ (H!Done("a")' <=> H!Done("a"))
        /\ ctx["b"].pc = "recv_empty"
    BY <2>5, <2>6, <1>0, <2>b, AB DEF Context, H!Done
  <2>10. ~H!Done("a") /\ ~H!Done("a")' BY <2>9, <2>e DEF NoiseEndA
  <2>11. NoiseToA(f)'
    <3>1. ctx'["b"].seen = <<h, f>> /\ ctx'["b"].pc = "recv" BY <2>5, <2>9
    <3>2. Len(<<h, f>>) >= 2 /\ <<h, f>>[2] = f /\ <<h, f>>[1] = h OBVIOUS
    <3>3. QED BY <3>1, <3>2, <2>2, <2>b, <2>g DEF NoiseToA
  <2>12. \A g \in FramesTo("a")' : NoiseToA(g)'
    <3>1. \A g \in FramesTo("a") : g.tag # "noise" BY <2>e, <2>9 DEF NoiseToA
    <3>2. \A g \in FramesTo("a") : NoiseToA(g)' BY <3>1 DEF NoiseToA
    <3>3. QED BY <3>2, <2>8, <2>11
  <2>13. \A g \in FramesTo("b")' : NoiseToB(g)' BY <2>8, <2>9, <2>10, <2>e DEF NoiseToB
  <2>14. NoiseEndA' BY <2>9, <2>10, <2>e DEF NoiseEndA
  <2>15. NoiseEndB' BY <2>5, <2>9 DEF NoiseEndB
  <2>16. QED BY <1>0, <1>f, <2>2, <2>6, <2>7, <2>12, <2>13, <2>14, <2>15, NoiseRest
<1>3. QED BY <1>1, <1>2

LEMMA AppendOne == ASSUME NEW x, NEW y PROVE Append(<<x>>, y) = <<x, y>>
<1>1. <<x>> \in Seq({x, y}) /\ <<x, y>> \in Seq({x, y}) OBVIOUS
<1>2. Append(<<x>>, y) \in Seq({x, y}) /\ Len(Append(<<x>>, y)) = 2 BY <1>1
<1>3. Append(<<x>>, y)[1] = x /\ Append(<<x>>, y)[2] = y BY <1>1
<1>4. PICK u \in Seq({x, y}), v \in Seq({x, y}) : u = Append(<<x>>, y) /\ v = <<x, y>> BY <1>1, <1>2
<1>5. Len(u) = 2 /\ Len(v) = 2 /\ u[1] = x /\ u[2] = y /\ v[1] = x /\ v[2] = y BY <1>2, <1>3, <1>4
<1>6. \A i \in 1..Len(u) : u[i] = v[i] BY ONLY <1>5
<1>7. QED BY <1>4, <1>5, <1>6, SeqEqual

LEMMA AppendTwo == ASSUME NEW x, NEW y, NEW z PROVE Append(<<x, y>>, z) = <<x, y, z>>
<1>1. <<x, y>> \in Seq({x, y, z}) /\ <<x, y, z>> \in Seq({x, y, z}) OBVIOUS
<1>2. Append(<<x, y>>, z) \in Seq({x, y, z}) /\ Len(Append(<<x, y>>, z)) = 3 BY <1>1
<1>3. Append(<<x, y>>, z)[1] = x /\ Append(<<x, y>>, z)[2] = y /\ Append(<<x, y>>, z)[3] = z BY <1>1
<1>4. PICK u \in Seq({x, y, z}), v \in Seq({x, y, z}) : u = Append(<<x, y>>, z) /\ v = <<x, y, z>> BY <1>1, <1>2
<1>5. /\ Len(u) = 3 /\ Len(v) = 3 /\ u[1] = x /\ u[2] = y /\ v[1] = x /\ v[2] = y
      /\ u[3] = z /\ v[3] = z BY <1>2, <1>3, <1>4
<1>6. \A i \in 1..Len(u) : u[i] = v[i] BY ONLY <1>5
<1>7. QED BY <1>4, <1>5, <1>6, SeqEqual

LEMMA NoiseRecvIdentity ==
  ASSUME HandInv, NEW s \in H!Sides, H!recv_identity(s)
  PROVE  HandInv'
<1>f. Fixed BY DEF H!recv_identity, H!Keep, Fixed
<1>0. kind = "noise" /\ ctx[s].pc = "recv" /\ wire[s] # <<>> BY DEF H!recv_identity, H!At
<1>1. CASE H!Fail(s) BY <1>0, <1>f, <1>1, NoiseFail DEF H!Done
<1>2. CASE ~H!Fail(s)
  <2>c. ctx = [t \in H!Sides |-> ctx[t]] /\ IsContext(ctx[s]) BY DEF HandType, HandInv
  <2>e. /\ \A g \in FramesTo("a") : NoiseToA(g)
        /\ \A g \in FramesTo("b") : NoiseToB(g)
        /\ NoiseEndA /\ NoiseEndB BY <1>0 DEF HandInv, NoiseInv
  <2>g. config' = config BY <1>f DEF Fixed
  <2>h. PICK h : h = Head(wire[s]) OBVIOUS
  <2>m. h \in FramesTo(s) BY <2>h, <1>0, HeadIsFrame DEF HandInv
  <2>s. H!Other(s) \in H!Sides /\ H!Other(s) # s BY SideFacts
  <2>1. CASE s = "a"
    <3>a. PICK x : ctx["a"].seen = <<x>> BY <2>1, <1>0, <2>e DEF NoiseEndA
    <3>0. h.tag = "noise" /\ h.seen = <<x>>
      BY <1>2, <2>h, <2>1, <3>a DEF H!recv_identity, H!Readable, H!initiator
    <3>1. PICK f : f = [H!Identity(s, "3") EXCEPT !.seen = <<x, h>>] OBVIOUS
    <3>2. IsFrame(f) /\ f.nonce = "3" /\ f.key = config[s].key /\ f.seen = <<x, h>>
      BY <3>1 DEF H!Identity, IsFrame, H!Nothing
    <3>q. Append(<<x>>, h) = <<x, h>> /\ Append(<<x, h>>, f) = <<x, h, f>> BY AppendOne, AppendTwo
    <3>r. Append(ctx[s].seen, h) = <<x, h>> BY <3>a, <3>q, <2>1
    <3>3. ctx' = [ctx EXCEPT ![s].pc = "done", ![s].peer = h.key, ![s].seen = <<x, h, f>>] /\ wire' = H!TookAndSent(s, f)
      BY <3>1, <3>q, <3>r, <2>h, <1>2, <2>1 DEF H!recv_identity, H!NoiseStream, H!initiator
    <3>4. PICK c : c = [ctx[s] EXCEPT !.pc = "done", !.peer = h.key, !.seen = <<x, h, f>>] OBVIOUS
    <3>5. c.pc = "done" /\ c.peer = h.key /\ c.seen = <<x, h, f>> /\ IsContext(c) BY <3>4, <2>c DEF IsContext
    <3>6. Context(s, c)
      <4>2. ctx' = [t \in H!Sides |-> ctx'[t]] /\ ctx'[H!Other(s)] = ctx[H!Other(s)] BY <3>3, <2>s, <2>c
      <4>3. ctx'[s] = c BY <3>3, <3>4, <2>c
      <4>4. QED BY <3>5, <4>2, <4>3 DEF Context
    <3>7. TakesAndSends(s, f) BY <3>3, <1>0, WireTookAndSent DEF HandInv, HandType
    <3>8. FramesTo("a")' \subseteq FramesTo("a") /\ FramesTo("b")' \subseteq FramesTo("b") \union {f}
      BY <3>7, <2>1, AB DEF TakesAndSends
    <3>9. ctx'["a"] = c /\ ctx'["b"] = ctx["b"] /\ ~H!Done("a") /\ H!Done("a")'
      BY <3>5, <3>6, <1>0, <2>1, AB DEF Context, H!Done
    <3>10. NoiseToA(h) BY <2>m, <2>1, <2>e
    <3>11. /\ h.key = config["b"].key /\ ctx["b"].pc \notin {"start", "recv_empty"}
           /\ Len(ctx["b"].seen) >= 2 /\ ctx["b"].seen[2] = h /\ ctx["b"].seen[1] = x
      BY <3>0, <3>10 DEF NoiseToA
    <3>12. <<x, h, f>>[1] = x /\ <<x, h, f>>[2] = h /\ <<x, h, f>>[3] = f OBVIOUS
    <3>13. \A g \in FramesTo("a")' : NoiseToA(g)' BY <3>8, <3>9, <2>e, <2>g DEF NoiseToA
    <3>14. NoiseToB(f)' BY <3>2, <3>5, <3>9, <3>12, <2>1, <2>g DEF NoiseToB
    <3>15. \A g \in FramesTo("b")' : NoiseToB(g)'
      <4>1. \A g \in FramesTo("b") : ~(g.tag = "noise" /\ g.nonce = "3") BY <3>9, <2>e DEF NoiseToB
      <4>2. \A g \in FramesTo("b") : NoiseToB(g)' BY <4>1 DEF NoiseToB
      <4>3. QED BY <4>2, <3>8, <3>14
    <3>16. NoiseEndA' BY <3>5, <3>9, <3>11, <3>12, <2>g DEF NoiseEndA
    <3>17. NoiseEndB'
      <4>1. ~H!Done("b") /\ ~H!Done("b")' BY <3>9, <2>e DEF NoiseEndB, H!Done
      <4>2. QED BY <4>1, <3>9, <2>e DEF NoiseEndB
    <3>18. QED BY <1>0, <1>f, <3>2, <3>6, <3>7, <3>13, <3>15, <3>16, <3>17, NoiseRest
  <2>2. CASE s = "b"
    <3>a. PICK x, y : ctx["b"].seen = <<x, y>> BY <2>2, <1>0, <2>e DEF NoiseEndB
    <3>0. h.tag = "noise" /\ h.nonce = "3" /\ h.seen = <<x, y>>
      BY <1>2, <2>h, <2>2, <3>a DEF H!recv_identity, H!Readable, H!initiator
    <3>q. Append(<<x, y>>, h) = <<x, y, h>> BY AppendTwo
    <3>r. Append(ctx[s].seen, h) = <<x, y, h>> BY <3>a, <3>q, <2>2
    <3>3. ctx' = [ctx EXCEPT ![s].pc = "done", ![s].peer = h.key, ![s].seen = <<x, y, h>>] /\ wire' = H!Took(s)
      BY <3>r, <2>h, <1>2, <2>2 DEF H!recv_identity, H!NoiseStream, H!initiator
    <3>4. PICK c : c = [ctx[s] EXCEPT !.pc = "done", !.peer = h.key, !.seen = <<x, y, h>>] OBVIOUS
    <3>5. c.pc = "done" /\ c.peer = h.key /\ c.seen = <<x, y, h>> /\ IsContext(c) BY <3>4, <2>c DEF IsContext
    <3>6. Context(s, c)
      <4>2. ctx' = [t \in H!Sides |-> ctx'[t]] /\ ctx'[H!Other(s)] = ctx[H!Other(s)] BY <3>3, <2>s, <2>c
      <4>3. ctx'[s] = c BY <3>3, <3>4, <2>c
      <4>4. QED BY <3>5, <4>2, <4>3 DEF Context
    <3>7. OnlyTakes(s) BY <3>3, <1>0, WireTook DEF HandInv, HandType
    <3>1. PICK f : f = H!Nothing OBVIOUS
    <3>2. IsFrame(f) BY <3>1, NothingIsFrame
    <3>8. FramesTo("a")' \subseteq FramesTo("a") /\ FramesTo("b")' \subseteq FramesTo("b")
      BY <3>7, <2>2, AB DEF OnlyTakes
    <3>9. ctx'["b"] = c /\ ctx'["a"] = ctx["a"] /\ (H!Done("a")' <=> H!Done("a"))
      BY <3>5, <3>6, <2>2, AB DEF Context, H!Done
    <3>10. NoiseToB(h) BY <2>m, <2>2, <2>e
    <3>11. /\ h.key = config["a"].key /\ H!Done("a") /\ ctx["a"].seen[3] = h
           /\ ctx["a"].seen[1] = x /\ ctx["a"].seen[2] = y
      BY <3>0, <3>10 DEF NoiseToB
    <3>12. ctx["a"].seen = <<x, y, h>> BY <3>11, <2>e DEF NoiseEndA
    <3>13. /\ <<x, y>>[1] = x /\ <<x, y>>[2] = y /\ <<x, y, h>>[1] = x /\ <<x, y, h>>[2] = y
           /\ Len(<<x, y, h>>) >= 2 OBVIOUS
    <3>14. /\ ctx'["b"].seen[1] = ctx["b"].seen[1] /\ ctx'["b"].seen[2] = ctx["b"].seen[2]
           /\ Len(ctx'["b"].seen) >= 2 /\ ctx'["b"].pc = "done" BY <3>13, <3>a, <3>5, <3>9
    <3>15. \A g \in FramesTo("a")' : NoiseToA(g)' BY <3>8, <3>14, <2>e, <2>g DEF NoiseToA
    <3>16. \A g \in FramesTo("b")' : NoiseToB(g)' BY <3>8, <3>9, <2>e, <2>g DEF NoiseToB
    <3>17. NoiseEndA' BY <3>9, <3>14, <2>e, <2>g DEF NoiseEndA
    <3>18. NoiseEndB' BY <3>5, <3>9, <3>11, <3>12, <2>g DEF NoiseEndB
    <3>19. QED BY <1>0, <1>f, <3>2, <3>6, <3>7, <3>15, <3>16, <3>17, <3>18, NoiseRest
  <2>3. QED BY <2>1, <2>2, AB
<1>3. QED BY <1>1, <1>2

LEMMA HandEof ==
  ASSUME HandInv, NEW s \in H!Sides, H!Eof(s)
  PROVE  HandInv'
<1>f. Fixed BY DEF H!Eof, Fixed
<1>1. H!Fail(s) /\ ~H!Done(s) BY DEF H!Eof, H!Done
<1>2. kind \in {"secio", "noise", "plaintext"} BY DEF HandInv, HandType
<1>3. QED BY <1>f, <1>1, <1>2, SecioFail, NoiseFail, PlainFail

LEMMA HandNext == HandInv /\ H!Next => HandInv'
<1> SUFFICES ASSUME HandInv, NEW s \in H!Sides, H!Step(s) \/ H!Corrupt(s) PROVE HandInv' BY DEF H!Next
<1>1. CASE H!secio_start(s) BY <1>1, SecioStart
<1>2. CASE H!with_remote(s) BY <1>2, SecioWithRemote
<1>3. CASE H!verify_exchange(s) BY <1>3, SecioVerifyExchange
<1>4. CASE H!verify_nonce(s) BY <1>4, SecioVerifyNonce
<1>5. CASE H!noise_start(s) BY <1>5, NoiseStart
<1>6. CASE H!recv_empty(s) BY <1>6, NoiseRecvEmpty
<1>7. CASE H!recv_identity(s) BY <1>7, NoiseRecvIdentity
<1>8. CASE H!plaintext_start(s) BY <1>8, PlainStart
<1>9. CASE H!plaintext_remote(s) BY <1>9, PlainRemote
<1>10. CASE H!Eof(s) BY <1>10, HandEof
<1>11. CASE H!Corrupt(s) BY <1>11, CorruptStep
<1>12. QED BY <1>1, <1>2, <1>3, <1>4, <1>5, <1>6, <1>7, <1>8, <1>9, <1>10, <1>11 DEF H!Step

\* Two ends that have seen each other's propositions order their hashes the other
\* way round, and so choose the same algorithms and opposite halves of the key.
LEMMA OrderingsMirror ==
  ASSUME HandType, NEW s \in H!Sides, H!hashes_ordering(s, H!Propose(H!Other(s))) # "Equal"
  PROVE  \/ /\ H!hashes_ordering(s, H!Propose(H!Other(s))) = "Less"
            /\ H!hashes_ordering(H!Other(s), H!Propose(s)) = "Greater"
         \/ /\ H!hashes_ordering(s, H!Propose(H!Other(s))) = "Greater"
            /\ H!hashes_ordering(H!Other(s), H!Propose(s)) = "Less"
<1>1. PICK o \in H!Sides : o = H!Other(s) BY SideFacts
<1>2. config[s].key \in Keys /\ config[o].key \in Keys BY SecureKeys DEF HandType
<1>3. H!Nonce(s) \in H!Nonces /\ H!Nonce(o) \in H!Nonces BY DEF H!Nonce, H!Nonces
<1>4. PICK x \in 1..2, y \in 1..2 : x = hash[<<config[o].key, H!Nonce(s)>>] /\ y = hash[<<config[s].key, H!Nonce(o)>>]
  <2>1. <<config[o].key, H!Nonce(s)>> \in Keys \X H!Nonces /\ <<config[s].key, H!Nonce(o)>> \in Keys \X H!Nonces
    BY <1>2, <1>3
  <2>2. hash[<<config[o].key, H!Nonce(s)>>] \in 1..2 /\ hash[<<config[s].key, H!Nonce(o)>>] \in 1..2
    BY <2>1 DEF HandType
  <2>3. QED BY <2>2
<1>5. /\ H!Propose(o).key = config[o].key /\ H!Propose(o).nonce = H!Nonce(o)
      /\ H!Propose(s).key = config[s].key /\ H!Propose(s).nonce = H!Nonce(s) BY ProposeIsFrame
<1>6. H!hashes_ordering(s, H!Propose(o)) = IF x < y THEN "Less" ELSE IF x = y THEN "Equal" ELSE "Greater"
  BY <1>4, <1>5 DEF H!hashes_ordering
<1>7. H!hashes_ordering(o, H!Propose(s)) = IF y < x THEN "Less" ELSE IF y = x THEN "Equal" ELSE "Greater"
  BY <1>4, <1>5 DEF H!hashes_ordering
<1>8. QED BY <1>1, <1>6, <1>7

LEMMA ChosenMirror ==
  ASSUME HandType, NEW s \in H!Sides, H!hashes_ordering(s, H!Propose(H!Other(s))) # "Equal"
  PROVE  H!chosen(s, H!Propose(H!Other(s))) = H!chosen(H!Other(s), H!Propose(s))
<1>1. PICK o \in H!Sides : o = H!Other(s) BY SideFacts
<1>2. /\ H!Propose(o).algs = <<config[o].exchanges, config[o].ciphers, config[o].hashes>>
      /\ H!Propose(s).algs = <<config[s].exchanges, config[s].ciphers, config[s].hashes>> BY ProposeIsFrame
<1>3. /\ H!Propose(o).algs[1] = config[o].exchanges /\ H!Propose(s).algs[1] = config[s].exchanges
      /\ H!Propose(o).algs[2] = config[o].ciphers /\ H!Propose(s).algs[2] = config[s].ciphers
      /\ H!Propose(o).algs[3] = config[o].hashes /\ H!Propose(s).algs[3] = config[s].hashes BY <1>2
<1>4. PICK m, n : m = H!hashes_ordering(s, H!Propose(o)) /\ n = H!hashes_ordering(o, H!Propose(s)) OBVIOUS
<1>5. (m = "Less" /\ n = "Greater") \/ (m = "Greater" /\ n = "Less") BY <1>1, <1>4, OrderingsMirror
<1>6. \A x, y : H!select(m, x, y) = H!select(n, y, x) BY <1>5 DEF H!select
<1>7. H!chosen_exchange(s, H!Propose(o)) = H!chosen_exchange(o, H!Propose(s)) BY <1>3, <1>4, <1>6 DEF H!chosen_exchange
<1>8. H!chosen_cipher(s, H!Propose(o)) = H!chosen_cipher(o, H!Propose(s)) BY <1>3, <1>4, <1>6 DEF H!chosen_cipher
<1>9. H!chosen_hash(s, H!Propose(o)) = H!chosen_hash(o, H!Propose(s)) BY <1>3, <1>4, <1>6 DEF H!chosen_hash
<1>10. QED BY <1>1, <1>7, <1>8, <1>9 DEF H!chosen

LEMMA SecioSafe ==
  ASSUME HandInv, kind = "secio", NEW s \in H!Sides, H!Done(s)
  PROVE  /\ ctx[s].peer \in Keys /\ ctx[s].peer = config[H!Other(s)].key /\ config[s].key # config[H!Other(s)].key
         /\ ctx[s].algs = ctx[H!Other(s)].algs /\ ctx[s].enc = ctx[H!Other(s)].dec
         /\ ctx[s].dec = ctx[H!Other(s)].enc /\ ctx[s].enc # ctx[s].dec
<1>1. PICK o \in H!Sides : o = H!Other(s) /\ H!Other(o) = s BY SideFacts
<1>2. SecioEnd(s) /\ SecioEnd(o) BY DEF HandInv, SecioInv
<1>3. Keyed(s) /\ Keyed(o) BY <1>1, <1>2 DEF SecioEnd
<1>4. /\ ctx[s].remote = H!Propose(o) /\ ctx[o].remote = H!Propose(s)
      /\ ctx[s].algs # <<>> /\ ctx[o].algs # <<>>
      /\ H!hashes_ordering(s, H!Propose(o)) # "Equal" BY <1>1, <1>3 DEF Keyed
<1>5. ctx[s].peer = ctx[s].remote.key /\ ctx[s].remote.key \in Keys \ {config[s].key} BY <1>2, <1>4 DEF SecioEnd
<1>6. H!Propose(o).key = config[o].key BY ProposeIsFrame
<1>7. ctx[s].algs = ctx[o].algs
  <2>1. ctx[s].algs = H!chosen(s, H!Propose(o)) /\ ctx[o].algs = H!chosen(o, H!Propose(s)) BY <1>2, <1>4 DEF SecioEnd
  <2>2. H!chosen(s, H!Propose(o)) = H!chosen(o, H!Propose(s)) BY <1>1, <1>4, ChosenMirror DEF HandInv
  <2>3. QED BY <2>1, <2>2
<1>8. PICK q : q = {H!Ephemeral(s), H!Ephemeral(o)} OBVIOUS
<1>9. H!agree(H!Ephemeral(s), H!Ephemeral(o)) = q /\ H!agree(H!Ephemeral(o), H!Ephemeral(s)) = q BY <1>8 DEF H!agree
<1>10. PICK x : x = ctx[s].algs OBVIOUS
<1>11. PICK k1, k2 : k1 = <<q, x, 1>> /\ k2 = <<q, x, 2>> OBVIOUS
<1>12. k1 # k2 BY <1>11
<1>13. H!stretch_key(q, x)[1] = k1 /\ H!stretch_key(q, x)[2] = k2 BY <1>11 DEF H!stretch_key
<1>14. H!infos(s, H!Ephemeral(o)) = IF H!hashes_ordering(s, H!Propose(o)) = "Less"
                                    THEN [enc |-> k2, dec |-> k1] ELSE [enc |-> k1, dec |-> k2]
  BY <1>4, <1>9, <1>10, <1>13 DEF H!infos
<1>15. H!infos(o, H!Ephemeral(s)) = IF H!hashes_ordering(o, H!Propose(s)) = "Less"
                                    THEN [enc |-> k2, dec |-> k1] ELSE [enc |-> k1, dec |-> k2]
  BY <1>4, <1>7, <1>9, <1>10, <1>13 DEF H!infos
<1>16. \/ /\ H!hashes_ordering(s, H!Propose(o)) = "Less" /\ H!hashes_ordering(o, H!Propose(s)) = "Greater"
       \/ /\ H!hashes_ordering(s, H!Propose(o)) = "Greater" /\ H!hashes_ordering(o, H!Propose(s)) = "Less"
  BY <1>1, <1>4, OrderingsMirror DEF HandInv
<1>17. /\ ctx[s].enc = H!infos(s, H!Ephemeral(o)).enc /\ ctx[s].dec = H!infos(s, H!Ephemeral(o)).dec
       /\ ctx[o].enc = H!infos(o, H!Ephemeral(s)).enc /\ ctx[o].dec = H!infos(o, H!Ephemeral(s)).dec
  BY <1>1, <1>3 DEF Keyed
<1>18. ctx[s].enc = ctx[o].dec /\ ctx[s].dec = ctx[o].enc /\ ctx[s].enc # ctx[s].dec
  BY <1>12, <1>14, <1>15, <1>16, <1>17
<1>19. QED BY <1>1, <1>4, <1>5, <1>6, <1>7, <1>18

LEMMA PrefixOfSame == ASSUME NEW q PROVE H!IsPrefix(q, q)
  BY DEF H!IsPrefix

LEMMA NoiseSafe ==
  ASSUME HandInv, kind = "noise", NEW s \in H!Sides, H!Done(s)
  PROVE  /\ ctx[s].peer = config[H!Other(s)].key
         /\ H!IsPrefix(ctx[H!Other(s)].seen, ctx[s].seen) \/ ctx[H!Other(s)].pc = "failed"
<1>1. NoiseEndA /\ NoiseEndB BY DEF HandInv, NoiseInv
<1>2. CASE s = "b"
  <2>1. ctx["b"].seen = ctx["a"].seen /\ ctx["b"].peer = config["a"].key BY <1>1, <1>2 DEF NoiseEndB
  <2>2. H!IsPrefix(ctx["a"].seen, ctx["b"].seen) BY <2>1, PrefixOfSame
  <2>3. QED BY <2>1, <2>2, <1>2, AB
<1>3. CASE s = "a"
  <2>1. /\ ctx["a"].peer = config["b"].key
        /\ ctx["a"].seen = <<ctx["a"].seen[1], ctx["a"].seen[2], ctx["a"].seen[3]>>
        /\ ctx["b"].pc \in {"recv", "done", "failed"}
        /\ ctx["b"].seen[1] = ctx["a"].seen[1] /\ ctx["b"].seen[2] = ctx["a"].seen[2]
    BY <1>1, <1>3 DEF NoiseEndA, NoiseEndB
  <2>2. CASE ctx["b"].pc = "recv"
    <3>1. ctx["b"].seen = <<ctx["a"].seen[1], ctx["a"].seen[2]>> BY <2>1, <2>2, <1>1 DEF NoiseEndB
    <3>2. PICK x, y, z : ctx["a"].seen = <<x, y, z>> /\ ctx["b"].seen = <<x, y>> BY <2>1, <3>1
    <3>3. H!IsPrefix(<<x, y>>, <<x, y, z>>)
      <4>1. Len(<<x, y>>) = 2 /\ Len(<<x, y, z>>) = 3 OBVIOUS
      <4>2. \A i \in 1..2 : <<x, y>>[i] = <<x, y, z>>[i] OBVIOUS
      <4>3. QED BY <4>1, <4>2 DEF H!IsPrefix
    <3>4. QED BY <3>2, <3>3, <2>1, <1>3, AB
  <2>3. CASE ctx["b"].pc = "done"
    <3>1. ctx["b"].seen = ctx["a"].seen BY <2>3, <1>1 DEF NoiseEndB, H!Done
    <3>2. H!IsPrefix(ctx["b"].seen, ctx["a"].seen) BY <3>1, PrefixOfSame
    <3>3. QED BY <2>1, <3>2, <1>3, AB
  <2>4. CASE ctx["b"].pc = "failed" BY <2>1, <2>4, <1>3, AB
  <2>5. QED BY <2>1, <2>2, <2>3, <2>4
<1>4. QED BY <1>2, <1>3, AB

LEMMA HandSafe == HandInv => H!PeerIsKnown /\ H!EndsAgree
<1> SUFFICES ASSUME HandInv, NEW s \in H!Sides, H!Done(s)
             PROVE  /\ ctx[s].peer \in Keys /\ ctx[s].peer = config[H!Other(s)].key
                    /\ kind # "noise" => config["a"].key # config["b"].key
                    /\ kind = "secio" =>
                         /\ ctx[s].algs = ctx[H!Other(s)].algs /\ ctx[s].enc = ctx[H!Other(s)].dec
                         /\ ctx[s].dec = ctx[H!Other(s)].enc /\ ctx[s].enc # ctx[s].dec
                    /\ kind = "noise" =>
                         H!IsPrefix(ctx[H!Other(s)].seen, ctx[s].seen) \/ ctx[H!Other(s)].pc = "failed"
  BY DEF H!PeerIsKnown, H!EndsAgree
<1>1. kind \in {"secio", "noise", "plaintext"} BY DEF HandInv, HandType
<1>2. config[H!Other(s)].key \in Keys BY SideFacts, SecureKeys DEF HandInv, HandType
<1>3. config[s].key # config[H!Other(s)].key => config["a"].key # config["b"].key BY AB
<1>4. CASE kind = "secio" BY <1>4, <1>3, SecioSafe
<1>5. CASE kind = "noise" BY <1>5, <1>2, NoiseSafe
<1>6. CASE kind = "plaintext"
  <2>1. ctx[s].peer = config[H!Other(s)].key /\ config[s].key # config[H!Other(s)].key BY <1>6 DEF HandInv, PlainInv
  <2>2. QED BY <2>1, <1>2, <1>3, <1>6
<1>7. QED BY <1>1, <1>4, <1>5, <1>6

(***************************************************************************)
(* Kademlia's requests.                                                    *)
(***************************************************************************)

IsJob(x) == /\ x = [st |-> x.st, s |-> x.s, res |-> x.res]
            /\ x.st \in {"none", "idle", "sending", "waiting", "ok", "failed"}
            /\ x.st \in {"none", "idle"} => x.s = 0
IsStream(x) == /\ x = [req |-> x.req, rsp |-> x.rsp, reuse |-> x.reuse, open |-> x.open,
                       handler |-> x.handler, up |-> x.up, by |-> x.by]
               /\ x.open \in BOOLEAN /\ x.up \in BOOLEAN
               /\ \E X : x.req \in Seq(X)
               /\ \E X : x.rsp \in Seq(X)

KadType ==
  /\ job = [j \in Jobs |-> job[j]] /\ \A j \in Jobs : IsJob(job[j]) /\ job[j].s \in 0..Len(streams)
  /\ \E X : streams \in Seq(X)
  /\ \A s \in DOMAIN streams : IsStream(streams[s])
  /\ cache \in 0..Len(streams)
  /\ \E X : posted \in Seq(X)
  /\ reqs \in [Jobs -> 0..1]
  /\ reply = [j \in Jobs |-> reply[j]]
  /\ phantom = 0

\* A messenger is in the cache or with one job, and open.
Holds(j) == job[j].st \in {"sending", "waiting"}
Messengers ==
  /\ \A j \in Jobs : Holds(j) => /\ job[j].s \in DOMAIN streams /\ streams[job[j].s].open
                                 /\ job[j].s # cache
  /\ \A i, j \in Jobs : Holds(i) /\ Holds(j) /\ job[i].s = job[j].s => i = j
  /\ cache # 0 => streams[cache].open

\* The packet with the request of job j.
Packet(j) == K!Body(K!req_msg_to_proto(Request[j]))

\* A request on its way was sent by one of the jobs of the stream, has not been
\* posted, and is there once.
Sent(x) ==
  /\ x.up => \E n \in Nat : Len(x.req) = 2 * n
  /\ \A k \in Nat : 2 * k \in 1..Len(x.req) =>
       \E j \in x.by : x.req[2 * k] = Packet(j) /\ reqs[j] = 0 /\ reply[j] = K!None
  /\ \A k, l \in Nat : 2 * k \in 1..Len(x.req) /\ 2 * l \in 1..Len(x.req) /\ x.req[2 * k] = x.req[2 * l] => k = l

Senders ==
  \A s \in DOMAIN streams : \A j \in streams[s].by :
    j \in Jobs /\ job[j].s = s /\ job[j].st \in {"waiting", "ok", "failed"}

\* A request that is posted was read from the stream it names, and is there once.
Posts ==
  /\ \A i \in 1..Len(posted) :
       /\ posted[i].s \in DOMAIN streams
       /\ \E j \in streams[posted[i].s].by :
            posted[i].req = Request[j] /\ reqs[j] = 1 /\ reply[j] = K!None
  /\ \A i, k \in 1..Len(posted) : posted[i].req = posted[k].req => i = k

\* A job that did not send was not answered, one that failed dropped its messenger,
\* and one that is done has the answer.
JobEnds(j) ==
  /\ job[j].st \in {"none", "idle", "sending"} => reqs[j] = 0 /\ reply[j] = K!None
  /\ job[j].st = "failed" /\ job[j].s # 0 => ~streams[job[j].s].open
  /\ job[j].st = "ok" /\ Request[j].type # "AddProvider" => reply[j] # K!None /\ job[j].res = reply[j]

\* The answer on an open stream is that to the job that waits there.
Answered(s) == streams[s].open /\ streams[s].rsp # <<>> =>
  \E j \in Jobs :
    /\ job[j].st = "waiting" /\ job[j].s = s
    /\ Len(streams[s].rsp) <= 2
    /\ \E r \in Responses[Request[j]] :
         /\ reply[j] = <<r>>
         /\ Len(streams[s].rsp) = 2 => streams[s].rsp[2] = K!Body(K!resp_msg_to_proto(r))

KadInv ==
  /\ KadType /\ Messengers /\ Senders /\ Posts
  /\ \A s \in DOMAIN streams : Sent(streams[s]) /\ Answered(s)
  /\ \A j \in Jobs : JobEnds(j)

(***************************************************************************)
(* Messages and frames.                                                    *)
(***************************************************************************)

\* A request that is written is read as it was: no conversion loses anything.
LEMMA RequestRead ==
  ASSUME NEW m, IsRequest(m)
  PROVE  K!proto_to_req_msg(K!req_msg_to_proto(m)) = <<m>>
<1>1. CASE m.type \in {"FindNode", "GetProviders", "GetValue"} /\ m = [type |-> m.type, key |-> m.key]
  <2>1. K!req_msg_to_proto(m) = [K!Default EXCEPT !.type = m.type, !.key = m.key]
    BY <1>1 DEF K!req_msg_to_proto
  <2>2. QED BY <1>1, <2>1 DEF K!proto_to_req_msg, K!Default
<1>2. CASE m = [type |-> "AddProvider", key |-> m.key, provider |-> m.provider] /\ K!Valid(<<m.provider>>) = <<m.provider>>
  <2>0. m.type = "AddProvider" BY <1>2
  <2>1. K!req_msg_to_proto(m) = [K!Default EXCEPT !.type = m.type, !.key = m.key, !.providers = <<m.provider>>]
    BY <2>0 DEF K!req_msg_to_proto
  <2>2. PICK p : p = K!req_msg_to_proto(m) OBVIOUS
  <2>3. p.type = "AddProvider" /\ p.key = m.key /\ p.providers = <<m.provider>> BY <2>0, <2>1, <2>2 DEF K!Default
  <2>4. K!Valid(p.providers) = <<m.provider>> /\ K!Valid(p.providers) # <<>> BY <2>3, <1>2
  <2>5. K!proto_to_req_msg(p) = <<[type |-> p.type, key |-> p.key, provider |-> K!Valid(p.providers)[1]]>>
    BY <2>3, <2>4 DEF K!proto_to_req_msg
  <2>6. QED BY <1>2, <2>2, <2>3, <2>4, <2>5
<1>3. CASE m = [type |-> "PutValue", record |-> K!record_to_proto(m.record)]
  <2>0. m.type = "PutValue" /\ m.record = K!record_to_proto(m.record) BY <1>3
  <2>1. K!req_msg_to_proto(m) = [K!Default EXCEPT !.type = m.type, !.record = <<K!record_to_proto(m.record)>>]
    BY <2>0 DEF K!req_msg_to_proto
  <2>2. PICK p : p = K!req_msg_to_proto(m) OBVIOUS
  <2>3. p.type = "PutValue" /\ p.record = <<m.record>> BY <2>0, <2>1, <2>2 DEF K!Default
  <2>4. p.record # K!None /\ K!record_from_proto(p.record[1]) = m.record
    BY <2>0, <2>3 DEF K!None, K!record_to_proto, K!record_from_proto
  <2>5. K!proto_to_req_msg(p) = <<[type |-> p.type, record |-> K!record_from_proto(p.record[1])]>>
    BY <2>3, <2>4 DEF K!proto_to_req_msg
  <2>6. QED BY <1>3, <2>0, <2>2, <2>3, <2>4, <2>5
<1>4. CASE m = [type |-> "Ping"]
  <2>0. m.type = "Ping" BY <1>4
  <2>1. K!req_msg_to_proto(m) = [K!Default EXCEPT !.type = m.type] BY <2>0 DEF K!req_msg_to_proto
  <2>2. QED BY <1>4, <2>0, <2>1 DEF K!proto_to_req_msg, K!Default
<1>5. QED BY <1>1, <1>2, <1>3, <1>4 DEF IsRequest

\* So is an answer.
LEMMA AnswerRead ==
  ASSUME NEW m, IsAnswer(m)
  PROVE  K!proto_to_resp_msg(K!resp_msg_to_proto(m)) = <<m>>
<1>0. PICK p : p = K!resp_msg_to_proto(m) OBVIOUS
<1>1. CASE m = [type |-> "FindNode", closer |-> K!Valid(m.closer)]
  <2>0. m.type = "FindNode" /\ m.closer = K!Valid(m.closer) BY <1>1
  <2>1. p = [K!Default EXCEPT !.type = m.type, !.closer = m.closer] BY <1>0, <2>0 DEF K!resp_msg_to_proto
  <2>2. p.type = "FindNode" /\ p.closer = m.closer BY <2>0, <2>1 DEF K!Default
  <2>3. K!proto_to_resp_msg(p) = <<[type |-> p.type, closer |-> K!Valid(p.closer)]>> BY <2>2 DEF K!proto_to_resp_msg
  <2>4. QED BY <1>0, <1>1, <2>0, <2>2, <2>3
<1>2. CASE m = [type |-> "GetProviders", closer |-> K!Valid(m.closer), providers |-> K!Valid(m.providers)]
  <2>0. m.type = "GetProviders" /\ m.closer = K!Valid(m.closer) /\ m.providers = K!Valid(m.providers) BY <1>2
  <2>1. p = [K!Default EXCEPT !.type = m.type, !.closer = m.closer, !.providers = m.providers]
    BY <1>0, <2>0 DEF K!resp_msg_to_proto
  <2>2. p.type = "GetProviders" /\ p.closer = m.closer /\ p.providers = m.providers BY <2>0, <2>1 DEF K!Default
  <2>3. K!proto_to_resp_msg(p) = <<[type |-> p.type, closer |-> K!Valid(p.closer), providers |-> K!Valid(p.providers)]>>
    BY <2>2 DEF K!proto_to_resp_msg
  <2>4. QED BY <1>0, <1>2, <2>0, <2>2, <2>3
<1>3. CASE m = [type |-> "GetValue", closer |-> K!Valid(m.closer),
                record |-> IF m.record = <<>> THEN <<>> ELSE <<K!record_to_proto(m.record[1])>>]
  <2>0. m.type = "GetValue" /\ m.closer = K!Valid(m.closer)
    /\ m.record = (IF m.record = <<>> THEN <<>> ELSE <<K!record_to_proto(m.record[1])>>) BY <1>3
  <2>1. p = [K!Default EXCEPT !.type = m.type, !.closer = m.closer,
                              !.record = IF m.record = K!None THEN K!None ELSE <<K!record_to_proto(m.record[1])>>]
    BY <1>0, <2>0 DEF K!resp_msg_to_proto
  <2>2. p.type = "GetValue" /\ p.closer = m.closer /\ p.record = m.record
    BY <2>0, <2>1 DEF K!Default, K!None
  <2>3. K!proto_to_resp_msg(p) = <<[type |-> p.type, closer |-> K!Valid(p.closer),
                record |-> IF p.record = K!None THEN K!None ELSE <<K!record_from_proto(p.record[1])>>]>>
    BY <2>2 DEF K!proto_to_resp_msg
  <2>4. (IF p.record = K!None THEN K!None ELSE <<K!record_from_proto(p.record[1])>>) = m.record
    BY <2>0, <2>2 DEF K!None, K!record_to_proto, K!record_from_proto
  <2>5. QED BY <1>0, <1>3, <2>0, <2>2, <2>3, <2>4
<1>4. CASE m = [type |-> "PutValue", key |-> m.key, value |-> m.value]
  <2>0. m.type = "PutValue" BY <1>4
  <2>1. p = [K!Default EXCEPT !.type = m.type, !.key = m.key,
                              !.record = <<[key |-> m.key, value |-> m.value, publisher |-> K!None]>>]
    BY <1>0, <2>0 DEF K!resp_msg_to_proto
  <2>2. p.type = "PutValue" /\ p.key = m.key /\ p.record = <<[key |-> m.key, value |-> m.value, publisher |-> K!None]>>
    BY <2>0, <2>1 DEF K!Default
  <2>3. p.record # K!None /\ p.record[1].value = m.value BY <2>2 DEF K!None
  <2>4. K!proto_to_resp_msg(p) = <<[type |-> p.type, key |-> p.key, value |-> p.record[1].value]>>
    BY <2>2, <2>3 DEF K!proto_to_resp_msg
  <2>5. QED BY <1>0, <1>4, <2>0, <2>2, <2>3, <2>4
<1>5. CASE m = [type |-> "Pong"]
  <2>0. m.type = "Pong" BY <1>5
  <2>1. p = [K!Default EXCEPT !.type = "Ping"] BY <1>0, <2>0 DEF K!resp_msg_to_proto
  <2>2. p.type = "Ping" BY <2>1 DEF K!Default
  <2>3. K!proto_to_resp_msg(p) = <<[type |-> "Pong"]>> BY <2>2 DEF K!proto_to_resp_msg
  <2>4. QED BY <1>0, <1>5, <2>3
<1>6. QED BY <1>1, <1>2, <1>3, <1>4, <1>5 DEF IsAnswer

LEMMA PacketRead ==
  ASSUME NEW j \in Jobs
  PROVE  K!proto_to_req_msg(Packet(j).m) = <<Request[j]>>
<1>1. IsRequest(Request[j]) BY KadMessages
<1>2. Packet(j).m = K!req_msg_to_proto(Request[j]) BY DEF Packet, K!Body
<1>3. QED BY <1>1, <1>2, RequestRead

LEMMA PacketOnce ==
  ASSUME NEW i \in Jobs, NEW j \in Jobs, Packet(i) = Packet(j)
  PROVE  i = j
<1>1. <<Request[i]>> = <<Request[j]>> BY PacketRead
<1>2. QED BY <1>1, KadMessages

LEMMA RestOf ==
  ASSUME NEW w, NEW X, w \in Seq(X), Len(w) >= 2
  PROVE  /\ \E Y : Tail(Tail(w)) \in Seq(Y)
         /\ Len(Tail(Tail(w))) = Len(w) - 2
         /\ \A i \in 1..(Len(w) - 2) : Tail(Tail(w))[i] = w[i + 2]
<1>0. w # <<>> OBVIOUS
<1>1. Tail(w) \in Seq(X) /\ Len(Tail(w)) = Len(w) - 1 BY <1>0
<1>2. \A i \in 1..(Len(w) - 1) : Tail(w)[i] = w[i + 1] BY <1>0
<1>3. Tail(w) # <<>>
  <2>1. PICK n \in Nat : n = Len(w) /\ n >= 2 OBVIOUS
  <2>2. Len(Tail(w)) # 0 BY <1>1, <2>1
  <2>3. Len(<<>>) = 0 OBVIOUS
  <2>4. QED BY <2>2, <2>3
<1>4. Tail(Tail(w)) \in Seq(X) /\ Len(Tail(Tail(w))) = Len(w) - 2 BY <1>1, <1>3
<1>5. \A i \in 1..(Len(w) - 2) : Tail(Tail(w))[i] = Tail(w)[i + 1] BY <1>1, <1>3
<1>6. QED BY <1>2, <1>4, <1>5

\* A packet that is read was written: its body is the second token.
LEMMA ReadOne ==
  ASSUME NEW w, NEW X, w \in Seq(X), NEW e, K!read_one(w, e).st = "ok"
  PROVE  Len(w) >= 2 /\ K!read_one(w, e).m = w[2].m /\ K!read_one(w, e).rest = Tail(Tail(w))
<1>1. PICK len : len = K!read_varint(w, e) OBVIOUS
<1>2. len \in {"over", "some", "pending", "err"} BY <1>1 DEF K!read_varint, K!poll_read
<1>3. len = "some" => w # <<>> BY <1>1 DEF K!read_varint, K!poll_read
<1>4. CASE len = "some"
  <2>1. K!read_one(w, e) = K!read_exact2(Tail(w), e) BY <1>1, <1>4 DEF K!read_one
  <2>2. Tail(w) # <<>> BY <2>1 DEF K!read_exact2
  <2>3. K!read_one(w, e) = [st |-> "ok", m |-> Tail(w)[1].m, rest |-> Tail(Tail(w))] BY <2>1, <2>2 DEF K!read_exact2
  <2>4. Tail(w) \in Seq(X) /\ Len(Tail(w)) = Len(w) - 1 /\ Len(w) \in Nat BY <1>3, <1>4
  <2>5. Len(Tail(w)) # 0 BY <2>2, <2>4
  <2>6. Len(w) >= 2 BY <2>4, <2>5
  <2>7. Tail(w)[1] = w[2] BY <2>6, <1>3, <1>4
  <2>8. QED BY <2>3, <2>6, <2>7
<1>5. CASE len = "pending"
  <2>1. K!read_one(w, e) = [st |-> "pending"] BY <1>1, <1>5 DEF K!read_one
  <2>2. QED BY <2>1
<1>6. CASE len \in {"over", "err"}
  <2>1. K!read_one(w, e) = [st |-> "err"] BY <1>1, <1>6 DEF K!read_one
  <2>2. QED BY <2>1
<1>7. QED BY <1>2, <1>4, <1>5, <1>6

\* write_one adds two tokens.
LEMMA WriteOne ==
  ASSUME NEW w, NEW X, w \in Seq(X), NEW m, NEW large
  PROVE  LET v == K!write_one(w, m, large) IN
         /\ \E Y : v \in Seq(Y)
         /\ Len(v) = Len(w) + 2
         /\ \A i \in 1..Len(w) : v[i] = w[i]
         /\ v[Len(w) + 2] = K!Body(m)
<1>1. PICK a : a = K!Prefix(large) OBVIOUS
<1>2. PICK b : b = K!Body(m) OBVIOUS
<1>3. K!write_one(w, m, large) = w \o <<a, b>> BY <1>1, <1>2 DEF K!write_one
<1>4. PICK Y : Y = X \union {a, b} OBVIOUS
<1>5. w \in Seq(Y) BY <1>4
<1>6. <<a, b>> \in Seq(Y) /\ Len(<<a, b>>) = 2 /\ <<a, b>>[2] = b BY <1>4
<1>7. w \o <<a, b>> \in Seq(Y) BY <1>5, <1>6
<1>8. Len(w \o <<a, b>>) = Len(w) + 2 BY <1>5, <1>6
<1>9. \A i \in 1..Len(w) : (w \o <<a, b>>)[i] = w[i] BY <1>5, <1>6
<1>10. (w \o <<a, b>>)[Len(w) + 2] = b BY <1>5, <1>6
<1>11. QED BY <1>2, <1>3, <1>7, <1>8, <1>9, <1>10

(***************************************************************************)
(* Steps.                                                                  *)
(***************************************************************************)

LEMMA KadInitInv == K!Init => KadInv
<1> SUFFICES ASSUME K!Init PROVE KadInv OBVIOUS
<1>1. PICK mix \in Mixes : job = [j \in Jobs |-> [st |-> IF j \in mix THEN "idle" ELSE "none", s |-> 0, res |-> K!None]]
  BY DEF K!Init
<1>2. streams = <<>> /\ posted = <<>> /\ cache = 0 /\ phantom = 0 /\ reqs = [j \in Jobs |-> 0] /\ reply = [j \in Jobs |-> K!None]
  BY DEF K!Init
<1>3. Len(streams) = 0 /\ Len(posted) = 0 /\ DOMAIN streams = {} BY <1>2
<1>4. \A j \in Jobs : IsJob(job[j]) /\ job[j].s = 0 /\ job[j].st \in {"idle", "none"} BY <1>1 DEF IsJob
<1>5. KadType
  <2>1. <<>> \in Seq({}) OBVIOUS
  <2>2. (\E X : streams \in Seq(X)) /\ (\E X : posted \in Seq(X)) BY <1>2, <2>1
  <2>3. job = [j \in Jobs |-> job[j]] BY <1>1
  <2>4. QED BY <1>2, <1>3, <1>4, <2>2, <2>3 DEF KadType
<1>6. Messengers BY <1>2, <1>4 DEF Messengers, Holds
<1>7. Senders /\ Posts BY <1>3 DEF Senders, Posts
<1>8. \A j \in Jobs : JobEnds(j) BY <1>2, <1>4 DEF JobEnds
<1>9. QED BY <1>3, <1>5, <1>6, <1>7, <1>8 DEF KadInv

\* Stream s becomes y, and the other streams stay.
Becomes(s, y) ==
  /\ \E X : streams' \in Seq(X)
  /\ Len(streams') = Len(streams) /\ DOMAIN streams' = DOMAIN streams
  /\ streams'[s] = y
  /\ \A t \in DOMAIN streams : t # s => streams'[t] = streams[t]

LEMMA StreamBecomes ==
  ASSUME KadType, NEW s \in DOMAIN streams, NEW y, streams' = [streams EXCEPT ![s] = y]
  PROVE  Becomes(s, y)
<1>1. PICK X : streams \in Seq(X) BY DEF KadType
<1>2. PICK n \in Nat : n = Len(streams) BY <1>1
<1>3. DOMAIN streams = 1..n BY <1>1, <1>2
<1>4. streams' = [t \in 1..n |-> IF t = s THEN y ELSE streams[t]] BY <1>1, <1>2, <1>3
<1>5. PICK Y : Y = X \union {y} OBVIOUS
<1>6. \A t \in 1..n : streams[t] \in X BY <1>1, <1>2
<1>7. streams' \in [1..n -> Y] BY <1>4, <1>5, <1>6
<1>8. streams' \in Seq(Y)
  <2>1. PICK z : z = streams' OBVIOUS
  <2>2. \E k \in Nat : z \in [1..k -> Y] BY <1>2, <1>7, <2>1
  <2>3. z \in UNION {[1..k -> Y] : k \in Nat} BY <2>2
  <2>4. z \in Seq(Y) BY <2>3, SeqDef
  <2>5. QED BY <2>1, <2>4
<1>9. Len(streams') = n BY <1>4, <1>7, <1>8
<1>10. QED BY <1>2, <1>3, <1>4, <1>8, <1>9 DEF Becomes

\* The parts of the type that a step of one stream leaves alone.
LEMMA StreamsTyped ==
  ASSUME KadType, NEW s \in DOMAIN streams, NEW y, IsStream(y), Becomes(s, y)
  PROVE  /\ \E X : streams' \in Seq(X)
         /\ \A t \in DOMAIN streams' : IsStream(streams'[t])
BY DEF KadType, Becomes

\* A request still to come: whoever has it on its way or posted was not answered; on an
\* open stream that expects an answer it waits.
LEMMA WaitsForIt ==
  ASSUME KadInv, NEW s \in DOMAIN streams, NEW j \in streams[s].by, reply[j] = K!None,
         Request[j].type # "AddProvider", streams[s].open
  PROVE  job[j].st = "waiting" /\ job[j].s = s
<1>1. j \in Jobs /\ job[j].s = s /\ job[j].st \in {"waiting", "ok", "failed"} BY DEF KadInv, Senders
<1>2. JobEnds(j) BY <1>1 DEF KadInv
<1>3. PICK X : streams \in Seq(X) BY DEF KadInv, KadType
<1>4. s # 0 BY <1>3
<1>5. QED BY <1>1, <1>2, <1>4 DEF JobEnds

\* Where nobody waits, no answer is on its way.
LEMMA NothingLeft ==
  ASSUME KadInv, NEW j \in Jobs, Holds(j), job[j].st # "waiting" \/ reply[j] = K!None
  PROVE  streams[job[j].s].rsp = <<>>
<1>1. job[j].s \in DOMAIN streams /\ streams[job[j].s].open BY DEF KadInv, Messengers
<1>2. SUFFICES ASSUME streams[job[j].s].rsp # <<>> PROVE FALSE OBVIOUS
<1>3. Answered(job[j].s) BY <1>1 DEF KadInv
<1>4. PICK i \in Jobs : job[i].st = "waiting" /\ job[i].s = job[j].s /\ \E r \in Responses[Request[i]] : reply[i] = <<r>>
  BY <1>1, <1>2, <1>3 DEF Answered
<1>5. i = j BY <1>4 DEF KadInv, Messengers, Holds
<1>6. reply[i] # <<>> BY <1>4
<1>7. QED BY <1>4, <1>5, <1>6 DEF K!None

\* What stays of the rest of the state.
JobMoves(j, z) ==
  /\ job' = [job EXCEPT ![j] = z]
  /\ UNCHANGED <<posted, reqs, phantom, reply>>

\* A job goes on with its messenger: it sends, is done or fails.
LEMMA JobGoesOn ==
  ASSUME KadInv, NEW j \in Jobs, Holds(j), NEW y, NEW z, JobMoves(j, z), IsJob(z),
         Becomes(job[j].s, y), IsStream(y), z.s = job[j].s,
         z.st \in {"waiting", "ok", "failed"},
         y.by \in {streams[job[j].s].by, streams[job[j].s].by \union {j}},
         Sent(y),
         y.open => y.rsp = <<>>,
         \/ cache' = cache /\ (z.st = "waiting" => y.open)
         \/ cache' = job[j].s /\ z.st # "waiting" /\ y.open,
         z.st = "failed" => ~y.open,
         z.st = "ok" /\ Request[j].type # "AddProvider" => reply[j] # K!None /\ z.res = reply[j]
  PROVE  KadInv'
<1>0. PICK s : s = job[j].s OBVIOUS
<1>1. s \in DOMAIN streams /\ streams[s].open /\ s # cache BY <1>0 DEF KadInv, Messengers
<1>2. KadType /\ Messengers /\ Senders /\ Posts BY DEF KadInv
<1>3. job'[j] = z /\ \A i \in Jobs : i # j => job'[i] = job[i]
  BY <1>2 DEF JobMoves, KadType
<1>4. \A i \in Jobs : job'[i].s = job[i].s BY <1>3
<1>5. PICK X : streams \in Seq(X) BY <1>2 DEF KadType
<1>6. DOMAIN streams = 1..Len(streams) /\ Len(streams) \in Nat BY <1>5
<1>7. DOMAIN streams' = DOMAIN streams /\ Len(streams') = Len(streams) /\ streams'[s] = y
      /\ \A t \in DOMAIN streams : t # s => streams'[t] = streams[t] BY <1>0 DEF Becomes
<1>8. KadType'
  <2>1. job' = [i \in Jobs |-> job'[i]] BY <1>2 DEF JobMoves, KadType
  <2>2. \A i \in Jobs : IsJob(job'[i]) /\ job'[i].s \in 0..Len(streams') BY <1>2, <1>3, <1>4, <1>7 DEF KadType
  <2>3. cache' \in 0..Len(streams') BY <1>0, <1>1, <1>2, <1>6, <1>7 DEF KadType
  <2>4. (\E Y : streams' \in Seq(Y)) /\ \A t \in DOMAIN streams' : IsStream(streams'[t])
    BY <1>0, <1>1, <1>2, StreamsTyped
  <2>5. (\E Y : posted' \in Seq(Y)) /\ reqs' \in [Jobs -> 0..1] /\ reply' = [i \in Jobs |-> reply'[i]] /\ phantom' = 0
    BY <1>2 DEF KadType, JobMoves
  <2>6. QED BY <2>1, <2>2, <2>3, <2>4, <2>5 DEF KadType
<1>9. \A i \in Jobs : Holds(i)' => Holds(i) BY <1>3 DEF Holds
<1>10. Messengers'
  <2>1. ASSUME NEW i \in Jobs, Holds(i)'
        PROVE  job'[i].s \in DOMAIN streams' /\ streams'[job'[i].s].open /\ job'[i].s # cache'
    <3>1. Holds(i) /\ job[i].s \in DOMAIN streams /\ streams[job[i].s].open /\ job[i].s # cache
      BY <1>2, <1>9, <2>1 DEF Messengers
    <3>2. CASE i = j BY <3>2, <2>1, <1>0, <1>1, <1>3, <1>7 DEF Holds
    <3>3. CASE i # j
      <4>1. job[i].s # s BY <3>1, <3>3, <1>0, <1>2 DEF Messengers
      <4>2. QED BY <4>1, <3>1, <1>0, <1>4, <1>7
    <3>4. QED BY <3>2, <3>3
  <2>2. \A i, k \in Jobs : Holds(i)' /\ Holds(k)' /\ job'[i].s = job'[k].s => i = k
    BY <1>2, <1>4, <1>9 DEF Messengers
  <2>3. cache' # 0 => streams'[cache'].open
    <3>1. CASE cache' = cache
      <4>1. SUFFICES ASSUME cache # 0 PROVE streams'[cache].open BY <3>1
      <4>2. cache \in DOMAIN streams BY <4>1, <1>2, <1>6 DEF KadType
      <4>3. QED BY <4>1, <4>2, <1>1, <1>2, <1>7 DEF Messengers
    <3>2. CASE cache' = s /\ y.open BY <3>2, <1>7
    <3>3. QED BY <3>1, <3>2, <1>0
  <2>4. QED BY <2>1, <2>2, <2>3 DEF Messengers
<1>11. Senders'
  <2>1. ASSUME NEW t \in DOMAIN streams', NEW i \in streams'[t].by
        PROVE  i \in Jobs /\ job'[i].s = t /\ job'[i].st \in {"waiting", "ok", "failed"}
    <3>1. CASE t = s /\ i = j BY <3>1, <1>0, <1>3
    <3>2. CASE ~(t = s /\ i = j)
      <4>1. t \in DOMAIN streams /\ i \in streams[t].by BY <3>2, <2>1, <1>0, <1>7
      <4>2. i \in Jobs /\ job[i].s = t /\ job[i].st \in {"waiting", "ok", "failed"} BY <4>1, <1>2 DEF Senders
      <4>3. QED BY <4>2, <1>3, <1>4
    <3>3. QED BY <3>1, <3>2
  <2>2. QED BY <2>1 DEF Senders
<1>12. \A t \in DOMAIN streams : \A i \in streams[t].by : i \in streams'[t].by BY <1>0, <1>7
<1>13. Posts'
  <2>1. \A i \in 1..Len(posted) :
          /\ posted[i].s \in DOMAIN streams'
          /\ \E k \in streams'[posted[i].s].by : posted[i].req = Request[k] /\ reqs[k] = 1 /\ reply[k] = K!None
    BY <1>2, <1>7, <1>12 DEF Posts
  <2>2. \A i, k \in 1..Len(posted) : posted[i].req = posted[k].req => i = k BY <1>2 DEF Posts
  <2>3. QED BY <2>1, <2>2 DEF Posts, JobMoves
<1>14. ASSUME NEW t \in DOMAIN streams' PROVE Sent(streams[t])'
  <2>1. CASE t = s
    <3>1. Sent(streams'[t]) BY <2>1, <1>7
    <3>2. QED BY <3>1 DEF Sent, JobMoves, Packet, K!req_msg_to_proto, K!Body, K!None
  <2>2. CASE t # s
    <3>1. Sent(streams[t]) /\ streams'[t] = streams[t] BY <2>2, <1>7 DEF KadInv
    <3>2. Sent(streams'[t]) BY <3>1
    <3>3. QED BY <3>2 DEF Sent, JobMoves, Packet, K!req_msg_to_proto, K!Body, K!None
  <2>3. QED BY <2>1, <2>2
<1>15. ASSUME NEW t \in DOMAIN streams' PROVE Answered(t)'
  <2>1. CASE t = s BY <2>1, <1>7 DEF Answered
  <2>2. CASE t # s
    <3>1. Answered(t) /\ streams'[t] = streams[t] BY <2>2, <1>7 DEF KadInv
    <3>2. SUFFICES ASSUME streams[t].open, streams[t].rsp # <<>>
                   PROVE  \E i \in Jobs : /\ job'[i].st = "waiting" /\ job'[i].s = t
                                          /\ Len(streams[t].rsp) <= 2
                                          /\ \E r \in Responses[Request[i]] :
                                               /\ reply[i] = <<r>>
                                               /\ Len(streams[t].rsp) = 2 => streams[t].rsp[2] = K!Body(K!resp_msg_to_proto(r))
      BY <3>1 DEF Answered, JobMoves
    <3>3. PICK i \in Jobs : /\ job[i].st = "waiting" /\ job[i].s = t
                            /\ Len(streams[t].rsp) <= 2
                            /\ \E r \in Responses[Request[i]] :
                                 /\ reply[i] = <<r>>
                                 /\ Len(streams[t].rsp) = 2 => streams[t].rsp[2] = K!Body(K!resp_msg_to_proto(r))
      BY <3>1, <3>2 DEF Answered
    <3>4. i # j BY <3>3, <2>2, <1>0
    <3>5. job'[i] = job[i] BY <3>4, <1>3
    <3>6. QED BY <3>3, <3>5
  <2>3. QED BY <2>1, <2>2
<1>16. ASSUME NEW i \in Jobs PROVE JobEnds(i)'
  <2>1. CASE i = j
    BY <2>1, <1>0, <1>3, <1>7 DEF JobEnds, JobMoves
  <2>2. CASE i # j
    <3>1. JobEnds(i) /\ job'[i] = job[i] BY <2>2, <1>3 DEF KadInv
    <3>2. job[i].st = "failed" /\ job[i].s # 0 => ~streams'[job[i].s].open
      <4>1. SUFFICES ASSUME job[i].st = "failed" /\ job[i].s # 0 PROVE ~streams'[job[i].s].open OBVIOUS
      <4>2. ~streams[job[i].s].open BY <4>1, <3>1 DEF JobEnds
      <4>3. job[i].s # s BY <4>2, <1>1
      <4>4. job[i].s \in DOMAIN streams BY <4>1, <1>2, <1>6 DEF KadType
      <4>5. QED BY <4>2, <4>3, <4>4, <1>7
    <3>3. QED BY <3>1, <3>2 DEF JobEnds, JobMoves
  <2>3. QED BY <2>1, <2>2
<1>17. QED BY <1>8, <1>10, <1>11, <1>13, <1>14, <1>15, <1>16 DEF KadInv

\* A messenger that is put back goes to the cache or is closed.
LEMMA PutBack ==
  ASSUME KadType, NEW s \in DOMAIN streams, NEW x, IsStream(x), NEW str, str = [streams EXCEPT ![s] = x],
         K!put_messenger(s, str)
  PROVE  \E y : /\ IsStream(y) /\ Becomes(s, y)
                /\ y.req = x.req /\ y.rsp = x.rsp /\ y.by = x.by /\ y.up = x.up
                /\ \/ cache' = s /\ y.open = x.open
                   \/ cache' = cache /\ y.open = FALSE
<1>1. PICK u : u = K!reuse(x) OBVIOUS
<1>2. u = [req |-> x.req, rsp |-> x.rsp, reuse |-> x.reuse + 1, open |-> x.open,
           handler |-> x.handler, up |-> x.up, by |-> x.by]
  BY <1>1 DEF K!reuse, IsStream
<1>3. PICK c : c = [req |-> x.req, rsp |-> x.rsp, reuse |-> x.reuse + 1, open |-> FALSE,
           handler |-> x.handler, up |-> x.up, by |-> x.by] OBVIOUS
<1>4. IsStream(u) /\ IsStream(c) BY <1>2, <1>3 DEF IsStream
<1>5. PICK used : used = [str EXCEPT ![s] = K!reuse(@)] OBVIOUS
<1>6. str[s] = x BY DEF KadType
<1>7. used = [streams EXCEPT ![s] = u] BY <1>1, <1>5, <1>6
<1>8. used[s] = u BY <1>7
<1>9. [used EXCEPT ![s].open = FALSE] = [streams EXCEPT ![s] = c]
  <2>1. PICK d : d = [u EXCEPT !.open = FALSE] OBVIOUS
  <2>2. d = [req |-> u.req, rsp |-> u.rsp, reuse |-> u.reuse, open |-> FALSE,
             handler |-> u.handler, up |-> u.up, by |-> u.by]
    BY <1>4, <2>1 DEF IsStream
  <2>3. [u EXCEPT !.open = FALSE] = c BY <2>1, <2>2, <1>2, <1>3
  <2>4. QED BY <2>3, <1>7, <1>8
<1>10. \/ cache' = s /\ streams' = used
       \/ cache' = cache /\ streams' = [used EXCEPT ![s].open = FALSE]
  BY <1>5 DEF K!put_messenger
<1>11. CASE cache' = s /\ streams' = used
  <2>1. Becomes(s, u) BY <1>7, <1>11, StreamBecomes
  <2>2. QED BY <1>2, <1>4, <1>11, <2>1
<1>12. CASE cache' = cache /\ streams' = [used EXCEPT ![s].open = FALSE]
  <2>1. Becomes(s, c) BY <1>9, <1>12, StreamBecomes
  <2>2. QED BY <1>3, <1>4, <1>12, <2>1
<1>13. QED BY <1>10, <1>11, <1>12

LEMMA SentClosed ==
  ASSUME NEW x, NEW y, Sent(x), y.req = x.req, y.up = x.up, y.by = x.by
  PROVE  Sent(y)
BY DEF Sent

\* A job that drops its messenger fails: it could not write, the answer is none
\* or not the one expected, or the time is over.
LEMMA DropFails ==
  ASSUME KadInv, NEW j \in Jobs, Holds(j), K!drop_messenger(job[j].s),
         job' = [job EXCEPT ![j].st = "failed"], UNCHANGED <<posted, reqs, phantom, reply>>
  PROVE  KadInv'
<1>0. PICK s : s = job[j].s OBVIOUS
<1>1. KadType /\ s \in DOMAIN streams BY <1>0 DEF KadInv, Messengers
<1>2. PICK x : x = streams[s] OBVIOUS
<1>3. PICK y : y = [x EXCEPT !.open = FALSE] OBVIOUS
<1>4. IsStream(x) /\ Sent(x) BY <1>1, <1>2 DEF KadInv, KadType
<1>5. y = [req |-> x.req, rsp |-> x.rsp, reuse |-> x.reuse, open |-> FALSE,
           handler |-> x.handler, up |-> x.up, by |-> x.by]
  BY <1>3, <1>4 DEF IsStream
<1>6. IsStream(y) /\ Sent(y)
  <2>1. y.req = x.req /\ y.rsp = x.rsp /\ y.up = x.up /\ y.by = x.by BY <1>5
  <2>2. QED BY <1>4, <1>5, <2>1, SentClosed DEF IsStream
<1>7. streams' = [streams EXCEPT ![s] = y] /\ cache' = cache
  BY <1>0, <1>2, <1>3 DEF K!drop_messenger
<1>8. Becomes(s, y) BY <1>1, <1>7, StreamBecomes
<1>9. PICK z : z = [job[j] EXCEPT !.st = "failed"] OBVIOUS
<1>10. IsJob(job[j]) BY <1>1 DEF KadType
<1>11. z = [st |-> "failed", s |-> job[j].s, res |-> job[j].res] BY <1>9, <1>10 DEF IsJob
<1>12. IsJob(z) /\ z.st = "failed" /\ z.s = job[j].s BY <1>11 DEF IsJob
<1>13. JobMoves(j, z) BY <1>9 DEF JobMoves
<1>14. y.by = streams[job[j].s].by /\ y.open = FALSE BY <1>0, <1>2, <1>5
<1>15. z.st # "waiting" /\ z.st # "ok" BY <1>12
<1>16. QED BY <1>0, <1>6, <1>7, <1>8, <1>12, <1>13, <1>14, <1>15, JobGoesOn

\* The request of a job that has not sent is none of those on their way.
LEMMA RequestSent ==
  ASSUME KadInv, NEW j \in Jobs, job[j].st = "sending", NEW x, x = streams[job[j].s], x.up = TRUE,
         NEW y, NEW large,
         y.req = K!write_one(x.req, K!req_msg_to_proto(Request[j]), large),
         y.by = x.by \union {j}
  PROVE  Sent(y) /\ \E X : y.req \in Seq(X)
<1>0. job[j].s \in DOMAIN streams BY DEF KadInv, Messengers, Holds
<1>1. Sent(x) /\ IsStream(x) BY <1>0 DEF KadInv, KadType
<1>2. PICK X : x.req \in Seq(X) BY <1>1 DEF IsStream
<1>3. PICK n \in Nat : Len(x.req) = 2 * n BY <1>1 DEF Sent
<1>4. /\ \E Y : y.req \in Seq(Y)
      /\ Len(y.req) = Len(x.req) + 2
      /\ \A i \in 1..Len(x.req) : y.req[i] = x.req[i]
      /\ y.req[Len(x.req) + 2] = K!Body(K!req_msg_to_proto(Request[j]))
  BY <1>2, WriteOne
<1>5. Len(y.req) = 2 * (n + 1) /\ y.req[2 * (n + 1)] = Packet(j)
  <2>1. Len(x.req) + 2 = 2 * (n + 1) BY <1>3
  <2>2. QED BY <2>1, <1>4 DEF Packet
<1>6. reqs[j] = 0 /\ reply[j] = K!None BY DEF KadInv, JobEnds
<1>7. \A i \in x.by : i \in Jobs /\ i # j BY <1>0 DEF KadInv, Senders
<1>8. \A k \in Nat : 2 * k \in 1..Len(y.req) => k = n + 1 \/ (2 * k \in 1..Len(x.req) /\ y.req[2 * k] = x.req[2 * k])
  <2>1. SUFFICES ASSUME NEW k \in Nat, 2 * k \in 1..Len(y.req), k # n + 1
                 PROVE  2 * k \in 1..Len(x.req) /\ y.req[2 * k] = x.req[2 * k] OBVIOUS
  <2>2. 2 * k \in 1..(2 * n) BY <2>1, <1>5
  <2>3. QED BY <2>2, <1>3, <1>4
<1>9. \A k \in Nat : 2 * k \in 1..Len(x.req) => x.req[2 * k] # Packet(j)
  <2>1. SUFFICES ASSUME NEW k \in Nat, 2 * k \in 1..Len(x.req), x.req[2 * k] = Packet(j) PROVE FALSE OBVIOUS
  <2>2. PICK i \in x.by : x.req[2 * k] = Packet(i) BY <2>1, <1>1 DEF Sent
  <2>3. QED BY <2>1, <2>2, <1>7, PacketOnce
<1>10. \A k \in Nat : 2 * k \in 1..Len(y.req) =>
         \E i \in y.by : y.req[2 * k] = Packet(i) /\ reqs[i] = 0 /\ reply[i] = K!None
  <2>1. SUFFICES ASSUME NEW k \in Nat, 2 * k \in 1..Len(y.req)
                 PROVE  \E i \in y.by : y.req[2 * k] = Packet(i) /\ reqs[i] = 0 /\ reply[i] = K!None OBVIOUS
  <2>2. CASE k = n + 1
    <3>1. j \in y.by OBVIOUS
    <3>2. QED BY <2>2, <3>1, <1>5, <1>6
  <2>3. CASE 2 * k \in 1..Len(x.req) /\ y.req[2 * k] = x.req[2 * k]
    <3>1. PICK i \in x.by : x.req[2 * k] = Packet(i) /\ reqs[i] = 0 /\ reply[i] = K!None BY <2>3, <1>1 DEF Sent
    <3>2. QED BY <2>3, <3>1
  <2>4. QED BY <2>1, <2>2, <2>3, <1>8
<1>11. \A k, l \in Nat : 2 * k \in 1..Len(y.req) /\ 2 * l \in 1..Len(y.req) /\ y.req[2 * k] = y.req[2 * l] => k = l
  <2>1. SUFFICES ASSUME NEW k \in Nat, NEW l \in Nat, 2 * k \in 1..Len(y.req), 2 * l \in 1..Len(y.req),
                        y.req[2 * k] = y.req[2 * l]
                 PROVE  k = l OBVIOUS
  <2>2. CASE k = n + 1 /\ l = n + 1 BY <2>2
  <2>3. CASE k = n + 1 /\ l # n + 1
    <3>1. 2 * l \in 1..Len(x.req) /\ y.req[2 * l] = x.req[2 * l] BY <2>1, <2>3, <1>8
    <3>2. y.req[2 * k] = Packet(j) BY <2>3, <1>5
    <3>3. x.req[2 * l] # Packet(j) BY <3>1, <1>9
    <3>4. QED BY <2>1, <3>1, <3>2, <3>3
  <2>4. CASE k # n + 1 /\ l = n + 1
    <3>1. 2 * k \in 1..Len(x.req) /\ y.req[2 * k] = x.req[2 * k] BY <2>1, <2>4, <1>8
    <3>2. y.req[2 * l] = Packet(j) BY <2>4, <1>5
    <3>3. x.req[2 * k] # Packet(j) BY <3>1, <1>9
    <3>4. QED BY <2>1, <3>1, <3>2, <3>3
  <2>5. CASE k # n + 1 /\ l # n + 1
    <3>1. 2 * k \in 1..Len(x.req) /\ y.req[2 * k] = x.req[2 * k] BY <2>1, <2>5, <1>8
    <3>2. 2 * l \in 1..Len(x.req) /\ y.req[2 * l] = x.req[2 * l] BY <2>1, <2>5, <1>8
    <3>3. x.req[2 * k] = x.req[2 * l] BY <2>1, <3>1, <3>2
    <3>4. QED BY <3>1, <3>2, <3>3, <1>1 DEF Sent
  <2>6. QED BY <2>2, <2>3, <2>4, <2>5
<1>12. \E m \in Nat : Len(y.req) = 2 * m
  <2>1. n + 1 \in Nat OBVIOUS
  <2>2. QED BY <1>5, <2>1
<1>13. QED BY <1>4, <1>10, <1>11, <1>12 DEF Sent

LEMMA SendMessage ==
  ASSUME KadInv, NEW j \in Jobs, K!send_message(j)
  PROVE  KadInv'
<1>0. PICK s : s = job[j].s OBVIOUS
<1>1. job[j].st = "sending" /\ Holds(j) BY DEF K!send_message, Holds
<1>2. KadType /\ s \in DOMAIN streams /\ streams[s].open BY <1>0, <1>1 DEF KadInv, Messengers
<1>3. UNCHANGED <<posted, reqs, phantom, reply>> BY DEF K!send_message
<1>4. PICK str : str = [streams EXCEPT ![s].req = K!write_one(@, K!req_msg_to_proto(Request[j]), Request[j] \in Large),
                                       ![s].by = @ \union {j}] OBVIOUS
<1>5. CASE streams[s].up /\ K!put_messenger(s, str) /\ job' = [job EXCEPT ![j].st = "ok"]
  <2>1. PICK x : x = streams[s] OBVIOUS
  <2>2. PICK q : q = K!write_one(x.req, K!req_msg_to_proto(Request[j]), Request[j] \in Large) OBVIOUS
  <2>3. PICK w : w = [x EXCEPT !.req = q, !.by = x.by \union {j}] OBVIOUS
  <2>4. IsStream(x) BY <1>2, <2>1 DEF KadType
  <2>5. w = [req |-> q, rsp |-> x.rsp, reuse |-> x.reuse, open |-> x.open, handler |-> x.handler, up |-> x.up,
             by |-> x.by \union {j}]
    BY <2>3, <2>4 DEF IsStream
  <2>6. w.req = q /\ w.by = x.by \union {j} /\ w.rsp = x.rsp /\ w.up = x.up /\ w.open = x.open BY <2>5
  <2>7. x.up = TRUE BY <1>5, <2>1, <2>4 DEF IsStream
  <2>8. Sent(w) /\ \E X : w.req \in Seq(X)
    BY <1>0, <1>1, <2>1, <2>2, <2>6, <2>7, RequestSent
  <2>9. IsStream(w) BY <2>4, <2>5, <2>6, <2>8 DEF IsStream
  <2>10. str = [streams EXCEPT ![s] = w] BY <1>2, <1>4, <2>1, <2>2, <2>3
  <2>11. PICK y : /\ IsStream(y) /\ Becomes(s, y)
                  /\ y.req = w.req /\ y.rsp = w.rsp /\ y.by = w.by /\ y.up = w.up
                  /\ \/ cache' = s /\ y.open = w.open
                     \/ cache' = cache /\ y.open = FALSE
    BY <1>2, <1>5, <2>9, <2>10, PutBack
  <2>12. Sent(y) BY <2>8, <2>11, SentClosed
  <2>13. y.rsp = <<>>
    <3>1. job[j].st # "waiting" BY <1>1
    <3>2. streams[job[j].s].rsp = <<>> BY <1>1, <3>1, NothingLeft
    <3>3. QED BY <3>2, <1>0, <2>1, <2>6, <2>11
  <2>14. PICK z : z = [job[j] EXCEPT !.st = "ok"] OBVIOUS
  <2>15. IsJob(job[j]) BY <1>2 DEF KadType
  <2>16. z = [st |-> "ok", s |-> job[j].s, res |-> job[j].res] BY <2>14, <2>15 DEF IsJob
  <2>17. IsJob(z) /\ z.st = "ok" /\ z.s = job[j].s BY <2>16 DEF IsJob
  <2>18. JobMoves(j, z) BY <1>3, <1>5, <2>14 DEF JobMoves
  <2>19. y.by = streams[job[j].s].by \union {j} BY <1>0, <2>1, <2>6, <2>11
  <2>20. \/ cache' = cache
         \/ cache' = job[j].s /\ y.open
    BY <1>0, <1>2, <2>1, <2>6, <2>11
  <2>21. Request[j].type = "AddProvider" BY DEF K!send_message
  <2>22. z.st # "waiting" /\ z.st # "failed" BY <2>17
  <2>23. QED BY <1>0, <1>1, <2>11, <2>12, <2>13, <2>17, <2>18, <2>19, <2>20, <2>21, <2>22, JobGoesOn
<1>6. CASE K!drop_messenger(s) /\ job' = [job EXCEPT ![j].st = "failed"]
  BY <1>0, <1>1, <1>3, <1>6, DropFails
<1>7. QED BY <1>0, <1>4, <1>5, <1>6 DEF K!send_message

LEMMA SendRequest ==
  ASSUME KadInv, NEW j \in Jobs, K!send_request(j)
  PROVE  KadInv'
<1>0. PICK s : s = job[j].s OBVIOUS
<1>1. job[j].st = "sending" /\ Holds(j) BY DEF K!send_request, Holds
<1>2. KadType /\ s \in DOMAIN streams /\ streams[s].open BY <1>0, <1>1 DEF KadInv, Messengers
<1>3. UNCHANGED <<posted, reqs, phantom, reply>> BY DEF K!send_request
<1>5. CASE /\ streams[s].up
           /\ streams' = [streams EXCEPT ![s].req = K!write_one(@, K!req_msg_to_proto(Request[j]), Request[j] \in Large),
                                         ![s].by = @ \union {j}]
           /\ job' = [job EXCEPT ![j].st = "waiting"]
           /\ UNCHANGED cache
  <2>1. PICK x : x = streams[s] OBVIOUS
  <2>2. PICK q : q = K!write_one(x.req, K!req_msg_to_proto(Request[j]), Request[j] \in Large) OBVIOUS
  <2>3. PICK w : w = [x EXCEPT !.req = q, !.by = x.by \union {j}] OBVIOUS
  <2>4. IsStream(x) BY <1>2, <2>1 DEF KadType
  <2>5. w = [req |-> q, rsp |-> x.rsp, reuse |-> x.reuse, open |-> x.open, handler |-> x.handler, up |-> x.up,
             by |-> x.by \union {j}]
    BY <2>3, <2>4 DEF IsStream
  <2>6. w.req = q /\ w.by = x.by \union {j} /\ w.rsp = x.rsp /\ w.up = x.up /\ w.open = x.open BY <2>5
  <2>7. x.up = TRUE BY <1>5, <2>1, <2>4 DEF IsStream
  <2>8. Sent(w) /\ \E X : w.req \in Seq(X)
    BY <1>0, <1>1, <2>1, <2>2, <2>6, <2>7, RequestSent
  <2>9. IsStream(w) BY <2>4, <2>5, <2>6, <2>8 DEF IsStream
  <2>10. streams' = [streams EXCEPT ![s] = w] BY <1>2, <1>5, <2>1, <2>2, <2>3
  <2>11. Becomes(s, w) BY <1>2, <2>10, StreamBecomes
  <2>13. w.rsp = <<>>
    <3>1. job[j].st # "waiting" BY <1>1
    <3>2. streams[job[j].s].rsp = <<>> BY <1>1, <3>1, NothingLeft
    <3>3. QED BY <3>2, <1>0, <2>1, <2>6
  <2>14. PICK z : z = [job[j] EXCEPT !.st = "waiting"] OBVIOUS
  <2>15. IsJob(job[j]) BY <1>2 DEF KadType
  <2>16. z = [st |-> "waiting", s |-> job[j].s, res |-> job[j].res] BY <2>14, <2>15 DEF IsJob
  <2>17. IsJob(z) /\ z.st = "waiting" /\ z.s = job[j].s BY <2>16 DEF IsJob
  <2>18. JobMoves(j, z) BY <1>3, <1>5, <2>14 DEF JobMoves
  <2>19. w.by = streams[job[j].s].by \union {j} BY <1>0, <2>1, <2>6
  <2>20. cache' = cache /\ w.open BY <1>2, <1>5, <2>1, <2>6
  <2>22. z.st # "ok" /\ z.st # "failed" BY <2>17
  <2>23. QED BY <1>0, <1>1, <2>8, <2>9, <2>11, <2>13, <2>17, <2>18, <2>19, <2>20, <2>22, JobGoesOn
<1>6. CASE K!drop_messenger(s) /\ job' = [job EXCEPT ![j].st = "failed"]
  BY <1>0, <1>1, <1>3, <1>6, DropFails
<1>7. QED BY <1>0, <1>5, <1>6 DEF K!send_request

LEMMA ExactlyTwo == ASSUME NEW n \in Nat, n >= 2, n <= 2 PROVE n = 2
OBVIOUS

\* The answer that a job reads is the one to its request.
LEMMA Receive ==
  ASSUME KadInv, NEW j \in Jobs, K!receive(j)
  PROVE  KadInv'
<1>0. PICK s : s = job[j].s OBVIOUS
<1>1. job[j].st = "waiting" /\ Holds(j) BY DEF K!receive, Holds
<1>2. KadType /\ s \in DOMAIN streams /\ streams[s].open BY <1>0, <1>1 DEF KadInv, Messengers
<1>3. UNCHANGED <<posted, reqs, phantom, reply>> BY DEF K!receive
<1>4. PICK r : r = K!read_one(streams[s].rsp, streams[s].handler = "ended" \/ ~streams[s].up) OBVIOUS
<1>5. PICK a : a = IF r.st = "ok" THEN K!proto_to_resp_msg(r.m) ELSE K!None OBVIOUS
<1>6. CASE /\ K!Expected(j, a)
           /\ K!put_messenger(s, [streams EXCEPT ![s].rsp = r.rest])
           /\ job' = [job EXCEPT ![j].st = "ok", ![j].res = a]
  <2>1. PICK x : x = streams[s] OBVIOUS
  <2>4. IsStream(x) /\ Sent(x) /\ Answered(s) BY <1>2, <2>1 DEF KadType, KadInv
  <2>5. PICK X : x.rsp \in Seq(X) BY <2>4 DEF IsStream
  <2>6. r.st = "ok" BY <1>5, <1>6 DEF K!Expected
  <2>7. Len(x.rsp) >= 2 /\ r.m = x.rsp[2].m /\ r.rest = Tail(Tail(x.rsp)) BY <1>4, <2>1, <2>5, <2>6, ReadOne
  <2>8. x.rsp # <<>>
    <3>1. Len(<<>>) = 0 OBVIOUS
    <3>2. QED BY <2>7, <3>1
  <2>9. PICK i \in Jobs : /\ job[i].st = "waiting" /\ job[i].s = s
                          /\ Len(x.rsp) <= 2
                          /\ \E v \in Responses[Request[i]] :
                               /\ reply[i] = <<v>>
                               /\ Len(x.rsp) = 2 => x.rsp[2] = K!Body(K!resp_msg_to_proto(v))
    BY <1>2, <2>1, <2>4, <2>8 DEF Answered
  <2>10. i = j
    <3>1. Holds(i) /\ job[i].s = job[j].s BY <2>9, <1>0 DEF Holds
    <3>2. QED BY <3>1, <1>1 DEF KadInv, Messengers
  <2>11. PICK v \in Responses[Request[j]] : reply[j] = <<v>> /\ (Len(x.rsp) = 2 => x.rsp[2] = K!Body(K!resp_msg_to_proto(v)))
    BY <2>9, <2>10
  <2>12. Len(x.rsp) = 2
    <3>1. PICK n \in Nat : n = Len(x.rsp) BY <2>5
    <3>2. n >= 2 /\ n <= 2 BY <3>1, <2>7, <2>9
    <3>3. n = 2 BY <3>1, <3>2, ExactlyTwo
    <3>4. QED BY <3>1, <3>3
  <2>13. r.m = K!resp_msg_to_proto(v) BY <2>7, <2>11, <2>12 DEF K!Body
  <2>14. a = <<v>>
    <3>1. IsAnswer(v) BY KadMessages
    <3>2. QED BY <3>1, <1>5, <2>6, <2>13, AnswerRead
  <2>15. reply[j] = a /\ reply[j] # K!None BY <2>11, <2>14 DEF K!None
  <2>16. r.rest = <<>>
    <3>1. PICK Y : Tail(Tail(x.rsp)) \in Seq(Y) BY <2>5, <2>7, <2>12, RestOf
    <3>2. Len(Tail(Tail(x.rsp))) = 0 BY <2>5, <2>7, <2>12, RestOf
    <3>3. PICK v2 : v2 = Tail(Tail(x.rsp)) OBVIOUS
    <3>4. v2 \in Seq(Y) /\ Len(v2) = 0 BY <3>1, <3>2, <3>3
    <3>5. v2 = <<>> BY <3>4
    <3>6. QED BY <3>3, <3>5, <2>7
  <2>17. PICK w : w = [x EXCEPT !.rsp = <<>>] OBVIOUS
  <2>18. w = [req |-> x.req, rsp |-> <<>>, reuse |-> x.reuse, open |-> x.open, handler |-> x.handler, up |-> x.up,
              by |-> x.by]
    BY <2>4, <2>17 DEF IsStream
  <2>19. w.req = x.req /\ w.rsp = <<>> /\ w.up = x.up /\ w.by = x.by /\ w.open = x.open BY <2>18
  <2>20. <<>> \in Seq({}) OBVIOUS
  <2>21. IsStream(w) BY <2>4, <2>18, <2>19, <2>20 DEF IsStream
  <2>22. Sent(w) BY <2>4, <2>19, SentClosed
  <2>23. PICK str : str = [streams EXCEPT ![s].rsp = r.rest] OBVIOUS
  <2>24. str = [streams EXCEPT ![s] = w] BY <2>1, <2>16, <2>17, <2>23
  <2>25. PICK y : /\ IsStream(y) /\ Becomes(s, y)
                  /\ y.req = w.req /\ y.rsp = w.rsp /\ y.by = w.by /\ y.up = w.up
                  /\ \/ cache' = s /\ y.open = w.open
                     \/ cache' = cache /\ y.open = FALSE
    <3>1. K!put_messenger(s, str) BY <1>6, <2>23
    <3>2. QED BY <1>2, <3>1, <2>21, <2>24, PutBack
  <2>26. Sent(y) BY <2>22, <2>25, SentClosed
  <2>27. PICK z : z = [job[j] EXCEPT !.st = "ok", !.res = a] OBVIOUS
  <2>28. IsJob(job[j]) BY <1>2 DEF KadType
  <2>29. z = [st |-> "ok", s |-> job[j].s, res |-> a] BY <2>27, <2>28 DEF IsJob
  <2>30. IsJob(z) /\ z.st = "ok" /\ z.s = job[j].s /\ z.res = a BY <2>29 DEF IsJob
  <2>31. job' = [job EXCEPT ![j] = z] BY <1>2, <1>6, <2>27 DEF KadType
  <2>32. JobMoves(j, z) BY <1>3, <2>31 DEF JobMoves
  <2>33. y.by = streams[job[j].s].by BY <1>0, <2>1, <2>19, <2>25
  <2>34. \/ cache' = cache
         \/ cache' = job[j].s /\ y.open
    BY <1>0, <1>2, <2>1, <2>19, <2>25
  <2>35. z.st # "waiting" /\ z.st # "failed" BY <2>30
  <2>36. y.rsp = <<>> BY <2>19, <2>25
  <2>37. QED BY <1>0, <1>1, <2>15, <2>25, <2>26, <2>30, <2>32, <2>33, <2>34, <2>35, <2>36, JobGoesOn
<1>7. CASE K!drop_messenger(s) /\ job' = [job EXCEPT ![j].st = "failed"]
  BY <1>0, <1>1, <1>3, <1>7, DropFails
<1>8. QED BY <1>0, <1>4, <1>5, <1>6, <1>7 DEF K!receive

LEMMA TimeOut ==
  ASSUME KadInv, NEW j \in Jobs, K!time_out(j)
  PROVE  KadInv'
<1>1. Holds(j) BY DEF K!time_out, Holds
<1>2. QED BY <1>1, DropFails DEF K!time_out

\* There may be one more stream, a new one.
Grown ==
  /\ \E X : streams' \in Seq(X)
  /\ Len(streams) \in Nat /\ Len(streams') \in Nat /\ Len(streams) <= Len(streams')
  /\ DOMAIN streams = 1..Len(streams) /\ DOMAIN streams' = 1..Len(streams')
  /\ \A t \in DOMAIN streams : streams'[t] = streams[t]
  /\ \A t \in DOMAIN streams' \ DOMAIN streams : streams'[t] = K!NewStream

LEMMA NewIsStream == IsStream(K!NewStream) /\ Sent(K!NewStream)
<1>1. <<>> \in Seq({}) OBVIOUS
<1>2. IsStream(K!NewStream) BY <1>1 DEF IsStream, K!NewStream
<1>3. K!NewStream.req = <<>> /\ Len(<<>>) = 0 BY DEF K!NewStream
<1>4. Len(K!NewStream.req) = 0 BY <1>3
<1>5. \E n \in Nat : Len(K!NewStream.req) = 2 * n
  <2>1. 0 \in Nat /\ 0 = 2 * 0 OBVIOUS
  <2>2. QED BY <1>4, <2>1
<1>6. \A k \in Nat : 2 * k \notin 1..Len(K!NewStream.req) BY <1>4
<1>7. QED BY <1>2, <1>5, <1>6 DEF Sent

\* A job starts: with a messenger that nobody has, or without one it fails.
LEMMA JobStarts ==
  ASSUME KadInv, NEW j \in Jobs, job[j].st = "idle", NEW z, JobMoves(j, z), IsJob(z), Grown,
         z.st \in {"sending", "failed"}, z.s \in 0..Len(streams'),
         z.st = "failed" => z.s = 0 /\ cache' = cache,
         z.st = "sending" => /\ z.s \in DOMAIN streams' /\ streams'[z.s].open /\ cache' = 0
                             /\ z.s = cache \/ z.s \notin DOMAIN streams
  PROVE  KadInv'
<1>2. KadType /\ Messengers /\ Senders /\ Posts BY DEF KadInv
<1>3. job'[j] = z /\ (\A i \in Jobs : i # j => job'[i] = job[i]) /\ job' = [i \in Jobs |-> job'[i]]
  BY <1>2 DEF JobMoves, KadType
<1>4. JobEnds(j) BY DEF KadInv
<1>5. \A t \in DOMAIN streams : t \in DOMAIN streams' /\ streams'[t] = streams[t] BY DEF Grown
<1>6. 0 \notin DOMAIN streams /\ DOMAIN streams = 1..Len(streams) BY DEF Grown
<1>8. KadType'
  <2>1. \A i \in Jobs : IsJob(job'[i]) /\ job'[i].s \in 0..Len(streams')
    <3>1. SUFFICES ASSUME NEW i \in Jobs PROVE IsJob(job'[i]) /\ job'[i].s \in 0..Len(streams') OBVIOUS
    <3>2. CASE i = j BY <3>2, <1>3
    <3>3. CASE i # j
      <4>1. IsJob(job[i]) /\ job[i].s \in 0..Len(streams) BY <1>2 DEF KadType
      <4>2. job[i].s \in 0..Len(streams') BY <4>1 DEF Grown
      <4>3. QED BY <4>1, <4>2, <3>3, <1>3
    <3>4. QED BY <3>2, <3>3
  <2>2. cache' \in 0..Len(streams')
    <3>1. cache' \in {0, cache} OBVIOUS
    <3>2. QED BY <3>1, <1>2 DEF Grown, KadType
  <2>3. \A t \in DOMAIN streams' : IsStream(streams'[t]) BY <1>2, NewIsStream DEF Grown, KadType
  <2>4. (\E Y : posted' \in Seq(Y)) /\ reqs' \in [Jobs -> 0..1] /\ reply' = [i \in Jobs |-> reply'[i]] /\ phantom' = 0
    BY <1>2 DEF KadType, JobMoves
  <2>5. QED BY <1>3, <2>1, <2>2, <2>3, <2>4 DEF KadType, Grown
<1>9. \A i \in Jobs : Holds(i)' /\ i # j => Holds(i) /\ job'[i] = job[i] BY <1>3 DEF Holds
<1>10. Holds(j)' => z.st = "sending" BY <1>3 DEF Holds
<1>11. \A i \in Jobs : Holds(i) => job[i].s # z.s \/ z.st # "sending" BY <1>2 DEF Messengers
<1>12. Messengers'
  <2>1. ASSUME NEW i \in Jobs, Holds(i)'
        PROVE  job'[i].s \in DOMAIN streams' /\ streams'[job'[i].s].open /\ job'[i].s # cache'
    <3>1. CASE i = j
      <4>1. z.st = "sending" /\ job'[i] = z BY <3>1, <2>1, <1>3, <1>10
      <4>2. z.s # 0 BY <4>1 DEF Grown
      <4>3. QED BY <4>1, <4>2
    <3>2. CASE i # j
      <4>1. Holds(i) /\ job'[i] = job[i] BY <3>2, <2>1, <1>9
      <4>2. job[i].s \in DOMAIN streams /\ streams[job[i].s].open /\ job[i].s # cache BY <4>1, <1>2 DEF Messengers
      <4>3. job[i].s # 0 BY <4>2, <1>6
      <4>4. cache' \in {0, cache} OBVIOUS
      <4>5. QED BY <4>1, <4>2, <4>3, <4>4, <1>5
    <3>3. QED BY <3>1, <3>2
  <2>2. \A i, k \in Jobs : Holds(i)' /\ Holds(k)' /\ job'[i].s = job'[k].s => i = k
    <3>1. SUFFICES ASSUME NEW i \in Jobs, NEW k \in Jobs, Holds(i)', Holds(k)', job'[i].s = job'[k].s, i # k PROVE FALSE OBVIOUS
    <3>2. CASE i = j BY <3>1, <3>2, <1>3, <1>9, <1>10, <1>11
    <3>3. CASE k = j BY <3>1, <3>3, <1>3, <1>9, <1>10, <1>11
    <3>4. CASE i # j /\ k # j BY <3>1, <3>4, <1>2, <1>9 DEF Messengers
    <3>5. QED BY <3>2, <3>3, <3>4
  <2>3. cache' # 0 => streams'[cache'].open
    <3>1. SUFFICES ASSUME cache' # 0 PROVE streams'[cache'].open OBVIOUS
    <3>2. cache' = cache BY <3>1
    <3>3. cache \in DOMAIN streams BY <3>1, <3>2, <1>2, <1>6 DEF KadType, Grown
    <3>4. QED BY <3>1, <3>2, <3>3, <1>2, <1>5 DEF Messengers
  <2>4. QED BY <2>1, <2>2, <2>3 DEF Messengers
<1>13. ASSUME NEW t \in DOMAIN streams' PROVE t \in DOMAIN streams \/ streams'[t] = K!NewStream BY <1>13 DEF Grown
<1>14. K!NewStream.by = {} /\ K!NewStream.rsp = <<>> BY DEF K!NewStream
<1>15. Senders'
  <2>1. ASSUME NEW t \in DOMAIN streams', NEW i \in streams'[t].by
        PROVE  i \in Jobs /\ job'[i].s = t /\ job'[i].st \in {"waiting", "ok", "failed"}
    <3>1. t \in DOMAIN streams BY <2>1, <1>13, <1>14
    <3>2. i \in streams[t].by BY <2>1, <3>1, <1>5
    <3>3. i \in Jobs /\ job[i].s = t /\ job[i].st \in {"waiting", "ok", "failed"} BY <3>1, <3>2, <1>2 DEF Senders
    <3>4. QED BY <3>3, <1>3
  <2>2. QED BY <2>1 DEF Senders
<1>16. Posts'
  <2>1. \A i \in 1..Len(posted) :
          /\ posted[i].s \in DOMAIN streams'
          /\ \E k \in streams'[posted[i].s].by : posted[i].req = Request[k] /\ reqs[k] = 1 /\ reply[k] = K!None
    <3>1. SUFFICES ASSUME NEW i \in 1..Len(posted)
                   PROVE  /\ posted[i].s \in DOMAIN streams'
                          /\ \E k \in streams'[posted[i].s].by : posted[i].req = Request[k] /\ reqs[k] = 1 /\ reply[k] = K!None
      OBVIOUS
    <3>2. /\ posted[i].s \in DOMAIN streams
          /\ \E k \in streams[posted[i].s].by : posted[i].req = Request[k] /\ reqs[k] = 1 /\ reply[k] = K!None
      BY <1>2 DEF Posts
    <3>3. QED BY <3>2, <1>5
  <2>2. \A i, k \in 1..Len(posted) : posted[i].req = posted[k].req => i = k BY <1>2 DEF Posts
  <2>3. QED BY <2>1, <2>2 DEF Posts, JobMoves
<1>17. ASSUME NEW t \in DOMAIN streams' PROVE Sent(streams[t])'
  <2>1. Sent(streams'[t])
    <3>1. CASE t \in DOMAIN streams
      <4>1. Sent(streams[t]) /\ streams'[t] = streams[t] BY <3>1, <1>5 DEF KadInv
      <4>2. QED BY <4>1
    <3>2. CASE streams'[t] = K!NewStream BY <3>2, NewIsStream
    <3>3. QED BY <3>1, <3>2, <1>13
  <2>2. QED BY <2>1 DEF Sent, JobMoves, Packet, K!req_msg_to_proto, K!Body, K!None
<1>18. ASSUME NEW t \in DOMAIN streams' PROVE Answered(t)'
  <2>1. CASE t \in DOMAIN streams
    <3>1. Answered(t) /\ streams'[t] = streams[t] BY <2>1, <1>5 DEF KadInv
    <3>2. SUFFICES ASSUME streams[t].open, streams[t].rsp # <<>>
                   PROVE  \E i \in Jobs : /\ job'[i].st = "waiting" /\ job'[i].s = t
                                          /\ Len(streams[t].rsp) <= 2
                                          /\ \E r \in Responses[Request[i]] :
                                               /\ reply[i] = <<r>>
                                               /\ Len(streams[t].rsp) = 2 => streams[t].rsp[2] = K!Body(K!resp_msg_to_proto(r))
      BY <3>1 DEF Answered, JobMoves
    <3>3. PICK i \in Jobs : /\ job[i].st = "waiting" /\ job[i].s = t
                            /\ Len(streams[t].rsp) <= 2
                            /\ \E r \in Responses[Request[i]] :
                                 /\ reply[i] = <<r>>
                                 /\ Len(streams[t].rsp) = 2 => streams[t].rsp[2] = K!Body(K!resp_msg_to_proto(r))
      BY <3>1, <3>2 DEF Answered
    <3>4. job'[i] = job[i] BY <3>3, <1>3
    <3>5. QED BY <3>3, <3>4
  <2>2. CASE streams'[t] = K!NewStream BY <2>2, <1>14 DEF Answered
  <2>3. QED BY <2>1, <2>2, <1>13
<1>19. ASSUME NEW i \in Jobs PROVE JobEnds(i)'
  <2>1. CASE i = j
    BY <2>1, <1>3, <1>4 DEF JobEnds, JobMoves
  <2>2. CASE i # j
    <3>1. JobEnds(i) /\ job'[i] = job[i] BY <2>2, <1>3 DEF KadInv
    <3>2. job[i].st = "failed" /\ job[i].s # 0 => ~streams'[job[i].s].open
      <4>1. SUFFICES ASSUME job[i].st = "failed" /\ job[i].s # 0 PROVE ~streams'[job[i].s].open OBVIOUS
      <4>2. ~streams[job[i].s].open BY <4>1, <3>1 DEF JobEnds
      <4>3. job[i].s \in DOMAIN streams BY <4>1, <1>2, <1>6 DEF KadType, Grown
      <4>4. QED BY <4>2, <4>3, <1>5
    <3>3. QED BY <3>1, <3>2 DEF JobEnds, JobMoves
  <2>3. QED BY <2>1, <2>2
<1>20. QED BY <1>8, <1>12, <1>15, <1>16, <1>17, <1>18, <1>19 DEF KadInv

LEMMA BuildFails ==
  ASSUME KadInv, NEW j \in Jobs, K!build_fails(j)
  PROVE  KadInv'
<1>1. job[j].st = "idle" /\ UNCHANGED <<cache, streams, posted, reqs, phantom, reply>> /\ job' = [job EXCEPT ![j].st = "failed"]
  BY DEF K!build_fails
<1>2. KadType BY DEF KadInv
<1>3. PICK z : z = [job[j] EXCEPT !.st = "failed"] OBVIOUS
<1>4. IsJob(job[j]) BY <1>2 DEF KadType
<1>5. z = [st |-> "failed", s |-> job[j].s, res |-> job[j].res] /\ job[j].s = 0 BY <1>1, <1>3, <1>4 DEF IsJob
<1>6. IsJob(z) /\ z.st = "failed" /\ z.s = 0 BY <1>5 DEF IsJob
<1>7. JobMoves(j, z) BY <1>1, <1>3 DEF JobMoves
<1>8. PICK X : streams \in Seq(X) BY <1>2 DEF KadType
<1>9. Len(streams) \in Nat /\ DOMAIN streams = 1..Len(streams) BY <1>8
<1>10. Grown BY <1>1, <1>8, <1>9 DEF Grown
<1>11. z.s \in 0..Len(streams') BY <1>1, <1>6, <1>9
<1>12. z.st # "sending" BY <1>6
<1>13. QED BY <1>1, <1>6, <1>7, <1>10, <1>11, <1>12, JobStarts

LEMMA GetMessenger ==
  ASSUME KadInv, NEW j \in Jobs, K!get_messenger(j)
  PROVE  KadInv'
<1>1. job[j].st = "idle" /\ cache' = 0 /\ UNCHANGED <<posted, reqs, phantom, reply>> BY DEF K!get_messenger
<1>2. KadType /\ Messengers BY DEF KadInv
<1>3. PICK X : streams \in Seq(X) BY <1>2 DEF KadType
<1>4. Len(streams) \in Nat /\ DOMAIN streams = 1..Len(streams) BY <1>3
<1>5. PICK s : s = IF cache # 0 THEN cache ELSE Len(streams) + 1 OBVIOUS
<1>6. PICK z : z = [st |-> "sending", s |-> s, res |-> K!None] OBVIOUS
<1>7. IsJob(z) /\ z.st = "sending" /\ z.s = s BY <1>6 DEF IsJob
<1>8. JobMoves(j, z) BY <1>1, <1>5, <1>6 DEF K!get_messenger, JobMoves
<1>9. z.st # "failed" BY <1>7
<1>10. CASE cache # 0
  <2>1. s = cache /\ streams' = streams BY <1>5, <1>10 DEF K!get_messenger
  <2>2. Grown BY <1>3, <1>4, <2>1 DEF Grown
  <2>3. s \in DOMAIN streams' /\ streams'[s].open /\ s \in 0..Len(streams')
    BY <1>2, <1>4, <1>10, <2>1 DEF KadType, Messengers
  <2>4. QED BY <1>1, <1>7, <1>8, <1>9, <2>1, <2>2, <2>3, JobStarts
<1>11. CASE cache = 0
  <2>1. s = Len(streams) + 1 /\ streams' = Append(streams, K!NewStream) BY <1>5, <1>11 DEF K!get_messenger
  <2>2. PICK Y : Y = X \union {K!NewStream} OBVIOUS
  <2>3. streams \in Seq(Y) /\ K!NewStream \in Y BY <1>3, <2>2
  <2>4. streams' \in Seq(Y) /\ Len(streams') = Len(streams) + 1 BY <2>1, <2>3
  <2>5. (\A t \in 1..Len(streams) : streams'[t] = streams[t]) /\ streams'[s] = K!NewStream BY <2>1, <2>3
  <2>6. DOMAIN streams' = 1..(Len(streams) + 1) BY <2>4
  <2>7. Grown BY <1>4, <2>1, <2>4, <2>5, <2>6 DEF Grown
  <2>8. s \in DOMAIN streams' /\ s \notin DOMAIN streams /\ s \in 0..Len(streams') BY <1>4, <2>1, <2>4, <2>6
  <2>9. streams'[s].open BY <2>5 DEF K!NewStream
  <2>10. QED BY <1>1, <1>7, <1>8, <1>9, <2>7, <2>8, <2>9, JobStarts
<1>12. QED BY <1>10, <1>11

\* Sent with the counts and answers of another state.
SentWith(x, rq, rp) ==
  /\ x.up => \E n \in Nat : Len(x.req) = 2 * n
  /\ \A k \in Nat : 2 * k \in 1..Len(x.req) =>
       \E j \in x.by : x.req[2 * k] = Packet(j) /\ rq[j] = 0 /\ rp[j] = K!None
  /\ \A k, l \in Nat : 2 * k \in 1..Len(x.req) /\ 2 * l \in 1..Len(x.req) /\ x.req[2 * k] = x.req[2 * l] => k = l

LEMMA SentNow == ASSUME NEW x PROVE Sent(x) <=> SentWith(x, reqs, reply)
BY DEF Sent, SentWith

LEMMA SentThen == ASSUME NEW t, SentWith(streams'[t], reqs', reply') PROVE Sent(streams[t])'
BY DEF Sent, SentWith, Packet, K!req_msg_to_proto, K!Body, K!None

\* Requests on their way stay so when the counts and answers of others change.
LEMMA SentStays ==
  ASSUME NEW x, NEW rq, NEW rp, Sent(x),
         \A i \in x.by : reqs[i] = 0 /\ reply[i] = K!None => rq[i] = 0 /\ rp[i] = K!None
  PROVE  SentWith(x, rq, rp)
<1>1. \A k \in Nat : 2 * k \in 1..Len(x.req) =>
        \E j \in x.by : x.req[2 * k] = Packet(j) /\ rq[j] = 0 /\ rp[j] = K!None
  BY DEF Sent
<1>2. QED BY <1>1 DEF Sent, SentWith

\* The other node's steps and losses leave the jobs, and who has which messenger.
LEMMA SameJobs ==
  ASSUME KadInv, NEW s \in DOMAIN streams, NEW y, Becomes(s, y), IsStream(y), job' = job,
         y.by = streams[s].by, y.open = streams[s].open, cache' \in {0, cache},
         reqs' \in [Jobs -> 0..1], reply' = [i \in Jobs |-> reply'[i]], phantom' = 0,
         \E X : posted' \in Seq(X)
  PROVE  KadType' /\ Messengers' /\ Senders'
<1>1. KadType /\ Messengers /\ Senders BY DEF KadInv
<1>2. PICK X : streams \in Seq(X) BY <1>1 DEF KadType
<1>3. Len(streams) \in Nat /\ DOMAIN streams = 1..Len(streams) BY <1>2
<1>4. DOMAIN streams' = DOMAIN streams /\ Len(streams') = Len(streams) /\ streams'[s] = y
      /\ \A t \in DOMAIN streams : t # s => streams'[t] = streams[t] BY DEF Becomes
<1>5. \A t \in DOMAIN streams : streams'[t].open = streams[t].open /\ streams'[t].by = streams[t].by BY <1>4
<1>6. KadType'
  <2>1. (\E Y : streams' \in Seq(Y)) /\ \A t \in DOMAIN streams' : IsStream(streams'[t]) BY <1>1, StreamsTyped
  <2>2. job' = [i \in Jobs |-> job'[i]] /\ \A i \in Jobs : IsJob(job'[i]) /\ job'[i].s \in 0..Len(streams')
    BY <1>1, <1>4 DEF KadType
  <2>3. cache' \in 0..Len(streams') BY <1>1, <1>3, <1>4 DEF KadType
  <2>4. QED BY <2>1, <2>2, <2>3 DEF KadType
<1>7. Messengers'
  <2>1. \A i \in Jobs : Holds(i)' <=> Holds(i) BY DEF Holds
  <2>2. ASSUME NEW i \in Jobs, Holds(i)
        PROVE  job[i].s \in DOMAIN streams' /\ streams'[job[i].s].open /\ job[i].s # cache'
    <3>1. job[i].s \in DOMAIN streams /\ streams[job[i].s].open /\ job[i].s # cache BY <1>1, <2>2 DEF Messengers
    <3>2. job[i].s # 0 BY <3>1, <1>3
    <3>3. QED BY <3>1, <3>2, <1>4, <1>5
  <2>3. cache' # 0 => streams'[cache'].open
    <3>1. SUFFICES ASSUME cache' # 0 PROVE streams'[cache'].open OBVIOUS
    <3>2. cache' = cache /\ cache \in DOMAIN streams BY <3>1, <1>1, <1>3 DEF KadType
    <3>3. QED BY <3>1, <3>2, <1>1, <1>5 DEF Messengers
  <2>4. \A i, k \in Jobs : Holds(i) /\ Holds(k) /\ job[i].s = job[k].s => i = k BY <1>1 DEF Messengers
  <2>5. QED BY <2>1, <2>2, <2>3, <2>4 DEF Messengers
<1>8. Senders'
  <2>1. \A t \in DOMAIN streams : \A j \in streams'[t].by : j \in Jobs /\ job[j].s = t /\ job[j].st \in {"waiting", "ok", "failed"}
    BY <1>1, <1>5 DEF Senders
  <2>2. QED BY <1>4, <2>1 DEF Senders
<1>9. QED BY <1>6, <1>7, <1>8

\* So do they leave what the jobs ended with, but for the answer to a job that is not done.
LEMMA SameEnds ==
  ASSUME KadInv, NEW s \in DOMAIN streams, NEW y, Becomes(s, y), job' = job,
         y.open = streams[s].open, NEW i \in Jobs,
         \/ reqs'[i] = reqs[i] /\ reply'[i] = reply[i]
         \/ job[i].st \in {"waiting", "failed"}
         \/ job[i].st = "ok" /\ Request[i].type = "AddProvider"
         \/ job[i].st = "ok" /\ reply'[i] = reply[i]
  PROVE  JobEnds(i)'
<1>1. JobEnds(i) /\ KadType BY DEF KadInv
<1>2. PICK X : streams \in Seq(X) BY <1>1 DEF KadType
<1>3. Len(streams) \in Nat /\ DOMAIN streams = 1..Len(streams) BY <1>2
<1>4. \A t \in DOMAIN streams : streams'[t].open = streams[t].open BY DEF Becomes
<1>5. job[i].st = "failed" /\ job[i].s # 0 => ~streams'[job[i].s].open
  <2>1. SUFFICES ASSUME job[i].st = "failed", job[i].s # 0 PROVE ~streams'[job[i].s].open OBVIOUS
  <2>2. job[i].s \in DOMAIN streams BY <2>1, <1>1, <1>3 DEF KadType
  <2>3. QED BY <2>1, <2>2, <1>1, <1>4 DEF JobEnds
<1>6. job[i].st \in {"none", "idle", "sending"} => reqs'[i] = 0 /\ reply'[i] = K!None BY <1>1 DEF JobEnds
<1>7. job[i].st = "ok" /\ Request[i].type # "AddProvider" => reply'[i] # K!None /\ job[i].res = reply'[i] BY <1>1 DEF JobEnds
<1>8. QED BY <1>5, <1>6, <1>7 DEF JobEnds, K!None

\* An answer on its way stays so, or is lost, or the stream is closed.
LEMMA SameAnswers ==
  ASSUME KadInv, NEW t \in DOMAIN streams, job' = job,
         streams'[t].open = streams[t].open,
         \/ streams'[t].rsp = streams[t].rsp
         \/ \E m \in 0..Len(streams[t].rsp) : streams'[t].rsp = SubSeq(streams[t].rsp, 1, m),
         \A i \in Jobs : reply[i] # K!None => reply'[i] = reply[i]
  PROVE  Answered(t)'
<1>1. Answered(t) /\ IsStream(streams[t]) BY DEF KadInv, KadType
<1>2. PICK p : p = streams'[t].rsp OBVIOUS
<1>3. PICK q : q = streams[t].rsp OBVIOUS
<1>4. PICK X : q \in Seq(X) BY <1>1, <1>3 DEF IsStream
<1>5. Len(q) \in Nat BY <1>4
<1>6. (p # <<>> => q # <<>>) /\ Len(p) <= Len(q) /\ Len(p) \in Nat /\ (Len(p) = 2 => p[2] = q[2])
  <2>1. CASE p = q BY <2>1, <1>5
  <2>2. CASE \E m \in 0..Len(q) : p = SubSeq(q, 1, m)
    <3>1. PICK m \in 0..Len(q) : p = SubSeq(q, 1, m) BY <2>2
    <3>2. p \in Seq(X) /\ Len(p) = m /\ \A i \in 1..m : p[i] = q[i] BY <3>1, <1>4, <1>5
    <3>3. q = <<>> => m = 0 BY <3>1
    <3>4. m = 0 => p = <<>> BY <3>2
    <3>5. QED BY <3>2, <3>3, <3>4, <1>5
  <2>3. QED BY <2>1, <2>2, <1>2, <1>3
<1>7. SUFFICES ASSUME streams[t].open, p # <<>>
               PROVE  \E i \in Jobs : /\ job[i].st = "waiting" /\ job[i].s = t
                                      /\ Len(p) <= 2
                                      /\ \E r \in Responses[Request[i]] :
                                           /\ reply'[i] = <<r>>
                                           /\ Len(p) = 2 => p[2] = K!Body(K!resp_msg_to_proto(r))
  BY <1>2 DEF Answered
<1>8. PICK i \in Jobs : /\ job[i].st = "waiting" /\ job[i].s = t
                        /\ Len(q) <= 2
                        /\ \E r \in Responses[Request[i]] :
                             /\ reply[i] = <<r>>
                             /\ Len(q) = 2 => q[2] = K!Body(K!resp_msg_to_proto(r))
  BY <1>1, <1>3, <1>6, <1>7 DEF Answered
<1>9. PICK r \in Responses[Request[i]] : reply[i] = <<r>> /\ (Len(q) = 2 => q[2] = K!Body(K!resp_msg_to_proto(r))) BY <1>8
<1>10. reply'[i] = <<r>>
  <2>1. <<r>> # <<>> OBVIOUS
  <2>2. reply[i] # K!None BY <2>1, <1>9 DEF K!None
  <2>3. QED BY <2>2, <1>9
<1>11. Len(p) <= 2 /\ (Len(p) = 2 => Len(q) = 2)
  <2>1. PICK a \in Nat : a = Len(p) BY <1>6
  <2>2. PICK b \in Nat : b = Len(q) BY <1>5
  <2>3. a <= b /\ b <= 2 BY <2>1, <2>2, <1>6, <1>8
  <2>4. a <= 2 /\ (a = 2 => b = 2) BY <2>3
  <2>5. QED BY <2>1, <2>2, <2>4
<1>12. QED BY <1>6, <1>8, <1>9, <1>10, <1>11

\* What is posted stays so.
LEMMA SamePosts ==
  ASSUME KadInv, NEW s \in DOMAIN streams, NEW y, Becomes(s, y), y.by = streams[s].by,
         UNCHANGED <<posted, reqs, reply>>
  PROVE  Posts'
<1>1. Posts BY DEF KadInv
<1>2. \A t \in DOMAIN streams : t \in DOMAIN streams' /\ streams'[t].by = streams[t].by BY DEF Becomes
<1>3. \A i \in 1..Len(posted) :
        /\ posted[i].s \in DOMAIN streams'
        /\ \E k \in streams'[posted[i].s].by : posted[i].req = Request[k] /\ reqs[k] = 1 /\ reply[k] = K!None
  BY <1>1, <1>2 DEF Posts
<1>4. QED BY <1>1, <1>3 DEF Posts, K!None

LEMMA LostStep ==
  ASSUME KadInv, NEW s \in DOMAIN streams, K!Lost(s)
  PROVE  KadInv'
<1>1. UNCHANGED <<job, posted, reqs, phantom, reply>> /\ cache' \in {0, cache} BY DEF K!Lost
<1>2. KadType BY DEF KadInv
<1>3. PICK x : x = streams[s] OBVIOUS
<1>4. IsStream(x) /\ Sent(x) BY <1>2, <1>3 DEF KadInv, KadType
<1>5. PICK n \in 0..Len(x.req), m \in 0..Len(x.rsp) :
        streams' = [streams EXCEPT ![s].up = FALSE, ![s].req = SubSeq(@, 1, n), ![s].rsp = SubSeq(@, 1, m)]
  BY <1>3 DEF K!Lost
<1>6. PICK q : q = SubSeq(x.req, 1, n) OBVIOUS
<1>7. PICK p : p = SubSeq(x.rsp, 1, m) OBVIOUS
<1>8. PICK y : y = [x EXCEPT !.up = FALSE, !.req = q, !.rsp = p] OBVIOUS
<1>9. y = [req |-> q, rsp |-> p, reuse |-> x.reuse, open |-> x.open, handler |-> x.handler, up |-> FALSE, by |-> x.by]
  BY <1>4, <1>8 DEF IsStream
<1>10. y.req = q /\ y.rsp = p /\ y.up = FALSE /\ y.by = x.by /\ y.open = x.open BY <1>9
<1>11. streams' = [streams EXCEPT ![s] = y] BY <1>3, <1>5, <1>6, <1>7, <1>8
<1>12. PICK X : x.req \in Seq(X) BY <1>4 DEF IsStream
<1>13. PICK Y : x.rsp \in Seq(Y) BY <1>4 DEF IsStream
<1>14. q \in Seq(X) /\ Len(q) = n /\ n <= Len(x.req) /\ \A i \in 1..n : q[i] = x.req[i] BY <1>6, <1>12
<1>15. p \in Seq(Y) BY <1>7, <1>13
<1>16. IsStream(y) BY <1>4, <1>9, <1>10, <1>14, <1>15 DEF IsStream
<1>17. Becomes(s, y) BY <1>2, <1>11, StreamBecomes
<1>18. KadType' /\ Messengers' /\ Senders'
  <2>1. reqs' \in [Jobs -> 0..1] /\ reply' = [i \in Jobs |-> reply'[i]] /\ phantom' = 0 /\ \E Z : posted' \in Seq(Z)
    BY <1>1, <1>2 DEF KadType
  <2>2. y.by = streams[s].by /\ y.open = streams[s].open BY <1>3, <1>10
  <2>3. QED BY <1>1, <1>16, <1>17, <2>1, <2>2, SameJobs
<1>19. Posts' BY <1>1, <1>3, <1>10, <1>17, SamePosts
<1>20. ASSUME NEW t \in DOMAIN streams' PROVE Sent(streams[t])'
  <2>1. CASE t = s
    <3>1. \A k \in Nat : 2 * k \in 1..n => 2 * k \in 1..Len(x.req) /\ q[2 * k] = x.req[2 * k]
      <4>1. PICK b \in Nat : b = Len(x.req) BY <1>12
      <4>2. n \in Nat /\ n <= b BY <4>1, <1>14
      <4>3. QED BY <4>1, <4>2, <1>14
    <3>2. Sent(y)
      <4>1. \A k \in Nat : 2 * k \in 1..Len(y.req) => 2 * k \in 1..Len(x.req) /\ y.req[2 * k] = x.req[2 * k]
        BY <3>1, <1>10, <1>14
      <4>2. \A k \in Nat : 2 * k \in 1..Len(y.req) =>
              \E j \in y.by : y.req[2 * k] = Packet(j) /\ reqs[j] = 0 /\ reply[j] = K!None
        <5>1. SUFFICES ASSUME NEW k \in Nat, 2 * k \in 1..Len(y.req)
                       PROVE  \E j \in y.by : y.req[2 * k] = Packet(j) /\ reqs[j] = 0 /\ reply[j] = K!None OBVIOUS
        <5>2. 2 * k \in 1..Len(x.req) /\ y.req[2 * k] = x.req[2 * k] BY <5>1, <4>1
        <5>3. PICK j \in x.by : x.req[2 * k] = Packet(j) /\ reqs[j] = 0 /\ reply[j] = K!None BY <5>2, <1>4 DEF Sent
        <5>4. QED BY <5>2, <5>3, <1>10
      <4>3. \A k, l \in Nat : 2 * k \in 1..Len(y.req) /\ 2 * l \in 1..Len(y.req) /\ y.req[2 * k] = y.req[2 * l] => k = l
        <5>1. SUFFICES ASSUME NEW k \in Nat, NEW l \in Nat, 2 * k \in 1..Len(y.req), 2 * l \in 1..Len(y.req),
                              y.req[2 * k] = y.req[2 * l]
                       PROVE  k = l OBVIOUS
        <5>2. 2 * k \in 1..Len(x.req) /\ y.req[2 * k] = x.req[2 * k] BY <5>1, <4>1
        <5>3. 2 * l \in 1..Len(x.req) /\ y.req[2 * l] = x.req[2 * l] BY <5>1, <4>1
        <5>4. x.req[2 * k] = x.req[2 * l] BY <5>1, <5>2, <5>3
        <5>5. QED BY <5>2, <5>3, <5>4, <1>4 DEF Sent
      <4>4. QED BY <4>2, <4>3, <1>10 DEF Sent
    <3>3. SentWith(streams'[t], reqs', reply') BY <3>2, <2>1, <1>1, <1>17, SentNow DEF Becomes
    <3>4. QED BY <3>3, SentThen
  <2>2. CASE t # s
    <3>1. Sent(streams[t]) /\ streams'[t] = streams[t] BY <2>2, <1>17 DEF Becomes, KadInv
    <3>2. SentWith(streams'[t], reqs', reply') BY <3>1, <1>1, SentNow
    <3>3. QED BY <3>2, SentThen
  <2>3. QED BY <2>1, <2>2
<1>21. ASSUME NEW t \in DOMAIN streams' PROVE Answered(t)'
  <2>1. t \in DOMAIN streams BY <1>17 DEF Becomes
  <2>2. streams'[t].open = streams[t].open BY <2>1, <1>3, <1>10, <1>17 DEF Becomes
  <2>3. \/ streams'[t].rsp = streams[t].rsp
        \/ \E a \in 0..Len(streams[t].rsp) : streams'[t].rsp = SubSeq(streams[t].rsp, 1, a)
    BY <2>1, <1>3, <1>7, <1>10, <1>17 DEF Becomes
  <2>4. QED BY <2>1, <2>2, <2>3, <1>1, SameAnswers
<1>22. ASSUME NEW i \in Jobs PROVE JobEnds(i)' BY <1>1, <1>3, <1>10, <1>17, SameEnds
<1>23. QED BY <1>18, <1>19, <1>20, <1>21, <1>22 DEF KadInv

\* The handler posts the request that is first on its way; it is the one of the job that
\* sent it, and of no other.
LEMMA HandlePosts ==
  ASSUME KadInv, NEW s \in DOMAIN streams, NEW x, x = streams[s], Len(x.req) >= 2,
         NEW q, q = K!proto_to_req_msg(x.req[2].m)
  PROVE  \E j \in Jobs : /\ j \in x.by /\ q = <<Request[j]>> /\ x.req[2] = Packet(j)
                         /\ reqs[j] = 0 /\ reply[j] = K!None
                         /\ K!Sender(s, Request[j]) = {j}
<1>1. Sent(x) /\ IsStream(x) /\ Senders BY DEF KadInv, KadType
<1>2. PICK X : x.req \in Seq(X) BY <1>1 DEF IsStream
<1>3. 1 \in Nat /\ 2 * 1 = 2 OBVIOUS
<1>4. 2 \in 1..Len(x.req) BY <1>2
<1>5. PICK j \in x.by : x.req[2] = Packet(j) /\ reqs[j] = 0 /\ reply[j] = K!None
  <2>1. 2 * 1 \in 1..Len(x.req) BY <1>3, <1>4
  <2>2. \E j \in x.by : x.req[2 * 1] = Packet(j) /\ reqs[j] = 0 /\ reply[j] = K!None BY <1>1, <1>3, <2>1 DEF Sent
  <2>3. QED BY <2>2, <1>3
<1>6. \A i \in x.by : i \in Jobs BY <1>1 DEF Senders
<1>7. q = <<Request[j]>> BY <1>5, <1>6, PacketRead
<1>8. K!Sender(s, Request[j]) = {j}
  <2>1. \A i \in K!Sender(s, Request[j]) : i = j BY <1>6, <1>5, KadMessages DEF K!Sender
  <2>2. j \in K!Sender(s, Request[j]) BY <1>5 DEF K!Sender
  <2>3. QED BY <2>1, <2>2
<1>9. QED BY <1>5, <1>6, <1>7, <1>8

\* What is left after the first packet was sent by other jobs.
LEMMA RestSent ==
  ASSUME NEW x, Sent(x), NEW X, x.req \in Seq(X), Len(x.req) >= 2, NEW j, x.req[2] = Packet(j),
         NEW y, y.req = Tail(Tail(x.req)), y.by = x.by, y.up = x.up,
         NEW rq, \A i \in x.by : i # j => rq[i] = reqs[i]
  PROVE  SentWith(y, rq, reply)
<1>1. PICK n \in Nat : n = Len(x.req) /\ n >= 2 OBVIOUS
<1>2. Len(y.req) = n - 2 /\ \A i \in 1..(n - 2) : y.req[i] = x.req[i + 2] BY <1>1, RestOf
<1>3. \A k \in Nat : 2 * k \in 1..Len(y.req) => 2 * (k + 1) \in 1..Len(x.req) /\ y.req[2 * k] = x.req[2 * (k + 1)] /\ k + 1 # 1
  <2>1. SUFFICES ASSUME NEW k \in Nat, 2 * k \in 1..Len(y.req)
                 PROVE  2 * (k + 1) \in 1..Len(x.req) /\ y.req[2 * k] = x.req[2 * (k + 1)] /\ k + 1 # 1 OBVIOUS
  <2>2. 2 * k \in 1..(n - 2) BY <2>1, <1>2
  <2>3. y.req[2 * k] = x.req[2 * k + 2] BY <2>2, <1>2
  <2>4. 2 * k + 2 = 2 * (k + 1) /\ 2 * (k + 1) \in 1..n /\ k + 1 # 1 BY <2>2, <1>1
  <2>5. QED BY <2>3, <2>4, <1>1
<1>4. 2 * 1 \in 1..Len(x.req) /\ 2 * 1 = 2 BY <1>1
<1>5. \A k \in Nat : 2 * k \in 1..Len(y.req) =>
        \E i \in y.by : y.req[2 * k] = Packet(i) /\ rq[i] = 0 /\ reply[i] = K!None
  <2>1. SUFFICES ASSUME NEW k \in Nat, 2 * k \in 1..Len(y.req)
                 PROVE  \E i \in y.by : y.req[2 * k] = Packet(i) /\ rq[i] = 0 /\ reply[i] = K!None OBVIOUS
  <2>2. 2 * (k + 1) \in 1..Len(x.req) /\ y.req[2 * k] = x.req[2 * (k + 1)] /\ k + 1 # 1 /\ k + 1 \in Nat BY <2>1, <1>3
  <2>3. PICK i \in x.by : x.req[2 * (k + 1)] = Packet(i) /\ reqs[i] = 0 /\ reply[i] = K!None BY <2>2 DEF Sent
  <2>4. x.req[2 * (k + 1)] # x.req[2 * 1] BY <2>2, <1>4 DEF Sent
  <2>5. i # j BY <2>3, <2>4, <1>4
  <2>6. QED BY <2>2, <2>3, <2>5
<1>6. \A k, l \in Nat : 2 * k \in 1..Len(y.req) /\ 2 * l \in 1..Len(y.req) /\ y.req[2 * k] = y.req[2 * l] => k = l
  <2>1. SUFFICES ASSUME NEW k \in Nat, NEW l \in Nat, 2 * k \in 1..Len(y.req), 2 * l \in 1..Len(y.req),
                        y.req[2 * k] = y.req[2 * l]
                 PROVE  k = l OBVIOUS
  <2>0. k + 1 \in Nat /\ l + 1 \in Nat OBVIOUS
  <2>2. 2 * (k + 1) \in 1..Len(x.req) /\ y.req[2 * k] = x.req[2 * (k + 1)] BY <2>1, <1>3, Zenon
  <2>3. 2 * (l + 1) \in 1..Len(x.req) /\ y.req[2 * l] = x.req[2 * (l + 1)] BY <2>1, <1>3, Zenon
  <2>4. x.req[2 * (k + 1)] = x.req[2 * (l + 1)] BY <2>1, <2>2, <2>3
  <2>5. k + 1 = l + 1 BY <2>0, <2>2, <2>3, <2>4 DEF Sent
  <2>6. QED BY <2>5
<1>7. y.up => \E m \in Nat : Len(y.req) = 2 * m
  <2>1. SUFFICES ASSUME y.up PROVE \E m \in Nat : Len(y.req) = 2 * m OBVIOUS
  <2>2. PICK b \in Nat : Len(x.req) = 2 * b BY <2>1 DEF Sent
  <2>3. b - 1 \in Nat /\ n - 2 = 2 * (b - 1) BY <2>2, <1>1
  <2>4. QED BY <2>3, <1>2
<1>8. QED BY <1>5, <1>6, <1>7 DEF SentWith

LEMMA HandleStep ==
  ASSUME KadInv, NEW s \in DOMAIN streams, K!handle(s)
  PROVE  KadInv'
<1>1. UNCHANGED <<job, cache, reply>> BY DEF K!handle
<1>2. KadType /\ Posts /\ Senders BY DEF KadInv
<1>3. PICK x : x = streams[s] OBVIOUS
<1>4. IsStream(x) /\ Sent(x) BY <1>2, <1>3 DEF KadInv, KadType
<1>5. PICK X : x.req \in Seq(X) BY <1>4 DEF IsStream
<1>6. PICK r : r = K!read_one(x.req, ~x.open \/ ~x.up) OBVIOUS
<1>7. PICK q : q = IF r.st = "ok" THEN K!proto_to_req_msg(r.m) ELSE K!None OBVIOUS
<1>8. CASE /\ q # K!None
           /\ posted' = Append(posted, [s |-> s, req |-> q[1]])
           /\ streams' = [streams EXCEPT ![s].req = r.rest, ![s].handler = "posted"]
           /\ reqs' = [j \in Jobs |-> IF j \in K!Sender(s, q[1]) THEN reqs[j] + 1 ELSE reqs[j]]
           /\ phantom' = IF K!Sender(s, q[1]) = {} THEN phantom + 1 ELSE phantom
  <2>1. r.st = "ok" /\ q = K!proto_to_req_msg(r.m) BY <1>7, <1>8
  <2>2. Len(x.req) >= 2 /\ r.m = x.req[2].m /\ r.rest = Tail(Tail(x.req)) BY <1>5, <1>6, <2>1, ReadOne
  <2>3. PICK j \in Jobs : /\ j \in x.by /\ q = <<Request[j]>> /\ x.req[2] = Packet(j)
                          /\ reqs[j] = 0 /\ reply[j] = K!None
                          /\ K!Sender(s, Request[j]) = {j}
    <3>1. q = K!proto_to_req_msg(x.req[2].m) BY <2>1, <2>2
    <3>2. QED BY <1>3, <2>2, <3>1, HandlePosts
  <2>4. q[1] = Request[j] /\ K!Sender(s, q[1]) = {j} BY <2>3
  <2>5. reqs'[j] = 1 /\ (\A i \in Jobs : i # j => reqs'[i] = reqs[i]) /\ phantom' = 0 /\ reqs' \in [Jobs -> 0..1]
    <3>1. \A i \in Jobs : reqs'[i] = IF i = j THEN 1 ELSE reqs[i] BY <1>8, <2>3, <2>4
    <3>2. \A i \in Jobs : reqs'[i] \in 0..1 BY <3>1, <1>2 DEF KadType
    <3>3. phantom' = 0 BY <1>2, <1>8, <2>4 DEF KadType
    <3>4. QED BY <1>8, <3>1, <3>2, <3>3
  <2>6. PICK y : y = [x EXCEPT !.req = r.rest, !.handler = "posted"] OBVIOUS
  <2>7. y = [req |-> r.rest, rsp |-> x.rsp, reuse |-> x.reuse, open |-> x.open, handler |-> "posted", up |-> x.up, by |-> x.by]
    BY <1>4, <2>6 DEF IsStream
  <2>8. y.req = Tail(Tail(x.req)) /\ y.rsp = x.rsp /\ y.open = x.open /\ y.up = x.up /\ y.by = x.by BY <2>2, <2>7
  <2>9. \E Y : y.req \in Seq(Y) BY <1>5, <2>2, <2>8, RestOf
  <2>10. IsStream(y) BY <1>4, <2>7, <2>8, <2>9 DEF IsStream
  <2>11. streams' = [streams EXCEPT ![s] = y] BY <1>3, <1>8, <2>6
  <2>12. Becomes(s, y) BY <1>2, <2>11, StreamBecomes
  <2>13. PICK P : posted \in Seq(P) BY <1>2 DEF KadType
  <2>14. PICK e : e = [s |-> s, req |-> q[1]] OBVIOUS
  <2>15. PICK Q : Q = P \union {e} OBVIOUS
  <2>16. posted \in Seq(Q) /\ e \in Q /\ posted' = Append(posted, e) BY <1>8, <2>13, <2>14, <2>15
  <2>17. /\ posted' \in Seq(Q) /\ Len(posted') = Len(posted) + 1 /\ Len(posted) \in Nat
         /\ posted'[Len(posted) + 1] = e /\ \A i \in 1..Len(posted) : posted'[i] = posted[i]
    BY <2>16
  <2>18. e.s = s /\ e.req = Request[j] BY <2>4, <2>14
  <2>19. KadType' /\ Messengers' /\ Senders'
    <3>1. reply' = [i \in Jobs |-> reply'[i]] BY <1>1, <1>2 DEF KadType
    <3>2. y.by = streams[s].by /\ y.open = streams[s].open BY <1>3, <2>8
    <3>3. QED BY <1>1, <2>5, <2>10, <2>12, <2>17, <3>1, <3>2, SameJobs
  <2>20. \A t \in DOMAIN streams : t \in DOMAIN streams' /\ streams'[t].by = streams[t].by BY <1>3, <2>8, <2>12 DEF Becomes
  <2>21. ASSUME NEW i \in 1..Len(posted)
         PROVE  /\ posted[i].s \in DOMAIN streams' /\ posted[i].req # Request[j]
                /\ \E k \in streams'[posted[i].s].by : posted[i].req = Request[k] /\ reqs'[k] = 1 /\ reply[k] = K!None
    <3>1. posted[i].s \in DOMAIN streams BY <1>2 DEF Posts
    <3>2. PICK k \in streams[posted[i].s].by : posted[i].req = Request[k] /\ reqs[k] = 1 /\ reply[k] = K!None BY <1>2 DEF Posts
    <3>3. k \in Jobs BY <3>1, <1>2 DEF Senders
    <3>4. k # j BY <3>2, <2>3
    <3>5. reqs'[k] = 1 BY <3>2, <3>3, <3>4, <2>5
    <3>6. Request[k] # Request[j] BY <3>3, <3>4, KadMessages
    <3>7. QED BY <3>1, <3>2, <3>5, <3>6, <2>20
  <2>22. Posts'
    <3>1. ASSUME NEW i \in 1..Len(posted')
          PROVE  /\ posted'[i].s \in DOMAIN streams'
                 /\ \E k \in streams'[posted'[i].s].by : posted'[i].req = Request[k] /\ reqs'[k] = 1 /\ reply'[k] = K!None
      <4>1. CASE i \in 1..Len(posted) BY <4>1, <2>17, <2>21, <1>1
      <4>2. CASE i = Len(posted) + 1
        <5>1. posted'[i] = e BY <4>2, <2>17
        <5>2. s \in DOMAIN streams' /\ j \in streams'[s].by BY <2>3, <2>20, <1>3
        <5>3. QED BY <5>1, <5>2, <2>3, <2>5, <2>18, <1>1
      <4>3. QED BY <4>1, <4>2, <3>1, <2>17
    <3>2. ASSUME NEW i \in 1..Len(posted'), NEW k \in 1..Len(posted'), posted'[i].req = posted'[k].req PROVE i = k
      <4>1. PICK n \in Nat : n = Len(posted) BY <2>17
      <4>2. i \in 1..(n + 1) /\ k \in 1..(n + 1) BY <3>2, <4>1, <2>17
      <4>3. CASE i \in 1..n /\ k \in 1..n BY <3>2, <4>1, <4>3, <2>17, <1>2 DEF Posts
      <4>4. CASE i \in 1..n /\ k = n + 1
        <5>1. posted'[i].req # Request[j] /\ posted'[k].req = Request[j] BY <4>1, <4>4, <2>17, <2>18, <2>21
        <5>2. QED BY <5>1, <3>2
      <4>5. CASE i = n + 1 /\ k \in 1..n
        <5>1. posted'[k].req # Request[j] /\ posted'[i].req = Request[j] BY <4>1, <4>5, <2>17, <2>18, <2>21
        <5>2. QED BY <5>1, <3>2
      <4>6. CASE i = n + 1 /\ k = n + 1 BY <4>6
      <4>7. QED BY <4>2, <4>3, <4>4, <4>5, <4>6
    <3>3. QED BY <3>1, <3>2 DEF Posts, K!None
  <2>23. ASSUME NEW t \in DOMAIN streams' PROVE Sent(streams[t])'
    <3>0. t \in DOMAIN streams BY <2>12 DEF Becomes
    <3>1. CASE t = s
      <4>1. \A i \in x.by : i # j => reqs'[i] = reqs[i] BY <1>2, <1>3, <2>5 DEF Senders
      <4>2. SentWith(y, reqs', reply) BY <4>1, <1>4, <1>5, <2>2, <2>3, <2>8, RestSent
      <4>3. SentWith(streams'[t], reqs', reply') BY <4>2, <3>1, <1>1, <2>12 DEF Becomes
      <4>4. QED BY <4>3, SentThen
    <3>2. CASE t # s
      <4>1. Sent(streams[t]) /\ streams'[t] = streams[t] BY <3>0, <3>2, <2>12 DEF Becomes, KadInv
      <4>2. \A i \in streams[t].by : i \in Jobs /\ i # j BY <3>0, <3>2, <2>3, <1>2, <1>3 DEF Senders
      <4>3. \A i \in streams[t].by : reqs[i] = 0 /\ reply[i] = K!None => reqs'[i] = 0 /\ reply'[i] = K!None
        BY <4>2, <2>5, <1>1
      <4>4. SentWith(streams[t], reqs', reply') BY <4>1, <4>3, SentStays
      <4>5. QED BY <4>1, <4>4, SentThen
    <3>3. QED BY <3>1, <3>2
  <2>24. ASSUME NEW t \in DOMAIN streams' PROVE Answered(t)'
    <3>1. t \in DOMAIN streams BY <2>12 DEF Becomes
    <3>2. streams'[t].open = streams[t].open /\ streams'[t].rsp = streams[t].rsp BY <3>1, <1>3, <2>8, <2>12 DEF Becomes
    <3>3. QED BY <3>1, <3>2, <1>1, SameAnswers
  <2>25. ASSUME NEW i \in Jobs PROVE JobEnds(i)'
    <3>1. j \in Jobs /\ job[j].st \in {"waiting", "ok", "failed"} BY <2>3, <1>2, <1>3 DEF Senders
    <3>2. y.open = streams[s].open BY <1>3, <2>8
    <3>3. reply'[i] = reply[i] BY <1>1
    <3>4. CASE i = j BY <3>1, <3>2, <3>3, <3>4, <1>1, <2>12, SameEnds
    <3>5. CASE i # j
      <4>1. reqs'[i] = reqs[i] BY <3>5, <2>5
      <4>2. QED BY <4>1, <3>2, <3>3, <1>1, <2>12, SameEnds
    <3>6. QED BY <3>4, <3>5
  <2>26. QED BY <2>19, <2>22, <2>23, <2>24, <2>25 DEF KadInv
<1>9. CASE streams' = [streams EXCEPT ![s].handler = "ended"] /\ UNCHANGED <<posted, reqs, phantom>>
  <2>1. PICK y : y = [x EXCEPT !.handler = "ended"] OBVIOUS
  <2>2. y = [req |-> x.req, rsp |-> x.rsp, reuse |-> x.reuse, open |-> x.open, handler |-> "ended", up |-> x.up, by |-> x.by]
    BY <1>4, <2>1 DEF IsStream
  <2>3. y.req = x.req /\ y.rsp = x.rsp /\ y.open = x.open /\ y.up = x.up /\ y.by = x.by BY <2>2
  <2>4. IsStream(y) BY <1>4, <2>2, <2>3 DEF IsStream
  <2>5. streams' = [streams EXCEPT ![s] = y] BY <1>3, <1>9, <2>1
  <2>6. Becomes(s, y) BY <1>2, <2>5, StreamBecomes
  <2>7. Sent(y) BY <1>4, <2>3, SentClosed
  <2>8. KadType' /\ Messengers' /\ Senders'
    <3>1. reqs' \in [Jobs -> 0..1] /\ reply' = [i \in Jobs |-> reply'[i]] /\ phantom' = 0 /\ \E Z : posted' \in Seq(Z)
      BY <1>1, <1>2, <1>9 DEF KadType
    <3>2. y.by = streams[s].by /\ y.open = streams[s].open BY <1>3, <2>3
    <3>3. QED BY <1>1, <2>4, <2>6, <3>1, <3>2, SameJobs
  <2>9. Posts' BY <1>1, <1>3, <1>9, <2>3, <2>6, SamePosts
  <2>10. ASSUME NEW t \in DOMAIN streams' PROVE Sent(streams[t])'
    <3>1. Sent(streams'[t])
      <4>1. CASE t = s BY <4>1, <2>6, <2>7 DEF Becomes
      <4>2. CASE t # s
        <5>1. Sent(streams[t]) /\ streams'[t] = streams[t] BY <4>2, <2>6 DEF Becomes, KadInv
        <5>2. QED BY <5>1
      <4>3. QED BY <4>1, <4>2
    <3>2. SentWith(streams'[t], reqs', reply') BY <3>1, <1>1, <1>9, SentNow
    <3>3. QED BY <3>2, SentThen
  <2>11. ASSUME NEW t \in DOMAIN streams' PROVE Answered(t)'
    <3>1. t \in DOMAIN streams BY <2>6 DEF Becomes
    <3>2. streams'[t].open = streams[t].open /\ streams'[t].rsp = streams[t].rsp BY <3>1, <1>3, <2>3, <2>6 DEF Becomes
    <3>3. QED BY <3>1, <3>2, <1>1, SameAnswers
  <2>12. ASSUME NEW i \in Jobs PROVE JobEnds(i)' BY <1>1, <1>3, <1>9, <2>3, <2>6, SameEnds
  <2>13. QED BY <2>8, <2>9, <2>10, <2>11, <2>12 DEF KadInv
<1>10. QED BY <1>3, <1>6, <1>7, <1>8, <1>9 DEF K!handle

\* The main loop takes the first request that is posted, that of job j over stream s, which
\* becomes y.
Takes(j, s, y) ==
  /\ posted # <<>> /\ posted' = Tail(posted)
  /\ posted[1].s = s /\ posted[1].req = Request[j]
  /\ UNCHANGED <<job, cache, reqs, phantom>>
  /\ Becomes(s, y) /\ IsStream(y)
  /\ y.req = streams[s].req /\ y.by = streams[s].by /\ y.open = streams[s].open /\ y.up = streams[s].up

\* The answer is kept, and written on an open stream.
Gives(j, s, y) ==
  /\ reply' = [i \in Jobs |-> reply'[i]]
  /\ \A i \in Jobs : i # j => reply'[i] = reply[i]
  /\ \/ reply'[j] = reply[j] /\ y.rsp = streams[s].rsp
     \/ \E r \in Responses[Request[j]] :
          /\ reply'[j] = <<r>>
          /\ \/ y.rsp = streams[s].rsp
             \/ streams[s].open /\ \E large : y.rsp = K!write_one(streams[s].rsp, K!resp_msg_to_proto(r), large)

LEMMA AnswerGiven ==
  ASSUME KadInv, NEW s \in DOMAIN streams, NEW j \in streams[s].by, NEW y, Takes(j, s, y), Gives(j, s, y),
         reqs[j] = 1, reply[j] = K!None
  PROVE  KadInv'
<1>1. KadType /\ Posts /\ Senders BY DEF KadInv
<1>2. j \in Jobs /\ job[j].s = s /\ job[j].st \in {"waiting", "ok", "failed"} BY <1>1 DEF Senders
<1>3. PICK P : posted \in Seq(P) BY <1>1 DEF KadType
<1>4. PICK n \in Nat : n = Len(posted) BY <1>3
<1>5. /\ posted' \in Seq(P) /\ Len(posted') = n - 1 /\ n >= 1
      /\ \A i \in 1..(n - 1) : posted'[i] = posted[i + 1]
  BY <1>3, <1>4 DEF Takes
<1>6. UNCHANGED <<job, cache, reqs, phantom>> BY DEF Takes
<1>7. KadType' /\ Messengers' /\ Senders'
  <2>1. reqs' \in [Jobs -> 0..1] /\ phantom' = 0 BY <1>1, <1>6 DEF KadType
  <2>2. reply' = [i \in Jobs |-> reply'[i]] BY DEF Gives
  <2>3. Becomes(s, y) /\ IsStream(y) /\ y.by = streams[s].by /\ y.open = streams[s].open BY DEF Takes
  <2>4. QED BY <1>5, <1>6, <2>1, <2>2, <2>3, SameJobs
<1>8. DOMAIN streams' = DOMAIN streams /\ streams'[s] = y
      /\ \A t \in DOMAIN streams : t # s => streams'[t] = streams[t] BY DEF Takes, Becomes
<1>9. \A t \in DOMAIN streams : streams'[t].by = streams[t].by /\ streams'[t].req = streams[t].req
                                /\ streams'[t].up = streams[t].up /\ streams'[t].open = streams[t].open
  BY <1>8 DEF Takes
<1>10. \A i \in Jobs : i # j => reply'[i] = reply[i] BY DEF Gives
<1>11. ASSUME NEW i \in 1..(n - 1)
       PROVE  /\ posted'[i].s \in DOMAIN streams'
              /\ \E k \in streams'[posted'[i].s].by : posted'[i].req = Request[k] /\ reqs'[k] = 1 /\ reply'[k] = K!None
  <2>1. i + 1 \in 1..Len(posted) /\ 1 \in 1..Len(posted) /\ i + 1 # 1 /\ posted'[i] = posted[i + 1] BY <1>4, <1>5
  <2>2. posted[i + 1].s \in DOMAIN streams BY <2>1, <1>1 DEF Posts
  <2>3. PICK k \in streams[posted[i + 1].s].by : posted[i + 1].req = Request[k] /\ reqs[k] = 1 /\ reply[k] = K!None
    BY <2>1, <1>1 DEF Posts
  <2>4. posted[i + 1].req # posted[1].req BY <2>1, <1>1 DEF Posts
  <2>5. k # j BY <2>3, <2>4 DEF Takes
  <2>6. k \in Jobs BY <2>2, <1>1 DEF Senders
  <2>7. reply'[k] = K!None /\ reqs'[k] = 1 BY <2>3, <2>5, <2>6, <1>6, <1>10
  <2>8. QED BY <2>1, <2>2, <2>3, <2>7, <1>8, <1>9
<1>12. Posts'
  <2>1. ASSUME NEW i \in 1..(n - 1), NEW k \in 1..(n - 1), posted'[i].req = posted'[k].req PROVE i = k
    <3>1. i + 1 \in 1..Len(posted) /\ k + 1 \in 1..Len(posted) BY <1>4
    <3>2. posted'[i] = posted[i + 1] /\ posted'[k] = posted[k + 1] BY <1>5
    <3>3. i + 1 = k + 1 BY <3>1, <3>2, <2>1, <1>1 DEF Posts
    <3>4. QED BY <3>3
  <2>2. QED BY <2>1, <1>5, <1>11 DEF Posts, K!None
<1>13. ASSUME NEW t \in DOMAIN streams' PROVE Sent(streams[t])'
  <2>1. t \in DOMAIN streams /\ Sent(streams[t]) BY <1>8 DEF KadInv
  <2>2. Sent(streams'[t]) BY <2>1, <1>9, SentClosed
  <2>3. \A i \in streams'[t].by : i \in Jobs BY <2>1, <1>1, <1>9 DEF Senders
  <2>4. \A i \in streams'[t].by : reqs[i] = 0 /\ reply[i] = K!None => reqs'[i] = 0 /\ reply'[i] = K!None
    BY <2>3, <1>6, <1>10
  <2>5. SentWith(streams'[t], reqs', reply') BY <2>2, <2>4, SentStays
  <2>6. QED BY <2>5, SentThen
<1>14. \A i \in Jobs : reply[i] # K!None => reply'[i] = reply[i] BY <1>10
<1>15. ASSUME NEW t \in DOMAIN streams', streams'[t].rsp = streams[t].rsp PROVE Answered(t)'
  <2>1. t \in DOMAIN streams /\ streams'[t].open = streams[t].open BY <1>8, <1>9
  <2>2. QED BY <2>1, <1>6, <1>14, <1>15, SameAnswers
<1>16. Answered(s)'
  <2>1. CASE y.rsp = streams[s].rsp BY <2>1, <1>8, <1>15
  <2>2. CASE y.rsp # streams[s].rsp
    <3>1. PICK r \in Responses[Request[j]] :
            /\ reply'[j] = <<r>>
            /\ streams[s].open /\ \E large : y.rsp = K!write_one(streams[s].rsp, K!resp_msg_to_proto(r), large)
      BY <2>2 DEF Gives
    <3>2. PICK large : y.rsp = K!write_one(streams[s].rsp, K!resp_msg_to_proto(r), large) BY <3>1
    <3>3. Request[j].type # "AddProvider" BY <1>2, KadMessages
    <3>4. job[j].st = "waiting" BY <3>1, <3>3, WaitsForIt
    <3>5. Holds(j) BY <3>4 DEF Holds
    <3>6. streams[s].rsp = <<>> BY <1>2, <3>5, NothingLeft
    <3>7. <<>> \in Seq({}) /\ Len(<<>>) = 0 OBVIOUS
    <3>8. Len(y.rsp) = 0 + 2 /\ y.rsp[0 + 2] = K!Body(K!resp_msg_to_proto(r))
      <4>1. PICK w : w = streams[s].rsp OBVIOUS
      <4>2. w \in Seq({}) /\ Len(w) = 0 BY <4>1, <3>6, <3>7
      <4>3. PICK m : m = K!resp_msg_to_proto(r) OBVIOUS
      <4>4. PICK v : v = K!write_one(w, m, large) OBVIOUS
      <4>5. Len(v) = Len(w) + 2 /\ v[Len(w) + 2] = K!Body(m) BY <4>2, <4>4, WriteOne
      <4>6. y.rsp = v BY <4>1, <4>3, <4>4, <3>2
      <4>7. QED BY <4>2, <4>3, <4>5, <4>6
    <3>9. Len(y.rsp) = 2 /\ y.rsp[2] = K!Body(K!resp_msg_to_proto(r)) /\ 2 <= 2 BY <3>8
    <3>10. \E i \in Jobs : /\ job'[i].st = "waiting" /\ job'[i].s = s
                           /\ Len(y.rsp) <= 2
                           /\ \E v \in Responses[Request[i]] :
                                /\ reply'[i] = <<v>>
                                /\ Len(y.rsp) = 2 => y.rsp[2] = K!Body(K!resp_msg_to_proto(v))
      BY <3>1, <3>4, <3>9, <1>2, <1>6
    <3>11. QED BY <3>10, <1>8 DEF Answered
  <2>3. QED BY <2>1, <2>2
<1>17. ASSUME NEW t \in DOMAIN streams' PROVE Answered(t)'
  <2>1. CASE t = s BY <2>1, <1>16
  <2>2. CASE t # s BY <2>2, <1>8, <1>15
  <2>3. QED BY <2>1, <2>2
<1>18. ASSUME NEW i \in Jobs PROVE JobEnds(i)'
  <2>1. Becomes(s, y) /\ y.open = streams[s].open /\ reqs'[i] = reqs[i] BY <1>6 DEF Takes
  <2>2. CASE i # j
    <3>1. reply'[i] = reply[i] BY <2>2, <1>10
    <3>2. QED BY <2>1, <3>1, <1>6, SameEnds
  <2>3. CASE i = j
    <3>1. JobEnds(j) BY <1>2 DEF KadInv
    <3>2. job[j].st = "ok" => Request[j].type = "AddProvider" BY <3>1 DEF JobEnds
    <3>3. job[i].st \in {"waiting", "failed"} \/ (job[i].st = "ok" /\ Request[i].type = "AddProvider") BY <2>3, <3>2, <1>2
    <3>4. QED BY <2>1, <3>3, <1>6, SameEnds
  <2>4. QED BY <2>2, <2>3
<1>19. QED BY <1>7, <1>12, <1>13, <1>17, <1>18 DEF KadInv

LEMMA AnswerStep ==
  ASSUME KadInv, K!answer
  PROVE  KadInv'
<1>1. KadType /\ Posts /\ Senders BY DEF KadInv
<1>2. posted # <<>> /\ posted' = Tail(posted) /\ UNCHANGED <<job, cache, reqs, phantom>> BY DEF K!answer
<1>3. PICK P : posted \in Seq(P) BY <1>1 DEF KadType
<1>4. 1 \in 1..Len(posted) /\ Head(posted) = posted[1] BY <1>2, <1>3
<1>5. PICK s : s = posted[1].s OBVIOUS
<1>6. s \in DOMAIN streams BY <1>1, <1>4, <1>5 DEF Posts
<1>7. PICK j \in streams[s].by : posted[1].req = Request[j] /\ reqs[j] = 1 /\ reply[j] = K!None BY <1>1, <1>4, <1>5 DEF Posts
<1>8. \A i \in streams[s].by : i \in Jobs BY <1>1, <1>6 DEF Senders
<1>9. PICK x : x = streams[s] OBVIOUS
<1>10. IsStream(x) BY <1>1, <1>6, <1>9 DEF KadType
<1>11. ASSUME NEW h, streams' = [streams EXCEPT ![s].handler = h]
       PROVE  \E y : Takes(j, s, y) /\ y.rsp = streams[s].rsp
  <2>1. PICK y : y = [x EXCEPT !.handler = h] OBVIOUS
  <2>2. y = [req |-> x.req, rsp |-> x.rsp, reuse |-> x.reuse, open |-> x.open, handler |-> h, up |-> x.up, by |-> x.by]
    BY <1>10, <2>1 DEF IsStream
  <2>3. y.req = x.req /\ y.rsp = x.rsp /\ y.open = x.open /\ y.up = x.up /\ y.by = x.by BY <2>2
  <2>4. IsStream(y) BY <1>10, <2>2, <2>3 DEF IsStream
  <2>5. streams' = [streams EXCEPT ![s] = y] BY <1>9, <1>11, <2>1
  <2>6. Becomes(s, y) BY <1>1, <1>6, <2>5, StreamBecomes
  <2>7. Takes(j, s, y) BY <1>2, <1>5, <1>7, <1>9, <2>3, <2>4, <2>6 DEF Takes
  <2>8. QED BY <2>3, <2>7, <1>9
<1>12. ASSUME NEW h, streams' = [streams EXCEPT ![s].handler = h], UNCHANGED reply PROVE KadInv'
  <2>1. PICK y : Takes(j, s, y) /\ y.rsp = streams[s].rsp BY <1>11, <1>12
  <2>2. reply' = [i \in Jobs |-> reply'[i]] BY <1>1, <1>12 DEF KadType
  <2>3. Gives(j, s, y) BY <1>12, <2>1, <2>2 DEF Gives
  <2>4. QED BY <1>6, <1>7, <2>1, <2>3, AnswerGiven
<1>13. ASSUME NEW r \in Responses[posted[1].req],
              reply' = [i \in Jobs |-> IF i \in streams[s].by /\ Request[i] = posted[1].req THEN <<r>> ELSE reply[i]]
       PROVE  /\ reply' = [i \in Jobs |-> reply'[i]]
              /\ \A i \in Jobs : i # j => reply'[i] = reply[i]
              /\ r \in Responses[Request[j]] /\ reply'[j] = <<r>>
  BY <1>7, <1>8, <1>13, KadMessages
<1>14. ASSUME NEW r \in Responses[posted[1].req],
              reply' = [i \in Jobs |-> IF i \in streams[s].by /\ Request[i] = posted[1].req THEN <<r>> ELSE reply[i]],
              streams' = IF streams[s].up /\ streams[s].open
                         THEN [streams EXCEPT ![s].handler = "reading",
                                              ![s].rsp = K!write_one(@, K!resp_msg_to_proto(r), r \in Large)]
                         ELSE [streams EXCEPT ![s].handler = "ended"]
       PROVE  KadInv'
  <2>1. /\ reply' = [i \in Jobs |-> reply'[i]]
        /\ \A i \in Jobs : i # j => reply'[i] = reply[i]
        /\ r \in Responses[Request[j]] /\ reply'[j] = <<r>>
    BY <1>13, <1>14
  <2>2. CASE streams' = [streams EXCEPT ![s].handler = "ended"]
    <3>1. PICK y : Takes(j, s, y) /\ y.rsp = streams[s].rsp BY <1>11, <2>2
    <3>2. Gives(j, s, y) BY <2>1, <3>1 DEF Gives
    <3>3. QED BY <1>6, <1>7, <3>1, <3>2, AnswerGiven
  <2>3. CASE /\ streams[s].open
             /\ streams' = [streams EXCEPT ![s].handler = "reading",
                                           ![s].rsp = K!write_one(@, K!resp_msg_to_proto(r), r \in Large)]
    <3>1. PICK p : p = K!write_one(x.rsp, K!resp_msg_to_proto(r), r \in Large) OBVIOUS
    <3>2. PICK y : y = [x EXCEPT !.handler = "reading", !.rsp = p] OBVIOUS
    <3>3. y = [req |-> x.req, rsp |-> p, reuse |-> x.reuse, open |-> x.open, handler |-> "reading", up |-> x.up, by |-> x.by]
      BY <1>10, <3>2 DEF IsStream
    <3>4. y.req = x.req /\ y.rsp = p /\ y.open = x.open /\ y.up = x.up /\ y.by = x.by BY <3>3
    <3>5. PICK X : x.rsp \in Seq(X) BY <1>10 DEF IsStream
    <3>6. \E Y : p \in Seq(Y) BY <3>1, <3>5, WriteOne
    <3>7. IsStream(y) BY <1>10, <3>3, <3>4, <3>6 DEF IsStream
    <3>8. streams' = [streams EXCEPT ![s] = y] BY <1>9, <2>3, <3>1, <3>2
    <3>9. Becomes(s, y) BY <1>1, <1>6, <3>8, StreamBecomes
    <3>10. Takes(j, s, y) BY <1>2, <1>5, <1>7, <1>9, <3>4, <3>7, <3>9 DEF Takes
    <3>11. \E large : y.rsp = K!write_one(streams[s].rsp, K!resp_msg_to_proto(r), large) BY <1>9, <3>1, <3>4
    <3>12. Gives(j, s, y) BY <2>1, <2>3, <3>11 DEF Gives
    <3>13. QED BY <1>6, <1>7, <3>10, <3>12, AnswerGiven
  <2>4. QED BY <1>14, <2>2, <2>3
<1>15. \/ streams' = [streams EXCEPT ![s].handler = "reading"] /\ UNCHANGED reply
       \/ \E r \in Responses[posted[1].req] :
            /\ reply' = [i \in Jobs |-> IF i \in streams[s].by /\ Request[i] = posted[1].req THEN <<r>> ELSE reply[i]]
            /\ streams' = IF streams[s].up /\ streams[s].open
                         THEN [streams EXCEPT ![s].handler = "reading",
                                              ![s].rsp = K!write_one(@, K!resp_msg_to_proto(r), r \in Large)]
                         ELSE [streams EXCEPT ![s].handler = "ended"]
       \/ streams' = [streams EXCEPT ![s].handler = "ended"] /\ UNCHANGED reply
  <2>1. Head(posted).s = s /\ Head(posted).req = posted[1].req BY <1>4, <1>5
  <2>2. PICK c : c = Head(posted).req OBVIOUS
  <2>3. \/ streams' = [streams EXCEPT ![s].handler = "reading"] /\ UNCHANGED reply
        \/ \E r \in Responses[c] :
            /\ reply' = [i \in Jobs |-> IF i \in streams[s].by /\ Request[i] = c THEN <<r>> ELSE reply[i]]
            /\ streams' = IF streams[s].up /\ streams[s].open
                         THEN [streams EXCEPT ![s].handler = "reading",
                                              ![s].rsp = K!write_one(@, K!resp_msg_to_proto(r), r \in Large)]
                         ELSE [streams EXCEPT ![s].handler = "ended"]
        \/ streams' = [streams EXCEPT ![s].handler = "ended"] /\ UNCHANGED reply
    BY <2>1, <2>2, Zenon DEF K!answer
  <2>4. QED BY <2>1, <2>2, <2>3
<1>16. QED BY <1>12, <1>14, <1>15

LEMMA KadNext == KadInv /\ K!Next => KadInv'
<1> SUFFICES ASSUME KadInv, K!Next PROVE KadInv' OBVIOUS
<1>1. ASSUME NEW j \in Jobs, K!JobStep(j) PROVE KadInv'
  BY <1>1, GetMessenger, BuildFails, SendMessage, SendRequest, Receive DEF K!JobStep
<1>2. ASSUME NEW j \in Jobs, K!time_out(j) PROVE KadInv' BY <1>2, TimeOut
<1>3. ASSUME NEW s \in DOMAIN streams, K!handle(s) \/ K!Lost(s) PROVE KadInv' BY <1>3, HandleStep, LostStep
<1>4. QED BY <1>1, <1>2, <1>3, AnswerStep DEF K!Next

LEMMA KadRests ==
  ASSUME KadInv, UNCHANGED <<job, cache, streams, posted, reqs, phantom, reply>>
  PROVE  KadInv'
<1>1. KadType' BY DEF KadInv, KadType, IsJob, IsStream
<1>2. Messengers' BY DEF KadInv, Messengers, Holds
<1>3. Senders' /\ Posts' BY DEF KadInv, Senders, Posts, K!None
<1>4. ASSUME NEW t \in DOMAIN streams' PROVE Sent(streams[t])' /\ Answered(t)'
  <2>1. Sent(streams[t]) /\ Answered(t) BY DEF KadInv
  <2>2. SentWith(streams'[t], reqs', reply') BY <2>1, SentNow
  <2>3. QED BY <2>1, <2>2, SentThen DEF Answered
<1>5. ASSUME NEW j \in Jobs PROVE JobEnds(j)'
  <2>1. JobEnds(j) BY DEF KadInv
  <2>2. QED BY <2>1 DEF JobEnds, K!None
<1>6. QED BY <1>1, <1>2, <1>3, <1>4, <1>5 DEF KadInv

LEMMA KadSafe == KadInv => K!OwnAnswer /\ K!OnlyRequests
<1> SUFFICES ASSUME KadInv PROVE K!OwnAnswer /\ K!OnlyRequests OBVIOUS
<1>1. K!OwnAnswer BY DEF KadInv, JobEnds, K!OwnAnswer
<1>2. K!OnlyRequests BY DEF KadInv, KadType, K!OnlyRequests
<1>3. QED BY <1>1, <1>2

(***************************************************************************)
(* Ping.                                                                   *)
(***************************************************************************)

\* What is recorded, or on its way to the main loop, came back; the observer counts the
\* failures that the task counts; and a task that ended on its own has counted enough.
PingInv ==
  /\ \E X : events \in Seq(X)
  /\ \A i \in 1..Len(events) : events[i].type = "PingResult" => events[i].n \in echoed
  /\ latency \subseteq echoed
  /\ ping = [st |-> ping.st, fail_cnt |-> ping.fail_cnt, n |-> ping.n]
  /\ ping.fail_cnt \in Nat /\ streak = ping.fail_cnt /\ flag \in BOOLEAN
  /\ ping.st = "done" /\ flag => streak >= max_failures

LEMMA PingSafe == ASSUME PingInv PROVE C!PingIsTruthful
BY DEF PingInv, C!PingIsTruthful

LEMMA PingInitInv == ASSUME C!Init PROVE PingInv
<1>1. events \in Seq({}) BY DEF C!Init
<1>2. PICK X : events \in Seq(X) BY <1>1
<1>3. ping.st = "check" /\ ping.fail_cnt = 0 /\ ping = [st |-> ping.st, fail_cnt |-> ping.fail_cnt, n |-> ping.n]
  BY DEF C!Init
<1>4. QED BY <1>2, <1>3 DEF C!Init, PingInv

\* An event that is no ping, or one that came back, is sent.
LEMMA PingPosted ==
  ASSUME PingInv, NEW e, events' = Append(events, e), echoed \subseteq echoed',
         e.type = "PingResult" => e.n \in echoed'
  PROVE  /\ \E X : events' \in Seq(X)
         /\ \A i \in 1..Len(events') : events'[i].type = "PingResult" => events'[i].n \in echoed'
<1>1. PICK X : events \in Seq(X) BY DEF PingInv
<1>2. PICK Y : Y = X \cup {e} OBVIOUS
<1>3. events \in Seq(Y) /\ e \in Y
  <2>1. \A i \in 1..Len(events) : events[i] \in Y BY <1>1, <1>2
  <2>2. events = [i \in 1..Len(events) |-> events[i]] /\ Len(events) \in Nat BY <1>1
  <2>3. QED BY <2>1, <2>2, <1>2, SeqDef
<1>4. events' \in Seq(Y) /\ Len(events') = Len(events) + 1 BY <1>3
<1>5. \A i \in 1..Len(events') : events'[i] = IF i <= Len(events) THEN events[i] ELSE e BY <1>3, <1>4
<1>6. Len(events) \in Nat BY <1>1
<1>7. ASSUME NEW i \in 1..Len(events'), events'[i].type = "PingResult" PROVE events'[i].n \in echoed'
  <2>1. CASE i <= Len(events)
    <3>1. i \in 1..Len(events) /\ events'[i] = events[i] BY <2>1, <1>4, <1>5, <1>6
    <3>2. QED BY <3>1, <1>7 DEF PingInv
  <2>2. CASE ~(i <= Len(events)) BY <2>2, <1>5, <1>7
  <2>3. QED BY <2>1, <2>2
<1>8. QED BY <1>4, <1>7

\* A change of the task alone.
LEMMA PingTask ==
  ASSUME PingInv, events' = events, latency' = latency, echoed' = echoed, flag' = flag,
         NEW st, NEW n, ping' = [st |-> st, fail_cnt |-> ping.fail_cnt, n |-> n], streak' = streak,
         st = "done" /\ flag => ping.st = "done"
  PROVE  PingInv'
<1>1. ping'.st = st /\ ping'.fail_cnt = ping.fail_cnt /\ ping'.n = n OBVIOUS
<1>2. QED BY <1>1 DEF PingInv

LEMMA PingFailed ==
  ASSUME PingInv, C!Failed, events' = events, latency' = latency, flag' = flag
  PROVE  PingInv'
<1>1. PICK st : st = IF ping.fail_cnt + 1 >= max_failures THEN "done" ELSE "check" OBVIOUS
<1>2. ping' = [ping EXCEPT !.st = st, !.fail_cnt = ping.fail_cnt + 1] BY <1>1 DEF C!Failed
<1>3. ping' = [st |-> st, fail_cnt |-> ping.fail_cnt + 1, n |-> ping.n] BY <1>2 DEF PingInv
<1>4. ping'.st = st /\ ping'.fail_cnt = ping.fail_cnt + 1 /\ ping'.n = ping.n BY <1>3
<1>5. streak' = ping.fail_cnt + 1 /\ echoed' = echoed /\ ping.fail_cnt + 1 \in Nat BY DEF PingInv, C!Failed
<1>6. ping'.st = "done" => streak' >= max_failures BY <1>1, <1>4, <1>5
<1>7. ping' = [st |-> ping'.st, fail_cnt |-> ping'.fail_cnt, n |-> ping'.n] BY <1>3, <1>4
<1>8. QED BY <1>4, <1>5, <1>6, <1>7 DEF PingInv

LEMMA PingSteps ==
  ASSUME PingInv, C!PingStep
  PROVE  PingInv'
<1>1. latency' = latency /\ flag' = flag
  BY DEF C!PingStep, C!start_ping, C!open_stream_internal, C!PingOpenFails, C!PingSucceeds, C!PingFails, C!Around
<1>2. CASE C!start_ping
  <2>1. PICK st, n : /\ ping' = [ping EXCEPT !.st = st, !.n = n] /\ (st = "done" => ~flag)
    <3>1. CASE ping.st = "check"
      <4>1. PICK st : st = IF flag THEN "sleep" ELSE "done" OBVIOUS
      <4>2. ping' = [ping EXCEPT !.st = st] BY <4>1, <3>1, <1>2 DEF C!start_ping
      <4>3. ping' = [ping EXCEPT !.st = st, !.n = ping.n] BY <4>2 DEF PingInv
      <4>4. st = "done" => ~flag BY <4>1
      <4>5. QED BY <4>3, <4>4
    <3>2. CASE ping.st = "sleep"
      <4>1. PICK st : st = IF flag THEN "opening" ELSE "done" OBVIOUS
      <4>2. ping' = [ping EXCEPT !.st = st, !.n = ping.n + 1] BY <4>1, <3>2, <1>2 DEF C!start_ping
      <4>3. st = "done" => ~flag BY <4>1
      <4>4. QED BY <4>2, <4>3
    <3>3. QED BY <3>1, <3>2, <1>2 DEF C!start_ping
  <2>2. ping' = [st |-> st, fail_cnt |-> ping.fail_cnt, n |-> n] BY <2>1 DEF PingInv
  <2>3. events' = events /\ echoed' = echoed /\ streak' = streak BY <1>2 DEF C!start_ping
  <2>4. QED BY <1>1, <2>1, <2>2, <2>3, PingTask
<1>3. CASE C!open_stream_internal
  <2>1. ping' = [ping EXCEPT !.st = "pinging"] /\ events' = events /\ echoed' = echoed /\ streak' = streak
    BY <1>3 DEF C!open_stream_internal
  <2>2. ping' = [st |-> "pinging", fail_cnt |-> ping.fail_cnt, n |-> ping.n] BY <2>1 DEF PingInv
  <2>3. QED BY <1>1, <2>1, <2>2, PingTask
<1>4. CASE C!PingOpenFails BY <1>1, <1>4, PingFailed DEF C!PingOpenFails
<1>5. CASE C!PingFails BY <1>1, <1>5, PingFailed DEF C!PingFails
<1>6. CASE C!PingSucceeds
  <2>1. /\ ping' = [ping EXCEPT !.st = "check", !.fail_cnt = 0] /\ echoed' = echoed \cup {ping.n} /\ streak' = 0
        /\ events' = Append(events, [type |-> "PingResult", n |-> ping.n])
    BY <1>6 DEF C!PingSucceeds, C!Post
  <2>2. PICK e : e = [type |-> "PingResult", n |-> ping.n] OBVIOUS
  <2>3. e.n \in echoed' /\ echoed \subseteq echoed' /\ events' = Append(events, e) BY <2>1, <2>2
  <2>4. /\ \E X : events' \in Seq(X)
        /\ \A i \in 1..Len(events') : events'[i].type = "PingResult" => events'[i].n \in echoed'
    BY <2>3, PingPosted
  <2>5. ping' = [st |-> "check", fail_cnt |-> 0, n |-> ping.n] BY <2>1 DEF PingInv
  <2>6. ping'.st = "check" /\ ping'.fail_cnt = 0 /\ ping'.n = ping.n BY <2>5
  <2>7. ping' = [st |-> ping'.st, fail_cnt |-> ping'.fail_cnt, n |-> ping'.n] BY <2>5, <2>6
  <2>8. latency' \subseteq echoed' BY <1>1, <2>3 DEF PingInv
  <2>9. QED BY <1>1, <2>1, <2>4, <2>6, <2>7, <2>8 DEF PingInv
<1>7. QED BY <1>2, <1>3, <1>4, <1>5, <1>6 DEF C!PingStep

\* What leaves Ping alone but for an event.
LEMMA PingBeside ==
  ASSUME PingInv, latency' = latency, echoed' = echoed, ping' = ping, streak' = streak,
         flag' \in BOOLEAN, flag' => flag,
         \/ events' = events
         \/ \E e : e.type # "PingResult" /\ events' = Append(events, e)
  PROVE  PingInv'
<1>1. /\ \E X : events' \in Seq(X)
      /\ \A i \in 1..Len(events') : events'[i].type = "PingResult" => events'[i].n \in echoed'
  <2>1. CASE events' = events BY <2>1 DEF PingInv
  <2>2. ASSUME NEW e, e.type # "PingResult", events' = Append(events, e)
        PROVE  /\ \E X : events' \in Seq(X)
               /\ \A i \in 1..Len(events') : events'[i].type = "PingResult" => events'[i].n \in echoed'
    BY <2>2, PingPosted
  <2>3. QED BY <2>1, <2>2
<1>2. QED BY <1>1 DEF PingInv

LEMMA PingHandled ==
  ASSUME PingInv, C!handle_event
  PROVE  PingInv'
<1>1. PICK X : events \in Seq(X) BY DEF PingInv
<1>2. events # <<>> /\ events' = Tail(events) /\ echoed' = echoed /\ ping' = ping /\ streak' = streak /\ flag' = flag
  BY DEF C!handle_event
<1>3. PICK e : e = Head(events) OBVIOUS
<1>4. Len(events) \in Nat \ {0} /\ e = events[1] BY <1>1, <1>2, <1>3
<1>5. latency' \subseteq echoed'
  <2>1. C!handle_ping_result(e) \/ C!handle_identify_result(e) \/ C!handle_connection_closed(e)
    BY <1>3 DEF C!handle_event
  <2>2. CASE C!handle_ping_result(e)
    <3>1. e.n \in echoed BY <2>2, <1>4 DEF PingInv, C!handle_ping_result
    <3>2. QED BY <2>2, <3>1, <1>2 DEF PingInv, C!handle_ping_result
  <2>3. CASE C!handle_identify_result(e) BY <2>3, <1>2 DEF PingInv, C!handle_identify_result
  <2>4. CASE C!handle_connection_closed(e) BY <2>4, <1>2 DEF PingInv, C!handle_connection_closed
  <2>5. QED BY <2>1, <2>2, <2>3, <2>4
<1>6. events' \in Seq(X) /\ Len(events') = Len(events) - 1 BY <1>1, <1>2
<1>7. \A i \in 1..Len(events') : i + 1 \in 1..Len(events) /\ events'[i] = events[i + 1] BY <1>1, <1>2, <1>4, <1>6
<1>8. \A i \in 1..Len(events') : events'[i].type = "PingResult" => events'[i].n \in echoed' BY <1>2, <1>7 DEF PingInv
<1>9. QED BY <1>2, <1>5, <1>6, <1>8 DEF PingInv

LEMMA PingNext == ASSUME PingInv, C!Next PROVE PingInv'
<1>0. flag \in BOOLEAN BY DEF PingInv
<1>1. CASE C!PingStep BY <1>1, PingSteps
<1>2. CASE C!PushStep
  <2>1. /\ latency' = latency /\ echoed' = echoed /\ ping' = ping /\ streak' = streak /\ flag' = flag /\ events' = events
    BY <1>2 DEF C!PushStep, C!start_identify_push, C!produce_message, C!Beside
  <2>2. QED BY <2>1, <1>0, PingBeside
<1>3. CASE C!handle
  <2>1. /\ latency' = latency /\ echoed' = echoed /\ ping' = ping /\ streak' = streak /\ flag' = flag /\ events' = events
    BY <1>3 DEF C!handle, C!Around
  <2>2. QED BY <2>1, <1>0, PingBeside
<1>4. CASE C!process_message
  <2>1. /\ latency' = latency /\ echoed' = echoed /\ ping' = ping /\ streak' = streak /\ flag' = flag
    BY <1>4 DEF C!process_message, C!Beside
  <2>2. \E e : e.type # "PingResult" /\ events' = Append(events, e)
    <3>1. ASSUME NEW o \in Observed, events' = Append(events, [type |-> "IdentifyResult", ok |-> TRUE, addr |-> o])
          PROVE  \E e : e.type # "PingResult" /\ events' = Append(events, e)
      <4>1. PICK e : e = [type |-> "IdentifyResult", ok |-> TRUE, addr |-> o] OBVIOUS
      <4>2. QED BY <3>1, <4>1
    <3>2. ASSUME events' = Append(events, [type |-> "IdentifyResult", ok |-> FALSE])
          PROVE  \E e : e.type # "PingResult" /\ events' = Append(events, e)
      <4>1. PICK e : e = [type |-> "IdentifyResult", ok |-> FALSE] OBVIOUS
      <4>2. QED BY <3>2, <4>1
    <3>3. QED BY <3>1, <3>2, <1>4 DEF C!process_message, C!Post
  <2>3. QED BY <2>1, <2>2, <1>0, PingBeside
<1>5. CASE C!handle_event BY <1>5, PingHandled
<1>6. CASE C!Lost
  <2>1. /\ latency' = latency /\ echoed' = echoed /\ ping' = ping /\ streak' = streak /\ flag' = flag
        /\ events' = Append(events, [type |-> "ConnectionClosed"])
    BY <1>6 DEF C!Lost, C!Post
  <2>2. PICK e : e = [type |-> "ConnectionClosed"] OBVIOUS
  <2>3. e.type # "PingResult" /\ events' = Append(events, e) BY <2>1, <2>2
  <2>4. QED BY <2>1, <2>3, <1>0, PingBeside
<1>7. CASE C!stop_ping \/ C!stop_identify_push
  <2>1. /\ latency' = latency /\ echoed' = echoed /\ ping' = ping /\ streak' = streak /\ events' = events
    BY <1>7 DEF C!stop_ping, C!stop_identify_push, C!Still
  <2>2. flag' = FALSE \/ flag' = flag BY <1>7 DEF C!stop_ping, C!stop_identify_push
  <2>3. flag' \in BOOLEAN BY <2>2, <1>0
  <2>4. flag' => flag BY <2>2, <1>0, Zenon
  <2>5. QED BY <2>1, <2>3, <2>4, PingBeside
<1>8. QED BY <1>1, <1>2, <1>3, <1>4, <1>5, <1>6, <1>7 DEF C!Next

LEMMA PingRests == ASSUME PingInv, UNCHANGED <<flag, ping, events, latency, echoed, streak>> PROVE PingInv'
BY DEF PingInv

(***************************************************************************)
(* The peer store.                                                         *)
(***************************************************************************)

IsRecord(r) ==
  /\ r = [pinned |-> r.pinned, addrs |-> r.addrs, key |-> r.key, protos |-> r.protos]
  /\ r.pinned \in BOOLEAN
  /\ DOMAIN r.addrs \subseteq Addrs
  /\ \A a \in DOMAIN r.addrs : r.addrs[a].ttl \in Nat /\ r.addrs[a].expiry \in Nat
IsBook(s) == /\ s = [p \in DOMAIN s |-> s[p]]
             /\ \A p \in DOMAIN s : IsRecord(s[p])
IsFile(f) == \A p \in DOMAIN f : DOMAIN f[p] \subseteq Addrs /\ \A a \in DOMAIN f[p] : f[p][a] \in Nat
Listed(f) == {q \in BookPeers \X Addrs : q[1] \in DOMAIN f /\ q[2] \in DOMAIN f[q[1]]}

BookType ==
  /\ phase \in {"running", "saving", "writing", "down"} /\ now \in Nat
  /\ IsBook(store) /\ IsFile(file) /\ IsFile(copy)

\* A promise that has not run out is kept by an entry that lasts as long, and a pair that
\* is safe by the pin of its peer.
Promises ==
  /\ DOMAIN until \subseteq BookPeers \X Addrs
  /\ \A q \in DOMAIN until :
       /\ until[q] \in Nat
       /\ until[q] > now =>
            /\ q \in B!Pairs(store)
            /\ until[q] <= store[q[1]].addrs[q[2]].expiry + store[q[1]].addrs[q[2]].ttl
Pins == \A q \in safe : q \in B!Pairs(store) /\ store[q[1]].pinned

\* What is saved is on its way to the file, or in it.
Exits ==
  /\ phase \in {"saving", "writing"} => atExit \subseteq Listed(copy)
  /\ phase = "writing" => file = <<>>
  /\ phase = "down" => atExit \subseteq Listed(file) /\ safe = {}

BookInv == BookType /\ Promises /\ Pins /\ Exits

LEMMA BookSafe == ASSUME BookInv PROVE B!AddrsHeld
BY DEF BookInv, BookType, Promises, Pins, B!AddrsHeld, B!Pairs

LEMMA NobodyIn == DOMAIN <<>> = {} /\ IsBook(<<>>) /\ IsFile(<<>>)
<1>1. DOMAIN <<>> = {} OBVIOUS
<1>2. <<>> = [p \in DOMAIN <<>> |-> <<>>[p]] OBVIOUS
<1>3. QED BY <1>1, <1>2 DEF IsBook, IsFile

LEMMA BookInitInv == ASSUME B!Init PROVE BookInv
<1>1. BookType BY NobodyIn DEF B!Init, BookType
<1>2. Promises BY NobodyIn DEF B!Init, Promises
<1>3. Pins BY DEF B!Init, Pins
<1>4. Exits BY DEF B!Init, Exits
<1>5. QED BY <1>1, <1>2, <1>3, <1>4 DEF BookInv

(***************************************************************************)
(* The operations.                                                         *)
(***************************************************************************)

\* Only the record of peer p changes.
Only(s, t, p) ==
  /\ t = [x \in DOMAIN t |-> t[x]] /\ DOMAIN t = DOMAIN s
  /\ \A x \in DOMAIN s : x # p => t[x] = s[x]

LEMMA OnlyIs ==
  ASSUME NEW s, IsBook(s), NEW p \in DOMAIN s, NEW t, Only(s, t, p), IsRecord(t[p])
  PROVE  IsBook(t)
BY DEF IsBook, Only

\* A record for a peer that had none.
LEMMA NewPeer ==
  ASSUME NEW s, IsBook(s), NEW p, p \notin DOMAIN s, NEW r, IsRecord(r),
         NEW t, t = B!PS!Put(s, p, r)
  PROVE  /\ IsBook(t) /\ DOMAIN t = DOMAIN s \cup {p}
         /\ t[p] = r /\ \A x \in DOMAIN s : t[x] = s[x]
<1>1. t = [y \in DOMAIN s \cup {p} |-> IF y = p THEN r ELSE s[y]] BY DEF B!PS!Put
<1>2. /\ DOMAIN t = DOMAIN s \cup {p} /\ t[p] = r /\ \A x \in DOMAIN s : t[x] = s[x]
      /\ t = [x \in DOMAIN t |-> t[x]]
  BY <1>1
<1>3. IsBook(t) BY <1>2 DEF IsBook
<1>4. QED BY <1>2, <1>3

LEMMA NewRecordIs ==
  ASSUME NEW f, DOMAIN f \subseteq Addrs, \A a \in DOMAIN f : f[a].ttl \in Nat /\ f[a].expiry \in Nat,
         NEW P, NEW r, r = B!PS!NewRecord(f, P)
  PROVE  IsRecord(r) /\ r.addrs = f /\ r.pinned = FALSE
<1>1. r = [pinned |-> FALSE, addrs |-> f, key |-> FALSE, protos |-> P] BY DEF B!PS!NewRecord
<1>2. QED BY <1>1 DEF IsRecord

\* The addresses A of peer p are new, and all others as they were.
Added(s, t, p, A, ttl, n) ==
  /\ \A x \in DOMAIN s : /\ x \in DOMAIN t /\ t[x].pinned = s[x].pinned
                         /\ \A a \in DOMAIN s[x].addrs :
                              a \in DOMAIN t[x].addrs /\ (x # p \/ a \notin A => t[x].addrs[a] = s[x].addrs[a])
  /\ p \in DOMAIN t
  /\ \A a \in A : /\ a \in DOMAIN t[p].addrs /\ t[p].addrs[a].ttl = ttl /\ t[p].addrs[a].expiry = n

LEMMA AddAddrsIs ==
  ASSUME NEW s, IsBook(s), NEW p, NEW A \in SUBSET Addrs, NEW ttl \in Nat, NEW n \in Nat,
         NEW t, t = B!PS!add_addrs(s, p, A, ttl, n)
  PROVE  IsBook(t) /\ Added(s, t, p, A, ttl, n)
<1>1. PICK old : old = IF p \in DOMAIN s THEN s[p].addrs ELSE <<>> OBVIOUS
<1>2. PICK new : new = [a \in DOMAIN old \cup A |-> IF a \in A THEN B!PS!AddrBookRecord(ttl, n) ELSE old[a]] OBVIOUS
<1>3. DOMAIN old \subseteq Addrs /\ \A a \in DOMAIN old : old[a].ttl \in Nat /\ old[a].expiry \in Nat
  BY <1>1, NobodyIn DEF IsBook, IsRecord
<1>4. /\ DOMAIN new = DOMAIN old \cup A
      /\ \A a \in A : new[a] = [ttl |-> ttl, expiry |-> n]
      /\ \A a \in DOMAIN old : a \notin A => new[a] = old[a]
  BY <1>2 DEF B!PS!AddrBookRecord
<1>5. \A a \in A : new[a].ttl = ttl /\ new[a].expiry = n BY <1>4
<1>6. DOMAIN new \subseteq Addrs /\ \A a \in DOMAIN new : new[a].ttl \in Nat /\ new[a].expiry \in Nat
  BY <1>3, <1>4, <1>5
<1>7. CASE p \in DOMAIN s
  <2>1. t = [s EXCEPT ![p].addrs = new] BY <1>1, <1>2, <1>7 DEF B!PS!add_addrs
  <2>2. Only(s, t, p) /\ t[p] = [s[p] EXCEPT !.addrs = new] BY <2>1, <1>7 DEF Only, IsBook
  <2>3. IsRecord(s[p]) BY <1>7 DEF IsBook
  <2>4. t[p] = [pinned |-> s[p].pinned, addrs |-> new, key |-> s[p].key, protos |-> s[p].protos]
    BY <2>2, <2>3 DEF IsRecord
  <2>5. IsRecord(t[p]) /\ t[p].addrs = new /\ t[p].pinned = s[p].pinned BY <2>3, <2>4, <1>6 DEF IsRecord
  <2>6. IsBook(t) BY <2>2, <2>5, <1>7, OnlyIs
  <2>7. old = s[p].addrs BY <1>1, <1>7
  <2>8. QED BY <2>2, <2>5, <2>6, <2>7, <1>4, <1>5, <1>7 DEF Only, Added
<1>8. CASE p \notin DOMAIN s
  <2>1. PICK r : r = B!PS!NewRecord(new, {}) OBVIOUS
  <2>2. t = B!PS!Put(s, p, r) BY <2>1, <1>1, <1>2, <1>8 DEF B!PS!add_addrs
  <2>3. IsRecord(r) /\ r.addrs = new BY <2>1, <1>6, NewRecordIs
  <2>4. /\ IsBook(t) /\ DOMAIN t = DOMAIN s \cup {p}
        /\ t[p] = r /\ \A x \in DOMAIN s : t[x] = s[x]
    BY <2>2, <2>3, <1>8, NewPeer
  <2>5. QED BY <2>3, <2>4, <1>4, <1>5, <1>8 DEF Added
<1>9. QED BY <1>7, <1>8

\* What leaves the addresses alone: pin, unpin, add_key, the protocols.
Alike(s, t) ==
  /\ DOMAIN s \subseteq DOMAIN t
  /\ \A x \in DOMAIN s : t[x].addrs = s[x].addrs

\* A record that says the same of the addresses.
LEMMA SameAddrs ==
  ASSUME NEW s, IsBook(s), NEW p \in DOMAIN s, NEW t, Only(s, t, p), NEW b \in BOOLEAN, NEW k, NEW P,
         t[p] = [pinned |-> b, addrs |-> s[p].addrs, key |-> k, protos |-> P]
  PROVE  IsBook(t) /\ Alike(s, t) /\ t[p].pinned = b
<1>1. t[p].addrs = s[p].addrs /\ t[p].pinned = b /\ IsRecord(s[p]) BY DEF IsBook
<1>2. IsRecord(t[p]) BY <1>1 DEF IsRecord
<1>3. IsBook(t) BY <1>2, OnlyIs
<1>4. Alike(s, t) BY <1>1 DEF Alike, Only
<1>5. QED BY <1>1, <1>3, <1>4

\* Only the pin of p may change.
Pinned(s, t, p) == Alike(s, t) /\ \A x \in DOMAIN s : x # p => t[x] = s[x]

LEMMA PinIs ==
  ASSUME NEW s, IsBook(s), NEW p, NEW t, t = B!PS!pin(s, p) \/ t = B!PS!unpin(s, p)
  PROVE  IsBook(t) /\ Pinned(s, t, p) /\ (t = B!PS!pin(s, p) /\ p \in DOMAIN s => t[p].pinned)
<1> USE DEF Pinned
<1>1. CASE p \notin DOMAIN s BY <1>1 DEF B!PS!pin, B!PS!unpin, Alike
<1>2. CASE p \in DOMAIN s
  <2>1. IsRecord(s[p]) BY <1>2 DEF IsBook
  <2>2. CASE t = B!PS!pin(s, p)
    <3>1. Only(s, t, p) /\ t[p] = [s[p] EXCEPT !.pinned = TRUE] BY <2>2, <1>2 DEF Only, IsBook, B!PS!pin
    <3>2. t[p] = [pinned |-> TRUE, addrs |-> s[p].addrs, key |-> s[p].key, protos |-> s[p].protos]
      BY <3>1, <2>1 DEF IsRecord
    <3>3. IsBook(t) /\ Alike(s, t) /\ t[p].pinned = TRUE BY <3>1, <3>2, <1>2, SameAddrs
    <3>4. QED BY <3>1, <3>3 DEF Only
  <2>3. CASE t = B!PS!unpin(s, p)
    <3>1. Only(s, t, p) /\ t[p] = [s[p] EXCEPT !.pinned = FALSE] BY <2>3, <1>2 DEF Only, IsBook, B!PS!unpin
    <3>2. t[p] = [pinned |-> FALSE, addrs |-> s[p].addrs, key |-> s[p].key, protos |-> s[p].protos]
      BY <3>1, <2>1 DEF IsRecord
    <3>3. IsBook(t) /\ Alike(s, t) BY <3>1, <3>2, <1>2, SameAddrs
    <3>4. CASE t = B!PS!pin(s, p) BY <2>2, <3>4
    <3>5. QED BY <3>1, <3>3, <3>4 DEF Only
  <2>4. QED BY <2>2, <2>3
<1>3. QED BY <1>1, <1>2

LEMMA LeavesAddrs ==
  ASSUME NEW s, IsBook(s), NEW p, NEW P, NEW t,
         \/ t = B!PS!add_key(s, p)
         \/ t = B!PS!clear_protocols(s, p)
         \/ t = B!PS!add_protocols(s, p, P)
  PROVE  IsBook(t) /\ Alike(s, t) /\ \A x \in DOMAIN s : t[x].pinned = s[x].pinned
<1>1. CASE t = s BY <1>1 DEF Alike
<1>2. CASE p \in DOMAIN s
  <2>1. IsRecord(s[p]) BY <1>2 DEF IsBook
  <2>2. PICK k, Q : Only(s, t, p) /\ t[p] = [pinned |-> s[p].pinned, addrs |-> s[p].addrs, key |-> k, protos |-> Q]
    <3>1. CASE t = B!PS!add_key(s, p)
      <4>1. Only(s, t, p) /\ t[p] = [s[p] EXCEPT !.key = TRUE] BY <3>1, <1>2 DEF Only, IsBook, B!PS!add_key
      <4>2. t[p] = [pinned |-> s[p].pinned, addrs |-> s[p].addrs, key |-> TRUE, protos |-> s[p].protos]
        BY <4>1, <2>1 DEF IsRecord
      <4>3. QED BY <4>1, <4>2
    <3>2. CASE t = B!PS!clear_protocols(s, p)
      <4>1. Only(s, t, p) /\ t[p] = [s[p] EXCEPT !.protos = {}] BY <3>2, <1>2 DEF Only, IsBook, B!PS!clear_protocols
      <4>2. t[p] = [pinned |-> s[p].pinned, addrs |-> s[p].addrs, key |-> s[p].key, protos |-> {}]
        BY <4>1, <2>1 DEF IsRecord
      <4>3. QED BY <4>1, <4>2
    <3>3. CASE t = B!PS!add_protocols(s, p, P)
      <4>0. PICK Q : Q = s[p].protos \cup P OBVIOUS
      <4>1. Only(s, t, p) /\ t[p] = [s[p] EXCEPT !.protos = Q] BY <3>3, <4>0, <1>2 DEF Only, IsBook, B!PS!add_protocols
      <4>2. t[p] = [pinned |-> s[p].pinned, addrs |-> s[p].addrs, key |-> s[p].key, protos |-> Q]
        BY <4>1, <2>1 DEF IsRecord
      <4>3. QED BY <4>1, <4>2
    <3>4. QED BY <3>1, <3>2, <3>3
  <2>3. s[p].pinned \in BOOLEAN BY <2>1 DEF IsRecord
  <2>4. IsBook(t) /\ Alike(s, t) /\ t[p].pinned = s[p].pinned BY <2>2, <2>3, <1>2, SameAddrs
  <2>5. QED BY <2>2, <2>4 DEF Only
<1>3. CASE p \notin DOMAIN s /\ t = B!PS!add_protocols(s, p, P)
  <2>1. PICK r : r = B!PS!NewRecord(<<>>, P) OBVIOUS
  <2>2. t = [y \in DOMAIN s \cup {p} |-> IF y = p THEN r ELSE s[y]]
    BY <1>3, <2>1 DEF B!PS!add_protocols, B!PS!Put
  <2>3. IsRecord(r)
    <3>1. PICK f : f = <<>> OBVIOUS
    <3>2. DOMAIN f = {} BY <3>1, NobodyIn
    <3>3. QED BY <3>1, <3>2, <2>1, NewRecordIs
  <2>4. IsBook(t) /\ DOMAIN t = DOMAIN s \cup {p} /\ \A x \in DOMAIN s : t[x] = s[x]
    <3>1. /\ DOMAIN t = DOMAIN s \cup {p} /\ t[p] = r /\ \A x \in DOMAIN s : t[x] = s[x]
          /\ t = [x \in DOMAIN t |-> t[x]]
      BY <2>2, <1>3
    <3>2. QED BY <2>3, <3>1 DEF IsBook
  <2>5. QED BY <2>4 DEF Alike
<1>4. QED BY <1>1, <1>2, <1>3 DEF B!PS!add_key, B!PS!clear_protocols

LEMMA ClearAddrsIs ==
  ASSUME NEW s, IsBook(s), NEW p, NEW t, t = B!PS!clear_addrs(s, p)
  PROVE  IsBook(t) /\ DOMAIN t = DOMAIN s /\ \A x \in DOMAIN s : x # p => t[x] = s[x]
<1>1. CASE p \notin DOMAIN s BY <1>1 DEF B!PS!clear_addrs
<1>2. CASE p \in DOMAIN s
  <2>1. Only(s, t, p) /\ t[p] = [s[p] EXCEPT !.addrs = <<>>] BY <1>2 DEF Only, IsBook, B!PS!clear_addrs
  <2>2. IsRecord(s[p]) BY <1>2 DEF IsBook
  <2>3. t[p] = [pinned |-> s[p].pinned, addrs |-> <<>>, key |-> s[p].key, protos |-> s[p].protos]
    BY <2>1, <2>2 DEF IsRecord
  <2>4. t[p].addrs = <<>> BY <2>3
  <2>5. DOMAIN t[p].addrs = {} BY <2>4, NobodyIn
  <2>6. IsRecord(t[p]) BY <2>2, <2>3, <2>5 DEF IsRecord
  <2>7. IsBook(t) BY <2>1, <2>6, <1>2, OnlyIs
  <2>8. QED BY <2>1, <2>7 DEF Only
<1>3. QED BY <1>1, <1>2

\* The addresses of peer p start anew.
Updated(s, t, p, ttl, n) ==
  /\ DOMAIN t = DOMAIN s
  /\ \A x \in DOMAIN s : /\ DOMAIN t[x].addrs = DOMAIN s[x].addrs /\ t[x].pinned = s[x].pinned
                         /\ x # p => t[x] = s[x]
  /\ p \in DOMAIN s => \A a \in DOMAIN s[p].addrs : t[p].addrs[a].ttl = ttl /\ t[p].addrs[a].expiry = n

LEMMA UpdateAddrIs ==
  ASSUME NEW s, IsBook(s), NEW p, NEW ttl \in Nat, NEW n \in Nat, NEW t, t = B!PS!update_addr(s, p, ttl, n)
  PROVE  IsBook(t) /\ Updated(s, t, p, ttl, n)
<1>1. CASE p \notin DOMAIN s BY <1>1 DEF B!PS!update_addr, Updated
<1>2. CASE p \in DOMAIN s
  <2>1. PICK f : f = [a \in DOMAIN s[p].addrs |-> B!PS!AddrBookRecord(ttl, n)] OBVIOUS
  <2>2. DOMAIN f = DOMAIN s[p].addrs /\ \A a \in DOMAIN f : f[a] = [ttl |-> ttl, expiry |-> n]
    BY <2>1 DEF B!PS!AddrBookRecord
  <2>3. \A a \in DOMAIN f : f[a].ttl = ttl /\ f[a].expiry = n BY <2>2
  <2>4. t = [s EXCEPT ![p].addrs = f] BY <2>1, <1>2 DEF B!PS!update_addr
  <2>5. Only(s, t, p) /\ t[p] = [s[p] EXCEPT !.addrs = f] BY <2>4, <1>2 DEF Only, IsBook
  <2>6. IsRecord(s[p]) BY <1>2 DEF IsBook
  <2>7. t[p] = [pinned |-> s[p].pinned, addrs |-> f, key |-> s[p].key, protos |-> s[p].protos]
    BY <2>5, <2>6 DEF IsRecord
  <2>8. t[p].addrs = f /\ t[p].pinned = s[p].pinned BY <2>7
  <2>9. IsRecord(t[p]) BY <2>2, <2>3, <2>6, <2>7, <2>8 DEF IsRecord
  <2>10. IsBook(t) BY <2>5, <2>9, <1>2, OnlyIs
  <2>11. QED BY <2>2, <2>3, <2>5, <2>8, <2>10, <1>2 DEF Only, Updated
<1>3. QED BY <1>1, <1>2

\* The collection takes nothing of a peer that is pinned, and nothing that has time left.
Collected(s, t, n) ==
  \A x \in DOMAIN s : \A a \in DOMAIN s[x].addrs :
    s[x].pinned \/ n < s[x].addrs[a].expiry + s[x].addrs[a].ttl =>
      /\ x \in DOMAIN t /\ t[x].pinned = s[x].pinned
      /\ a \in DOMAIN t[x].addrs /\ t[x].addrs[a] = s[x].addrs[a]

LEMMA CollectionIs ==
  ASSUME NEW s, IsBook(s), NEW n \in Nat, NEW t, t = B!PS!remove_expired_addrs(s, n)
  PROVE  IsBook(t) /\ Collected(s, t, n)
<1>1. PICK kept : kept = [x \in DOMAIN s |-> IF s[x].pinned THEN DOMAIN s[x].addrs ELSE B!PS!Unexpired(s[x], n)] OBVIOUS
<1>2. \A x \in DOMAIN s : kept[x] \subseteq DOMAIN s[x].addrs BY <1>1 DEF B!PS!Unexpired
<1>3. t = [p \in {q \in DOMAIN s : s[q].pinned \/ kept[q] # {}} |->
             [s[p] EXCEPT !.addrs = [a \in kept[p] |-> s[p].addrs[a]]]]
  BY <1>1 DEF B!PS!remove_expired_addrs, B!PS!Restrict
<1>4. DOMAIN t = {q \in DOMAIN s : s[q].pinned \/ kept[q] # {}} /\ t = [p \in DOMAIN t |-> t[p]] BY <1>3
<1>5. ASSUME NEW x \in DOMAIN t
      PROVE  IsRecord(t[x]) /\ x \in DOMAIN s /\ t[x].pinned = s[x].pinned /\ t[x].addrs = [a \in kept[x] |-> s[x].addrs[a]]
  <2>1. x \in DOMAIN s /\ IsRecord(s[x]) /\ kept[x] \subseteq DOMAIN s[x].addrs BY <1>2, <1>4 DEF IsBook
  <2>2. PICK f : f = [a \in kept[x] |-> s[x].addrs[a]] OBVIOUS
  <2>3. t[x] = [s[x] EXCEPT !.addrs = f] BY <1>3, <1>4, <2>2
  <2>4. t[x] = [pinned |-> s[x].pinned, addrs |-> f, key |-> s[x].key, protos |-> s[x].protos]
    BY <2>1, <2>3 DEF IsRecord
  <2>5. t[x].addrs = f /\ t[x].pinned = s[x].pinned BY <2>4
  <2>6. DOMAIN f \subseteq Addrs /\ \A a \in DOMAIN f : f[a].ttl \in Nat /\ f[a].expiry \in Nat
    BY <2>1, <2>2 DEF IsRecord
  <2>7. IsRecord(t[x]) BY <2>1, <2>4, <2>5, <2>6 DEF IsRecord
  <2>8. QED BY <2>1, <2>2, <2>5, <2>7
<1>6. IsBook(t) BY <1>4, <1>5 DEF IsBook
<1>7. ASSUME NEW x \in DOMAIN s, NEW a \in DOMAIN s[x].addrs,
             s[x].pinned \/ n < s[x].addrs[a].expiry + s[x].addrs[a].ttl
      PROVE  /\ x \in DOMAIN t /\ t[x].pinned = s[x].pinned
             /\ a \in DOMAIN t[x].addrs /\ t[x].addrs[a] = s[x].addrs[a]
  <2>1. s[x].addrs[a].expiry \in Nat /\ s[x].addrs[a].ttl \in Nat BY DEF IsBook, IsRecord
  <2>2. a \in kept[x]
    <3>1. CASE s[x].pinned BY <3>1, <1>1
    <3>2. CASE ~s[x].pinned
      <4>1. n - s[x].addrs[a].expiry < s[x].addrs[a].ttl BY <1>7, <2>1, <3>2
      <4>2. QED BY <4>1, <3>2, <1>1 DEF B!PS!Unexpired
    <3>3. QED BY <3>1, <3>2
  <2>3. x \in DOMAIN t BY <2>2, <1>4
  <2>4. QED BY <2>2, <2>3, <1>5
<1>8. QED BY <1>6, <1>7 DEF Collected

LEMMA SaveIs ==
  ASSUME NEW s, IsBook(s), NEW f, f = B!PS!save_data(s)
  PROVE  IsFile(f) /\ B!Pairs(s) \subseteq Listed(f)
<1>1. DOMAIN f = DOMAIN s /\ \A x \in DOMAIN s : f[x] = [a \in DOMAIN s[x].addrs |-> s[x].addrs[a].ttl]
  BY DEF B!PS!save_data
<1>2. \A x \in DOMAIN s : DOMAIN f[x] = DOMAIN s[x].addrs /\ \A a \in DOMAIN f[x] : f[x][a] = s[x].addrs[a].ttl
  BY <1>1
<1>3. IsFile(f) BY <1>1, <1>2 DEF IsFile, IsBook, IsRecord
<1>4. B!Pairs(s) \subseteq Listed(f) BY <1>1, <1>2 DEF B!Pairs, Listed
<1>5. QED BY <1>3, <1>4

\* Every address of the file starts anew.
Loaded(f, t, n) ==
  \A q \in Listed(f) : q \in B!Pairs(t) /\ t[q[1]].addrs[q[2]].ttl = f[q[1]][q[2]] /\ t[q[1]].addrs[q[2]].expiry = n

LEMMA LoadIs ==
  ASSUME NEW f, IsFile(f), NEW n \in Nat, NEW t, t = B!PS!load_data(f, n)
  PROVE  IsBook(t) /\ Loaded(f, t, n)
<1>1. DOMAIN t = DOMAIN f /\ t = [p \in DOMAIN t |-> t[p]] BY DEF B!PS!load_data
<1>2. ASSUME NEW x \in DOMAIN f
      PROVE  /\ IsRecord(t[x]) /\ DOMAIN t[x].addrs = DOMAIN f[x]
             /\ \A a \in DOMAIN f[x] : t[x].addrs[a].ttl = f[x][a] /\ t[x].addrs[a].expiry = n
  <2>1. PICK g : g = [a \in DOMAIN f[x] |-> B!PS!AddrBookRecord(f[x][a], n)] OBVIOUS
  <2>2. DOMAIN g = DOMAIN f[x] /\ \A a \in DOMAIN g : g[a] = [ttl |-> f[x][a], expiry |-> n]
    BY <2>1 DEF B!PS!AddrBookRecord
  <2>3. \A a \in DOMAIN g : g[a].ttl = f[x][a] /\ g[a].expiry = n BY <2>2
  <2>4. DOMAIN g \subseteq Addrs /\ \A a \in DOMAIN g : g[a].ttl \in Nat /\ g[a].expiry \in Nat
    BY <2>2, <2>3 DEF IsFile
  <2>5. t[x] = B!PS!NewRecord(g, {}) BY <2>1 DEF B!PS!load_data
  <2>6. IsRecord(t[x]) /\ t[x].addrs = g
    <3>1. PICK r : r = t[x] OBVIOUS
    <3>2. r = B!PS!NewRecord(g, {}) BY <2>5, <3>1
    <3>3. IsRecord(r) /\ r.addrs = g BY <2>4, <3>2, NewRecordIs
    <3>4. QED BY <3>1, <3>3
  <2>7. QED BY <2>2, <2>3, <2>6
<1>3. IsBook(t) BY <1>1, <1>2 DEF IsBook
<1>4. QED BY <1>1, <1>2, <1>3 DEF Loaded, Listed, B!Pairs

(***************************************************************************)
(* The steps.                                                              *)
(***************************************************************************)

LEMMA PromisedStep ==
  ASSUME Promises, now \in Nat, now' = now, NEW pairs \in SUBSET (BookPeers \X Addrs), NEW ttl \in Nat,
         B!Promised(pairs, ttl),
         \A q \in B!Pairs(store) : q \notin pairs =>
            q \in B!Pairs(store') /\ store'[q[1]].addrs[q[2]] = store[q[1]].addrs[q[2]],
         \A q \in pairs : /\ q \in B!Pairs(store')
                          /\ store'[q[1]].addrs[q[2]].ttl = ttl /\ store'[q[1]].addrs[q[2]].expiry = now
  PROVE  Promises'
<1>1. /\ DOMAIN until' = DOMAIN until \cup pairs
      /\ \A q \in pairs : until'[q] = now + ttl
      /\ \A q \in DOMAIN until : q \notin pairs => until'[q] = until[q]
  BY DEF B!Promised
<1>2. DOMAIN until' \subseteq BookPeers \X Addrs BY <1>1 DEF Promises
<1>3. ASSUME NEW q \in DOMAIN until'
      PROVE  /\ until'[q] \in Nat
             /\ until'[q] > now =>
                 /\ q \in B!Pairs(store')
                 /\ until'[q] <= store'[q[1]].addrs[q[2]].expiry + store'[q[1]].addrs[q[2]].ttl
  <2>1. CASE q \in pairs BY <2>1, <1>1
  <2>2. CASE q \notin pairs
    <3>1. q \in DOMAIN until /\ until'[q] = until[q] BY <2>2, <1>1
    <3>2. QED BY <3>1, <2>2 DEF Promises
  <2>3. QED BY <2>1, <2>2
<1>4. QED BY <1>2, <1>3 DEF Promises

LEMMA KeptStep ==
  ASSUME Promises, now \in Nat, now' \in Nat, now' >= now, until' = until,
         \A q \in B!Pairs(store) :
            now < store[q[1]].addrs[q[2]].expiry + store[q[1]].addrs[q[2]].ttl =>
            q \in B!Pairs(store') /\ store'[q[1]].addrs[q[2]] = store[q[1]].addrs[q[2]],
         IsBook(store)
  PROVE  Promises'
<1>1. DOMAIN until' \subseteq BookPeers \X Addrs BY DEF Promises
<1>2. ASSUME NEW q \in DOMAIN until'
      PROVE  /\ until'[q] \in Nat
             /\ until'[q] > now' =>
                 /\ q \in B!Pairs(store')
                 /\ until'[q] <= store'[q[1]].addrs[q[2]].expiry + store'[q[1]].addrs[q[2]].ttl
  <2>1. q \in DOMAIN until /\ until'[q] = until[q] /\ until[q] \in Nat BY DEF Promises
  <2>2. ASSUME until[q] > now'
        PROVE  /\ q \in B!Pairs(store')
               /\ until[q] <= store'[q[1]].addrs[q[2]].expiry + store'[q[1]].addrs[q[2]].ttl
    <3>1. until[q] > now BY <2>1, <2>2
    <3>2. q \in B!Pairs(store) /\ until[q] <= store[q[1]].addrs[q[2]].expiry + store[q[1]].addrs[q[2]].ttl
      BY <2>1, <3>1 DEF Promises
    <3>3. store[q[1]].addrs[q[2]].expiry \in Nat /\ store[q[1]].addrs[q[2]].ttl \in Nat
      BY <3>2 DEF B!Pairs, IsBook, IsRecord
    <3>4. now < store[q[1]].addrs[q[2]].expiry + store[q[1]].addrs[q[2]].ttl BY <3>1, <3>2, <3>3, <2>1
    <3>5. QED BY <3>2, <3>4
  <2>3. QED BY <2>1, <2>2
<1>3. QED BY <1>1, <1>2 DEF Promises

LEMMA AlikePairs ==
  ASSUME IsBook(store), Alike(store, store')
  PROVE  \A q \in B!Pairs(store) : q \in B!Pairs(store') /\ store'[q[1]].addrs[q[2]] = store[q[1]].addrs[q[2]]
BY DEF Alike, B!Pairs

LEMMA CallExits == ASSUME BookInv, B!Call PROVE Exits' /\ now' = now /\ phase' = phase /\ file' = file /\ copy' = copy
BY DEF BookInv, BookType, Exits, B!Call, Listed

LEMMA Types ==
  ASSUME BookInv, phase' = phase, now' = now, file' = file, copy' = copy, IsBook(store')
  PROVE  BookType'
BY DEF BookInv, BookType

LEMMA AddStep ==
  ASSUME BookInv, NEW p \in BookPeers, NEW A \in SUBSET Addrs, NEW ttl \in Nat, now' = now,
         store' = B!PS!add_addrs(store, p, A, ttl, now),
         B!Promised({p} \X A, ttl),
         safe' = IF B!PS!pinned(store, p) THEN safe \cup ({p} \X A) ELSE safe
  PROVE  IsBook(store') /\ Promises' /\ Pins'
<1>1. IsBook(store) /\ now \in Nat BY DEF BookInv, BookType
<1>2. /\ IsBook(store')
      /\ \A x \in DOMAIN store : /\ x \in DOMAIN store' /\ store'[x].pinned = store[x].pinned
                                 /\ \A a \in DOMAIN store[x].addrs :
                                      a \in DOMAIN store'[x].addrs /\ (x # p \/ a \notin A => store'[x].addrs[a] = store[x].addrs[a])
      /\ p \in DOMAIN store'
      /\ \A a \in A : /\ a \in DOMAIN store'[p].addrs /\ store'[p].addrs[a].ttl = ttl /\ store'[p].addrs[a].expiry = now
  <2>1. PICK s, n, t : s = store /\ n = now /\ t = store' OBVIOUS
  <2>2. IsBook(s) /\ n \in Nat /\ t = B!PS!add_addrs(s, p, A, ttl, n) BY <1>1, <2>1
  <2>3. IsBook(t) /\ Added(s, t, p, A, ttl, n) BY <2>2, AddAddrsIs
  <2>4. QED BY <2>1, <2>3 DEF Added
<1>3. {p} \X A \in SUBSET (BookPeers \X Addrs) OBVIOUS
<1>4. \A q \in B!Pairs(store) : /\ q \in B!Pairs(store') /\ store'[q[1]].pinned = store[q[1]].pinned
                                /\ q \notin {p} \X A => store'[q[1]].addrs[q[2]] = store[q[1]].addrs[q[2]]
  BY <1>2 DEF B!Pairs
<1>5. \A q \in {p} \X A : /\ q \in B!Pairs(store')
                          /\ store'[q[1]].addrs[q[2]].ttl = ttl /\ store'[q[1]].addrs[q[2]].expiry = now
  BY <1>2, <1>3 DEF B!Pairs
<1>6. Promises' BY <1>1, <1>3, <1>4, <1>5, PromisedStep DEF BookInv
<1>7. Pins'
  <2>1. ASSUME NEW q \in safe PROVE q \in B!Pairs(store') /\ store'[q[1]].pinned BY <1>4 DEF BookInv, Pins
  <2>2. ASSUME B!PS!pinned(store, p), NEW q \in {p} \X A PROVE q \in B!Pairs(store') /\ store'[q[1]].pinned
    <3>1. p \in DOMAIN store /\ store[p].pinned BY <2>2 DEF B!PS!pinned
    <3>2. q[1] = p BY <2>2
    <3>3. QED BY <3>1, <3>2, <1>2, <1>5
  <2>3. QED BY <2>1, <2>2 DEF Pins
<1>8. QED BY <1>2, <1>6, <1>7

LEMMA StepAddAddr ==
  ASSUME BookInv, NEW p \in BookPeers, NEW a \in Addrs, NEW ttl \in Ttls, B!add_addr(p, a, ttl)
  PROVE  BookInv'
<1>1. Exits' /\ now' = now /\ phase' = phase /\ file' = file /\ copy' = copy BY CallExits DEF B!add_addr
<1>2. {<<p, a>>} = {p} \X {a} OBVIOUS
<1>3. ttl \in Nat BY BookTimes
<1>4. PICK A \in SUBSET Addrs : A = {a} OBVIOUS
<1>5. /\ store' = B!PS!add_addrs(store, p, A, ttl, now) /\ B!Promised({p} \X A, ttl)
      /\ safe' = IF B!PS!pinned(store, p) THEN safe \cup ({p} \X A) ELSE safe
  BY <1>2, <1>4 DEF B!add_addr
<1>6. IsBook(store') /\ Promises' /\ Pins' BY <1>1, <1>3, <1>5, AddStep
<1>7. QED BY <1>1, <1>6, Types DEF BookInv

LEMMA StepIdentified ==
  ASSUME BookInv, NEW p \in BookPeers, NEW A \in SUBSET Addrs, B!identified(p, A)
  PROVE  BookInv'
<1>1. phase' = phase /\ file' = file /\ copy' = copy /\ now' = now /\ atExit' = atExit /\ phase = "running"
  BY DEF B!identified, B!Loop
<1>2. ADDRESS_TTL \in Nat BY BookTimes
<1>3. /\ store' = B!PS!add_addrs(store, p, A, ADDRESS_TTL, now) /\ B!Promised({p} \X A, ADDRESS_TTL)
      /\ safe' = IF B!PS!pinned(store, p) THEN safe \cup ({p} \X A) ELSE safe
  BY DEF B!identified
<1>4. IsBook(store') /\ Promises' /\ Pins' BY <1>1, <1>2, <1>3, AddStep
<1>5. Exits' BY <1>1 DEF Exits
<1>6. QED BY <1>1, <1>4, <1>5, Types DEF BookInv

LEMMA StepClear ==
  ASSUME BookInv, NEW p \in BookPeers, B!clear_addrs(p)
  PROVE  BookInv'
<1>1. Exits' /\ now' = now /\ phase' = phase /\ file' = file /\ copy' = copy BY CallExits DEF B!clear_addrs
<1>2. IsBook(store) BY DEF BookInv, BookType
<1>3. IsBook(store') /\ DOMAIN store' = DOMAIN store /\ \A x \in DOMAIN store : x # p => store'[x] = store[x]
  <2>1. PICK s, t : s = store /\ t = store' OBVIOUS
  <2>2. IsBook(s) /\ t = B!PS!clear_addrs(s, p) BY <1>2, <2>1 DEF B!clear_addrs
  <2>3. QED BY <2>1, <2>2, ClearAddrsIs
<1>4. \A q \in B!Pairs(store) : q \notin B!OfPeer(p) => q \in B!Pairs(store') /\ store'[q[1]] = store[q[1]]
  <2>1. ASSUME NEW q \in B!Pairs(store), q[1] # p PROVE q \in B!Pairs(store') /\ store'[q[1]] = store[q[1]]
    BY <2>1, <1>3 DEF B!Pairs
  <2>2. \A q \in B!Pairs(store) : q \notin B!OfPeer(p) => q[1] # p BY DEF B!OfPeer, B!Pairs
  <2>3. QED BY <2>1, <2>2
<1>5. DOMAIN until' = DOMAIN until \ B!OfPeer(p) /\ \A q \in DOMAIN until' : until'[q] = until[q]
  BY DEF B!clear_addrs, B!Restrict
<1>6. Promises' BY <1>1, <1>4, <1>5 DEF BookInv, Promises
<1>7. safe' = safe \ B!OfPeer(p) BY DEF B!clear_addrs
<1>8. Pins' BY <1>4, <1>7 DEF BookInv, Pins
<1>9. QED BY <1>1, <1>3, <1>6, <1>8, Types DEF BookInv

LEMMA StepUpdate ==
  ASSUME BookInv, NEW p \in BookPeers, NEW ttl \in Ttls, B!update_addr(p, ttl)
  PROVE  BookInv'
<1>1. Exits' /\ now' = now /\ phase' = phase /\ file' = file /\ copy' = copy BY CallExits DEF B!update_addr
<1>2. IsBook(store) /\ now \in Nat /\ ttl \in Nat BY BookTimes DEF BookInv, BookType
<1>3. /\ IsBook(store') /\ DOMAIN store' = DOMAIN store
      /\ \A x \in DOMAIN store : /\ DOMAIN store'[x].addrs = DOMAIN store[x].addrs /\ store'[x].pinned = store[x].pinned
                                 /\ x # p => store'[x] = store[x]
      /\ p \in DOMAIN store => \A a \in DOMAIN store[p].addrs : store'[p].addrs[a].ttl = ttl /\ store'[p].addrs[a].expiry = now
  <2>1. PICK s, t, n : s = store /\ t = store' /\ n = now OBVIOUS
  <2>2. IsBook(s) /\ n \in Nat /\ t = B!PS!update_addr(s, p, ttl, n) BY <1>2, <2>1 DEF B!update_addr
  <2>3. IsBook(t) /\ Updated(s, t, p, ttl, n) BY <2>2, <1>2, UpdateAddrIs
  <2>4. QED BY <2>1, <2>3 DEF Updated
<1>4. PICK known : known = B!PS!get_addrs(store, p) OBVIOUS
<1>5. /\ known \subseteq Addrs
      /\ \A q \in {p} \X known : q \in B!Pairs(store) /\ q[1] = p /\ p \in DOMAIN store /\ q[2] \in DOMAIN store[p].addrs
      /\ \A q \in B!Pairs(store) : q \notin {p} \X known => q[1] # p
  BY <1>2, <1>4 DEF B!PS!get_addrs, B!Pairs, IsBook, IsRecord
<1>6. \A q \in B!Pairs(store) : q \in B!Pairs(store') /\ store'[q[1]].pinned = store[q[1]].pinned BY <1>3 DEF B!Pairs
<1>7. \A q \in B!Pairs(store) : q \notin {p} \X known =>
        q \in B!Pairs(store') /\ store'[q[1]].addrs[q[2]] = store[q[1]].addrs[q[2]]
  <2>1. \A q \in B!Pairs(store) : q[1] \in DOMAIN store BY DEF B!Pairs
  <2>2. QED BY <2>1, <1>3, <1>5, <1>6
<1>8. \A q \in {p} \X known : /\ q \in B!Pairs(store')
                          /\ store'[q[1]].addrs[q[2]].ttl = ttl /\ store'[q[1]].addrs[q[2]].expiry = now
  BY <1>3, <1>5, <1>6
<1>9. {p} \X known \in SUBSET (BookPeers \X Addrs) BY <1>5
<1>10. B!Promised({p} \X known, ttl) BY <1>4 DEF B!update_addr
<1>11. Promises' BY <1>1, <1>2, <1>7, <1>8, <1>9, <1>10, PromisedStep DEF BookInv
<1>12. safe' = safe BY DEF B!update_addr
<1>13. Pins' BY <1>6, <1>12 DEF BookInv, Pins
<1>14. QED BY <1>1, <1>3, <1>11, <1>13, Types DEF BookInv

LEMMA StepPin ==
  ASSUME BookInv, NEW p \in BookPeers, B!pin(p)
  PROVE  BookInv'
<1>1. Exits' /\ now' = now /\ phase' = phase /\ file' = file /\ copy' = copy BY CallExits DEF B!pin
<1>2. IsBook(store) /\ now \in Nat BY DEF BookInv, BookType
<1>3. /\ IsBook(store') /\ Alike(store, store') /\ \A x \in DOMAIN store : x # p => store'[x] = store[x]
      /\ p \in DOMAIN store => store'[p].pinned
  <2>1. PICK s, t : s = store /\ t = store' OBVIOUS
  <2>2. IsBook(s) /\ t = B!PS!pin(s, p) BY <1>2, <2>1 DEF B!pin
  <2>3. IsBook(t) /\ Pinned(s, t, p) /\ (p \in DOMAIN s => t[p].pinned) BY <2>2, PinIs
  <2>4. QED BY <2>1, <2>3 DEF Pinned
<1>4. \A q \in B!Pairs(store) : q \in B!Pairs(store') /\ store'[q[1]].addrs[q[2]] = store[q[1]].addrs[q[2]]
  BY <1>2, <1>3, AlikePairs
<1>5. until' = until BY DEF B!pin
<1>6. Promises' BY <1>1, <1>2, <1>4, <1>5, KeptStep DEF BookInv
<1>7. PICK known : known = B!PS!get_addrs(store, p) OBVIOUS
<1>8. safe' = safe \cup ({p} \X known) BY <1>7 DEF B!pin
<1>9. \A q \in {p} \X known : q \in B!Pairs(store) /\ q[1] = p /\ p \in DOMAIN store
  BY <1>2, <1>7 DEF B!PS!get_addrs, B!Pairs, IsBook, IsRecord
<1>10. \A q \in safe : q \in B!Pairs(store') /\ store'[q[1]].pinned
  <2>1. ASSUME NEW q \in safe PROVE store'[q[1]].pinned
    <3>1. q \in B!Pairs(store) /\ store[q[1]].pinned BY DEF BookInv, Pins
    <3>2. q[1] \in DOMAIN store BY <3>1 DEF B!Pairs
    <3>3. QED BY <3>1, <3>2, <1>3
  <2>2. QED BY <2>1, <1>4 DEF BookInv, Pins
<1>11. Pins' BY <1>3, <1>4, <1>8, <1>9, <1>10 DEF Pins
<1>12. QED BY <1>1, <1>3, <1>6, <1>11, Types DEF BookInv

LEMMA StepUnpin ==
  ASSUME BookInv, NEW p \in BookPeers, B!unpin(p)
  PROVE  BookInv'
<1>1. Exits' /\ now' = now /\ phase' = phase /\ file' = file /\ copy' = copy BY CallExits DEF B!unpin
<1>2. IsBook(store) /\ now \in Nat BY DEF BookInv, BookType
<1>3. IsBook(store') /\ Alike(store, store') /\ \A x \in DOMAIN store : x # p => store'[x] = store[x]
  <2>1. PICK s, t : s = store /\ t = store' OBVIOUS
  <2>2. IsBook(s) /\ t = B!PS!unpin(s, p) BY <1>2, <2>1 DEF B!unpin
  <2>3. IsBook(t) /\ Pinned(s, t, p) BY <2>2, PinIs
  <2>4. QED BY <2>1, <2>3 DEF Pinned
<1>4. \A q \in B!Pairs(store) : q \in B!Pairs(store') /\ store'[q[1]].addrs[q[2]] = store[q[1]].addrs[q[2]]
  BY <1>2, <1>3, AlikePairs
<1>5. until' = until /\ safe' = safe \ B!OfPeer(p) BY DEF B!unpin
<1>6. Promises' BY <1>1, <1>2, <1>4, <1>5, KeptStep DEF BookInv
<1>7. ASSUME NEW q \in safe' PROVE q \in B!Pairs(store') /\ store'[q[1]].pinned
  <2>1. q \in B!Pairs(store) /\ store[q[1]].pinned /\ q \notin B!OfPeer(p) BY <1>5 DEF BookInv, Pins
  <2>2. q[1] # p /\ q[1] \in DOMAIN store BY <2>1 DEF B!OfPeer, B!Pairs
  <2>3. QED BY <2>1, <2>2, <1>3, <1>4
<1>8. Pins' BY <1>7 DEF Pins
<1>9. QED BY <1>1, <1>3, <1>6, <1>8, Types DEF BookInv

\* AddKey, AddProtocols and clear_protocols leave addresses and pins alone.
LEMMA StepAlike ==
  ASSUME BookInv, now' = now, phase' = phase, file' = file, copy' = copy, atExit' = atExit,
         until' = until, safe' = safe, NEW p, NEW P,
         \/ store' = B!PS!add_key(store, p)
         \/ store' = B!PS!clear_protocols(store, p)
         \/ store' = B!PS!add_protocols(store, p, P)
  PROVE  BookInv'
<1>1. IsBook(store) /\ now \in Nat BY DEF BookInv, BookType
<1>2. IsBook(store') /\ Alike(store, store') /\ \A x \in DOMAIN store : store'[x].pinned = store[x].pinned
  <2>1. PICK s, t : s = store /\ t = store' OBVIOUS
  <2>2. /\ IsBook(s)
        /\ \/ t = B!PS!add_key(s, p)
           \/ t = B!PS!clear_protocols(s, p)
           \/ t = B!PS!add_protocols(s, p, P)
    BY <1>1, <2>1
  <2>3. IsBook(t) /\ Alike(s, t) /\ \A x \in DOMAIN s : t[x].pinned = s[x].pinned BY <2>2, LeavesAddrs
  <2>4. QED BY <2>1, <2>3
<1>3. \A q \in B!Pairs(store) : q \in B!Pairs(store') /\ store'[q[1]].addrs[q[2]] = store[q[1]].addrs[q[2]]
  BY <1>1, <1>2, AlikePairs
<1>4. Promises' BY <1>1, <1>3, KeptStep DEF BookInv
<1>5. \A q \in B!Pairs(store) : q[1] \in DOMAIN store BY DEF B!Pairs
<1>6. Pins' BY <1>2, <1>3, <1>5 DEF BookInv, Pins
<1>7. Exits' BY DEF BookInv, Exits, Listed
<1>8. QED BY <1>2, <1>4, <1>6, <1>7, Types DEF BookInv

LEMMA StepGc ==
  ASSUME BookInv, B!Gc
  PROVE  BookInv'
<1>1. /\ now' = now /\ phase' = phase /\ file' = file /\ copy' = copy /\ atExit' = atExit /\ until' = until /\ safe' = safe
      /\ store' = B!PS!remove_expired_addrs(store, now)
  BY DEF B!Gc, B!Loop
<1>2. IsBook(store) /\ now \in Nat BY DEF BookInv, BookType
<1>3. /\ IsBook(store')
      /\ \A x \in DOMAIN store : \A a \in DOMAIN store[x].addrs :
           store[x].pinned \/ now < store[x].addrs[a].expiry + store[x].addrs[a].ttl =>
             /\ x \in DOMAIN store' /\ store'[x].pinned = store[x].pinned
             /\ a \in DOMAIN store'[x].addrs /\ store'[x].addrs[a] = store[x].addrs[a]
  <2>1. PICK s, t, n : s = store /\ t = store' /\ n = now OBVIOUS
  <2>2. IsBook(s) /\ n \in Nat /\ t = B!PS!remove_expired_addrs(s, n) BY <1>1, <1>2, <2>1
  <2>3. IsBook(t) /\ Collected(s, t, n) BY <2>2, CollectionIs
  <2>4. QED BY <2>1, <2>3 DEF Collected
<1>4. \A q \in B!Pairs(store) :
        store[q[1]].pinned \/ now < store[q[1]].addrs[q[2]].expiry + store[q[1]].addrs[q[2]].ttl =>
          /\ q \in B!Pairs(store') /\ store'[q[1]].pinned = store[q[1]].pinned
          /\ store'[q[1]].addrs[q[2]] = store[q[1]].addrs[q[2]]
  BY <1>3 DEF B!Pairs
<1>5. Promises' BY <1>1, <1>2, <1>4, KeptStep DEF BookInv
<1>6. Pins' BY <1>1, <1>4 DEF BookInv, Pins
<1>7. Exits' BY <1>1 DEF BookInv, Exits, Listed
<1>8. QED BY <1>1, <1>3, <1>5, <1>6, <1>7, Types DEF BookInv

LEMMA StepSave ==
  ASSUME BookInv, B!SaveCopies \/ B!SaveTruncates
  PROVE  BookInv'
<1>1. store' = store /\ until' = until /\ safe' = safe /\ now' = now
  BY DEF B!SaveCopies, B!SaveTruncates, B!bookVars
<1>2. Promises' /\ Pins' BY <1>1 DEF BookInv, Promises, Pins, B!Pairs
<1>3. CASE B!SaveCopies
  <2>1. PICK s, f : s = store /\ f = copy' OBVIOUS
  <2>2. IsBook(s) /\ f = B!PS!save_data(s) BY <1>3, <2>1 DEF B!SaveCopies, BookInv, BookType
  <2>3. IsFile(f) /\ B!Pairs(s) \subseteq Listed(f) BY <2>2, SaveIs
  <2>4. IsFile(copy') /\ phase' = "saving" /\ file' = file /\ atExit' = B!Pairs(store)
    BY <1>3, <2>1, <2>3 DEF B!SaveCopies
  <2>5. atExit' \subseteq Listed(copy') BY <2>1, <2>3, <2>4
  <2>6. BookType' BY <1>1, <2>4 DEF BookInv, BookType
  <2>7. Exits' BY <2>4, <2>5 DEF Exits, Listed
  <2>8. QED BY <1>2, <2>6, <2>7 DEF BookInv
<1>4. CASE B!SaveTruncates
  <2>1. phase = "saving" /\ phase' = "writing" /\ file' = <<>> /\ copy' = copy /\ atExit' = atExit
    BY <1>4 DEF B!SaveTruncates
  <2>2. BookType' BY <1>1, <2>1, NobodyIn DEF BookInv, BookType
  <2>3. Exits' BY <2>1 DEF BookInv, Exits, Listed
  <2>4. QED BY <1>2, <2>2, <2>3 DEF BookInv
<1>5. QED BY <1>3, <1>4

LEMMA StepDown ==
  ASSUME BookInv, B!SaveWrites \/ B!Crash
  PROVE  BookInv'
<1>1. phase' = "down" /\ store' = <<>> /\ copy' = <<>> /\ until' = <<>> /\ safe' = {} /\ now' = now
  BY DEF B!SaveWrites, B!Crash, B!Down
<1>2. IsFile(file') /\ atExit' \subseteq Listed(file')
  <2>1. CASE B!SaveWrites
    <3>1. phase = "writing" /\ file' = copy /\ atExit' = atExit BY <2>1 DEF B!SaveWrites
    <3>2. QED BY <3>1 DEF BookInv, BookType, Exits, Listed
  <2>2. CASE B!Crash
    <3>1. file' = file BY <2>2 DEF B!Crash
    <3>2. atExit' \subseteq Listed(file) BY <2>2 DEF B!Crash, Listed
    <3>3. QED BY <3>1, <3>2 DEF BookInv, BookType, Listed
  <2>3. QED BY <2>1, <2>2
<1>3. BookType' BY <1>1, <1>2, NobodyIn DEF BookInv, BookType
<1>4. Promises' BY <1>1, NobodyIn DEF Promises
<1>5. Pins' BY <1>1 DEF Pins
<1>6. Exits' BY <1>1, <1>2 DEF Exits, Listed
<1>7. QED BY <1>3, <1>4, <1>5, <1>6 DEF BookInv

LEMMA StepStart ==
  ASSUME BookInv, B!Start
  PROVE  BookInv'
<1>1. /\ phase = "down" /\ phase' = "running" /\ store' = B!PS!load_data(file, now)
      /\ until' = [q \in atExit |-> now + file[q[1]][q[2]]]
      /\ file' = file /\ copy' = copy /\ now' = now /\ safe' = safe
  BY DEF B!Start
<1>2. IsFile(file) /\ now \in Nat /\ atExit \subseteq Listed(file) /\ safe = {} BY <1>1 DEF BookInv, BookType, Exits
<1>3. /\ IsBook(store')
      /\ \A q \in Listed(file) : /\ q \in B!Pairs(store') /\ store'[q[1]].addrs[q[2]].ttl = file[q[1]][q[2]]
                                 /\ store'[q[1]].addrs[q[2]].expiry = now
  <2>1. PICK f, t, n : f = file /\ t = store' /\ n = now OBVIOUS
  <2>2. IsFile(f) /\ n \in Nat /\ t = B!PS!load_data(f, n) BY <1>1, <1>2, <2>1
  <2>3. IsBook(t) /\ Loaded(f, t, n) BY <2>2, LoadIs
  <2>4. QED BY <2>1, <2>3 DEF Loaded
<1>4. BookType' BY <1>1, <1>2, <1>3 DEF BookInv, BookType
<1>5. ASSUME NEW q \in DOMAIN until'
      PROVE  /\ q \in BookPeers \X Addrs /\ until'[q] \in Nat /\ q \in B!Pairs(store')
             /\ until'[q] <= store'[q[1]].addrs[q[2]].expiry + store'[q[1]].addrs[q[2]].ttl
  <2>1. q \in Listed(file) /\ until'[q] = now + file[q[1]][q[2]] BY <1>1, <1>2
  <2>2. file[q[1]][q[2]] \in Nat /\ q \in BookPeers \X Addrs BY <2>1, <1>2 DEF Listed, IsFile
  <2>3. QED BY <2>1, <2>2, <1>2, <1>3
<1>6. Promises' BY <1>5 DEF Promises
<1>7. Pins' BY <1>1, <1>2 DEF Pins
<1>8. Exits' BY <1>1 DEF Exits
<1>9. QED BY <1>4, <1>6, <1>7, <1>8 DEF BookInv

LEMMA StepTick ==
  ASSUME BookInv, B!Tick
  PROVE  BookInv'
<1>1. /\ store' = store /\ until' = until /\ safe' = safe /\ file' = file /\ phase' = phase /\ copy' = copy
      /\ atExit' = atExit /\ now' = now + 1
  BY DEF B!Tick, B!bookVars
<1>2. IsBook(store) /\ now \in Nat BY DEF BookInv, BookType
<1>3. BookType' BY <1>1, <1>2 DEF BookInv, BookType
<1>4. \A q \in B!Pairs(store) : q \in B!Pairs(store') /\ store'[q[1]].addrs[q[2]] = store[q[1]].addrs[q[2]]
  BY <1>1
<1>5. Promises' BY <1>1, <1>2, <1>4, KeptStep DEF BookInv
<1>6. Pins' BY <1>1 DEF BookInv, Pins, B!Pairs
<1>7. Exits' BY <1>1 DEF BookInv, Exits, Listed
<1>8. QED BY <1>3, <1>5, <1>6, <1>7 DEF BookInv

LEMMA BookNext == ASSUME BookInv, B!Next PROVE BookInv'
<1>1. ASSUME NEW p \in BookPeers, NEW a \in Addrs, NEW ttl \in Ttls, B!add_addr(p, a, ttl) PROVE BookInv'
  BY <1>1, StepAddAddr
<1>2. ASSUME NEW p \in BookPeers, NEW ttl \in Ttls, B!update_addr(p, ttl) PROVE BookInv' BY <1>2, StepUpdate
<1>3. ASSUME NEW p \in BookPeers, B!clear_addrs(p) PROVE BookInv' BY <1>3, StepClear
<1>4. ASSUME NEW p \in BookPeers, B!pin(p) PROVE BookInv' BY <1>4, StepPin
<1>5. ASSUME NEW p \in BookPeers, B!unpin(p) PROVE BookInv' BY <1>5, StepUnpin
<1>6. ASSUME NEW p \in BookPeers, B!clear_protocols(p) PROVE BookInv'
  BY <1>6, StepAlike DEF B!clear_protocols, B!Call
<1>7. ASSUME NEW p \in BookPeers, NEW A \in SUBSET Addrs, B!identified(p, A) PROVE BookInv' BY <1>7, StepIdentified
<1>8. CASE B!AddKey BY <1>8, StepAlike DEF B!AddKey, B!Loop
<1>9. CASE B!AddProtocols BY <1>9, StepAlike DEF B!AddProtocols, B!Loop
<1>10. CASE B!Gc BY <1>10, StepGc
<1>11. CASE B!SaveCopies \/ B!SaveTruncates BY <1>11, StepSave
<1>12. CASE B!SaveWrites \/ B!Crash BY <1>12, StepDown
<1>13. CASE B!Start BY <1>13, StepStart
<1>14. CASE B!Tick BY <1>14, StepTick
<1>15. QED BY <1>1, <1>2, <1>3, <1>4, <1>5, <1>6, <1>7, <1>8, <1>9, <1>10, <1>11, <1>12, <1>13, <1>14 DEF B!Next

LEMMA BookRests == ASSUME BookInv, UNCHANGED <<store, file, phase, copy, now, until, safe, atExit>> PROVE BookInv'
<1>1. BookType' BY DEF BookInv, BookType
<1>2. Promises' BY DEF BookInv, Promises, B!Pairs
<1>3. Pins' BY DEF BookInv, Pins, B!Pairs
<1>4. Exits' BY DEF BookInv, Exits, Listed
<1>5. QED BY <1>1, <1>2, <1>3, <1>4 DEF BookInv

LEMMA HandRests ==
  ASSUME HandInv, UNCHANGED <<kind, config, hash, ctx, wire>>
  PROVE  HandInv'
<1>1. Fixed BY DEF Fixed
<1>2. \A t : FramesTo(t)' = FramesTo(t) BY DEF FramesTo
<1>3. HandType'
  <2>1. WireType' BY DEF HandInv, HandType, WireType
  <2>2. \A t \in H!Sides : IsContext(ctx[t])' BY DEF HandInv, HandType, IsContext
  <2>3. \A t \in H!Sides : \A x \in FramesTo(t)' : IsFrame(x) BY <1>2 DEF HandInv, HandType
  <2>4. QED BY <2>1, <2>2, <2>3 DEF HandInv, HandType
<1>4. SecioInv'
  <2>1. SUFFICES ASSUME kind' = "secio" PROVE \A t \in H!Sides : SecioEnd(t)' /\ \A x \in FramesTo(t)' : SecioFrame(t, x)'
    BY DEF SecioInv
  <2>2. \A t \in H!Sides : SecioEnd(t) /\ \A x \in FramesTo(t) : SecioFrame(t, x) BY <2>1 DEF HandInv, SecioInv
  <2>3. PICK s \in H!Sides : s = "a" BY AB
  <2>4. PICK c : c = ctx[s] OBVIOUS
  <2>5. SameSecrets(s, c) BY <2>4 DEF SameSecrets, Context, HandInv, HandType
  <2>6. \A t \in H!Sides : (Keyed(t)' <=> Keyed(t)) /\ (\A x : SecioFrame(t, x)' <=> SecioFrame(t, x))
    BY <2>5, <1>1, SecioSame
  <2>7. \A t, p : H!chosen(t, p)' = H!chosen(t, p) BY <1>1, FixedOps
  <2>8. ASSUME NEW t \in H!Sides PROVE SecioEnd(t)'
    <3>1. SecioEnd(t) /\ (Keyed(t)' <=> Keyed(t)) BY <2>2, <2>6
    <3>2. H!chosen(t, ctx[t].remote)' = H!chosen(t, ctx[t].remote) BY <2>7
    <3>3. QED BY <3>1, <3>2 DEF SecioEnd, H!Done
  <2>9. QED BY <2>2, <2>6, <2>8, <1>2
<1>5. PlainInv' BY <1>2 DEF HandInv, PlainInv, H!Done
<1>6. NoiseInv' BY <1>2 DEF HandInv, NoiseInv, NoiseToA, NoiseToB, NoiseEndA, NoiseEndB, H!Done
<1>7. QED BY <1>3, <1>4, <1>5, <1>6 DEF HandInv

\* A step of the whole leaves the choice of the part, and is a step of that part.
LEMMA PartSteps ==
  ASSUME [Next]_all
  PROVE  /\ which' = which
         /\ which = "upgrade" => U!Next \/ UNCHANGED U!vars
         /\ which = "handshake" => H!Next \/ UNCHANGED H!vars
         /\ which = "stream" => S!Next \/ UNCHANGED S!vars
         /\ which = "kad" => K!Next \/ UNCHANGED K!vars
         /\ which = "conn" => C!Next \/ UNCHANGED C!vars
         /\ which = "book" => B!Next \/ UNCHANGED B!vars
<1>1. CASE UNCHANGED all
  BY <1>1 DEF all, upgradeVars, handshakeVars, streamVars, kadVars, connVars, bookVars,
              U!vars, H!vars, S!vars, K!vars, C!vars, B!vars
<1>2. CASE Next
  BY <1>2 DEF Next, UpgradeAlone, HandshakeAlone, StreamAlone, KadAlone, FloodsubAlone, GossipAlone, ConnAlone, BookAlone
<1>3. QED BY <1>1, <1>2

SecureInv == /\ which = "handshake" => HandInv
             /\ which = "stream" => StreamInv

\* SecureSafe: whatever the keys, the configurations, the damage in transit, the sizes of
\* frames and writes and the room in the socket, a handshake of noise, secio or plaintext
\* that ends (handshake of HandshakeContext, State::finish) ends with the key of the peer
\* and the same ciphers on both sides, and the stream (poll_read, poll_write, poll_close)
\* hands over the bytes in order and its end only after all of them.
THEOREM SecureIsSafe == Spec => []SecureSafe
<1>1. Init => SecureInv
  <2> SUFFICES ASSUME Init PROVE SecureInv OBVIOUS
  <2>1. which = "handshake" => H!Init BY DEF Init
  <2>2. which = "stream" => S!Init BY DEF Init
  <2>3. QED BY <2>1, <2>2, HandInitInv, StreamInitInv DEF SecureInv
<1>2. SecureInv /\ [Next]_all => SecureInv'
  <2> SUFFICES ASSUME SecureInv, [Next]_all PROVE SecureInv' OBVIOUS
  <2>1. which' = which BY PartSteps
  <2>2. ASSUME which = "handshake" PROVE HandInv'
    <3>1. HandInv BY <2>2 DEF SecureInv
    <3>2. H!Next \/ UNCHANGED H!vars BY <2>2, PartSteps
    <3>3. CASE H!Next BY <3>1, <3>3, HandNext
    <3>4. CASE UNCHANGED H!vars BY <3>1, <3>4, HandRests DEF H!vars
    <3>5. QED BY <3>2, <3>3, <3>4
  <2>3. ASSUME which = "stream" PROVE StreamInv'
    <3>1. StreamInv BY <2>3 DEF SecureInv
    <3>2. S!Next \/ UNCHANGED S!vars BY <2>3, PartSteps
    <3>3. CASE S!Next BY <3>1, <3>3, StreamNext
    <3>4. CASE UNCHANGED S!vars BY <3>1, <3>4, StreamRests DEF S!vars
    <3>5. QED BY <3>2, <3>3, <3>4
  <2>4. QED BY <2>1, <2>2, <2>3 DEF SecureInv
<1>3. SecureInv => SecureSafe BY HandSafe, StreamSafe DEF SecureInv, SecureSafe
<1>4. QED BY <1>1, <1>2, <1>3, PTL DEF Spec

\* KadAnswers: for any number of jobs over any number of streams, whatever is lost, times out
\* or comes late, a job of a Kademlia messenger (send_request, put_messenger) that ends well
\* has the answer given to its own request, as it was given, and the other node's main loop
\* (handle) gets the requests that were sent, each once, and no other.
THEOREM KadAnswersAreOwn == Spec => []KadAnswers
<1>1. Init => (which = "kad" => KadInv)
  <2> SUFFICES ASSUME Init, which = "kad" PROVE KadInv OBVIOUS
  <2>1. K!Init BY DEF Init
  <2>2. QED BY <2>1, KadInitInv
<1>2. (which = "kad" => KadInv) /\ [Next]_all => (which = "kad" => KadInv)'
  <2> SUFFICES ASSUME which = "kad" => KadInv, [Next]_all, which' = "kad" PROVE KadInv' OBVIOUS
  <2>1. which = "kad" BY PartSteps
  <2>2. KadInv BY <2>1
  <2>3. K!Next \/ UNCHANGED K!vars BY <2>1, PartSteps
  <2>4. CASE K!Next BY <2>2, <2>4, KadNext
  <2>5. CASE UNCHANGED K!vars BY <2>2, <2>5, KadRests DEF K!vars
  <2>6. QED BY <2>3, <2>4, <2>5
<1>3. (which = "kad" => KadInv) => KadAnswers BY KadSafe DEF KadAnswers
<1>4. QED BY <1>1, <1>2, <1>3, PTL DEF Spec

\* PingIsTruthful, of ConnSafe: for every max_failures and any number of pings, whatever comes
\* back, is lost or times out, and whenever the connection goes, a latency is recorded
\* (handle_ping_result) only for a ping that came back as it was sent, and the Ping task
\* (start_ping) gives up only after max_failures failures with no success in between.
THEOREM PingsAreTruthful == Spec => [](which = "conn" => C!PingIsTruthful)
<1>1. Init => (which = "conn" => PingInv)
  <2> SUFFICES ASSUME Init, which = "conn" PROVE PingInv OBVIOUS
  <2>1. C!Init BY DEF Init
  <2>2. QED BY <2>1, PingInitInv
<1>2. (which = "conn" => PingInv) /\ [Next]_all => (which = "conn" => PingInv)'
  <2> SUFFICES ASSUME which = "conn" => PingInv, [Next]_all, which' = "conn" PROVE PingInv' OBVIOUS
  <2>1. which = "conn" BY PartSteps
  <2>2. PingInv BY <2>1
  <2>3. C!Next \/ UNCHANGED C!vars BY <2>1, PartSteps
  <2>4. CASE C!Next BY <2>2, <2>4, PingNext
  <2>5. CASE UNCHANGED C!vars BY <2>2, <2>5, PingRests DEF C!vars
  <2>6. QED BY <2>3, <2>4, <2>5
<1>3. (which = "conn" => PingInv) => (which = "conn" => C!PingIsTruthful) BY PingSafe
<1>4. QED BY <1>1, <1>2, <1>3, PTL DEF Spec

\* AddrsHeld, of ConnSafe: for any peers, addresses and times to live, whatever is added,
\* renewed, pinned, collected (remove_expired_addrs), saved, lost in a crash or loaded again
\* in between, an address stays in the peer store for the time it was added for, and as long
\* as it takes while its peer is pinned.
THEOREM AddressesAreHeld == Spec => [](which = "book" => B!AddrsHeld)
<1>1. Init => (which = "book" => BookInv)
  <2> SUFFICES ASSUME Init, which = "book" PROVE BookInv OBVIOUS
  <2>1. B!Init BY DEF Init
  <2>2. QED BY <2>1, BookInitInv
<1>2. (which = "book" => BookInv) /\ [Next]_all => (which = "book" => BookInv)'
  <2> SUFFICES ASSUME which = "book" => BookInv, [Next]_all, which' = "book" PROVE BookInv' OBVIOUS
  <2>1. which = "book" BY PartSteps
  <2>2. BookInv BY <2>1
  <2>3. B!Next \/ UNCHANGED B!vars BY <2>1, PartSteps
  <2>4. CASE B!Next BY <2>2, <2>4, BookNext
  <2>5. CASE UNCHANGED B!vars BY <2>2, <2>5, BookRests DEF B!vars
  <2>6. QED BY <2>3, <2>4, <2>5
<1>3. (which = "book" => BookInv) => (which = "book" => B!AddrsHeld) BY BookSafe
<1>4. QED BY <1>1, <1>2, <1>3, PTL DEF Spec

=============================================================================
