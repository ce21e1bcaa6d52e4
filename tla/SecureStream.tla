---------------------------- MODULE SecureStream ----------------------------
(***************************************************************************)
(* The byte stream over a secured socket, one direction of it: noise       *)
(* (NoiseFramed and NoiseOutput in protocols/noise/src/io) and secio       *)
(* (Encrypter and Decrypter in protocols/secio/src/codec).  The writer     *)
(* cuts what the application writes into frames, encrypts them in order    *)
(* and pushes them through a socket that takes and gives any number of     *)
(* bytes at a time; the reader puts the frames together again.             *)
(*                                                                         *)
(* Bytes of the application are numbered.  A byte on the socket is a pair  *)
(* <<f, i>>, the i-th of frame f: first the length prefix, then the data   *)
(* and the authentication tag.  The connection may break (Cut).            *)
(***************************************************************************)
EXTENDS Integers, Sequences, Lists

CONSTANTS MAX_FRAME_LEN,  \* noise: most bytes in a frame
          Tag,            \* bytes a cipher adds to a frame
          Room,           \* bytes the socket holds
          MaxBytes,       \* bound on what the application writes
          MaxWrite        \* bound on a single write

VARIABLES kind,         \* "noise" or "secio"
          written,      \* bytes the application has written
          send_buffer,  \* noise: bytes not yet in a frame
          frames,       \* the frames encrypted so far: their bytes
          ws,           \* write state: bytes of the last frame already written
          want,         \* what the writer is asked for: "no", "flush", "close", "closed"
          asked,        \* bytes that were written when a flush or a close was asked for
          wire,         \* the socket
          closed,       \* no more bytes will come: "no", "clean", "cut"
          rs,           \* read state: [st, hdr, body, n]
          recv_buffer,  \* decrypted bytes not yet read
          received      \* bytes the reader's application has got

vars == <<kind, written, send_buffer, frames, ws, want, asked, wire, closed, rs, recv_buffer, received>>

Header == IF kind = "noise" THEN 2 ELSE 4
FrameBytes(f) == Header + Len(frames[f]) + Tag

Init ==
  /\ kind \in {"noise", "secio"}
  /\ written = 0 /\ send_buffer = <<>> /\ frames = <<>> /\ ws = 0
  /\ want = "no" /\ asked = 0 /\ wire = <<>> /\ closed = "no"
  /\ rs = [st |-> "ReadLen", hdr |-> <<>>, body |-> <<>>, n |-> 0]
  /\ recv_buffer = <<>> /\ received = <<>>

------------------------------------------------------------------------------
(* The writer.                                                              *)

\* WriteState::Ready: the last frame has left entirely.
is_ready == frames # <<>> => ws = FrameBytes(Len(frames))

Fresh(k) == [i \in 1..k |-> written + i]

\* start_send: the next frame is encrypted, with the next nonce.
start_send(data) == frames' = Append(frames, data) /\ ws' = 0

\* NoiseOutput::poll_write: a full buffer is sent first; then as much is taken
\* as the buffer holds.
noise_poll_write(k) ==
  /\ kind = "noise" /\ want = "no" /\ closed = "no" /\ written + k <= MaxBytes
  /\ LET full == Len(send_buffer) = MAX_FRAME_LEN
         kept == IF full THEN <<>> ELSE send_buffer
         n    == Min({k, MAX_FRAME_LEN - Len(kept)}) IN
     /\ IF full THEN is_ready /\ start_send(send_buffer) ELSE UNCHANGED <<frames, ws>>
     /\ send_buffer' = kept \o Fresh(n)
     /\ written' = written + n
  /\ UNCHANGED <<kind, want, asked, wire, closed, rs, recv_buffer, received>>

\* Encrypter::poll_write: every write is a frame.
secio_poll_write(k) ==
  /\ kind = "secio" /\ want = "no" /\ closed = "no" /\ written + k <= MaxBytes
  /\ is_ready
  /\ start_send(Fresh(k))
  /\ written' = written + k
  /\ UNCHANGED <<kind, send_buffer, want, asked, wire, closed, rs, recv_buffer, received>>

\* poll_flush and poll_close: asked for by the application ...
poll_flush(w) ==
  /\ want = "no" /\ closed = "no"
  /\ want' = w /\ asked' = written
  /\ UNCHANGED <<kind, written, send_buffer, frames, ws, wire, closed, rs, recv_buffer, received>>

\* ... they send what is buffered ...
flush_frame ==
  /\ want \in {"flush", "close"} /\ closed = "no"
  /\ send_buffer # <<>> /\ is_ready
  /\ start_send(send_buffer)
  /\ send_buffer' = <<>>
  /\ UNCHANGED <<kind, written, want, asked, wire, closed, rs, recv_buffer, received>>

\* ... and are done when all of it has left; a close then closes the socket.
flushed ==
  /\ want \in {"flush", "close"} /\ closed = "no"
  /\ send_buffer = <<>> /\ is_ready
  /\ want' = IF want = "flush" THEN "no" ELSE "closed"
  /\ closed' = IF want = "flush" THEN "no" ELSE "clean"
  /\ UNCHANGED <<kind, written, send_buffer, frames, ws, asked, wire, rs, recv_buffer, received>>

\* poll_ready, WriteLen and WriteData: the socket takes some of the frame.
io_write(m) ==
  /\ ~is_ready /\ closed = "no"
  /\ ws + m <= FrameBytes(Len(frames)) /\ Len(wire) + m <= Room
  /\ wire' = wire \o [i \in 1..m |-> <<Len(frames), ws + i>>]
  /\ ws' = ws + m
  /\ UNCHANGED <<kind, written, send_buffer, frames, want, asked, closed, rs, recv_buffer, received>>

------------------------------------------------------------------------------
(* The reader.                                                              *)

\* What a length prefix says: the size of the frame if these are its bytes.
Size(hdr) ==
  IF \E f \in DOMAIN frames : hdr = [i \in 1..Header |-> <<f, i>>]
  THEN Len(frames[hdr[1][1]]) + Tag ELSE 1

\* The cipher's state is at frame n: it can decrypt that frame and no other.
Decrypts(body, n) ==
  /\ n \in DOMAIN frames
  /\ body = [i \in 1..(FrameBytes(n) - Header) |-> <<n, Header + i>>]

\* poll_next: m bytes come from the socket.
io_read(m) ==
  /\ rs.st \in {"ReadLen", "ReadData"} /\ recv_buffer = <<>>
  /\ m <= Len(wire)
  /\ wire' = SubSeq(wire, m + 1, Len(wire))
  /\ LET got == SubSeq(wire, 1, m) IN
     \/ /\ rs.st = "ReadLen" /\ Len(rs.hdr) + m <= Header
        /\ rs' = [rs EXCEPT !.hdr = @ \o got,
                            !.st = IF Len(rs.hdr) + m = Header THEN "ReadData" ELSE "ReadLen"]
        /\ UNCHANGED recv_buffer
     \/ /\ rs.st = "ReadData" /\ Len(rs.body) + m <= Size(rs.hdr)
        /\ LET body == rs.body \o got IN
           IF Len(body) < Size(rs.hdr)
           THEN rs' = [rs EXCEPT !.body = body] /\ UNCHANGED recv_buffer
           ELSE IF Decrypts(body, rs.n + 1)
           THEN /\ rs' = [st |-> "ReadLen", hdr |-> <<>>, body |-> <<>>, n |-> rs.n + 1]
                /\ recv_buffer' = frames[rs.n + 1]
           ELSE rs' = [rs EXCEPT !.st = "DecErr"] /\ UNCHANGED recv_buffer
  /\ UNCHANGED <<kind, written, send_buffer, frames, ws, want, asked, closed, received>>

\* The socket ends (Decrypter's stream, poll_next): cleanly as far as the reader
\* can tell when it is still at the length prefix, unexpectedly within the data.
read_eof ==
  /\ rs.st \in {"ReadLen", "ReadData"} /\ recv_buffer = <<>>
  /\ wire = <<>> /\ closed # "no"
  /\ rs' = [rs EXCEPT !.st = IF rs.st = "ReadLen" THEN "Eof" ELSE "UnexpectedEof"]
  /\ UNCHANGED <<kind, written, send_buffer, frames, ws, want, asked, wire, closed, recv_buffer, received>>

\* What is decrypted is copied, as much as the caller has room for.
Copied(n) ==
  /\ received' = received \o SubSeq(recv_buffer, 1, n)
  /\ recv_buffer' = SubSeq(recv_buffer, n + 1, Len(recv_buffer))

poll_read(r) ==
  /\ recv_buffer # <<>>
  /\ Copied(Min({r, Len(recv_buffer)}))
  /\ UNCHANGED <<kind, written, send_buffer, frames, ws, want, asked, wire, closed, rs>>

\* The connection breaks: some of what is under way is lost.
Cut ==
  /\ closed = "no"
  /\ closed' = "cut"
  /\ \E k \in 0..Len(wire) : wire' = SubSeq(wire, 1, k)
  /\ UNCHANGED <<kind, written, send_buffer, frames, ws, want, asked, rs, recv_buffer, received>>

------------------------------------------------------------------------------
IoWrite == \E m \in 1..Room : io_write(m)
IoRead == \E m \in 1..Room : io_read(m)
PollRead == \E r \in 1..MaxWrite : poll_read(r)

Next ==
  \/ \E k \in 1..MaxWrite : noise_poll_write(k) \/ secio_poll_write(k)
  \/ \E w \in {"flush", "close"} : poll_flush(w)
  \/ flush_frame \/ flushed \/ IoWrite \/ IoRead \/ read_eof \/ PollRead \/ Cut

\* The flush is polled until it is done, the socket moves bytes and the reader
\* reads on.
Fairness == /\ WF_vars(flush_frame) /\ WF_vars(flushed) /\ WF_vars(IoWrite)
            /\ WF_vars(IoRead) /\ WF_vars(read_eof) /\ WF_vars(PollRead)

Spec == Init /\ [][Next]_vars /\ Fairness

------------------------------------------------------------------------------
\* The reader gets the bytes that were written, in order, each once, and no
\* frame is ever refused by the cipher: nonces stay in step and a length prefix
\* that comes in two pieces is put together (poll_next, poll_write, poll_read).
InOrder ==
  /\ Len(received) <= written /\ received = [i \in 1..Len(received) |-> i]
  /\ rs.st # "DecErr"
  /\ kind = "noise" => \A f \in DOMAIN frames : Len(frames[f]) <= MAX_FRAME_LEN

\* A clean end after the writer has closed means that everything was read, and
\* a connection cut within the data of a frame is never taken for a clean end.
EofMeansAll == rs.st = "Eof" =>
  /\ closed = "clean" => Len(received) = written
  /\ closed = "cut" => Len(rs.hdr) < Header /\ rs.body = <<>>

\* What was written before a flush or a close is read, unless the connection breaks.
Settled == Len(received) >= asked \/ closed = "cut"

==============================================================================
