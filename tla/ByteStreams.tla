---------------------------- MODULE ByteStreams -----------------------------
(***************************************************************************)
(* The bounded writer and reader of src/cbase_bytes.c and their frames,    *)
(* used as the interface intends: a sender runs a chain of writes and      *)
(* looks at info once at the end, to ship the buffer or to start over; a   *)
(* receiver reads frames from what has arrived so far of a byte stream     *)
(* and, when a frame is not complete, tries again from the same place when *)
(* more has arrived.                                                       *)
(*                                                                         *)
(* A byte holds Base values.  Two bytes make the length prefix, so the     *)
(* longest body has Base^2 - 1 bytes.                                      *)
(***************************************************************************)
EXTENDS Integers, Sequences, SequencesExt

CONSTANTS
  Base,        \* 2^8 in the code
  Cap,         \* the size of the sender's buffer
  Fields,      \* what may be written: records [signed, width, value]
  MaxFields,   \* bound on the fields of a frame
  MaxBatches   \* bound on the buffers shipped

(* What a byte counts behind n others: 1 << (8 * n). *)
Place(n) ==
  LET place[i \in 0..n] == IF i = 0 THEN 1 ELSE Base * place[i - 1]
  IN  place[n]

(* A field has a value of its type. *)
IsField(f) ==
  /\ f = [signed |-> f.signed, width |-> f.width, value |-> f.value]
  /\ f.signed \in BOOLEAN /\ f.width \in Nat /\ f.value \in Int
  /\ IF f.signed THEN -Place(f.width) <= 2 * f.value /\ 2 * f.value < Place(f.width)
                 ELSE 0 <= f.value /\ f.value < Place(f.width)

ASSUME StreamAssumption ==
  /\ Base \in Nat \ {0} /\ Cap \in Nat /\ MaxFields \in Nat /\ MaxBatches \in Nat
  /\ \A f \in Fields : IsField(f)

VARIABLES
  w,         \* the cb_bytes_writer_t
  mark,      \* where the open frame began, or NoFrame
  body,      \* history: the fields written to the open frame
  batch,     \* history: the frames ended in this buffer without an error
  batches,   \* buffers shipped so far
  stream,    \* the bytes shipped
  shipped,   \* history: the frames in the stream
  arrived,   \* how many bytes of the stream the receiver has
  r,         \* the receiver's cb_bytes_reader_t
  sub,       \* the reader of the frame being unpacked, or NoSub
  got,       \* the values unpacked from it so far
  received   \* the frames unpacked

sender == << w, mark, body, batch, batches, stream, shipped >>
receiver == << arrived, r, sub, got, received >>
streamVars == << w, mark, body, batch, batches, stream, shipped,
           arrived, r, sub, got, received >>

-----------------------------------------------------------------------------
(* Little-endian integers of n bytes; signed ones are in two's complement. *)
Encode(v, n) == [i \in 1..n |-> (v \div Place(i - 1)) % Base]

Decode(bytes) ==
  LET value[i \in 0..Len(bytes)] ==
        IF i = 0 THEN 0 ELSE value[i - 1] + bytes[i] * Place(i - 1)
  IN  value[Len(bytes)]

Signed(u, n) == IF 2 * u >= Place(n) THEN u - Place(n) ELSE u

(***************************************************************************)
(* The bytes a write of a field stores, and the value a read returns.      *)
(* write_bytes is a field of any width, 0 included, whose bytes are the    *)
(* digits of its value.                                                    *)
(***************************************************************************)
BytesOf(f) == Encode(f.value % Place(f.width), f.width)

ValueOf(f, bytes) ==
  IF f.signed THEN Signed(Decode(bytes), f.width) ELSE Decode(bytes)

(* The shared bounds check of writer and reader. *)
Check(info, n, cap, pos) ==
  IF info # "OK" THEN info
  ELSE IF n > cap \/ pos > cap - n THEN "OUT_OF_BOUNDS" ELSE "OK"

-----------------------------------------------------------------------------
(* The writer.                                                             *)

NewWriter == [info |-> "OK", data |-> [i \in 1..Cap |-> 0], pos |-> 0]

Overwrite(data, pos, bytes) ==
  [i \in DOMAIN data |->
     IF i \in (pos + 1)..(pos + Len(bytes)) THEN bytes[i - pos] ELSE data[i]]

Put(writer, bytes) ==
  LET info == Check(writer.info, Len(bytes), Cap, writer.pos)
  IN  IF info # "OK" THEN [writer EXCEPT !.info = info]
      ELSE [writer EXCEPT !.data = Overwrite(@, writer.pos, bytes),
                          !.pos = @ + Len(bytes)]

NoFrame == -1

Write(f) ==
  /\ mark # NoFrame
  /\ Len(body) < MaxFields
  /\ w' = Put(w, BytesOf(f))
  /\ body' = Append(body, f)
  /\ UNCHANGED << mark, batch, batches, stream, shipped >>
  /\ UNCHANGED receiver

BeginFrame ==
  /\ mark = NoFrame
  /\ batches < MaxBatches
  /\ w' = Put(w, Encode(0, 2))
  /\ mark' = IF w'.info = "OK" THEN w.pos ELSE 0
  /\ body' = << >>
  /\ UNCHANGED << batch, batches, stream, shipped >>
  /\ UNCHANGED receiver

Patched(writer, at) ==
  LET length == writer.pos - at - 2
  IN  IF writer.info # "OK" THEN writer
      ELSE IF length > Place(2) - 1 THEN [writer EXCEPT !.info = "FRAME_TOO_LARGE"]
      ELSE [writer EXCEPT !.data = Overwrite(@, at, Encode(length, 2))]

EndFrame ==
  /\ mark # NoFrame
  /\ w' = Patched(w, mark)
  /\ mark' = NoFrame
  /\ batch' = IF w'.info = "OK" THEN Append(batch, body) ELSE batch
  /\ UNCHANGED << body, batches, stream, shipped >>
  /\ UNCHANGED receiver

(* The sender looks at info: the buffer is shipped, or dropped.            *)
Finish ==
  /\ mark = NoFrame
  /\ batch # << >> \/ w.info # "OK"
  /\ IF w.info = "OK" THEN /\ stream' = stream \o SubSeq(w.data, 1, w.pos)
                           /\ shipped' = shipped \o batch
                           /\ batches' = batches + 1
                      ELSE UNCHANGED << stream, shipped, batches >>
  /\ w' = NewWriter
  /\ body' = << >>
  /\ batch' = << >>
  /\ UNCHANGED mark
  /\ UNCHANGED receiver

-----------------------------------------------------------------------------
(* The reader: a view of the bytes of the stream from .from on.            *)

NewReader(from, len) == [info |-> "OK", from |-> from, len |-> len, pos |-> 0]

Remaining(reader) == IF reader.info # "OK" THEN 0 ELSE reader.len - reader.pos

CheckRead(reader, n) == Check(reader.info, n, reader.len, reader.pos)

(* The next n bytes, and the reader behind them. *)
Ahead(reader, n) ==
  SubSeq(stream, reader.from + reader.pos + 1, reader.from + reader.pos + n)

Skip(reader, n) ==
  LET info == CheckRead(reader, n)
  IN  IF info # "OK" THEN [reader EXCEPT !.info = info]
      ELSE [reader EXCEPT !.pos = @ + n]

NoSub == NewReader(0, 0)

(* More of the stream arrives; a reader is made for what was not read yet. *)
Arrive(n) ==
  /\ sub = NoSub
  /\ arrived + n <= Len(stream)
  /\ arrived' = arrived + n
  /\ r' = NewReader(r.from + r.pos, arrived' - (r.from + r.pos))
  /\ UNCHANGED << sub, got, received >>
  /\ UNCHANGED sender

(* Mutant: the cursor stays behind the prefix. *)
ReadFrameForgets ==
  /\ sub = NoSub
  /\ Len(received) < Len(shipped)
  /\ LET prefixed == Skip(r, 2)
         length == Decode(Ahead(r, 2))
     IN  IF prefixed.info # "OK"
         THEN r' = prefixed /\ UNCHANGED << sub, got >>
         ELSE /\ r' = Skip(prefixed, length)
              /\ IF r'.info = "OK"
                 THEN /\ sub' = NewReader(prefixed.from + prefixed.pos, length)
                      /\ got' = << >>
                 ELSE UNCHANGED << sub, got >>
  /\ UNCHANGED << arrived, received >>
  /\ UNCHANGED sender

(* cb_bytes_read_frame_u16: all of the frame is there, or pos is restored. *)
ReadFrame ==
  /\ sub = NoSub
  /\ Len(received) < Len(shipped)
  /\ LET prefixed == Skip(r, 2)
         length == Decode(Ahead(r, 2))
         whole == Skip(prefixed, length)
     IN  IF prefixed.info # "OK" \/ whole.info # "OK"
         THEN /\ r' = [r EXCEPT !.info = "OUT_OF_BOUNDS"]
              /\ UNCHANGED << sub, got >>
         ELSE /\ r' = whole
              /\ sub' = NewReader(prefixed.from + prefixed.pos, length)
              /\ got' = << >>
  /\ UNCHANGED << arrived, received >>
  /\ UNCHANGED sender

(* The receiver knows the fields of the message that comes next.           *)
Expected == shipped[Len(received) + 1]

ReadField ==
  /\ sub # NoSub
  /\ Len(got) < Len(Expected)
  /\ sub.info = "OK"
  /\ LET f == Expected[Len(got) + 1]
         n == Len(BytesOf(f))
     IN  /\ sub' = Skip(sub, n)
         /\ IF CheckRead(sub, n) = "OK"
            THEN got' = Append(got, [f EXCEPT !.value = ValueOf(f, Ahead(sub, n))])
            ELSE UNCHANGED got
  /\ UNCHANGED << arrived, r, received >>
  /\ UNCHANGED sender

FrameUnpacked ==
  /\ sub # NoSub
  /\ Len(got) = Len(Expected) \/ sub.info # "OK"
  /\ received' = Append(received, got)
  /\ sub' = NoSub
  /\ got' = << >>
  /\ UNCHANGED << arrived, r >>
  /\ UNCHANGED sender

StreamNext ==
  \/ \E f \in Fields : Write(f)
  \/ BeginFrame
  \/ EndFrame
  \/ Finish
  \/ \E n \in 1..Len(stream) : Arrive(n)
  \/ ReadFrame
  \/ ReadField
  \/ FrameUnpacked

StreamInit ==
  /\ w = NewWriter
  /\ mark = NoFrame
  /\ body = << >>
  /\ batch = << >>
  /\ batches = 0
  /\ stream = << >>
  /\ shipped = << >>
  /\ arrived = 0
  /\ r = NewReader(0, 0)
  /\ sub = NoSub
  /\ got = << >>
  /\ received = << >>

StreamSpec == StreamInit /\ [][StreamNext]_streamVars

-----------------------------------------------------------------------------
Infos == {"OK", "OUT_OF_BOUNDS", "FRAME_TOO_LARGE"}

Readers == [info : Infos, from : Nat, len : Nat, pos : Nat]

(* Types of writer and readers; no cursor is beyond its end. *)
StreamTypeOK ==
  /\ w \in [info : Infos, data : [1..Cap -> 0..(Base - 1)], pos : 0..Cap]
  /\ mark \in 0..Cap \cup {NoFrame}
  /\ body \in Seq(Fields) /\ batch \in Seq(Seq(Fields))
  /\ batches \in 0..MaxBatches
  /\ stream \in Seq(0..(Base - 1)) /\ shipped \in Seq(Seq(Fields))
  /\ arrived \in 0..Len(stream)
  /\ r \in Readers /\ r.pos <= r.len
  /\ sub \in Readers /\ sub.pos <= sub.len

(* What a frame and a sequence of frames look like in a buffer. *)
BodyOf(fields) == FlattenSeq([i \in DOMAIN fields |-> BytesOf(fields[i])])

Framed(fields) == Encode(Len(BodyOf(fields)), 2) \o BodyOf(fields)

FramedAll(frames) == FlattenSeq([i \in DOMAIN frames |-> Framed(frames[i])])

(***************************************************************************)
(* The frames ended without an error are in the buffer as they should be,  *)
(* also after a later write or frame has failed and while a frame is open  *)
(* behind them; without an error nothing else is.                          *)
(***************************************************************************)
BufferHolds ==
  /\ IsPrefix(FramedAll(batch), w.data)
  /\ mark = NoFrame /\ w.info = "OK" => w.pos = Len(FramedAll(batch))

(***************************************************************************)
(* Every frame comes out as it was put in, field by field and sign by      *)
(* sign, whatever came before it: bodies up to the longest, writes that    *)
(* failed, reads that were tried before all had arrived.  A frame of which *)
(* all has arrived is never refused, and after one of which it has not the *)
(* receiver's cursor is back where that frame begins.                      *)
(* (cb_bytes_begin_frame_u16, cb_bytes_end_frame_u16,                      *)
(* cb_bytes_read_frame_u16 and the writes and reads.)                      *)
(***************************************************************************)
FramesIntact ==
  /\ BufferHolds
  /\ IsPrefix(received, shipped)
  /\ sub = NoSub => r.from + r.pos = Len(FramedAll(received))
  /\ sub # NoSub => IsPrefix(got, Expected)
  /\ sub = NoSub /\ r.info # "OK" =>
       r.len - r.pos < Len(Framed(Expected))
=============================================================================
