------------------------------- MODULE Framing -------------------------------
(***************************************************************************)
(* Packets as bytes on a line, and the two threads that read them:         *)
(* initial_read_thread (src/src/threads/read.rs) from the serial port, and *)
(* do_read_thread (src/src/threads/usb_handler.rs) from an expansion hub's *)
(* USB port.  A packet is a frame: two start bytes, its length, a body,    *)
(* and the sum of all that.  A thread that is in step reads frames one by  *)
(* one; if a frame is wrong it seeks the next start bytes.                 *)
(*                                                                         *)
(* Bytes are numbers below Base.  A body stands for the six bytes of       *)
(* header after the length and for the payload; it is not decoded.  Every  *)
(* byte carries the frame it was sent in, for the properties only.         *)
(***************************************************************************)
EXTENDS Integers, Sequences, FiniteSets, SequencesExt, FiniteSetsExt

CONSTANTS
  Base,        \* 2^8: bytes, checksums and each half of a length are below it
  Start,       \* FRAME_BYTES
  HeadLen,     \* 10: bytes of a frame before its payload
  Buffer,      \* 1024: what the USB thread has room for
  Bodies,      \* what is sent
  MaxFrames,   \* bound on the frames sent
  MaxNoise     \* environment: bound on the bytes lost, added or altered on the line

Byte == 0 .. Base - 1

\* No frame is longer than the USB thread has room for: "much larger than any packet we should
\* receive" are 128 bytes (read.rs:42).
ASSUME FramingAssumption ==
  /\ Base \in Nat \ {0}
  /\ Start \in Byte \X Byte /\ Start[1] # Start[2]
  /\ HeadLen \in Nat /\ HeadLen >= 4
  /\ \A b \in Bodies : b \in Seq(Byte) /\ Len(b) >= HeadLen - 4 /\ Len(b) + 5 <= Buffer
  /\ Buffer \in Nat

VARIABLES
  port,     \* which of the threads it is
  at,       \* "seek": it looks for start bytes; "first": it has found the first of them;
            \* "locked": it has found both; "step": it is in step; "dead": it has panicked
  line,     \* bytes sent and not read
  sent,     \* frames sent so far
  out,      \* packets passed on: for each the frame that it is, or False if it is none
  noise,    \* frames that were disturbed
  plain,    \* start bytes have been sent as such only
  lengthOk  \* noise has not touched what is read as a length

vars == << port, at, line, sent, out, noise, plain, lengthOk >>

False == 0

Init ==
  /\ port \in {"serial", "usb"} /\ at = "seek"
  /\ line = << >> /\ sent = 0 /\ out = << >>
  /\ noise = 0 /\ plain = TRUE /\ lengthOk = TRUE

-----------------------------------------------------------------------------
(* The sender: Packet::new_full and into, or encode.                       *)

SumOf(bytes) == FoldLeft(LAMBDA x, y : (x + y) % Base, 0, bytes)

Encode(body) ==
  LET len   == Len(body) + 5
      front == Start \o << len % Base, len \div Base >> \o body
  IN Append(front, SumOf(front))

\* No byte of the frame but the first two is a start byte.
Plain(body) == \A i \in 3 .. Len(body) + 5 : Encode(body)[i] \notin ToSet(Start)

\* Each byte carries its frame, its place in it, and whether it is the last.
Tagged(f, n) ==
  [i \in DOMAIN f |-> [b |-> f[i], of |-> n, place |-> i, last |-> i = Len(f)]]
Strange(b) == [b |-> b, of |-> False, place |-> 0, last |-> FALSE]

\* What one disturbance, at byte k, makes of a frame.
Dropped(f, k) == RemoveAt(f, k)
Altered(f, k, b) == ReplaceAt(f, k, Strange(b))
Added(f, k, b) == InsertAt(f, k, Strange(b))

Put(body, f) ==
  /\ sent < MaxFrames
  /\ line' = line \o f
  /\ sent' = sent + 1
  /\ plain' = (plain /\ Plain(body))

Send(body) ==
  /\ Put(body, Tagged(Encode(body), sent + 1))
  /\ UNCHANGED << port, at, out, noise, lengthOk >>

\* Bytes 3 and 4 are the length.  Where a byte is lost or added before them the USB thread
\* takes others for it, and so does the serial thread if it is the second start byte twice.
TouchesLength(kind, k, b) ==
  \/ k \in {3, 4}
  \/ port = "usb" /\ kind # "alter" /\ k < 3
  \/ kind = "add" /\ k = 2 /\ b = Start[2]

\* Noise on the line, while a frame is sent.
SendNoisy(body) ==
  /\ noise < MaxNoise
  /\ \E k \in 1 .. Len(body) + 5, b \in Byte, kind \in {"drop", "alter", "add"} :
       LET f == Tagged(Encode(body), sent + 1) IN
         /\ kind = "alter" => b # f[k].b
         /\ Put(body, CASE kind = "drop"  -> Dropped(f, k)
                        [] kind = "alter" -> Altered(f, k, b)
                        [] kind = "add"   -> Added(f, k, b))
         /\ lengthOk' = (lengthOk /\ ~ TouchesLength(kind, k, b))
  /\ noise' = noise + 1
  /\ UNCHANGED << port, at, out >>

-----------------------------------------------------------------------------
(* The reader.                                                             *)

Bytes(n) == [i \in 1 .. n |-> line[i].b]

\* read_exact: waits until the line has so many.
Read(n) == Len(line) >= n /\ line' = SubSeq(line, n + 1, Len(line))

\* attempt_lock, and the loop that do_read_thread begins with: one byte, and the second
\* only if the first is right; if that is wrong both are gone.
Seek ==
  /\ at = "seek" /\ Read(1)
  /\ at' = IF line[1].b = Start[1] THEN "first" ELSE "seek"
  /\ UNCHANGED << port, sent, out, noise, plain, lengthOk >>

Second ==
  /\ at = "first" /\ Read(1)
  /\ at' = IF line[1].b = Start[2] THEN "locked" ELSE "seek"
  /\ UNCHANGED << port, sent, out, noise, plain, lengthOk >>

\* Mutant: the start bytes are read again after they have been found.
HeadSizeFull == 4

\* A thread in step reads the start bytes with the length.
HeadSize == IF at = "locked" THEN 2 ELSE 4

Header == IF at = "locked" THEN Start \o Bytes(2) ELSE Bytes(4)

LengthOf(head) == head[3] + Base * head[4]

\* Mutant: nobody looks at the start bytes of the next frame.
IsStartAssumed(head) == TRUE

IsStart(head) == SubSeq(head, 1, 2) = Start

\* The serial thread looks at the start bytes before it reads on; the USB thread does not.
FalseStart ==
  /\ at \in {"locked", "step"} /\ port = "serial"
  /\ Read(HeadSize) /\ ~ IsStart(Header)
  /\ at' = "seek"
  /\ UNCHANGED << port, sent, out, noise, plain, lengthOk >>

\* Lengths for which a slice has its end before its start, or an index is out of bounds: at
\* once, or when the header or the payload of the packet is taken.
NoSlice(len) == len < 4 \/ (port = "usb" /\ len > Buffer)
NoHeader(len) == port = "usb" /\ len < HeadLen
NoPayload(len) == len < HeadLen + 1

Broken ==
  /\ at \in {"locked", "step"}
  /\ Read(HeadSize) /\ (port = "serial" => IsStart(Header))
  /\ NoSlice(LengthOf(Header))
  /\ at' = "dead"
  /\ UNCHANGED << port, sent, out, noise, plain, lengthOk >>

\* The bytes that are passed on as a packet are a frame as it was sent, or not.
Which(bytes) ==
  LET end == bytes[Len(bytes)] IN
    IF end.last /\ \A k \in DOMAIN bytes :
                     bytes[k].of = end.of /\ bytes[k].place = end.place - (Len(bytes) - k)
      THEN end.of ELSE False

\* The rest of the packet, and Packet::from_data.
Frame ==
  /\ at \in {"locked", "step"}
  /\ Len(line) >= HeadSize /\ (port = "serial" => IsStart(Header))
  /\ LET len  == LengthOf(Header)
         rest == len - 4 + HeadSize
         all  == Header \o SubSeq(Bytes(rest), HeadSize + 1, rest)
         good == IsStart(Header) /\ SumOf(Front(all)) = Last(all)
     IN /\ ~ NoSlice(len)
        /\ Read(rest)
        /\ \/ /\ (NoHeader(len) /\ IsStart(Header)) \/ (good /\ NoPayload(len))
              /\ at' = "dead" /\ UNCHANGED out
           \/ /\ good /\ ~ NoPayload(len)
              /\ at' = "step" /\ out' = Append(out, Which(SubSeq(line, 1, rest)))
           \/ /\ ~ good /\ ~ (NoHeader(len) /\ IsStart(Header))
              /\ at' = "seek" /\ UNCHANGED out
  /\ UNCHANGED << port, sent, noise, plain, lengthOk >>

Next ==
  \/ \E body \in Bodies : Send(body) \/ SendNoisy(body)
  \/ Seek \/ Second \/ FalseStart \/ Broken \/ Frame

Spec == Init /\ [][Next]_vars

-----------------------------------------------------------------------------
(* Properties.                                                             *)

Falses == Cardinality({i \in DOMAIN out : out[i] = False})

\* Frames of which nothing is left on the line and that were not passed on.
Lost == {i \in 1 .. sent : \A k \in DOMAIN line : line[k].of # i} \ ToSet(out)

\* As long as the line is not disturbed, every frame sent is passed on once and in order,
\* and none that was not, though bodies and sums hold start bytes and the thread is locked
\* in the one way or the other (read.rs:58-71, usb_handler.rs:109-112).
InStep ==
  noise = 0 => /\ at # "dead" /\ Lost = {}
               /\ \A i \in DOMAIN out : out[i] = i

\* One disturbance costs at most two frames, makes at most one false packet and stops no
\* thread, wherever in a frame it is and whatever it does, if it changes no length and no
\* body or sum has start bytes (read.rs:109-125, usb_handler.rs:87-108).  The USB thread
\* looks at start bytes too late to get over a false packet (usb_handler.rs:111).
Recovers ==
  noise <= 1 /\ plain /\ lengthOk /\ (port = "usb" => Falses = 0) =>
    at # "dead" /\ Cardinality(Lost) <= 2 * noise /\ Falses <= noise

=============================================================================
