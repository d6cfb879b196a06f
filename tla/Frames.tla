-------------------------------- MODULE Frames ------------------------------
(***************************************************************************)
(* stream::Frames (crates/pons-protocols/src/stream.rs): a length-prefixed *)
(* stream cut into chunks anywhere.  push runs its loop one byte at a      *)
(* time; a frame whose length exceeds the limit fails the framer for good. *)
(* The sender may write any bytes and cut them anywhere.  A push on a      *)
(* failed framer only returns an error, and finish changes nothing.        *)
(***************************************************************************)
EXTENDS Naturals, Sequences, SequencesExt

CONSTANTS
  Base,        \* 256 in the code: the values of a byte
  Limit,       \* 1024 * 1024
  MaxReceived  \* bound on the bytes of a stream

ASSUME FramesAssumption ==
  Base \in Nat \ {0} /\ Limit \in Nat /\ MaxReceived \in Nat

VARIABLES
  pending,
  failed,
  pushing,    \* is a call of push under way?
  chunk,      \* what it has yet to look at
  frames,     \* what it has cut off
  received,   \* history: every byte looked at, up to a failure
  delivered   \* history: the frames that calls of push returned

framesVars == <<pending, failed, pushing, chunk, frames, received, delivered>>

Byte   == 0..(Base - 1)
Header == 2   \* 4 in the code: u32::from_be_bytes

FramesTypeOK ==
  /\ pending \in Seq(Byte) /\ Len(pending) < Header + Limit
  /\ failed \in BOOLEAN /\ pushing \in BOOLEAN
  /\ chunk \in Seq(Byte) /\ received \in Seq(Byte)
  /\ frames \in Seq(Seq(Byte)) /\ delivered \in Seq(Seq(Byte))

FramesInit ==
  /\ pending = <<>> /\ failed = FALSE /\ pushing = FALSE
  /\ chunk = <<>> /\ frames = <<>> /\ received = <<>> /\ delivered = <<>>

Decode(bytes) == bytes[1] * Base + bytes[2]

Push(bytes) ==
  /\ ~pushing /\ ~failed /\ Len(received) + Len(bytes) <= MaxReceived
  /\ pushing' = TRUE /\ chunk' = bytes
  /\ UNCHANGED <<pending, failed, frames, received, delivered>>

\* Mutant: the limit itself is too long.
OversizeAtLimit(bytes) == Len(bytes) >= Header /\ Decode(bytes) >= Limit

Oversize(bytes) == Len(bytes) >= Header /\ Decode(bytes) > Limit

\* Mutant: an empty frame waits for a byte.
WholeUnlessEmpty(bytes) == Len(bytes) > Header /\ Len(bytes) >= Decode(bytes) + Header

Whole(bytes) == Len(bytes) >= Header /\ Len(bytes) = Decode(bytes) + Header

NextByte ==
  LET bytes == Append(pending, Head(chunk)) IN
  /\ pushing /\ chunk # <<>> /\ ~failed
  /\ chunk' = Tail(chunk)
  /\ received' = Append(received, Head(chunk))
  /\ \/ Oversize(bytes) /\ failed' = TRUE /\ pending' = <<>> /\ UNCHANGED frames
     \/ /\ ~Oversize(bytes) /\ Whole(bytes)
        /\ frames' = Append(frames, SubSeq(bytes, Header + 1, Len(bytes)))
        /\ pending' = <<>> /\ UNCHANGED failed
     \/ /\ ~Oversize(bytes) /\ ~Whole(bytes)
        /\ pending' = bytes /\ UNCHANGED <<failed, frames>>
  /\ UNCHANGED <<pushing, delivered>>

\* bail!: what this call had cut off goes with it.
Bail == /\ pushing /\ failed
        /\ pushing' = FALSE /\ chunk' = <<>> /\ frames' = <<>>
        /\ UNCHANGED <<pending, failed, received, delivered>>

Return == /\ pushing /\ chunk = <<>> /\ ~failed
          /\ pushing' = FALSE /\ frames' = <<>>
          /\ delivered' = delivered \o frames
          /\ UNCHANGED <<pending, failed, chunk, received>>

\* Mutant: an unfinished frame is no error.
TruncatedNever == failed

\* finish: an error?
Truncated == failed \/ pending # <<>>

FramesNext == \/ \E n \in 0..MaxReceived : \E bytes \in [1..n -> Byte] : Push(bytes)
        \/ NextByte \/ Bail \/ Return

FramesSpec == FramesInit /\ [][FramesNext]_framesVars

-----------------------------------------------------------------------------
\* The complete frames at the head of a stream of bytes, and where they end,
\* read off the whole stream at once.
FramesIn(bytes) ==
  LET fits(p) == /\ p + Header <= Len(bytes)
                 /\ LET n == Decode(SubSeq(bytes, p + 1, p + Header))
                    IN n <= Limit /\ p + Header + n <= Len(bytes)
      after(p) == p + Header + Decode(SubSeq(bytes, p + 1, p + Header))
      cut[p \in 0..Len(bytes)] ==
        IF fits(p) THEN <<SubSeq(bytes, p + Header + 1, after(p))>> \o cut[after(p)] ELSE <<>>
  IN cut[0]

Encode(frame) == <<Len(frame) \div Base, Len(frame) % Base>> \o frame
Wire(fs)      == FlattenSeq([k \in DOMAIN fs |-> Encode(fs[k])])

(* every_fragmentation_and_coalescing_has_same_frames (stream.rs): however *)
(* the stream was cut, as long as it has not failed, the frames returned   *)
(* are those of the stream.                                                *)
SameFramesHoweverCut == ~pushing /\ ~failed => delivered = FramesIn(received)

(* malformed_and_truncated_never_pass (stream.rs): finish passes only when *)
(* the stream is the encoding of the frames delivered, to the last byte.   *)
OnlyWholeStreamsFinish == ~pushing /\ ~Truncated => received = Wire(delivered)

(* The framer fails on a header that announces more than the limit, right  *)
(* after whole frames, and on nothing else.                                *)
FailsOnlyOnOversize ==
  LET whole == Wire(FramesIn(received)) IN
  failed <=> /\ Len(received) >= Len(whole) + Header
             /\ Decode(SubSeq(received, Len(whole) + 1, Len(whole) + Header)) > Limit
=============================================================================
