--------------------------- MODULE ProtocolProofs ---------------------------
(***************************************************************************)
(* Theorems about Prepared, for any names, tables and allow-list, about    *)
(* Frames, for any base, any limit and any stream, and about               *)
(* ProtocolTrace, for any contracts, instances and bounds.                 *)
(*                                                                         *)
(* What makes the properties of Prepared inductive is that a bound name's  *)
(* summary is the one its bind accepted.                                   *)
(*                                                                         *)
(* The types of Frames are inductive with one more fact, Unfinished:       *)
(* between two bytes the buffer holds less than a header, or a header      *)
(* within the limit and less than the frame it announces.  So a whole      *)
(* frame is seen at its very last byte, an oversized one before any byte   *)
(* of it is stored, and the buffer never outgrows a header and the limit.  *)
(*                                                                         *)
(* That the frames are those of the stream needs an invariant that relates *)
(* the frames so far to every byte received: they are its head, frame by   *)
(* frame, up to where the buffer begins (StreamInv).  Two readings of the  *)
(* whole stream follow by induction: FramesIn, from the end of the stream  *)
(* down, and Wire, frame by frame up.                                      *)
(*                                                                         *)
(* To any one instance of a trace the checker of the interleaved trace is  *)
(* the checker of that instance's own events.  Typestate takes an instance *)
(* without an event to be in the initial state since line 0.  The steps of *)
(* the trace map to its steps because a line in an entry is never 0, and   *)
(* because an instance that can exit has an entry, so that the trace's     *)
(* last line is one of an event.  The verdict itself is compared with the  *)
(* log of the trace by an invariant that follows the instance's own events *)
(* in it (TraceInv).                                                       *)
(***************************************************************************)
EXTENDS Prepared, Frames, ProtocolTrace, SequenceTheorems, TLAPS, Induction

BoundAsAccepted == \A i \in bound : accepted[i] = statements[i]

BindingsInv == TypeOK /\ BoundAsAccepted

\* With nothing prepared and nothing bound, the inductive invariant holds.
THEOREM PreparedInit == Init => BindingsInv
<1>1. Init => DOMAIN statements = {} /\ Range(statements) = {}
  BY DEF Init, Range
<1>2. Init => DOMAIN accepted = {} /\ Range(accepted) = {}
  BY DEF Init, Range
<1> QED
  BY <1>1, <1>2 DEF Init, BindingsInv, TypeOK, BoundAsAccepted

(* Preparing a name again unbinds it, so no bound name changes summary.    *)
LEMMA PrepareInv ==
  ASSUME NEW i \in Id, NEW summary \in Summary, BindingsInv, Prepare(i, summary)
  PROVE  BindingsInv'
<1>1. /\ DOMAIN statements' = DOMAIN statements \cup {i}
      /\ statements'[i] = summary
      /\ \A j \in DOMAIN statements \ {i} : statements'[j] = statements[j]
      /\ Range(statements') \subseteq Range(statements) \cup {summary}
  <2>1. statements' = Put(statements, i, summary)
    BY DEF Prepare
  <2>2. DOMAIN statements' = DOMAIN statements \cup {i}
    BY <2>1 DEF Put
  <2>3. \A j \in DOMAIN statements' : statements'[j] = IF j = i THEN summary ELSE statements[j]
    BY <2>1 DEF Put
  <2> QED
    BY <2>2, <2>3 DEF Range
<1>2. bound' = bound \ {i} /\ accepted' = accepted
  BY DEF Prepare
<1>3. TypeOK'
  BY <1>1, <1>2 DEF BindingsInv, TypeOK
<1>4. BoundAsAccepted'
  BY <1>1, <1>2 DEF BindingsInv, TypeOK, BoundAsAccepted
<1> QED
  BY <1>3, <1>4 DEF BindingsInv

(* Binding accepts the summary there is.                                   *)
LEMMA BindInv ==
  ASSUME NEW i \in Id, BindingsInv, Bind(i)
  PROVE  BindingsInv'
<1>1. CASE i \notin DOMAIN statements
  BY <1>1 DEF Bind, vars, BindingsInv, TypeOK, BoundAsAccepted
<1>2. CASE i \in DOMAIN statements
  <2>1. /\ DOMAIN accepted' = DOMAIN accepted \cup {i}
        /\ accepted'[i] = statements[i]
        /\ \A j \in DOMAIN accepted \ {i} : accepted'[j] = accepted[j]
        /\ Range(accepted') \subseteq Range(accepted) \cup {statements[i]}
    <3>1. accepted' = Put(accepted, i, statements[i])
      BY <1>2 DEF Bind
    <3>2. DOMAIN accepted' = DOMAIN accepted \cup {i}
      BY <3>1 DEF Put
    <3>3. \A j \in DOMAIN accepted' : accepted'[j] = IF j = i THEN statements[i] ELSE accepted[j]
      BY <3>1 DEF Put
    <3> QED
      BY <3>2, <3>3 DEF Range
  <2>2. statements[i] \in Summary
    BY <1>2 DEF BindingsInv, TypeOK, Range
  <2>3. bound' = bound \cup {i} /\ statements' = statements
    BY <1>2 DEF Bind
  <2>4. TypeOK'
    BY <1>2, <2>1, <2>2, <2>3 DEF BindingsInv, TypeOK
  <2>5. BoundAsAccepted'
    BY <2>1, <2>3 DEF BindingsInv, TypeOK, BoundAsAccepted
  <2> QED
    BY <2>4, <2>5 DEF BindingsInv
<1> QED
  BY <1>1, <1>2

\* No prepare and no bind, accepted or refused, leaves the inductive invariant.
THEOREM PreparedStep == BindingsInv /\ [Next]_vars => BindingsInv'
<1> SUFFICES ASSUME BindingsInv, [Next]_vars PROVE BindingsInv'
  OBVIOUS
<1>1. ASSUME NEW i \in Id, Bind(i) PROVE BindingsInv'
  BY <1>1, BindInv
<1>2. ASSUME NEW i \in Id, NEW summary \in Summary, Prepare(i, summary) PROVE BindingsInv'
  BY <1>2, PrepareInv
<1>3. CASE UNCHANGED vars
  BY <1>3 DEF vars, BindingsInv, TypeOK, BoundAsAccepted
<1> QED
  BY <1>1, <1>2, <1>3 DEF Next

(* The maps hold summaries, and only prepared names are bound.             *)
THEOREM PreparedTypeCorrect == Spec => []TypeOK
<1>1. BindingsInv => TypeOK
  BY DEF BindingsInv
<1> QED
  BY PreparedInit, PreparedStep, <1>1, PTL DEF Spec

(* Allowed summaries have statements and write inside the list; denied     *)
(* ones write outside it.                                                  *)
LEMMA DecideIsSound ==
  ASSUME NEW summary \in Summary
  PROVE  /\ Decide(summary, TRUE) = "allow" => summary # <<>> /\ MayWrite(summary) \subseteq Allow
         /\ Decide(summary, TRUE) = "deny"  => MustWrite(summary) \ Allow # {}
<1>1. \A s \in Range(summary) : s \in Statement
  BY DEF Summary, Range
<1>2. \A t \in Table : Write(t).kind = "write" /\ Write(t).table = t
  BY DEF Write
<1>3. Read.kind = "read" /\ Unknown.kind = "unknown"
  BY DEF Read, Unknown
<1>4. ASSUME Decide(summary, TRUE) = "allow"
      PROVE  summary # <<>> /\ MayWrite(summary) \subseteq Allow
  BY <1>2, <1>4 DEF Decide, MayWrite, Forbidden
<1>5. ASSUME Decide(summary, TRUE) = "deny"
      PROVE  MustWrite(summary) \ Allow # {}
  <2>1. PICK s \in Range(summary) : Forbidden(s)
    BY <1>5 DEF Decide
  <2>2. PICK t \in Table : s = Write(t)
    BY <2>1, <1>1, <1>3 DEF Forbidden, Statement
  <2> QED
    BY <2>1, <2>2, <1>2 DEF MustWrite, Forbidden
<1> QED
  BY <1>4, <1>5

(* A decision is about the summary that was bound, and is sound for it     *)
(* (docs/PROTOCOL-MODELS.adoc:23-24).                                      *)
THEOREM DecisionCorrect == Spec => []DecisionIsOfTheBound
<1>1. BindingsInv => DecisionIsOfTheBound
  <2> SUFFICES ASSUME BindingsInv, NEW i \in Id
               PROVE  /\ Execute(i) = "allow" => accepted[i] # <<>> /\ MayWrite(accepted[i]) \subseteq Allow
                      /\ Execute(i) = "deny"  => MustWrite(accepted[i]) \ Allow # {}
    BY DEF DecisionIsOfTheBound
  <2>1. CASE i \notin bound
    BY <2>1 DEF Execute
  <2>2. CASE i \in bound
    <3>1. statements[i] \in Summary /\ accepted[i] = statements[i]
      BY <2>2 DEF BindingsInv, TypeOK, BoundAsAccepted, Range
    <3>2. Execute(i) = Decide(statements[i], TRUE)
      BY <2>2 DEF Execute
    <3> QED
      BY <3>1, <3>2, DecideIsSound
  <2> QED
    BY <2>1, <2>2
<1> QED
  BY PreparedInit, PreparedStep, <1>1, PTL DEF Spec

-----------------------------------------------------------------------------
(* Frames.                                                                 *)
Unfinished ==
  Len(pending) >= Header =>
    Decode(pending) <= Limit /\ Len(pending) < Header + Decode(pending)

FramesInv == FramesTypeOK /\ Unfinished

-----------------------------------------------------------------------------
\* Sequences of anything, frames too.
LEMMA EmptyIn == ASSUME NEW S PROVE <<>> \in Seq(S)
OBVIOUS

LEMMA AppendIn == ASSUME NEW S, NEW s \in Seq(S), NEW e \in S PROVE Append(s, e) \in Seq(S)
OBVIOUS

LEMMA ConcatIn == ASSUME NEW S, NEW s \in Seq(S), NEW t \in Seq(S) PROVE s \o t \in Seq(S)
OBVIOUS

LEMMA DecodeIsNat ==
  ASSUME NEW bytes \in Seq(Byte), Len(bytes) >= Header
  PROVE  Decode(bytes) \in Nat
<1>1. bytes[1] \in Nat /\ bytes[2] \in Nat
  BY FramesAssumption DEF Byte, Header
<1>2. \A m, n, k \in Nat : m * n + k \in Nat
  OBVIOUS
<1> QED
  BY <1>1, <1>2, FramesAssumption DEF Decode

\* What a header announces does not change as bytes come in behind it.
LEMMA DecodeOfLonger ==
  ASSUME NEW bytes \in Seq(Byte), Len(bytes) >= Header, NEW byte \in Byte
  PROVE  Decode(Append(bytes, byte)) = Decode(bytes)
BY DEF Decode, Header

LEMMA FramesInitInv == FramesInit => FramesInv
<1> SUFFICES ASSUME FramesInit PROVE FramesInv
  OBVIOUS
<1>1. pending = <<>> /\ failed = FALSE /\ pushing = FALSE
  BY Zenon DEF FramesInit
<1>2. /\ chunk \in Seq(Byte) /\ received \in Seq(Byte)
      /\ frames \in Seq(Seq(Byte)) /\ delivered \in Seq(Seq(Byte))
  BY EmptyIn, Zenon DEF FramesInit
<1>3. pending \in Seq(Byte) /\ Len(pending) < Header + Limit /\ ~ Len(pending) >= Header
  BY <1>1, FramesAssumption DEF Header
<1>4. failed \in BOOLEAN /\ pushing \in BOOLEAN
  BY <1>1
<1> QED
  BY <1>2, <1>3, <1>4, Zenon DEF FramesInv, FramesTypeOK, Unfinished

LEMMA PushInv ==
  ASSUME FramesInv, NEW n \in 0..MaxReceived, NEW bytes \in [1..n -> Byte], Push(bytes)
  PROVE  FramesInv'
<1>1. bytes \in Seq(Byte)
  BY FramesAssumption
<1> QED
  BY <1>1 DEF Push, FramesInv, FramesTypeOK, Unfinished, Decode

LEMMA NextByteInv ==
  ASSUME FramesInv, NextByte
  PROVE  FramesInv'
<1> DEFINE byte == Head(chunk)
           bytes == Append(pending, byte)
<1>1. byte \in Byte /\ Tail(chunk) \in Seq(Byte) /\ pending \in Seq(Byte)
  BY DEF NextByte, FramesInv, FramesTypeOK
<1>2. bytes \in Seq(Byte) /\ Len(bytes) = Len(pending) + 1
  BY <1>1
<1>3. chunk' \in Seq(Byte) /\ received' \in Seq(Byte)
  BY <1>1 DEF NextByte, FramesInv, FramesTypeOK
<1>4. UNCHANGED <<pushing, delivered>>
  BY DEF NextByte
<1>5. CASE pending' = <<>> /\ frames' \in Seq(Seq(Byte)) /\ failed' \in BOOLEAN
  BY <1>3, <1>4, <1>5, FramesAssumption DEF FramesInv, FramesTypeOK, Unfinished, Header
<1>6. CASE Oversize(bytes) /\ failed' = TRUE /\ pending' = <<>> /\ UNCHANGED frames
  BY <1>5, <1>6 DEF FramesInv, FramesTypeOK
<1>7. CASE /\ ~ Oversize(bytes) /\ Whole(bytes)
           /\ frames' = Append(frames, SubSeq(bytes, Header + 1, Len(bytes)))
           /\ pending' = <<>> /\ UNCHANGED failed
  <2>1. SubSeq(bytes, Header + 1, Len(bytes)) \in Seq(Byte)
    BY <1>2, SubSeqProperties DEF Header
  <2>2. frames \in Seq(Seq(Byte))
    BY DEF FramesInv, FramesTypeOK
  <2>3. frames' \in Seq(Seq(Byte))
    BY <1>7, <2>1, <2>2, AppendIn, Zenon
  <2> QED
    BY <1>5, <1>7, <2>3 DEF FramesInv, FramesTypeOK
<1>8. CASE ~ Oversize(bytes) /\ ~ Whole(bytes) /\ pending' = bytes /\ UNCHANGED <<failed, frames>>
  <2>1. CASE Len(bytes) < Header
    <3>1. Len(bytes) < Header + Limit
      BY <1>2, <2>1, FramesAssumption DEF Header
    <3> QED
      BY <1>2, <1>3, <1>4, <1>8, <2>1, <3>1 DEF FramesInv, FramesTypeOK, Unfinished, Header
  <2>2. CASE Len(bytes) >= Header
    <3>1. Decode(bytes) \in Nat
      BY <1>2, <2>2, DecodeIsNat
    <3>2. Decode(bytes) <= Limit
      BY <1>8, <2>2, <3>1, FramesAssumption DEF Oversize
    <3>3. Len(bytes) # Header + Decode(bytes)
      BY <1>8, <2>2, <3>1 DEF Whole, Header
    <3>4. CASE Len(pending) >= Header
      <4>1. Decode(bytes) = Decode(pending)
        BY <1>1, <3>4, DecodeOfLonger
      <4>2. Len(pending) < Header + Decode(pending)
        BY <3>4 DEF FramesInv, Unfinished
      <4>3. Len(bytes) < Header + Decode(bytes)
        BY <1>1, <1>2, <3>1, <3>3, <4>1, <4>2 DEF Header
      <4> QED
        BY <1>2, <1>3, <1>4, <1>8, <3>1, <3>2, <4>3, FramesAssumption
           DEF FramesInv, FramesTypeOK, Unfinished, Header, Decode
    <3>5. CASE Len(pending) < Header
      <4>1. Len(bytes) < Header + Decode(bytes)
        BY <1>1, <1>2, <3>1, <3>3, <3>5, <2>2 DEF Header
      <4> QED
        BY <1>2, <1>3, <1>4, <1>8, <3>1, <3>2, <4>1, FramesAssumption
           DEF FramesInv, FramesTypeOK, Unfinished, Header, Decode
    <3> QED
      BY <1>1, <3>4, <3>5 DEF Header
  <2> QED
    BY <1>2, <2>1, <2>2 DEF Header
<1> QED
  BY <1>6, <1>7, <1>8 DEF NextByte

LEMMA FramesStep == FramesInv /\ [FramesNext]_framesVars => FramesInv'
<1> SUFFICES ASSUME FramesInv, [FramesNext]_framesVars
             PROVE  FramesInv'
  OBVIOUS
<1>1. ASSUME NEW n \in 0..MaxReceived, NEW bytes \in [1..n -> Byte], Push(bytes)
      PROVE  FramesInv'
  BY <1>1, PushInv
<1>2. CASE NextByte
  BY <1>2, NextByteInv
<1>3. ASSUME UNCHANGED <<pending, failed, received>>, pushing' = FALSE, chunk' \in Seq(Byte),
             frames' \in Seq(Seq(Byte)), delivered' \in Seq(Seq(Byte))
      PROVE  FramesInv'
  BY <1>3 DEF FramesInv, FramesTypeOK, Unfinished, Decode
<1>4. CASE Bail
  <2>1. chunk' \in Seq(Byte) /\ frames' \in Seq(Seq(Byte))
    BY <1>4, EmptyIn, Zenon DEF Bail
  <2>2. delivered' \in Seq(Seq(Byte))
    BY <1>4, Zenon DEF Bail, FramesInv, FramesTypeOK
  <2> QED
    BY <1>3, <1>4, <2>1, <2>2, Zenon DEF Bail
<1>5. CASE Return
  <2>1. chunk' \in Seq(Byte) /\ frames' \in Seq(Seq(Byte))
    BY <1>5, EmptyIn, Zenon DEF Return
  <2>2. delivered' \in Seq(Seq(Byte))
    BY <1>5, ConcatIn, Zenon DEF Return, FramesInv, FramesTypeOK
  <2> QED
    BY <1>3, <1>5, <2>1, <2>2, Zenon DEF Return
<1>6. CASE UNCHANGED framesVars
  BY <1>6 DEF framesVars, FramesInv, FramesTypeOK, Unfinished, Decode
<1> QED
  BY <1>1, <1>2, <1>4, <1>5, <1>6 DEF FramesNext

\* The inductive invariant (stream.rs, Frames::push).
THEOREM FramesInvCorrect == FramesSpec => []FramesInv
<1>1. FramesInit => FramesInv
  BY FramesInitInv
<1>2. FramesInv /\ [FramesNext]_framesVars => FramesInv'
  BY FramesStep
<1> QED
  BY <1>1, <1>2, PTL DEF FramesSpec

\* Type correctness, the bound on the buffer included.
THEOREM FramesTypeCorrect == FramesSpec => []FramesTypeOK
<1>1. FramesInv => FramesTypeOK
  BY DEF FramesInv
<1> QED
  BY <1>1, FramesInvCorrect, PTL

\* Between two bytes the buffer is a part of one frame within the limit.
THEOREM UnfinishedCorrect == FramesSpec => []Unfinished
<1>1. FramesInv => Unfinished
  BY DEF FramesInv
<1> QED
  BY <1>1, FramesInvCorrect, PTL

-----------------------------------------------------------------------------
(* What the frames of a stream are.  FramesIn and FlattenSeq are recursive *)
(* functions: that they have the values their equations give is proved by  *)
(* induction, over the positions of a stream and over the frames.          *)

\* The part of a sequence behind position a, up to b.
Piece(s, a, b) == [j \in 1..(b - a) |-> s[a + j]]

LEMMA SubSeqIsPiece ==
  ASSUME NEW S, NEW s \in Seq(S), NEW a \in 0..Len(s), NEW b \in a..Len(s)
  PROVE  SubSeq(s, a + 1, b) = Piece(s, a, b)
<1>1. a + 1 \in 1..(Len(s) + 1) /\ b \in ((a + 1) - 1)..Len(s) /\ b - (a + 1) + 1 = b - a
  OBVIOUS
<1>2. /\ SubSeq(s, a + 1, b) \in Seq(S)
      /\ Len(SubSeq(s, a + 1, b)) = b - a
      /\ \A j \in 1..(b - a) : SubSeq(s, a + 1, b)[j] = s[a + j]
  <2>1. PICK m \in 1..(Len(s) + 1) : m = a + 1 /\ b \in (m - 1)..Len(s) /\ b - m + 1 = b - a
    BY <1>1
  <2>2. /\ SubSeq(s, m, b) \in Seq(S) /\ Len(SubSeq(s, m, b)) = b - m + 1
        /\ \A j \in 1..(b - m + 1) : SubSeq(s, m, b)[j] = s[m + j - 1]
    BY ONLY <2>1, s \in Seq(S), SubSeqProperties
  <2>3. \A j \in 1..(b - a) : m + j - 1 = a + j
    BY <2>1
  <2> QED
    BY <2>1, <2>2, <2>3
<1> DEFINE part == SubSeq(s, a + 1, b)
           n == b - a
<1> HIDE DEF part, n
<1>3. part \in Seq(S) /\ Len(part) = n /\ \A j \in 1..n : part[j] = s[a + j]
  BY <1>2 DEF part, n
<1>4. part = [j \in 1..n |-> part[j]]
  BY <1>3
<1>5. part = [j \in 1..n |-> s[a + j]]
  BY <1>3, <1>4
<1> QED
  BY <1>5 DEF part, n, Piece

HeaderAt(s, p) == s[p + 1] * Base + s[p + 2]
Fits(s, p) == p + Header <= Len(s) /\ HeaderAt(s, p) <= Limit /\ p + Header + HeaderAt(s, p) <= Len(s)
FrameEnd(s, p) == p + Header + HeaderAt(s, p)

CutEquation(s, cut) ==
  cut = [p \in 0..Len(s) |->
          IF /\ p + Header <= Len(s)
             /\ LET n == Decode(SubSeq(s, p + 1, p + Header)) IN n <= Limit /\ p + Header + n <= Len(s)
          THEN <<SubSeq(s, p + Header + 1, p + Header + Decode(SubSeq(s, p + 1, p + Header)))>>
                 \o cut[p + Header + Decode(SubSeq(s, p + 1, p + Header))]
          ELSE <<>>]

LEMMA FramesInIs == \A s : FramesIn(s) = (CHOOSE cut : CutEquation(s, cut))[0]
BY Zenon DEF FramesIn, CutEquation

FlatEquation(seqs, flat) ==
  flat = [i \in 1..Len(seqs) |-> IF i = 1 THEN seqs[i] ELSE flat[i-1] \o seqs[i]]

LEMMA FlattenIs == \A s : FlattenSeq(s) = IF Len(s) = 0 THEN s ELSE (CHOOSE flat : FlatEquation(s, flat))[Len(s)]
BY Zenon DEF FlattenSeq, FlatEquation

LEMMA HeaderDecodes ==
  ASSUME NEW s \in Seq(Byte), NEW p \in 0..Len(s), p + Header <= Len(s)
  PROVE  Decode(SubSeq(s, p + 1, p + Header)) = HeaderAt(s, p) /\ HeaderAt(s, p) \in Nat
<1>1. SubSeq(s, p + 1, p + Header) = Piece(s, p, p + Header)
  <2>1. p + Header \in p..Len(s)
    BY DEF Header
  <2> QED
    BY <2>1, SubSeqIsPiece
<1>2. Piece(s, p, p + Header)[1] = s[p + 1] /\ Piece(s, p, p + Header)[2] = s[p + 2]
  BY DEF Piece, Header
<1>3. s[p + 1] \in Nat /\ s[p + 2] \in Nat
  BY FramesAssumption DEF Byte, Header
<1>4. \A m, n, k \in Nat : m * n + k \in Nat
  OBVIOUS
<1> QED
  BY <1>1, <1>2, <1>3, <1>4, FramesAssumption DEF Decode, HeaderAt

LEMMA PiecesJoin ==
  ASSUME NEW S, NEW s \in Seq(S), NEW a \in 0..Len(s), NEW b \in a..Len(s), NEW c \in b..Len(s)
  PROVE  Piece(s, a, b) \o Piece(s, b, c) = Piece(s, a, c)
<1> DEFINE l == Piece(s, a, b)
           r == Piece(s, b, c)
<1>1. /\ l \in Seq(S) /\ Len(l) = b - a /\ \A j \in 1..(b - a) : l[j] = s[a + j]
      /\ r \in Seq(S) /\ Len(r) = c - b /\ \A j \in 1..(c - b) : r[j] = s[b + j]
  BY DEF Piece
<1> HIDE DEF l, r
<1>2. l \o r = [j \in 1..(c - a) |-> IF j <= b - a THEN l[j] ELSE r[j - (b - a)]]
  <2>1. Len(l) + Len(r) = c - a
    BY <1>1
  <2>2. /\ l \o r \in Seq(S) /\ Len(l \o r) = c - a
        /\ \A j \in 1..(c - a) : (l \o r)[j] = IF j <= b - a THEN l[j] ELSE r[j - (b - a)]
    <3>1. /\ l \o r \in Seq(S) /\ Len(l \o r) = Len(l) + Len(r)
          /\ \A j \in 1..(Len(l) + Len(r)) : (l \o r)[j] = IF j <= Len(l) THEN l[j] ELSE r[j - Len(l)]
      BY <1>1, ConcatProperties
    <3> QED
      BY <1>1, <2>1, <3>1, Zenon
  <2>3. l \o r = [j \in 1..(c - a) |-> (l \o r)[j]]
    <3> DEFINE lr == l \o r
    <3>1. lr \in Seq(S) /\ Len(lr) = c - a
      BY <2>2
    <3> HIDE DEF lr
    <3>2. lr = [j \in 1..(c - a) |-> lr[j]]
      BY <3>1
    <3> QED
      BY <3>2 DEF lr
  <2> QED
    BY <2>2, <2>3
<1>3. \A j \in 1..(c - a) : (IF j <= b - a THEN l[j] ELSE r[j - (b - a)]) = s[a + j]
  BY <1>1
<1> QED
  BY <1>2, <1>3 DEF Piece, l, r

LEMMA PieceOfOne ==
  ASSUME NEW S, NEW s \in Seq(S), NEW k \in 1..Len(s)
  PROVE  Piece(s, k - 1, k) = <<s[k]>>
BY DEF Piece

LEMMA PieceOfAll ==
  ASSUME NEW S, NEW s \in Seq(S)
  PROVE  Piece(s, 0, Len(s)) = s
BY DEF Piece

Behind(s, p, cut) ==
  IF Fits(s, p) THEN <<Piece(s, p + Header, FrameEnd(s, p))>> \o cut[FrameEnd(s, p)] ELSE <<>>

Cutting(s, cut) == cut = [p \in 0..Len(s) |-> Behind(s, p, cut)]

LEMMA EndBehind ==
  ASSUME NEW s \in Seq(Byte), NEW p \in 0..Len(s), Fits(s, p)
  PROVE  /\ p + Header \in 0..Len(s) /\ HeaderAt(s, p) \in Nat
         /\ FrameEnd(s, p) \in (p + Header)..Len(s) /\ FrameEnd(s, p) > p
<1>1. p + Header <= Len(s) /\ p + Header + HeaderAt(s, p) <= Len(s)
  BY DEF Fits
<1>2. HeaderAt(s, p) \in Nat
  BY <1>1, HeaderDecodes
<1> QED
  BY <1>1, <1>2 DEF FrameEnd, Header

LEMMA CuttingSolvable ==
  ASSUME NEW s \in Seq(Byte)
  PROVE  \E cut : Cutting(s, cut)
<1> DEFINE L == Len(s)
           From(m, cut) == cut = [p \in (L + 1 - m)..L |-> Behind(s, p, cut)]
           T == {m \in 0..(L + 1) : \E cut : From(m, cut)}
<1>0. L \in Nat
  OBVIOUS
<1>1. 0 \in T
  <2> DEFINE cut == [p \in (L + 1)..L |-> <<>>]
  <2>1. From(0, cut)
    BY <1>0
  <2> HIDE DEF cut, From
  <2> QED
    BY <1>0, <2>1
<1>2. ASSUME NEW m \in 0..L, m \in T
      PROVE  m + 1 \in T
  <2>1. PICK cut : From(m, cut)
    BY <1>2
  <2> DEFINE low == L - m
             more == [p \in low..L |-> IF p = low THEN Behind(s, low, cut) ELSE cut[p]]
  <2>2. low \in 0..L /\ low + 1 = L + 1 - m /\ low = L + 1 - (m + 1)
    BY <1>0
  <2>3. ASSUME NEW p \in low..L
        PROVE  Behind(s, p, more) = Behind(s, p, cut)
    <3>1. CASE Fits(s, p)
      <4>1. FrameEnd(s, p) \in (low + 1)..L
        BY <2>2, <3>1, EndBehind DEF Header
      <4>2. more[FrameEnd(s, p)] = cut[FrameEnd(s, p)]
        BY <2>2, <4>1
      <4> HIDE DEF more, low, L
      <4> QED
        BY <3>1, <4>2, Zenon DEF Behind
    <3>2. CASE ~ Fits(s, p)
      <4> HIDE DEF more, low, L
      <4> QED
        BY <3>2, Zenon DEF Behind
    <3> QED
      BY <3>1, <3>2
  <2>4. ASSUME NEW p \in low..L
        PROVE  more[p] = Behind(s, p, more)
    <3>1. CASE p = low
      BY <2>3, <3>1
    <3>2. CASE p # low
      <4>1. p \in (L + 1 - m)..L
        BY <2>2, <3>2
      <4>2. cut[p] = Behind(s, p, cut)
        <5> HIDE DEF L
        <5> QED
          BY <2>1, <4>1, Zenon
      <4>3. more[p] = cut[p]
        BY <3>2
      <4> QED
        BY <2>3, <4>2, <4>3
    <3> QED
      BY <3>1, <3>2
  <2>5. more = [p \in low..L |-> more[p]]
    OBVIOUS
  <2>6. From(m + 1, more)
    <3>1. more = [p \in low..L |-> Behind(s, p, more)]
      <4> HIDE DEF more
      <4> QED
        BY <2>4, <2>5, Zenon
    <3> HIDE DEF more, low
    <3> QED
      BY <2>2, <3>1
  <2> HIDE DEF more, From
  <2> QED
    BY <1>0, <2>6
<1>3. 0..(L + 1) \subseteq T
  <2>1. L + 1 \in Nat
    BY <1>0
  <2> HIDE DEF T
  <2>2. \A k \in 0..((L + 1) - 1) : k \in T => k + 1 \in T
    BY <1>0, <1>2
  <2> HIDE DEF L
  <2> QED
    BY <1>1, <2>1, <2>2, UpTo
<1>4. PICK cut : From(L + 1, cut)
  <2>1. L + 1 \in T
    BY <1>0, <1>3
  <2> HIDE DEF From
  <2> QED
    BY <2>1
<1>5. (L + 1) - (L + 1) = 0
  BY <1>0
<1>6. Cutting(s, cut)
  BY <1>0, <1>4, <1>5 DEF Cutting
<1> QED
  BY <1>6

LEMMA CuttingIsEquation ==
  ASSUME NEW s \in Seq(Byte), NEW cut
  PROVE  CutEquation(s, cut) <=> Cutting(s, cut)
<1> DEFINE body(p) ==
      IF /\ p + Header <= Len(s)
         /\ LET n == Decode(SubSeq(s, p + 1, p + Header)) IN n <= Limit /\ p + Header + n <= Len(s)
      THEN <<SubSeq(s, p + Header + 1, p + Header + Decode(SubSeq(s, p + 1, p + Header)))>>
             \o cut[p + Header + Decode(SubSeq(s, p + 1, p + Header))]
      ELSE <<>>
<1>1. ASSUME NEW p \in 0..Len(s)
      PROVE  body(p) = Behind(s, p, cut)
  <2>1. CASE p + Header <= Len(s)
    <3>1. Decode(SubSeq(s, p + 1, p + Header)) = HeaderAt(s, p)
      BY <2>1, HeaderDecodes
    <3>2. CASE Fits(s, p)
      <4>1. SubSeq(s, p + Header + 1, FrameEnd(s, p)) = Piece(s, p + Header, FrameEnd(s, p))
        BY <3>2, EndBehind, SubSeqIsPiece
      <4> QED
        BY <2>1, <3>1, <3>2, <4>1, Zenon DEF Behind, FrameEnd, Fits
    <3>3. CASE ~ Fits(s, p)
      BY <2>1, <3>1, <3>3, Zenon DEF Behind, Fits
    <3> QED
      BY <3>2, <3>3
  <2>2. CASE ~ (p + Header <= Len(s))
    BY <2>2, Zenon DEF Behind, Fits
  <2> QED
    BY <2>1, <2>2
<1>2. CutEquation(s, cut) <=> cut = [p \in 0..Len(s) |-> body(p)]
  BY Zenon DEF CutEquation
<1>3. [p \in 0..Len(s) |-> body(p)] = [p \in 0..Len(s) |-> Behind(s, p, cut)]
  <2> HIDE DEF body
  <2> QED
    BY <1>1, Zenon
<1> HIDE DEF body
<1> QED
  BY <1>2, <1>3, Zenon DEF Cutting

\* The frames of a stream are cut[0] of a function with the equation of FramesIn.
LEMMA FramesInCuts ==
  ASSUME NEW s \in Seq(Byte)
  PROVE  \E cut : FramesIn(s) = cut[0] /\ \A p \in 0..Len(s) : cut[p] = Behind(s, p, cut)
<1>1. \E cut : CutEquation(s, cut)
  BY CuttingSolvable, CuttingIsEquation
<1> DEFINE cut == CHOOSE c : CutEquation(s, c)
<1>2. CutEquation(s, cut)
  BY <1>1, Zenon
<1>3. FramesIn(s) = cut[0]
  BY FramesInIs
<1> HIDE DEF cut
<1>4. Cutting(s, cut)
  BY <1>2, CuttingIsEquation
<1>5. \A p \in 0..Len(s) : cut[p] = Behind(s, p, cut)
  BY <1>4, Zenon DEF Cutting
<1> QED
  BY <1>3, <1>5

-----------------------------------------------------------------------------
(* f lists where the frames fs of s end, one behind the other, the last at q. *)
Cuts(s, fs, q, f) ==
  /\ f \in [0..Len(fs) -> 0..Len(s)] /\ f[0] = 0 /\ f[Len(fs)] = q
  /\ \A k \in 1..Len(fs) :
       /\ Fits(s, f[k-1]) /\ f[k] = FrameEnd(s, f[k-1])
       /\ fs[k] = Piece(s, f[k-1] + Header, f[k])

\* The frames fs are the head of s, up to q.
Parsed(s, fs, q) == \E f : Cuts(s, fs, q, f)

LEMMA NothingParsed ==
  ASSUME NEW s \in Seq(Byte)
  PROVE  Parsed(s, <<>>, 0)
<1> DEFINE f == [k \in 0..0 |-> 0]
<1>1. Cuts(s, <<>>, 0, f)
  BY DEF Cuts
<1> QED
  BY <1>1, Zenon DEF Parsed

LEMMA ParsedEnd ==
  ASSUME NEW s \in Seq(Byte), NEW fs \in Seq(Seq(Byte)), NEW q, Parsed(s, fs, q)
  PROVE  q \in 0..Len(s)
<1>1. PICK f : Cuts(s, fs, q, f)
  BY DEF Parsed
<1>2. f \in [0..Len(fs) -> 0..Len(s)] /\ f[Len(fs)] = q
  BY <1>1, Zenon DEF Cuts
<1>3. Len(fs) \in 0..Len(fs)
  OBVIOUS
<1> QED
  BY <1>2, <1>3, Zenon

\* A byte more changes nothing of what fits before it.
LEMMA LongerFits ==
  ASSUME NEW s \in Seq(Byte), NEW byte \in Byte, NEW p \in 0..Len(s), Fits(s, p)
  PROVE  /\ Fits(Append(s, byte), p) /\ FrameEnd(Append(s, byte), p) = FrameEnd(s, p)
         /\ Piece(Append(s, byte), p + Header, FrameEnd(s, p)) = Piece(s, p + Header, FrameEnd(s, p))
<1> DEFINE t == Append(s, byte)
<1>1. Len(t) = Len(s) + 1 /\ \A j \in 1..Len(s) : t[j] = s[j]
  OBVIOUS
<1>2. p + Header <= Len(s) /\ HeaderAt(s, p) <= Limit /\ p + Header + HeaderAt(s, p) <= Len(s)
  BY DEF Fits
<1>3. p + 1 \in 1..Len(s) /\ p + 2 \in 1..Len(s)
  BY <1>2 DEF Header
<1>4. HeaderAt(t, p) = HeaderAt(s, p)
  BY <1>1, <1>3, Zenon DEF HeaderAt
<1>5. FrameEnd(t, p) = FrameEnd(s, p)
  BY <1>4, Zenon DEF FrameEnd
<1>6. HeaderAt(s, p) \in Nat /\ FrameEnd(s, p) \in (p + Header)..Len(s)
  BY EndBehind
<1>7. Fits(t, p)
  <2> HIDE DEF t
  <2> QED
    BY <1>1, <1>2, <1>4, <1>6 DEF Fits, Header
<1>8. \A j \in 1..(FrameEnd(s, p) - (p + Header)) : t[p + Header + j] = s[p + Header + j]
  <2> TAKE j \in 1..(FrameEnd(s, p) - (p + Header))
  <2>1. p + Header + j \in 1..Len(s)
    BY <1>6 DEF Header
  <2> QED
    BY <1>1, <2>1, Zenon
<1>9. Piece(t, p + Header, FrameEnd(s, p)) = Piece(s, p + Header, FrameEnd(s, p))
  <2> HIDE DEF t
  <2> QED
    BY <1>8, Zenon DEF Piece
<1> QED
  BY <1>5, <1>7, <1>9

LEMMA LongerParsed ==
  ASSUME NEW s \in Seq(Byte), NEW byte \in Byte, NEW fs \in Seq(Seq(Byte)), NEW q, Parsed(s, fs, q)
  PROVE  Parsed(Append(s, byte), fs, q)
<1>1. PICK f : Cuts(s, fs, q, f)
  BY DEF Parsed
<1>2. f \in [0..Len(fs) -> 0..Len(s)] /\ f[0] = 0 /\ f[Len(fs)] = q
  BY <1>1, Zenon DEF Cuts
<1>3. f \in [0..Len(fs) -> 0..Len(Append(s, byte))]
  BY <1>2
<1>4. ASSUME NEW k \in 1..Len(fs)
      PROVE  /\ Fits(Append(s, byte), f[k-1]) /\ f[k] = FrameEnd(Append(s, byte), f[k-1])
             /\ fs[k] = Piece(Append(s, byte), f[k-1] + Header, f[k])
  <2>1. f[k-1] \in 0..Len(s)
    <3>1. k - 1 \in 0..Len(fs)
      OBVIOUS
    <3> QED
      BY <1>2, <3>1, Zenon
  <2>2. /\ Fits(s, f[k-1]) /\ f[k] = FrameEnd(s, f[k-1])
        /\ fs[k] = Piece(s, f[k-1] + Header, f[k])
    BY <1>1, Zenon DEF Cuts
  <2> QED
    BY <2>1, <2>2, LongerFits, Zenon
<1>5. Cuts(Append(s, byte), fs, q, f)
  BY <1>2, <1>3, <1>4, Zenon DEF Cuts
<1> QED
  BY <1>5, Zenon DEF Parsed

\* One more frame that fits is parsed too.
LEMMA OneMoreParsed ==
  ASSUME NEW s \in Seq(Byte), NEW fs \in Seq(Seq(Byte)), NEW q, Parsed(s, fs, q), Fits(s, q)
  PROVE  Parsed(s, Append(fs, Piece(s, q + Header, FrameEnd(s, q))), FrameEnd(s, q))
<1> DEFINE end == FrameEnd(s, q)
           gs == Append(fs, Piece(s, q + Header, end))
<1>1. PICK f : Cuts(s, fs, q, f)
  BY DEF Parsed
<1>2. f \in [0..Len(fs) -> 0..Len(s)] /\ f[0] = 0 /\ f[Len(fs)] = q
  BY <1>1, Zenon DEF Cuts
<1>3. q \in 0..Len(s) /\ end \in 0..Len(s)
  <2>1. q \in 0..Len(s)
    BY ParsedEnd
  <2>2. end \in (q + Header)..Len(s)
    BY <2>1, EndBehind
  <2> HIDE DEF end
  <2> QED
    BY <2>1, <2>2 DEF Header
<1>4. Len(gs) = Len(fs) + 1 /\ gs[Len(fs) + 1] = Piece(s, q + Header, end)
      /\ \A k \in 1..Len(fs) : gs[k] = fs[k]
  OBVIOUS
<1> DEFINE g == [k \in 0..(Len(fs) + 1) |-> IF k = Len(fs) + 1 THEN end ELSE f[k]]
<1> HIDE DEF end, gs
<1>5. /\ g \in [0..Len(gs) -> 0..Len(s)] /\ g[0] = 0 /\ g[Len(gs)] = end /\ g[Len(fs)] = q
      /\ \A k \in 0..Len(fs) : g[k] = f[k]
  BY <1>2, <1>3, <1>4
<1> HIDE DEF g
<1>6. ASSUME NEW k \in 1..Len(gs)
      PROVE  /\ Fits(s, g[k-1]) /\ g[k] = FrameEnd(s, g[k-1])
             /\ gs[k] = Piece(s, g[k-1] + Header, g[k])
  <2>1. CASE k = Len(fs) + 1
    <3>1. g[k-1] = q /\ g[k] = end /\ gs[k] = Piece(s, q + Header, end)
      BY <1>4, <1>5, <2>1
    <3> QED
      BY <3>1 DEF end
  <2>2. CASE k # Len(fs) + 1
    <3>1. k \in 1..Len(fs)
      BY <1>4, <2>2
    <3>2. g[k-1] = f[k-1] /\ g[k] = f[k] /\ gs[k] = fs[k]
      <4>1. k - 1 \in 0..Len(fs) /\ k \in 0..Len(fs)
        BY <3>1
      <4> QED
        BY <1>4, <1>5, <3>1, <4>1, Zenon
    <3>3. /\ Fits(s, f[k-1]) /\ f[k] = FrameEnd(s, f[k-1])
          /\ fs[k] = Piece(s, f[k-1] + Header, f[k])
      BY <1>1, <3>1, Zenon DEF Cuts
    <3> QED
      BY <3>2, <3>3, Zenon
  <2> QED
    BY <2>1, <2>2
<1>7. Cuts(s, gs, end, g)
  BY <1>5, <1>6, Zenon DEF Cuts
<1>8. Parsed(s, gs, end)
  BY <1>7, Zenon DEF Parsed
<1> QED
  BY <1>8 DEF gs, end

\* What a stream parses as is what FramesIn reads off it, if no frame follows.
LEMMA ParsedIsFramesIn ==
  ASSUME NEW s \in Seq(Byte), NEW fs \in Seq(Seq(Byte)), NEW q, Parsed(s, fs, q), ~ Fits(s, q)
  PROVE  FramesIn(s) = fs
<1>1. PICK f : Cuts(s, fs, q, f)
  BY DEF Parsed
<1>2. PICK cut : FramesIn(s) = cut[0] /\ \A p \in 0..Len(s) : cut[p] = Behind(s, p, cut)
  BY FramesInCuts
<1> DEFINE n == Len(fs)
           T == {m \in 0..n : cut[f[n - m]] = Piece(fs, n - m, n)}
<1>3. f \in [0..n -> 0..Len(s)] /\ f[0] = 0 /\ f[n] = q
  BY <1>1, Zenon DEF Cuts
<1>4. n \in Nat
  OBVIOUS
<1>5. 0 \in T
  <2>1. cut[q] = <<>>
    BY <1>2, ParsedEnd, Zenon DEF Behind
  <2>2. n - 0 = n /\ Piece(fs, n, n) = <<>>
    BY <1>4 DEF Piece
  <2> HIDE DEF n
  <2>3. cut[f[n - 0]] = Piece(fs, n - 0, n)
    BY <1>3, <2>1, <2>2
  <2> QED
    BY <1>4, <2>3
<1>6. ASSUME NEW m \in 0..(n - 1), m \in T
      PROVE  m + 1 \in T
  <2>1. PICK k \in 1..n : k = n - m
    <3> HIDE DEF n, T
    <3>1. n - m \in 1..n
      BY <1>4
    <3> QED
      BY <3>1
  <2>2. k - 1 = n - (m + 1) /\ k - 1 \in 0..n /\ m + 1 \in 0..n
    BY <1>4, <2>1
  <2>3. cut[f[k]] = Piece(fs, k, n)
    BY <1>6, <2>1
  <2>4. /\ Fits(s, f[k-1]) /\ f[k] = FrameEnd(s, f[k-1])
        /\ fs[k] = Piece(s, f[k-1] + Header, f[k])
    BY <1>1, Zenon DEF Cuts
  <2>5. f[k-1] \in 0..Len(s)
    BY <1>3, <2>2, Zenon
  <2>6. cut[f[k-1]] = <<fs[k]>> \o Piece(fs, k, n)
    BY <1>2, <2>3, <2>4, <2>5, Zenon DEF Behind
  <2>7. Piece(fs, k - 1, k) = <<fs[k]>>
    BY PieceOfOne
  <2>8. Piece(fs, k - 1, k) \o Piece(fs, k, n) = Piece(fs, k - 1, n)
    <3>1. k - 1 \in 0..Len(fs) /\ k \in (k-1)..Len(fs) /\ Len(fs) \in k..Len(fs)
      OBVIOUS
    <3> QED
      BY <3>1, PiecesJoin
  <2>9. cut[f[k-1]] = Piece(fs, k - 1, n)
    BY <2>6, <2>7, <2>8, Zenon
  <2> HIDE DEF n
  <2> QED
    BY <2>2, <2>9
<1>7. n \in T
  <2> HIDE DEF n, T
  <2>1. 0..n \subseteq T
    BY <1>4, <1>5, <1>6, UpTo
  <2> QED
    BY <1>4, <2>1
<1>8. cut[f[n - n]] = Piece(fs, n - n, n)
  <2> HIDE DEF n
  <2> QED
    BY <1>7
<1>9. n - n = 0
  BY <1>4
<1> QED
  BY <1>2, <1>3, <1>8, <1>9, PieceOfAll

\* Quotient and remainder by Base give the number back.
LEMMA DivMod ==
  ASSUME NEW h \in Nat, NEW l \in 0..(Base - 1)
  PROVE  (h * Base + l) \div Base = h /\ (h * Base + l) % Base = l
BY FramesAssumption

\* A frame that fits is written with the header it came with.
LEMMA EncodeGivesBack ==
  ASSUME NEW s \in Seq(Byte), NEW p \in 0..Len(s), Fits(s, p)
  PROVE  Encode(Piece(s, p + Header, FrameEnd(s, p))) = Piece(s, p, FrameEnd(s, p))
<1> DEFINE end == FrameEnd(s, p)
           body == Piece(s, p + Header, end)
           size == HeaderAt(s, p)
<1>1. /\ p + Header \in 0..Len(s) /\ size \in Nat
      /\ end \in (p + Header)..Len(s) /\ end = p + Header + size
  BY EndBehind DEF FrameEnd
<1>2. s[p + 1] \in Byte /\ s[p + 2] \in Byte
  BY <1>1 DEF Header
<1>3. s[p + 1] \in Nat /\ s[p + 2] \in 0..(Base - 1)
  BY <1>2, FramesAssumption DEF Byte
<1>4. size \div Base = s[p + 1] /\ size % Base = s[p + 2]
  BY <1>3, DivMod DEF HeaderAt
<1> HIDE DEF size, end
<1>5. Len(body) = size
  BY <1>1 DEF Piece, Header
<1>6. Encode(body) = <<s[p + 1], s[p + 2]>> \o body
  <2> HIDE DEF body
  <2> QED
    BY <1>4, <1>5, Zenon DEF Encode
<1>7. Piece(s, p, p + Header) = <<s[p + 1], s[p + 2]>>
  BY <1>1 DEF Piece, Header
<1>8. Piece(s, p, p + Header) \o Piece(s, p + Header, end) = Piece(s, p, end)
  <2>1. p \in 0..Len(s) /\ p + Header \in p..Len(s) /\ end \in (p + Header)..Len(s)
    BY <1>1 DEF Header
  <2> QED
    BY <2>1, PiecesJoin
<1>9. Encode(body) = Piece(s, p, end)
  BY <1>6, <1>7, <1>8, Zenon
<1> QED
  BY <1>9, Zenon DEF body, end

\* What a stream parses as, written again, is the stream up to where it was parsed.
LEMMA WireGivesBack ==
  ASSUME NEW s \in Seq(Byte), NEW fs \in Seq(Seq(Byte)), NEW q, Parsed(s, fs, q)
  PROVE  Wire(fs) = Piece(s, 0, q)
<1>1. PICK f : Cuts(s, fs, q, f)
  BY DEF Parsed
<1> DEFINE n == Len(fs)
           e == [k \in DOMAIN fs |-> Encode(fs[k])]
<1>2. f \in [0..n -> 0..Len(s)] /\ f[0] = 0 /\ f[n] = q
  BY <1>1, Zenon DEF Cuts
<1>3. n \in Nat /\ DOMAIN fs = 1..n
  OBVIOUS
<1>4. Len(e) = n
  OBVIOUS
<1>5. ASSUME NEW k \in 1..n
      PROVE  e[k] = Piece(s, f[k-1], f[k]) /\ f[k-1] \in 0..Len(s) /\ f[k] \in f[k-1]..Len(s)
  <2>1. f[k-1] \in 0..Len(s)
    <3>1. k - 1 \in 0..n
      OBVIOUS
    <3> QED
      BY <1>2, <3>1, Zenon
  <2>2. /\ Fits(s, f[k-1]) /\ f[k] = FrameEnd(s, f[k-1])
        /\ fs[k] = Piece(s, f[k-1] + Header, f[k])
    BY <1>1, Zenon DEF Cuts
  <2>3. e[k] = Encode(fs[k])
    BY <1>3, Zenon
  <2>4. e[k] = Piece(s, f[k-1], f[k])
    BY <2>1, <2>2, <2>3, EncodeGivesBack, Zenon
  <2>5. FrameEnd(s, f[k-1]) \in (f[k-1] + Header)..Len(s)
    BY <2>1, <2>2, EndBehind, Zenon
  <2>6. f[k] \in (f[k-1] + Header)..Len(s)
    BY <2>2, <2>5, Zenon
  <2>7. f[k] \in f[k-1]..Len(s)
    <3> DEFINE x == f[k-1]
               y == f[k]
    <3> HIDE DEF x, y
    <3>1. x \in Nat /\ y \in (x + Header)..Len(s)
      BY <2>1, <2>6 DEF x, y
    <3>2. y \in x..Len(s)
      BY <3>1 DEF Header
    <3> QED
      BY <3>2 DEF x, y
  <2> QED
    BY <2>1, <2>4, <2>7
<1> HIDE DEF n
<1>6. CASE n = 0
  <2>1. fs = <<>> /\ e = <<>>
    BY <1>3, <1>6 DEF n
  <2>2. Wire(fs) = <<>>
    <3>1. Wire(fs) = FlattenSeq(e)
      BY Zenon DEF Wire
    <3>2. Len(e) = 0
      BY <1>4, <1>6
    <3> HIDE DEF e
    <3> QED
      BY <2>1, <3>1, <3>2, FlattenIs, Zenon
  <2>3. q = 0
    BY <1>2, <1>6
  <2>4. Piece(s, 0, 0) = <<>>
    BY DEF Piece
  <2> QED
    BY <2>2, <2>3, <2>4
<1>7. CASE n # 0
  <2> HIDE DEF e
  <2>1. ASSUME NEW k \in 2..n
        PROVE  Piece(s, 0, f[k-1]) \o e[k] = Piece(s, 0, f[k])
    <3>1. e[k] = Piece(s, f[k-1], f[k]) /\ f[k-1] \in 0..Len(s) /\ f[k] \in f[k-1]..Len(s)
      BY <1>5
    <3>2. f[k-1] \in 0..Len(s) /\ 0 \in 0..Len(s)
      BY <3>1
    <3> QED
      BY <3>1, <3>2, PiecesJoin
  <2>2. \E flat : FlatEquation(e, flat)
    <3> DEFINE flat == [i \in 1..n |-> Piece(s, 0, f[i])]
    <3>1. ASSUME NEW i \in 1..n
          PROVE  flat[i] = IF i = 1 THEN e[i] ELSE flat[i-1] \o e[i]
      <4>1. CASE i = 1
        BY <1>2, <1>5, <4>1
      <4>2. CASE i # 1
        <5>1. i \in 2..n /\ i - 1 \in 1..n
          BY <1>3, <4>2
        <5> QED
          BY <2>1, <4>2, <5>1, Zenon
      <4> QED
        BY <4>1, <4>2
    <3>2. flat = [i \in 1..n |-> flat[i]]
      OBVIOUS
    <3> HIDE DEF flat
    <3>3. flat = [i \in 1..n |-> IF i = 1 THEN e[i] ELSE flat[i-1] \o e[i]]
      BY <3>1, <3>2, Zenon
    <3>4. FlatEquation(e, flat)
      BY <1>4, <3>3, Zenon DEF FlatEquation
    <3> QED
      BY <3>4
  <2> DEFINE flat == CHOOSE g : FlatEquation(e, g)
  <2>3. FlatEquation(e, flat)
    BY <2>2, Zenon
  <2>4. Wire(fs) = flat[n]
    <3>1. Wire(fs) = FlattenSeq(e)
      BY Zenon DEF Wire, e
    <3> QED
      BY <1>4, <1>7, <3>1, FlattenIs, Zenon
  <2> HIDE DEF flat
  <2>5. \A i \in 1..n : flat[i] = IF i = 1 THEN e[i] ELSE flat[i-1] \o e[i]
    BY <1>4, <2>3, Zenon DEF FlatEquation
  <2> DEFINE T == {0} \cup {k \in 1..n : flat[k] = Piece(s, 0, f[k])}
  <2>6. ASSUME NEW k \in 0..(n - 1), k \in T
        PROVE  k + 1 \in T
    <3>1. k + 1 \in 1..n /\ (k + 1) - 1 = k
      BY <1>3
    <3>2. CASE k = 0
      <4>1. 1 \in 1..n /\ k + 1 = 1
        BY <3>1, <3>2
      <4>2. flat[1] = e[1]
        BY <2>5, <4>1, Zenon
      <4>3. e[1] = Piece(s, f[0], f[1])
        BY <1>5, <4>1
      <4> HIDE DEF T
      <4>4. flat[1] = Piece(s, 0, f[1])
        BY <1>2, <4>2, <4>3
      <4> QED
        BY <4>1, <4>4 DEF T
    <3>3. CASE k # 0
      <4>1. k + 1 \in 2..n /\ k + 1 # 1
        BY <3>1, <3>3
      <4>2. flat[k] = Piece(s, 0, f[k])
        BY <2>6, <3>3
      <4>3. PICK new : new = k + 1
        OBVIOUS
      <4>4. new \in 1..n /\ new \in 2..n /\ new # 1 /\ new - 1 = k
        BY <3>1, <4>1, <4>3
      <4>5. flat[new] = flat[k] \o e[new]
        BY <2>5, <4>4, Zenon
      <4>6. flat[new] = Piece(s, 0, f[new])
        BY <2>1, <4>2, <4>4, <4>5, Zenon
      <4> QED
        BY <4>3, <4>4, <4>6
    <3> QED
      BY <3>2, <3>3
  <2>7. 0 \in T
    OBVIOUS
  <2> HIDE DEF T
  <2>8. 0..n \subseteq T
    BY <1>3, <2>6, <2>7, UpTo
  <2>9. n \in T
    BY <1>3, <2>8
  <2>10. flat[n] = Piece(s, 0, f[n])
    BY <1>7, <2>9 DEF T
  <2> QED
    BY <1>2, <2>4, <2>10
<1> QED
  BY <1>6, <1>7

-----------------------------------------------------------------------------
(* The received bytes parse as the frames so far and the buffer, or, once  *)
(* failed, as frames up to a header beyond the limit.                      *)
ParsedSoFar ==
  ~ failed =>
    /\ Parsed(received, delivered \o frames, Len(received) - Len(pending))
    /\ Len(pending) \in 0..Len(received)
    /\ pending = Piece(received, Len(received) - Len(pending), Len(received))

Refused(s) ==
  \E fs \in Seq(Seq(Byte)) : \E q \in 0..Len(s) :
    Parsed(s, fs, q) /\ q + Header <= Len(s) /\ HeaderAt(s, q) > Limit

FailedAtOversize == failed => Refused(received)

NoneBetweenCalls == ~ pushing => frames = <<>>

StreamInv == FramesInv /\ NoneBetweenCalls /\ ParsedSoFar /\ FailedAtOversize

LEMMA StreamInit == FramesInit => StreamInv
<1> SUFFICES ASSUME FramesInit PROVE StreamInv
  OBVIOUS
<1>1. FramesInv
  BY FramesInitInv
<1>2. failed = FALSE /\ pending = <<>> /\ frames = <<>> /\ received = <<>> /\ delivered = <<>>
  BY Zenon DEF FramesInit
<1>3. Parsed(<<>>, <<>>, 0)
  BY EmptyIn, NothingParsed
<1>4. ParsedSoFar
  <2>1. /\ delivered \o frames = <<>> /\ Len(received) - Len(pending) = 0
        /\ Len(pending) \in 0..Len(received)
    BY <1>2
  <2>2. pending = Piece(received, Len(received) - Len(pending), Len(received))
    BY <1>2 DEF Piece
  <2>3. Parsed(received, delivered \o frames, Len(received) - Len(pending))
    BY <1>2, <1>3, <2>1
  <2> QED
    BY <2>1, <2>2, <2>3, Zenon DEF ParsedSoFar
<1> QED
  BY <1>1, <1>2, <1>4, Zenon DEF StreamInv, NoneBetweenCalls, FailedAtOversize

\* A header in the buffer is the header at the buffer's place in the stream.
LEMMA HeaderInPiece ==
  ASSUME NEW s \in Seq(Byte), NEW q \in 0..Len(s), q + Header <= Len(s)
  PROVE  Decode(Piece(s, q, Len(s))) = HeaderAt(s, q)
<1>1. Piece(s, q, Len(s))[1] = s[q + 1] /\ Piece(s, q, Len(s))[2] = s[q + 2]
  BY DEF Piece, Header
<1> QED
  BY <1>1, Zenon DEF Decode, HeaderAt

\* One byte: the buffer stays behind what is parsed.
LEMMA NextByteStream ==
  ASSUME StreamInv, NextByte
  PROVE  StreamInv'
<1> DEFINE byte == Head(chunk)
           bytes == Append(pending, byte)
           s == Append(received, byte)
           fs == delivered \o frames
           q == Len(received) - Len(pending)
<1>0. FramesInv /\ FramesInv'
  BY NextByteInv DEF StreamInv
<1>1. /\ byte \in Byte /\ pending \in Seq(Byte) /\ received \in Seq(Byte)
      /\ frames \in Seq(Seq(Byte)) /\ delivered \in Seq(Seq(Byte)) /\ ~ failed /\ pushing
  BY <1>0 DEF NextByte, FramesInv, FramesTypeOK
<1>2. fs \in Seq(Seq(Byte)) /\ bytes \in Seq(Byte) /\ s \in Seq(Byte)
  BY <1>1, ConcatIn, AppendIn, Zenon
<1>3. /\ Parsed(received, fs, q) /\ Len(pending) \in 0..Len(received)
      /\ pending = Piece(received, q, Len(received))
  BY <1>1, Zenon DEF StreamInv, ParsedSoFar
<1>4. Len(bytes) = Len(pending) + 1 /\ Len(s) = Len(received) + 1
  BY <1>1
<1>5. q \in 0..Len(received) /\ q \in 0..Len(s) /\ Len(bytes) = Len(s) - q
  BY <1>1, <1>3, <1>4
<1>6. bytes = Piece(s, q, Len(s))
  <2>1. ASSUME NEW j \in 1..Len(bytes)
        PROVE  bytes[j] = s[q + j]
    <3>1. CASE j = Len(bytes)
      <4>1. bytes[j] = byte /\ q + j = Len(received) + 1
        BY <1>1, <1>4, <1>5, <3>1
      <4>2. s[Len(received) + 1] = byte
        BY <1>1
      <4> QED
        BY <4>1, <4>2
    <3>2. CASE j # Len(bytes)
      <4>1. j \in 1..Len(pending) /\ q + j \in 1..Len(received)
        BY <1>1, <1>3, <1>4, <1>5, <3>2
      <4>2. bytes[j] = pending[j] /\ s[q + j] = received[q + j]
        BY <1>1, <4>1
      <4>3. pending[j] = received[q + j]
        <5>1. j \in 1..(Len(received) - q)
          BY <1>1, <1>3, <4>1
        <5> HIDE DEF q
        <5> QED
          BY <1>3, <5>1, Zenon DEF Piece
      <4> QED
        BY <4>2, <4>3
    <3> QED
      BY <3>1, <3>2
  <2> HIDE DEF q, s, bytes
  <2>2. bytes = [j \in 1..Len(bytes) |-> bytes[j]]
    BY <1>2
  <2> QED
    BY <1>5, <2>1, <2>2, Zenon DEF Piece
<1>7. Parsed(s, fs, q)
  BY <1>1, <1>2, <1>3, LongerParsed
<1>8. Len(bytes) >= Header => q + Header <= Len(s) /\ Decode(bytes) = HeaderAt(s, q)
  <2> HIDE DEF q, s, bytes
  <2>1. ASSUME Len(bytes) >= Header
        PROVE  q + Header <= Len(s)
    BY <1>2, <1>5, <2>1 DEF Header
  <2> QED
    BY <1>2, <1>5, <1>6, <2>1, HeaderInPiece
<1>9. received' = s /\ delivered' = delivered /\ pushing' = pushing
  BY Zenon DEF NextByte
<1>10. NoneBetweenCalls'
  BY <1>1, <1>9, Zenon DEF NoneBetweenCalls
<1>11. CASE Oversize(bytes) /\ failed' = TRUE /\ pending' = <<>> /\ UNCHANGED frames
  <2>1. Refused(s)
    BY <1>2, <1>5, <1>7, <1>8, <1>11, Zenon DEF Refused, Oversize
  <2> QED
    BY <1>0, <1>9, <1>10, <1>11, <2>1, Zenon DEF StreamInv, ParsedSoFar, FailedAtOversize
<1> DEFINE frame == SubSeq(bytes, Header + 1, Len(bytes))
<1>12. CASE /\ ~ Oversize(bytes) /\ Whole(bytes)
            /\ frames' = Append(frames, frame)
            /\ pending' = <<>> /\ UNCHANGED failed
  <2>1. /\ Len(bytes) >= Header /\ Len(bytes) = HeaderAt(s, q) + Header /\ ~ HeaderAt(s, q) > Limit
        /\ q + Header <= Len(s)
    BY <1>8, <1>12, Zenon DEF Oversize, Whole
  <2>2. Fits(s, q) /\ FrameEnd(s, q) = Len(s)
    <3> HIDE DEF q, s, bytes
    <3>1. HeaderAt(s, q) \in Nat
      BY <1>2, <1>5, <2>1, HeaderDecodes
    <3>2. Header = 2 /\ Limit \in Nat /\ q \in Nat /\ Len(s) \in Nat /\ Len(bytes) = Len(s) - q
      BY <1>2, <1>5, FramesAssumption DEF Header
    <3> HIDE DEF Header
    <3>3. HeaderAt(s, q) <= Limit /\ q + Header + HeaderAt(s, q) = Len(s)
      BY ONLY <2>1, <3>1, <3>2
    <3> QED
      BY <2>1, <3>2, <3>3 DEF Fits, FrameEnd
  <2>3. frame = Piece(s, q + Header, Len(s))
    <3> HIDE DEF q, s, bytes
    <3>1. Header \in 0..Len(bytes) /\ Len(bytes) \in Header..Len(bytes)
      BY <1>2, <2>1 DEF Header
    <3>2. frame = Piece(bytes, Header, Len(bytes))
      BY <1>2, <3>1, SubSeqIsPiece
    <3>3. \A j \in 1..(Len(bytes) - Header) : bytes[Header + j] = s[q + Header + j]
      <4> TAKE j \in 1..(Len(bytes) - Header)
      <4>1. Header + j \in 1..(Len(s) - q)
        BY <1>2, <1>5 DEF Header
      <4>2. bytes[Header + j] = s[q + (Header + j)]
        BY <1>6, <4>1, Zenon DEF Piece
      <4>3. q + (Header + j) = q + Header + j
        BY <1>5 DEF Header
      <4> QED
        BY <4>2, <4>3
    <3>4. Len(s) - (q + Header) = Len(bytes) - Header
      BY <1>2, <1>5 DEF Header
    <3> HIDE DEF frame
    <3> QED
      BY <3>2, <3>3, <3>4, Zenon DEF Piece
  <2>4. Parsed(s, Append(fs, frame), Len(s))
    BY <1>2, <1>7, <2>2, <2>3, OneMoreParsed, Zenon
  <2>5. frame \in Seq(Byte)
    BY <1>2, <2>1, SubSeqProperties DEF Header
  <2>6. Append(fs, frame) = delivered \o Append(frames, frame)
    <3> HIDE DEF frame
    <3>0. frame \in Seq(Byte) /\ fs \in Seq(Seq(Byte)) /\ frames \in Seq(Seq(Byte))
      BY <1>1, <1>2, <2>5
    <3>1. Append(fs, frame) = fs \o <<frame>> /\ Append(frames, frame) = frames \o <<frame>>
      BY ONLY <3>0, AppendIsConcat
    <3>2. <<frame>> \in Seq(Seq(Byte))
      BY <2>5
    <3>3. (delivered \o frames) \o <<frame>> = delivered \o (frames \o <<frame>>)
      <4>1. delivered \in Seq(Seq(Byte))
        BY <1>1
      <4> DEFINE F == Seq(Byte)
      <4>2. delivered \in Seq(F) /\ frames \in Seq(F) /\ <<frame>> \in Seq(F)
        BY <3>0, <3>2, <4>1
      <4> HIDE DEF F
      <4> QED
        BY ONLY <4>2, ConcatAssociative
    <3> QED
      BY <3>1, <3>3, Zenon
  <2>7. /\ Len(s) - Len(<<>>) = Len(s) /\ Len(<<>>) \in 0..Len(s)
        /\ Piece(s, Len(s), Len(s)) = <<>>
    BY <1>2 DEF Piece
  <2>8. ParsedSoFar'
    <3>1. /\ received' = s /\ delivered' \o frames' = Append(fs, frame) /\ pending' = <<>>
      BY <1>9, <1>12, <2>6, Zenon
    <3> QED
      BY <2>4, <2>7, <3>1, Zenon DEF ParsedSoFar
  <2> QED
    BY <1>0, <1>1, <1>10, <1>12, <2>8, Zenon DEF StreamInv, FailedAtOversize
<1>13. CASE ~ Oversize(bytes) /\ ~ Whole(bytes) /\ pending' = bytes /\ UNCHANGED <<failed, frames>>
  <2>1. Len(s) - Len(bytes) = q /\ Len(bytes) \in 0..Len(s)
    BY <1>2, <1>4, <1>5
  <2>2. ParsedSoFar'
    <3>1. received' = s /\ delivered' \o frames' = fs /\ pending' = bytes
      BY <1>9, <1>13, Zenon
    <3> QED
      BY <1>6, <1>7, <2>1, <3>1, Zenon DEF ParsedSoFar
  <2> QED
    BY <1>0, <1>1, <1>10, <1>13, <2>2, Zenon DEF StreamInv, FailedAtOversize
<1>14. \/ Oversize(bytes) /\ failed' = TRUE /\ pending' = <<>> /\ UNCHANGED frames
       \/ /\ ~ Oversize(bytes) /\ Whole(bytes)
          /\ frames' = Append(frames, frame)
          /\ pending' = <<>> /\ UNCHANGED failed
       \/ ~ Oversize(bytes) /\ ~ Whole(bytes) /\ pending' = bytes /\ UNCHANGED <<failed, frames>>
  BY Zenon DEF NextByte
<1> QED
  BY <1>11, <1>12, <1>13, <1>14, Zenon

LEMMA StreamStep == StreamInv /\ [FramesNext]_framesVars => StreamInv'
<1> SUFFICES ASSUME StreamInv, [FramesNext]_framesVars
             PROVE  StreamInv'
  OBVIOUS
<1>1. FramesInv'
  BY FramesStep DEF StreamInv
<1>2. /\ frames \in Seq(Seq(Byte)) /\ delivered \in Seq(Seq(Byte))
  BY Zenon DEF StreamInv, FramesInv, FramesTypeOK
\* What the invariant reads stays, but for what moves from frames to delivered.
<1>3. ASSUME UNCHANGED <<pending, failed, received>>, NoneBetweenCalls',
             ~ failed => delivered' \o frames' = delivered \o frames
      PROVE  StreamInv'
  <2>1. pending' = pending /\ failed' = failed /\ received' = received
    BY <1>3
  <2>2. ParsedSoFar'
    <3>1. CASE failed
      BY <2>1, <3>1, Zenon DEF ParsedSoFar
    <3>2. CASE ~ failed
      <4>1. delivered' \o frames' = delivered \o frames
        BY <1>3, <3>2
      <4> QED
        BY <2>1, <3>2, <4>1 DEF StreamInv, ParsedSoFar
    <3> QED
      BY <3>1, <3>2
  <2>3. FailedAtOversize'
    BY <2>1, Zenon DEF StreamInv, FailedAtOversize
  <2> QED
    BY <1>1, <1>3, <2>2, <2>3, Zenon DEF StreamInv
<1>4. ASSUME NEW n \in 0..MaxReceived, NEW bytes \in [1..n -> Byte], Push(bytes)
      PROVE  StreamInv'
  <2>1. NoneBetweenCalls'
    BY <1>4, Zenon DEF Push, NoneBetweenCalls
  <2>2. UNCHANGED <<pending, failed, received>> /\ delivered' \o frames' = delivered \o frames
    BY <1>4 DEF Push
  <2> QED
    BY <1>3, <2>1, <2>2
<1>5. CASE NextByte
  BY <1>5, NextByteStream
<1>6. CASE Bail
  <2>1. NoneBetweenCalls' /\ UNCHANGED <<pending, failed, received>> /\ failed
    BY <1>6, Zenon DEF Bail, NoneBetweenCalls
  <2> QED
    BY <1>3, <2>1
<1>7. CASE Return
  <2>1. NoneBetweenCalls' /\ UNCHANGED <<pending, failed, received>>
    BY <1>7, Zenon DEF Return, NoneBetweenCalls
  <2>2. delivered' = delivered \o frames /\ frames' = <<>>
    BY <1>7, Zenon DEF Return
  <2>3. (delivered \o frames) \o <<>> = delivered \o frames
    BY <1>2
  <2> QED
    BY <1>3, <2>1, <2>2, <2>3
<1>8. CASE UNCHANGED framesVars
  <2>1. UNCHANGED <<pending, failed, received>> /\ UNCHANGED <<pushing, frames, delivered>>
    BY <1>8 DEF framesVars
  <2>2. NoneBetweenCalls'
    BY <2>1 DEF StreamInv, NoneBetweenCalls
  <2> QED
    BY <1>3, <2>1, <2>2
<1> QED
  BY <1>4, <1>5, <1>6, <1>7, <1>8 DEF FramesNext

\* The whole stream is read as push reads it, byte for byte.
THEOREM StreamInvCorrect == FramesSpec => []StreamInv
BY StreamInit, StreamStep, PTL DEF FramesSpec

\* Behind what is parsed no frame fits, in the buffer or beyond a bad header.
LEMMA NoFrameFollows ==
  ASSUME StreamInv
  PROVE  \E fs \in Seq(Seq(Byte)) : \E q \in 0..Len(received) :
           /\ Parsed(received, fs, q) /\ ~ Fits(received, q)
           /\ ~ failed => fs = delivered \o frames /\ q = Len(received) - Len(pending)
           /\ failed <=> q + Header <= Len(received) /\ HeaderAt(received, q) > Limit
<1>1. /\ received \in Seq(Byte) /\ pending \in Seq(Byte)
      /\ frames \in Seq(Seq(Byte)) /\ delivered \in Seq(Seq(Byte))
  BY Zenon DEF StreamInv, FramesInv, FramesTypeOK
<1>2. CASE failed
  <2>1. PICK fs \in Seq(Seq(Byte)) : \E q \in 0..Len(received) :
               Parsed(received, fs, q) /\ q + Header <= Len(received) /\ HeaderAt(received, q) > Limit
    BY <1>2, Zenon DEF StreamInv, FailedAtOversize, Refused
  <2>2. PICK q \in 0..Len(received) :
               Parsed(received, fs, q) /\ q + Header <= Len(received) /\ HeaderAt(received, q) > Limit
    BY <2>1
  <2>3. HeaderAt(received, q) \in Nat
    BY <1>1, <2>2, HeaderDecodes
  <2>4. ~ Fits(received, q)
    BY <2>2, <2>3, FramesAssumption DEF Fits
  <2> QED
    BY <1>2, <2>2, <2>4, Zenon
<1>3. CASE ~ failed
  <2> DEFINE q == Len(received) - Len(pending)
             fs == delivered \o frames
  <2>1. /\ Parsed(received, fs, q) /\ Len(pending) \in 0..Len(received)
        /\ pending = Piece(received, q, Len(received))
    BY <1>3, Zenon DEF StreamInv, ParsedSoFar
  <2>2. fs \in Seq(Seq(Byte))
    BY <1>1, ConcatIn, Zenon
  <2>3. q \in 0..Len(received) /\ Len(pending) = Len(received) - q
    BY <1>1, <2>1
  <2>4. ASSUME q + Header <= Len(received)
        PROVE  /\ HeaderAt(received, q) \in Nat /\ ~ HeaderAt(received, q) > Limit
               /\ ~ q + Header + HeaderAt(received, q) <= Len(received)
    <3> HIDE DEF q
    <3>1. HeaderAt(received, q) \in Nat /\ Decode(pending) = HeaderAt(received, q)
      BY <1>1, <2>1, <2>3, <2>4, HeaderDecodes, HeaderInPiece
    <3>2. Len(pending) >= Header
      BY <1>1, <2>3, <2>4 DEF Header
    <3>3. HeaderAt(received, q) <= Limit /\ Len(pending) < Header + HeaderAt(received, q)
      BY <3>1, <3>2, Zenon DEF StreamInv, FramesInv, Unfinished
    <3> QED
      BY <1>1, <2>3, <3>1, <3>3, FramesAssumption DEF Header
  <2>5. ~ Fits(received, q)
    BY <2>4, Zenon DEF Fits
  <2> HIDE DEF q, fs
  <2>6. fs = delivered \o frames /\ q = Len(received) - Len(pending)
    BY DEF q, fs
  <2> QED
    BY <1>3, <2>1, <2>2, <2>3, <2>4, <2>5, <2>6, Zenon
<1> QED
  BY <1>2, <1>3

(* However the stream was cut, the frames delivered are those of the       *)
(* stream (stream.rs, every_fragmentation_and_coalescing_has_same_frames). *)
THEOREM SameFramesCorrect == FramesSpec => []SameFramesHoweverCut
<1>1. StreamInv => SameFramesHoweverCut
  <2> SUFFICES ASSUME StreamInv, ~ pushing, ~ failed
               PROVE  delivered = FramesIn(received)
    BY DEF SameFramesHoweverCut
  <2>1. received \in Seq(Byte) /\ delivered \in Seq(Seq(Byte))
    BY Zenon DEF StreamInv, FramesInv, FramesTypeOK
  <2>2. frames = <<>>
    BY DEF StreamInv, NoneBetweenCalls
  <2>3. PICK fs \in Seq(Seq(Byte)), q \in 0..Len(received) :
               Parsed(received, fs, q) /\ ~ Fits(received, q) /\ fs = delivered \o frames
    BY NoFrameFollows, Zenon
  <2>4. fs = delivered
    BY <2>1, <2>2, <2>3
  <2>5. FramesIn(received) = fs
    BY <2>1, <2>3, ParsedIsFramesIn
  <2> QED
    BY <2>4, <2>5
<1> QED
  BY <1>1, StreamInvCorrect, PTL

(* finish passes only on the encoding of the frames delivered, to the last *)
(* byte (stream.rs, malformed_and_truncated_never_pass).                   *)
THEOREM WholeStreamsCorrect == FramesSpec => []OnlyWholeStreamsFinish
<1>1. StreamInv => OnlyWholeStreamsFinish
  <2> SUFFICES ASSUME StreamInv, ~ pushing, ~ Truncated
               PROVE  received = Wire(delivered)
    BY DEF OnlyWholeStreamsFinish
  <2>1. received \in Seq(Byte) /\ delivered \in Seq(Seq(Byte))
    BY Zenon DEF StreamInv, FramesInv, FramesTypeOK
  <2>2. frames = <<>> /\ pending = <<>> /\ ~ failed
    BY Zenon DEF StreamInv, NoneBetweenCalls, Truncated
  <2>3. Parsed(received, delivered \o frames, Len(received) - Len(pending))
    BY <2>2, Zenon DEF StreamInv, ParsedSoFar
  <2>4. delivered \o frames = delivered /\ Len(received) - Len(pending) = Len(received)
    BY <2>1, <2>2
  <2>5. Wire(delivered) = Piece(received, 0, Len(received))
    BY <2>1, <2>3, <2>4, WireGivesBack
  <2> QED
    BY <2>1, <2>5, PieceOfAll
<1> QED
  BY <1>1, StreamInvCorrect, PTL

(* The framer fails on a header beyond the limit right after whole frames, *)
(* and on nothing else (stream.rs, Frames::push).                          *)
THEOREM FailsCorrect == FramesSpec => []FailsOnlyOnOversize
<1>1. StreamInv => FailsOnlyOnOversize
  <2> SUFFICES ASSUME StreamInv PROVE FailsOnlyOnOversize
    OBVIOUS
  <2>1. received \in Seq(Byte)
    BY Zenon DEF StreamInv, FramesInv, FramesTypeOK
  <2>2. PICK fs \in Seq(Seq(Byte)), q \in 0..Len(received) :
               /\ Parsed(received, fs, q) /\ ~ Fits(received, q)
               /\ failed <=> q + Header <= Len(received) /\ HeaderAt(received, q) > Limit
    BY NoFrameFollows, Zenon
  <2>3. FramesIn(received) = fs /\ Wire(fs) = Piece(received, 0, q)
    BY <2>1, <2>2, ParsedIsFramesIn, WireGivesBack
  <2>4. Len(Piece(received, 0, q)) = q
    BY <2>1 DEF Piece
  <2>5. Len(Wire(FramesIn(received))) = q
    BY <2>3, <2>4
  <2>6. Len(received) >= q + Header <=> q + Header <= Len(received)
    BY <2>1 DEF Header
  <2>7. q + Header <= Len(received) =>
          Decode(SubSeq(received, q + 1, q + Header)) = HeaderAt(received, q)
    BY <2>1, HeaderDecodes
  <2> QED
    BY <2>2, <2>5, <2>6, <2>7, Zenon DEF FailsOnlyOnOversize
<1> QED
  BY <1>1, StreamInvCorrect, PTL

-----------------------------------------------------------------------------
(***************************************************************************)
(* The checker of a trace.                                                 *)
(***************************************************************************)
LinesAreNumbered ==
  /\ last \in 0..MaxLine
  /\ \A i \in DOMAIN instances : instances[i].since \in 1..MaxLine /\ instances[i].since <= last

-----------------------------------------------------------------------------
LEMMA AfterStay ==
  ASSUME NEW entry, NEW call, NEW line, Moves(protocol, entry.state, call) = {}
  PROVE  After(entry, call, line) = entry
BY DEF After

\* What moves an entry, field by field.
LEMMA AfterMove ==
  ASSUME NEW entry, NEW call, NEW line, Moves(protocol, entry.state, call) # {}
  PROVE  \E t \in Moves(protocol, entry.state, call) :
           /\ After(entry, call, line).state = t.to
           /\ After(entry, call, line).since = line
           /\ After(entry, call, line).moved = (entry.moved \/ t.to # protocol.initial)
<1> DEFINE t == CHOOSE u \in Moves(protocol, entry.state, call) : TRUE
           m == entry.moved \/ t.to # protocol.initial
<1>1. t \in Moves(protocol, entry.state, call)
  OBVIOUS
<1>2. After(entry, call, line) =
        [state |-> t.to, since |-> line, moved |-> m]
  BY Zenon DEF After
<1>3. /\ After(entry, call, line).state = t.to
      /\ After(entry, call, line).since = line
      /\ After(entry, call, line).moved = m
  <2> HIDE DEF t, m
  <2> QED
    BY <1>2
<1> HIDE DEF t
<1> QED
  BY <1>1, <1>3, Zenon

LEMMA LinesInit == TraceInit => LinesAreNumbered
BY BoundsAssumption DEF TraceInit, LinesAreNumbered

LEMMA LinesStep == LinesAreNumbered /\ [TraceNext]_traceVars => LinesAreNumbered'
<1> SUFFICES ASSUME LinesAreNumbered, [TraceNext]_traceVars
             PROVE  LinesAreNumbered'
  OBVIOUS
<1> USE BoundsAssumption
<1>1. CASE Validate
  BY <1>1 DEF Validate, LinesAreNumbered
<1>2. CASE End
  BY <1>2 DEF End, LinesAreNumbered
<1>3. ASSUME NEW e \in Event, Malformed(e)
      PROVE  LinesAreNumbered'
  BY <1>3 DEF Malformed, LinesAreNumbered
<1>4. ASSUME NEW e \in Event, Check(e)
      PROVE  LinesAreNumbered'
  <2> DEFINE entry == EntryOf(e.instance, e.line)
             after == After(entry, e.call, e.line)
  <2>1. e.line \in 1..MaxLine /\ e.line >= last /\ last' = e.line
    <3>1. e.line # 0 /\ e.line >= last /\ last' = e.line
      BY <1>4, Zenon DEF Check, WellFormed
    <3>2. e.line \in 0..MaxLine
      BY <1>4 DEF Event
    <3> QED
      BY <3>1, <3>2
  <2>2. entry.since \in 1..MaxLine /\ entry.since <= e.line
    BY <2>1 DEF EntryOf, LinesAreNumbered
  <2>3. after.since \in 1..MaxLine /\ after.since <= e.line
    <3>1. CASE Moves(protocol, entry.state, e.call) = {}
      BY <2>2, <3>1, AfterStay
    <3>2. CASE Moves(protocol, entry.state, e.call) # {}
      <4>1. after.since = e.line
        <5> HIDE DEF entry
        <5>1. \E t \in Moves(protocol, entry.state, e.call) :
                /\ After(entry, e.call, e.line).state = t.to
                /\ After(entry, e.call, e.line).since = e.line
                /\ After(entry, e.call, e.line).moved = (entry.moved \/ t.to # protocol.initial)
          BY <3>2, AfterMove
        <5> QED
          BY <5>1, Zenon
      <4> QED
        BY <2>1, <4>1 DEF LinesAreNumbered
    <3> QED
      BY <3>1, <3>2
  <2>4. instances' = [i \in DOMAIN instances \cup {e.instance} |->
                        IF i = e.instance THEN after ELSE instances[i]]
    BY <1>4 DEF Check
  <2>5. ASSUME NEW i \in DOMAIN instances'
        PROVE  instances'[i].since \in 1..MaxLine /\ instances'[i].since <= last'
    <3>1. CASE i = e.instance
      BY <2>1, <2>3, <2>4, <3>1
    <3>2. CASE i # e.instance
      <4>1. i \in DOMAIN instances /\ instances'[i] = instances[i]
        BY <2>4, <2>5, <3>2
      <4> QED
        BY <2>1, <4>1 DEF LinesAreNumbered
    <3> QED
      BY <3>1, <3>2
  <2> QED
    BY <2>1, <2>5 DEF LinesAreNumbered
<1>5. CASE UNCHANGED traceVars
  BY <1>5 DEF traceVars, LinesAreNumbered
<1> QED
  BY <1>1, <1>2, <1>3, <1>4, <1>5 DEF TraceNext

\* A line in an entry is that of an event: never 0, nor later than the last one.
THEOREM LinesCorrect == TraceSpec => []LinesAreNumbered
<1>1. TraceInit => LinesAreNumbered
  BY LinesInit
<1>2. LinesAreNumbered /\ [TraceNext]_traceVars => LinesAreNumbered'
  BY LinesStep
<1> QED
  BY <1>1, <1>2, PTL DEF TraceSpec

-----------------------------------------------------------------------------
(* Types.  Entries are in states of the contract because events are only   *)
(* looked at once it was found valid.                                      *)
TypeInv ==
  /\ TraceTypeOK
  /\ \/ Valid(protocol)
     \/ instances = <<>> /\ violations = {} /\ verdict \in {"parsed", "error"}

LEMMA TypeInit == TraceInit => TypeInv
<1> SUFFICES ASSUME TraceInit PROVE TypeInv
  OBVIOUS
<1>1. DOMAIN instances = {} /\ Range(instances) = {}
  BY DEF TraceInit, Range
<1>2. log \in Seq(Event) /\ Len(log) = 0
  BY DEF TraceInit
<1> QED
  BY <1>1, <1>2, BoundsAssumption DEF TraceInit, TypeInv, TraceTypeOK

\* Whatever was found is found of an instance in an entry's state and lines.
LEMMA FoundTyped ==
  ASSUME TraceTypeOK, NEW i \in Instance, NEW entry \in Entry, NEW line \in 1..MaxLine, NEW causes
  PROVE  \A v \in violations \cup {Violation(i, entry, line, c) : c \in causes} :
           /\ v.instance \in Instance /\ v.state \in States
           /\ v.entered \in 1..MaxLine /\ v.observed \in 1..MaxLine
BY DEF TraceTypeOK, Violation, Entry

LEMMA MovesToStates ==
  ASSUME Valid(protocol), NEW state, NEW call
  PROVE  \A t \in Moves(protocol, state, call) : t.to \in States
BY DEF Valid, Moves, States, Range

LEMMA TypeCheck ==
  ASSUME TypeInv, LinesAreNumbered, NEW e \in Event, Check(e)
  PROVE  TypeInv'
<1> DEFINE entry == EntryOf(e.instance, e.line)
           after == After(entry, e.call, e.line)
<1>1. verdict = "checking" /\ Valid(protocol) /\ UNCHANGED <<protocol, verdict>>
  BY Zenon DEF Check, TypeInv
<1>2. e.instance \in Instance /\ e.line \in 0..MaxLine /\ last' = e.line
  BY DEF Event, Check
<1>3. e.line # 0
  BY Zenon DEF Check, WellFormed
<1>4. e.line \in 1..MaxLine
  BY <1>2, <1>3, BoundsAssumption
<1>5. entry \in Entry
  <2>1. CASE e.instance \in DOMAIN instances
    BY <2>1 DEF EntryOf, TypeInv, TraceTypeOK, Range
  <2>2. CASE e.instance \notin DOMAIN instances
    BY <1>1, <1>4, <2>2 DEF EntryOf, Entry, Valid, States
  <2> QED
    BY <2>1, <2>2
<1>6. after \in Entry
  <2> HIDE DEF entry
  <2>1. CASE Moves(protocol, entry.state, e.call) = {}
    BY <1>5, <2>1, AfterStay
  <2>2. CASE Moves(protocol, entry.state, e.call) # {}
    <3> DEFINE t == CHOOSE u \in Moves(protocol, entry.state, e.call) : TRUE
               m == entry.moved \/ t.to # protocol.initial
    <3>1. after = [state |-> t.to, since |-> e.line, moved |-> m]
      BY <2>2, Zenon DEF After
    <3>2. t.to \in States
      BY <1>1, <2>2, MovesToStates
    <3>3. m \in BOOLEAN
      BY <1>5, Zenon DEF Entry
    <3> HIDE DEF t, m
    <3> QED
      BY <1>4, <3>1, <3>2, <3>3 DEF Entry
  <2> QED
    BY <2>1, <2>2
<1>7. DOMAIN instances' \subseteq Instance /\ Range(instances') \subseteq Entry
  <2> HIDE DEF after
  <2>1. instances' = [i \in DOMAIN instances \cup {e.instance} |->
                        IF i = e.instance THEN after ELSE instances[i]]
    BY DEF Check, after
  <2> QED
    BY <1>2, <1>6, <2>1 DEF Range, TypeInv, TraceTypeOK
<1>8. \A v \in violations' : /\ v.instance \in Instance /\ v.state \in States
                             /\ v.entered \in 1..MaxLine /\ v.observed \in 1..MaxLine
  <2> DEFINE causes == Forbids(protocol, entry.state, e.call) \cup Denial(protocol, entry.state, e.call)
  <2>1. violations' = violations \cup {Violation(e.instance, entry, e.line, c) : c \in causes}
    BY DEF Check
  <2>2. TraceTypeOK
    BY DEF TypeInv
  <2> HIDE DEF causes, entry
  <2> QED
    BY <1>2, <1>4, <1>5, <2>1, <2>2, FoundTyped
<1>9. log' \in Seq(Event) /\ Len(log') <= Budget
  BY BoundsAssumption DEF Check, TypeInv, TraceTypeOK
<1>10. Entry' = Entry /\ States' = States /\ Event' = Event
  BY <1>1 DEF Entry, States, Event
<1> QED
  BY <1>1, <1>2, <1>7, <1>8, <1>9, <1>10 DEF TypeInv, TraceTypeOK

LEMMA TypeEnd == ASSUME TypeInv, LinesAreNumbered, End PROVE TypeInv'
<1>1. /\ verdict = "checking" /\ Valid(protocol) /\ verdict' \in {"done", "error"}
      /\ UNCHANGED <<protocol, instances, last, log>>
  BY Zenon DEF End, TypeInv
<1>2. \A v \in violations' : /\ v.instance \in Instance /\ v.state \in States
                             /\ v.entered \in 1..MaxLine /\ v.observed \in 1..MaxLine
  <2>1. CASE violations' = violations
    BY <2>1 DEF TypeInv, TraceTypeOK
  <2>2. CASE violations' = violations \cup {Violation(i, instances[i], last, Exited) : i \in Outside}
    <3>1. ASSUME NEW i \in Outside
          PROVE  i \in Instance /\ instances[i] \in Entry /\ last \in 1..MaxLine
      <4>1. i \in DOMAIN instances
        BY <3>1, Zenon DEF Outside
      <4> QED
        BY <4>1, BoundsAssumption DEF TypeInv, TraceTypeOK, LinesAreNumbered, Range
    <3> QED
      BY <2>2, <3>1 DEF Violation, Entry, TypeInv, TraceTypeOK
  <2> QED
    BY <2>1, <2>2, Zenon DEF End
<1>3. Entry' = Entry /\ States' = States /\ Event' = Event
  BY <1>1 DEF Entry, States, Event
<1> QED
  BY <1>1, <1>2, <1>3 DEF TypeInv, TraceTypeOK

LEMMA TypeStep == TypeInv /\ LinesAreNumbered /\ [TraceNext]_traceVars => TypeInv'
<1> SUFFICES ASSUME TypeInv, LinesAreNumbered, [TraceNext]_traceVars
             PROVE  TypeInv'
  OBVIOUS
<1>1. ASSUME UNCHANGED <<protocol, instances, violations, last, log>>,
             verdict' \in {"parsed", "checking", "done", "error"},
             Valid(protocol) \/ verdict' \in {"parsed", "error"}
      PROVE  TypeInv'
  BY <1>1 DEF TypeInv, TraceTypeOK, Entry, States, Event
<1>2. CASE Validate
  BY <1>1, <1>2 DEF Validate
<1>3. CASE End
  BY <1>3, TypeEnd
<1>4. ASSUME NEW e \in Event, Malformed(e)
      PROVE  TypeInv'
  <2>1. UNCHANGED <<protocol, instances, violations, last, log>> /\ verdict' = "error"
    BY <1>4, Zenon DEF Malformed
  <2> QED
    BY <1>1, <2>1
<1>5. ASSUME NEW e \in Event, Check(e)
      PROVE  TypeInv'
  BY <1>5, TypeCheck
<1>6. CASE UNCHANGED traceVars
  BY <1>1, <1>6 DEF traceVars, TypeInv, TraceTypeOK
<1> QED
  BY <1>2, <1>3, <1>4, <1>5, <1>6 DEF TraceNext

\* Type correctness: entries and violations are of known instances and of states of the contract.
THEOREM TypeCorrect == TraceSpec => []TraceTypeOK
<1>1. TraceInit => TypeInv
  BY TypeInit
<1>2. TypeInv /\ LinesAreNumbered /\ [TraceNext]_traceVars => TypeInv'
  BY TypeStep
<1>3. TypeInv => TraceTypeOK
  BY DEF TypeInv
<1> QED
  BY <1>1, <1>2, <1>3, LinesCorrect, PTL DEF TraceSpec

-----------------------------------------------------------------------------
(* One instance.  Own(i) gains exactly the violations of i.                *)
LEMMA OwnGrows ==
  ASSUME NEW i, NEW more, violations' = violations \cup more,
         \A v \in more : v.instance = i
  PROVE  Own(i)' = Own(i) \cup {[state |-> v.state, entered |-> v.entered,
                                 observed |-> v.observed, cause |-> v.cause] : v \in more}
BY Zenon DEF Own

LEMMA OwnStays ==
  ASSUME NEW i, NEW more, violations' = violations \cup more,
         \A v \in more : v.instance # i
  PROVE  Own(i)' = Own(i)
BY Zenon DEF Own

\* Typestate reads contracts as ProtocolTrace does.
LEMMA SameContract ==
  /\ Alone!Exited = Exited
  /\ \A p, state : Alone!MayExitIn(p, state) = MayExitIn(p, state)
  /\ \A p, state, call : /\ Alone!Moves(p, state, call) = Moves(p, state, call)
                         /\ Alone!Forbids(p, state, call) = Forbids(p, state, call)
                         /\ Alone!Denial(p, state, call) = Denial(p, state, call)
<1>1. Alone!Exited = Exited
  BY DEF Alone!Exited, Exited
<1>2. \A p, state : Alone!MayExitIn(p, state) = MayExitIn(p, state)
  BY Zenon DEF Alone!MayExitIn, MayExitIn
<1>3. \A p, state, call : Alone!Moves(p, state, call) = Moves(p, state, call)
  BY Zenon DEF Alone!Moves, Moves, Alone!Range, Range
<1>4. \A p, state, call : Alone!Forbids(p, state, call) = Forbids(p, state, call)
  BY Zenon DEF Alone!Forbids, Forbids
<1>5. \A p, state, call : Alone!Denial(p, state, call) = Denial(p, state, call)
  BY Zenon DEF Alone!Denial, Denial, Alone!IsTransition, IsTransition, Alone!Moves, Moves,
               Alone!Range, Range, Alone!Denied, Denied
<1> QED
  BY <1>1, <1>2, <1>3, <1>4, <1>5

\* Before and after an event of its own.
LEMMA OwnEvent ==
  ASSUME LinesAreNumbered, NEW e \in Event, Check(e), e.instance = Watched
  PROVE  Alone!Observe(e.call, e.line)
<1> DEFINE entry == EntryOf(Watched, e.line)
           after == After(entry, e.call, e.line)
           causes == Forbids(protocol, entry.state, e.call) \cup Denial(protocol, entry.state, e.call)
           entered == IF SinceOf(Watched) = 0 THEN e.line ELSE SinceOf(Watched)
<1>1. SinceOf(Watched) = 0 <=> Watched \notin DOMAIN instances
  BY DEF SinceOf, LinesAreNumbered
<1>2. entry.state = StateOf(Watched) /\ entry.since = entered
  BY <1>1 DEF EntryOf, StateOf, SinceOf
<1>3. entry.moved = MovedOf(Watched)
  BY Zenon DEF EntryOf, MovedOf
<1>4. instances' = [i \in DOMAIN instances \cup {Watched} |-> IF i = Watched THEN after ELSE instances[i]]
  BY DEF Check
<1>5. StateOf(Watched)' = after.state /\ SinceOf(Watched)' = after.since
  BY <1>4 DEF StateOf, SinceOf
<1>6. MovedOf(Watched)' = after.moved
  BY <1>4, Zenon DEF MovedOf
<1>7. violations' = violations \cup {Violation(Watched, entry, e.line, c) : c \in causes}
  BY DEF Check
<1>8. Own(Watched)' = Own(Watched) \cup {Alone!Found(c, entered, e.line) : c \in causes}
  <2> DEFINE more == {Violation(Watched, entry, e.line, c) : c \in causes}
             asFound(v) == [state |-> v.state, entered |-> v.entered,
                            observed |-> v.observed, cause |-> v.cause]
  <2>1. ASSUME NEW c
        PROVE  /\ Violation(Watched, entry, e.line, c).instance = Watched
               /\ asFound(Violation(Watched, entry, e.line, c)) = Alone!Found(c, entered, e.line)
    BY <1>2 DEF Violation, Alone!Found
  <2>2. \A v \in more : v.instance = Watched
    BY <2>1
  <2>3. Own(Watched)' = Own(Watched) \cup {asFound(v) : v \in more}
    <3>1. violations' = violations \cup more
      BY <1>7
    <3> HIDE DEF more
    <3> QED
      BY <2>2, <3>1, OwnGrows
  <2>4. {asFound(v) : v \in more} = {Alone!Found(c, entered, e.line) : c \in causes}
    <3> HIDE DEF asFound, causes, entered, entry
    <3> QED
      BY <2>1, Zenon
  <2> QED
    BY <2>3, <2>4
<1>9. protocol' = protocol
  BY DEF Check
<1>9a. Own(Watched)' = Own(Watched) \cup
         {Alone!Found(c, entered, e.line) : c \in Forbids(protocol, StateOf(Watched), e.call)
                                                 \cup Denial(protocol, StateOf(Watched), e.call)}
  <2> HIDE DEF entered, entry
  <2> QED
    BY <1>2, <1>8
<1>10. CASE Moves(protocol, entry.state, e.call) = {}
  <2>1. after = entry
    BY <1>10, AfterStay
  <2>2. StateOf(Watched)' = StateOf(Watched) /\ SinceOf(Watched)' = entered
    BY <1>2, <1>5, <2>1
  <2>3. MovedOf(Watched)' = MovedOf(Watched)
    BY <1>3, <1>6, <2>1, Zenon
  <2>4. Moves(protocol, StateOf(Watched), e.call) = {}
    BY <1>2, <1>10
  <2>5. UNCHANGED <<StateOf(Watched), MovedOf(Watched)>>
    BY <2>2, <2>3
  <2> QED
    BY <1>9, <1>9a, <2>2, <2>4, <2>5, SameContract, Zenon DEF Alone!Observe
<1>11. CASE Moves(protocol, entry.state, e.call) # {}
  <2>1. PICK t \in Moves(protocol, entry.state, e.call) :
          /\ After(entry, e.call, e.line).state = t.to
          /\ After(entry, e.call, e.line).since = e.line
          /\ After(entry, e.call, e.line).moved = (entry.moved \/ t.to # protocol.initial)
    <3> HIDE DEF entry
    <3> QED
      BY <1>11, AfterMove
  <2>2. StateOf(Watched)' = t.to /\ SinceOf(Watched)' = e.line
    BY <1>5, <2>1
  <2>3. MovedOf(Watched)' = (MovedOf(Watched) \/ t.to # protocol.initial)
    BY <1>3, <1>6, <2>1, Zenon
  <2>4. t \in Moves(protocol, StateOf(Watched), e.call)
    BY <1>2, <2>1
  <2> QED
    BY <1>9, <1>9a, <2>2, <2>3, <2>4, SameContract, Zenon DEF Alone!Observe
<1> QED
  BY <1>10, <1>11

\* Any other step leaves the instance alone, or finds it outside its exit states.
LEMMA OtherEvent ==
  ASSUME NEW e \in Event, Check(e), e.instance # Watched
  PROVE  UNCHANGED Alone!vars
<1>1. instances' = [i \in DOMAIN instances \cup {e.instance} |->
                      IF i = e.instance THEN After(EntryOf(e.instance, e.line), e.call, e.line)
                      ELSE instances[i]]
  BY DEF Check
<1>2. /\ Watched \in DOMAIN instances' <=> Watched \in DOMAIN instances
      /\ Watched \in DOMAIN instances => instances'[Watched] = instances[Watched]
  BY <1>1
<1>3. protocol' = protocol
  BY DEF Check
<1>4. StateOf(Watched)' = StateOf(Watched) /\ SinceOf(Watched)' = SinceOf(Watched)
  BY <1>2, <1>3 DEF StateOf, SinceOf
<1>5. MovedOf(Watched)' = MovedOf(Watched)
  BY <1>2, Zenon DEF MovedOf
<1>6. Own(Watched)' = Own(Watched)
  <2> DEFINE entry == EntryOf(e.instance, e.line)
             more == {Violation(e.instance, entry, e.line, c) :
                        c \in Forbids(protocol, entry.state, e.call)
                                \cup Denial(protocol, entry.state, e.call)}
  <2>1. violations' = violations \cup more
    BY DEF Check
  <2>2. \A v \in more : v.instance # Watched
    BY DEF Violation
  <2> HIDE DEF more
  <2> QED
    BY <2>1, <2>2, OwnStays
<1> QED
  BY <1>3, <1>4, <1>5, <1>6 DEF Alone!vars

LEMMA Ending ==
  ASSUME LinesAreNumbered, End
  PROVE  UNCHANGED Alone!vars \/ \E line \in 1..MaxLine : Alone!Exit(line)
<1> DEFINE more == {Violation(i, instances[i], last, Exited) : i \in Outside}
           mine == {Violation(i, instances[i], last, Exited) : i \in Outside \cap {Watched}}
           asFound(v) == [state |-> v.state, entered |-> v.entered,
                          observed |-> v.observed, cause |-> v.cause]
<1>1. /\ UNCHANGED <<protocol, instances, last>>
      /\ violations' = violations \/ violations' = violations \cup more
  BY Zenon DEF End
<1>2. /\ UNCHANGED protocol
      /\ StateOf(Watched)' = StateOf(Watched) /\ SinceOf(Watched)' = SinceOf(Watched)
  BY <1>1 DEF StateOf, SinceOf
<1>3. MovedOf(Watched)' = MovedOf(Watched)
  BY <1>1, Zenon DEF MovedOf
<1>4. CASE violations' = violations
  <2>1. Own(Watched)' = Own(Watched)
    BY <1>4, Zenon DEF Own
  <2> QED
    BY <1>2, <1>3, <2>1 DEF Alone!vars
<1>5. CASE violations' = violations \cup more /\ Watched \notin Outside
  <2>1. \A v \in more : v.instance # Watched
    BY <1>5 DEF Violation
  <2>2. Own(Watched)' = Own(Watched)
    <3> HIDE DEF more
    <3> QED
      BY <1>5, <2>1, OwnStays
  <2> QED
    BY <1>2, <1>3, <2>2 DEF Alone!vars
<1>6. CASE violations' = violations \cup more /\ Watched \in Outside
  <2>1. /\ Watched \in DOMAIN instances
        /\ instances[Watched].moved /\ ~ MayExitIn(protocol, instances[Watched].state)
    BY <1>6, Zenon DEF Outside
  <2>2. MovedOf(Watched) /\ ~ MayExitIn(protocol, StateOf(Watched))
    BY <2>1, Zenon DEF MovedOf, StateOf
  <2>3. last \in 1..MaxLine
    BY <2>1, BoundsAssumption DEF LinesAreNumbered
  <2> DEFINE v == Violation(Watched, instances[Watched], last, Exited)
  <2>4. v.instance = Watched /\ asFound(v) = Alone!Found(Exited, SinceOf(Watched), last)
    BY <2>1 DEF Violation, Alone!Found, StateOf, SinceOf
  <2>5. \A w \in more : w.instance = Watched => w = v
    BY DEF Violation
  <2>6. v \in more
    BY <1>6
  <2>7. Own(Watched)' = Own(Watched) \cup {Alone!Found(Exited, SinceOf(Watched), last)}
    <3> HIDE DEF more, v
    <3>1. Own(Watched)' = Own(Watched) \cup {asFound(v)}
      BY <1>6, <2>4, <2>5, <2>6, Zenon DEF Own
    <3> HIDE DEF asFound
    <3> QED
      BY <3>1, <2>4
  <2>8. UNCHANGED <<protocol, StateOf(Watched), SinceOf(Watched), MovedOf(Watched)>>
    BY <1>2, <1>3
  <2>9. Alone!Exit(last)
    BY <2>2, <2>7, <2>8, SameContract, Zenon DEF Alone!Exit
  <2> QED
    BY <2>3, <2>9, Zenon
<1> QED
  BY <1>1, <1>4, <1>5, <1>6

LEMMA AloneInit == TraceInit => Alone!Init
BY DEF TraceInit, Alone!Init, StateOf, SinceOf, MovedOf, Own

LEMMA AloneStep ==
  LinesAreNumbered /\ [TraceNext]_traceVars => [Alone!Next]_(Alone!vars)
<1> SUFFICES ASSUME LinesAreNumbered, [TraceNext]_traceVars
             PROVE  Alone!Next \/ UNCHANGED Alone!vars
  OBVIOUS
<1>1. ASSUME UNCHANGED <<protocol, instances, violations>>
      PROVE  UNCHANGED Alone!vars
  BY <1>1, Zenon DEF Alone!vars, StateOf, SinceOf, MovedOf, Own
<1>2. CASE Validate
  BY <1>1, <1>2 DEF Validate
<1>3. CASE End
  BY <1>3, Ending, Zenon DEF Alone!Next
<1>4. ASSUME NEW e \in Event, Malformed(e)
      PROVE  UNCHANGED Alone!vars
  BY <1>1, <1>4 DEF Malformed
<1>5. ASSUME NEW e \in Event, Check(e)
      PROVE  Alone!Next \/ UNCHANGED Alone!vars
  <2>1. CASE e.instance # Watched
    BY <1>5, <2>1, OtherEvent
  <2>2. CASE e.instance = Watched
    <3>1. Alone!Observe(e.call, e.line)
      BY <1>5, <2>2, OwnEvent
    <3>2. e.call \in Call /\ e.line \in 0..MaxLine
      BY <1>5 DEF Event
    <3>3. e.line # 0
      BY <1>5, Zenon DEF Check, WellFormed
    <3>4. e.line \in 1..MaxLine
      BY <3>2, <3>3, BoundsAssumption
    <3> QED
      BY <3>1, <3>2, <3>4, Zenon DEF Alone!Next
  <2> QED
    BY <2>1, <2>2
<1>6. CASE UNCHANGED traceVars
  BY <1>1, <1>6 DEF traceVars
<1> QED
  BY <1>2, <1>3, <1>4, <1>5, <1>6 DEF TraceNext

(* InstanceIsIndependent of any instance of any trace of any contracts,    *)
(* which "have independent states" (lib.rs:146).                           *)
THEOREM IndependenceCorrect == TraceSpec => InstanceIsIndependent
<1>1. TraceInit => Alone!Init
  BY AloneInit
<1>2. LinesAreNumbered /\ [TraceNext]_traceVars => [Alone!Next]_(Alone!vars)
  BY AloneStep
<1> QED
  BY <1>1, <1>2, LinesCorrect, PTL DEF TraceSpec, InstanceIsIndependent, Alone!Spec

-----------------------------------------------------------------------------
(* The trace read as a whole.  History(i) is a recursive function; that    *)
(* there is one, that it is the only one, and that one more event leaves   *)
(* what it says of the others, are inductions over the trace.              *)
Stays(p, state, e, i) == e.instance # i \/ Moves(p, state, e.call) = {}

AfterEvent(p, state, e, i) ==
  IF Stays(p, state, e, i) THEN state ELSE (CHOOSE t \in Moves(p, state, e.call) : TRUE).to

HistoryEquation(p, l, i, at) ==
  at = [k \in 0..Len(l) |->
         IF k = 0 THEN p.initial
         ELSE IF l[k].instance # i \/ Moves(p, at[k-1], l[k].call) = {} THEN at[k-1]
         ELSE (CHOOSE t \in Moves(p, at[k-1], l[k].call) : TRUE).to]

Follows(p, l, i, at) ==
  /\ at[0] = p.initial
  /\ \A k \in 1..Len(l) : at[k] = AfterEvent(p, at[k-1], l[k], i)

LEMMA FollowsEquation ==
  ASSUME NEW p, NEW l, Len(l) \in Nat, NEW i, NEW at
  PROVE  HistoryEquation(p, l, i, at) => Follows(p, l, i, at)
<1> SUFFICES ASSUME HistoryEquation(p, l, i, at)
             PROVE  Follows(p, l, i, at)
  OBVIOUS
<1>1. at[0] = p.initial
  BY DEF HistoryEquation
<1>2. ASSUME NEW k \in 1..Len(l)
      PROVE  at[k] = AfterEvent(p, at[k-1], l[k], i)
  <2>1. k \in 0..Len(l) /\ k # 0
    OBVIOUS
  <2> HIDE <1>2
  <2>2. at[k] = IF k = 0 THEN p.initial
                ELSE IF l[k].instance # i \/ Moves(p, at[k-1], l[k].call) = {} THEN at[k-1]
                ELSE (CHOOSE t \in Moves(p, at[k-1], l[k].call) : TRUE).to
    BY <2>1, Zenon DEF HistoryEquation
  <2> QED
    BY <2>1, <2>2, Zenon DEF AfterEvent, Stays
<1> QED
  BY <1>1, <1>2, Zenon DEF Follows

LEMMA EquationSolvable ==
  ASSUME NEW p, NEW l, Len(l) \in Nat, NEW i
  PROVE  \E at : HistoryEquation(p, l, i, at)
<1> DEFINE S == {p.initial} \cup {t.to : t \in Range(p.transitions)}
           step == [k \in 1..Len(l) |-> [s \in S |-> AfterEvent(p, s, l[k], i)]]
<1>1. ASSUME NEW s \in S, NEW e
      PROVE  AfterEvent(p, s, e, i) \in S
  <2>1. CASE Stays(p, s, e, i)
    BY <2>1 DEF AfterEvent
  <2>2. CASE ~ Stays(p, s, e, i)
    <3> DEFINE t == CHOOSE t \in Moves(p, s, e.call) : TRUE
    <3>1. t \in Moves(p, s, e.call) /\ AfterEvent(p, s, e, i) = t.to
      BY <2>2, Zenon DEF AfterEvent, Stays
    <3>2. t \in Range(p.transitions)
      BY <3>1 DEF Moves
    <3> HIDE DEF t
    <3> QED
      BY <3>1, <3>2
  <2> QED
    BY <2>1, <2>2
<1>2. p.initial \in S /\ step \in [1..Len(l) -> [S -> S]]
  BY <1>1
<1>3. PICK f \in [0..Len(l) -> S] : f[0] = p.initial /\ \A k \in 1..Len(l) : f[k] = step[k][f[k-1]]
  <2> DEFINE n == Len(l)
             first == p.initial
  <2>1. n \in Nat /\ first \in S /\ step \in [1..n -> [S -> S]]
    BY <1>2
  <2>2. \E f \in [0..n -> S] : f[0] = first /\ \A k \in 1..n : f[k] = step[k][f[k-1]]
    <3> HIDE DEF step, S, n, first
    <3> QED
      BY ONLY <2>1, Iteration
  <2> QED
    BY <2>2
<1>4. ASSUME NEW k \in 0..Len(l)
      PROVE  f[k] = IF k = 0 THEN p.initial
                    ELSE IF l[k].instance # i \/ Moves(p, f[k-1], l[k].call) = {} THEN f[k-1]
                    ELSE (CHOOSE t \in Moves(p, f[k-1], l[k].call) : TRUE).to
  <2>1. CASE k = 0
    BY <1>3, <2>1
  <2>2. CASE k # 0
    <3>1. k \in 1..Len(l) /\ f[k-1] \in S
      <4> HIDE DEF S
      <4> QED
        BY <2>2
    <3>2. f[k] = AfterEvent(p, f[k-1], l[k], i)
      <4> HIDE DEF S
      <4> QED
        BY <1>3, <3>1
    <3> QED
      BY <2>2, <3>2, Zenon DEF AfterEvent, Stays
  <2> QED
    BY <2>1, <2>2
<1>5. f = [k \in 0..Len(l) |-> f[k]]
  OBVIOUS
<1>6. HistoryEquation(p, l, i, f)
  <2> HIDE DEF S
  <2> QED
    BY <1>4, <1>5, Zenon DEF HistoryEquation
<1> QED
  BY <1>6

HistoryIn(p, l, i) == CHOOSE at : HistoryEquation(p, l, i, at)

LEMMA HistoryFollows ==
  ASSUME NEW p, NEW l, Len(l) \in Nat, NEW i
  PROVE  Follows(p, l, i, HistoryIn(p, l, i))
<1>1. HistoryEquation(p, l, i, HistoryIn(p, l, i))
  BY EquationSolvable, Zenon DEF HistoryIn
<1> QED
  BY <1>1, FollowsEquation

LEMMA FollowersAgree ==
  ASSUME NEW p, NEW l, NEW m, Len(l) \in Nat, Len(m) \in Nat, Len(l) <= Len(m),
         \A k \in 1..Len(l) : m[k] = l[k],
         NEW i, NEW at, NEW bt, Follows(p, l, i, at), Follows(p, m, i, bt)
  PROVE  \A k \in 0..Len(l) : bt[k] = at[k]
<1> DEFINE T == {k \in 0..Len(l) : bt[k] = at[k]}
<1>1. 0 \in T
  BY DEF Follows
<1>2. ASSUME NEW k \in 0..(Len(l) - 1), k \in T
      PROVE  k + 1 \in T
  <2>1. k + 1 \in 1..Len(l) /\ k + 1 \in 1..Len(m) /\ (k + 1) - 1 = k
    OBVIOUS
  <2>2. at[k + 1] = AfterEvent(p, at[k], l[k + 1], i) /\ bt[k + 1] = AfterEvent(p, bt[k], m[k + 1], i)
    BY <2>1 DEF Follows
  <2>3. bt[k + 1] = at[k + 1]
    BY <1>2, <2>1, <2>2
  <2> QED
    BY <2>1, <2>3
<1> HIDE DEF T
<1>3. 0..Len(l) \subseteq T
  BY <1>1, <1>2, UpTo
<1> QED
  BY <1>3 DEF T

(* What one more event changes, in the history and in the entries.         *)
LEMMA HistoryGrows ==
  ASSUME TypeInv, NEW e \in Event, Check(e), NEW i
  PROVE  /\ Len(log) \in Nat /\ Len(log') = Len(log) + 1 /\ log'[Len(log) + 1] = e
         /\ \A k \in 1..Len(log) : log'[k] = log[k]
         /\ History(i)[0] = protocol.initial
         /\ \A k \in 0..Len(log) : History(i)'[k] = History(i)[k]
         /\ History(i)'[Len(log) + 1] = AfterEvent(protocol, History(i)[Len(log)], e, i)
<1> DEFINE n == Len(log)
           at == HistoryIn(protocol, log, i)
           bt == HistoryIn(protocol, log', i)
<1>1. /\ n \in Nat /\ Len(log') = n + 1 /\ log'[n + 1] = e
      /\ \A k \in 1..n : log'[k] = log[k]
  <2>1. log \in Seq(Event) /\ log' = Append(log, e)
    BY DEF TypeInv, TraceTypeOK, Check
  <2> QED
    BY <2>1
<1>2. protocol' = protocol
  BY DEF Check
<1>3. History(i) = at /\ History(i)' = bt
  <2>1. History(i) = HistoryIn(protocol, log, i)
    BY Zenon DEF History, HistoryIn, HistoryEquation
  <2>2. History(i)' = HistoryIn(protocol', log', i)
    BY Zenon DEF History, HistoryIn, HistoryEquation
  <2> QED
    BY <1>2, <2>1, <2>2
<1>4. Follows(protocol, log, i, at) /\ Follows(protocol, log', i, bt)
  BY <1>1, HistoryFollows
<1> HIDE DEF at, bt
<1>5. \A k \in 0..n : bt[k] = at[k]
  <2> DEFINE l == log'
  <2>1. Len(l) \in Nat /\ n <= Len(l) /\ \A k \in 1..n : l[k] = log[k]
    BY <1>1
  <2>2. Follows(protocol, l, i, bt)
    BY <1>4
  <2> HIDE DEF l
  <2> QED
    BY <1>1, <1>4, <2>1, <2>2, FollowersAgree
<1>6. bt[n + 1] = AfterEvent(protocol, at[n], e, i)
  <2>1. n + 1 \in 1..Len(log') /\ (n + 1) - 1 = n /\ n \in 0..n
    BY <1>1
  <2>2. bt[n + 1] = AfterEvent(protocol, bt[(n + 1) - 1], log'[n + 1], i)
    BY <1>4, <2>1, Zenon DEF Follows
  <2> QED
    BY <1>1, <1>5, <2>1, <2>2
<1>7. at[0] = protocol.initial
  BY <1>4 DEF Follows
<1> QED
  BY <1>1, <1>3, <1>5, <1>6, <1>7

LEMMA EntryBefore ==
  ASSUME NEW i, NEW line
  PROVE  /\ EntryOf(i, line).state = StateOf(i)
         /\ EntryOf(i, line).moved = MovedOf(i)
         /\ EntryOf(i, line).since = IF i \in DOMAIN instances THEN SinceOf(i) ELSE line
<1>1. EntryOf(i, line).state = StateOf(i)
  BY DEF EntryOf, StateOf
<1>2. EntryOf(i, line).moved = MovedOf(i)
  BY Zenon DEF EntryOf, MovedOf
<1>3. EntryOf(i, line).since = IF i \in DOMAIN instances THEN SinceOf(i) ELSE line
  BY DEF EntryOf, SinceOf
<1> QED
  BY <1>1, <1>2, <1>3

LEMMA EntryAfter ==
  ASSUME NEW e, Check(e), NEW i
  PROVE  /\ i # e.instance =>
              /\ i \in DOMAIN instances' <=> i \in DOMAIN instances
              /\ StateOf(i)' = StateOf(i)
              /\ SinceOf(i)' = SinceOf(i)
              /\ MovedOf(i)' = MovedOf(i)
         /\ i = e.instance =>
              /\ i \in DOMAIN instances'
              /\ StateOf(i)' = After(EntryOf(i, e.line), e.call, e.line).state
              /\ SinceOf(i)' = After(EntryOf(i, e.line), e.call, e.line).since
              /\ MovedOf(i)' = After(EntryOf(i, e.line), e.call, e.line).moved
<1> DEFINE after == After(EntryOf(e.instance, e.line), e.call, e.line)
<1>1. instances' = [j \in DOMAIN instances \cup {e.instance} |->
                      IF j = e.instance THEN after ELSE instances[j]]
  BY DEF Check
<1>2. protocol' = protocol
  BY DEF Check
<1> HIDE DEF after
<1>3. CASE i # e.instance
  <2>1. /\ i \in DOMAIN instances' <=> i \in DOMAIN instances
        /\ i \in DOMAIN instances => instances'[i] = instances[i]
    BY <1>1, <1>3
  <2>2. StateOf(i)' = StateOf(i) /\ SinceOf(i)' = SinceOf(i)
    BY <1>2, <2>1 DEF StateOf, SinceOf
  <2>3. MovedOf(i)' = MovedOf(i)
    BY <2>1, Zenon DEF MovedOf
  <2> QED
    BY <1>3, <2>1, <2>2, <2>3
<1>4. CASE i = e.instance
  <2>1. i \in DOMAIN instances' /\ instances'[i] = after
    BY <1>1, <1>4
  <2>2. StateOf(i)' = after.state /\ SinceOf(i)' = after.since
    BY <2>1 DEF StateOf, SinceOf
  <2>3. MovedOf(i)' = after.moved
    BY <2>1, Zenon DEF MovedOf
  <2> QED
    BY <1>4, <2>1, <2>2, <2>3, Zenon DEF after
<1> QED
  BY <1>3, <1>4

(* The inductive invariant: an instance's entry is what its history says,  *)
(* and until the end the instances with a violation are those that made a  *)
(* call the contract forbids or denies where they were.                    *)
Causes(state, call) == Forbids(protocol, state, call) \cup Denial(protocol, state, call)

EnteredAt(i, k) ==
  /\ log[k].instance = i /\ log[k].line = SinceOf(i)
  /\ \A j \in k..Len(log) : History(i)[j] = StateOf(i)

Tracks(i) ==
  /\ History(i)[Len(log)] = StateOf(i)
  /\ MovedOf(i) = (\E k \in 1..Len(log) : History(i)[k] # protocol.initial)
  /\ i \in DOMAIN instances => \E k \in 1..Len(log) : EnteredAt(i, k)

Offends(i, k) == log[k].instance = i /\ Causes(History(i)[k-1], log[k].call) # {}

FoundSoFar(i) == (\E v \in violations : v.instance = i) = (\E k \in 1..Len(log) : Offends(i, k))

OnlyEndExits == verdict # "done" => \A v \in violations : v.cause # Exited

TraceInv ==
  /\ TypeInv /\ LinesAreNumbered
  /\ \A i \in Instance : Tracks(i)
  /\ verdict # "done" => \A i \in Instance : FoundSoFar(i)
  /\ OnlyEndExits
  /\ ViolationsPointAtTheirCause
  /\ VerdictFitsTrace

\* An event of another instance leaves i's entry alone and adds nothing to its history.
LEMMA OtherTracks ==
  ASSUME TypeInv, NEW e \in Event, Check(e), NEW i \in Instance, i # e.instance, Tracks(i)
  PROVE  Tracks(i)'
<1> DEFINE n == Len(log)
<1>1. /\ n \in Nat /\ Len(log') = n + 1 /\ log'[n + 1] = e /\ \A k \in 1..n : log'[k] = log[k]
      /\ History(i)[0] = protocol.initial
      /\ \A k \in 0..n : History(i)'[k] = History(i)[k]
      /\ History(i)'[n + 1] = History(i)[n]
  BY HistoryGrows DEF AfterEvent, Stays
<1>2. /\ i \in DOMAIN instances' <=> i \in DOMAIN instances
      /\ StateOf(i)' = StateOf(i) /\ SinceOf(i)' = SinceOf(i) /\ MovedOf(i)' = MovedOf(i)
  BY EntryAfter
<1>3. protocol' = protocol
  BY DEF Check
<1>4. History(i)'[Len(log')] = StateOf(i)'
  BY <1>1, <1>2 DEF Tracks
<1>5. (\E k \in 1..Len(log') : History(i)'[k] # protocol'.initial)
        = (\E k \in 1..n : History(i)[k] # protocol.initial)
  BY <1>1, <1>3
<1>6. MovedOf(i)' = (\E k \in 1..Len(log') : History(i)'[k] # protocol'.initial)
  BY <1>2, <1>5, Zenon DEF Tracks
<1>7. ASSUME i \in DOMAIN instances'
      PROVE  \E k \in 1..Len(log') : EnteredAt(i, k)'
  <2>1. PICK k \in 1..n : EnteredAt(i, k)
    BY <1>2, <1>7 DEF Tracks
  <2>2. log'[k].instance = i /\ log'[k].line = SinceOf(i)'
    BY <1>1, <1>2, <2>1 DEF EnteredAt
  <2>3. ASSUME NEW j \in k..Len(log')
        PROVE  History(i)'[j] = StateOf(i)'
    <3>1. j = n + 1 \/ j \in k..n
      BY <1>1
    <3>2. \A l \in k..n : l \in 0..n /\ History(i)[l] = StateOf(i)
      BY <1>1, <2>1 DEF EnteredAt
    <3> QED
      BY <1>1, <1>2, <3>1, <3>2 DEF Tracks
  <2> QED
    BY <1>1, <2>2, <2>3 DEF EnteredAt
<1> QED
  BY <1>4, <1>6, <1>7, Zenon DEF Tracks

\* An event of i itself moves its entry as it moves its history.
LEMMA OwnTracks ==
  ASSUME TypeInv, NEW e \in Event, Check(e), NEW i \in Instance, i = e.instance, Tracks(i)
  PROVE  Tracks(i)'
<1> DEFINE n == Len(log)
           entry == EntryOf(i, e.line)
<1>1. /\ n \in Nat /\ Len(log') = n + 1 /\ log'[n + 1] = e /\ \A k \in 1..n : log'[k] = log[k]
      /\ History(i)[0] = protocol.initial
      /\ \A k \in 0..n : History(i)'[k] = History(i)[k]
      /\ History(i)'[n + 1] = AfterEvent(protocol, History(i)[n], e, i)
  BY HistoryGrows
<1>2. /\ i \in DOMAIN instances'
      /\ StateOf(i)' = After(entry, e.call, e.line).state
      /\ SinceOf(i)' = After(entry, e.call, e.line).since
      /\ MovedOf(i)' = After(entry, e.call, e.line).moved
  BY EntryAfter
<1>3. /\ entry.state = StateOf(i) /\ entry.moved = MovedOf(i)
      /\ entry.since = IF i \in DOMAIN instances THEN SinceOf(i) ELSE e.line
  BY EntryBefore
<1>4. protocol' = protocol
  BY DEF Check
<1>5. History(i)[n] = entry.state
  BY <1>3 DEF Tracks
<1>5a. PICK new : new = n + 1
  OBVIOUS
<1> HIDE DEF entry
<1>6. CASE Moves(protocol, entry.state, e.call) = {}
  <2>1. /\ StateOf(i)' = entry.state /\ SinceOf(i)' = entry.since /\ MovedOf(i)' = entry.moved
        /\ History(i)'[n + 1] = entry.state
    BY <1>1, <1>2, <1>5, <1>6, AfterStay DEF AfterEvent, Stays
  <2>2. History(i)'[Len(log')] = StateOf(i)'
    BY <1>1, <2>1
  <2>3. (\E k \in 1..Len(log') : History(i)'[k] # protocol'.initial)
          = (\E k \in 1..n : History(i)[k] # protocol.initial)
    BY <1>1, <1>4, <1>5, <2>1
  <2>4. MovedOf(i)' = (\E k \in 1..Len(log') : History(i)'[k] # protocol'.initial)
    BY <1>3, <2>1, <2>3, Zenon DEF Tracks
  <2>5. CASE i \in DOMAIN instances
    <3>1. PICK k \in 1..n : EnteredAt(i, k)
      BY <2>5 DEF Tracks
    <3>2. log'[k].instance = i /\ log'[k].line = SinceOf(i)'
      BY <1>1, <1>3, <2>1, <2>5, <3>1 DEF EnteredAt
    <3>3. ASSUME NEW j \in k..Len(log')
          PROVE  History(i)'[j] = StateOf(i)'
      <4>1. j = n + 1 \/ j \in k..n
        BY <1>1
      <4>2. \A l \in k..n : l \in 0..n /\ History(i)[l] = StateOf(i)
        BY <1>1, <3>1 DEF EnteredAt
      <4> QED
        BY <1>1, <1>3, <2>1, <4>1, <4>2
    <3>4. k \in 1..Len(log') /\ EnteredAt(i, k)'
      BY <1>1, <3>2, <3>3 DEF EnteredAt
    <3> QED
      BY <2>2, <2>4, <3>4, Zenon DEF Tracks
  <2>6. CASE i \notin DOMAIN instances
    <3>1. new \in 1..Len(log') /\ \A j \in new..Len(log') : j = new
      BY <1>1, <1>5a
    <3>2. EnteredAt(i, new)'
      BY <1>1, <1>3, <1>5a, <2>1, <2>6, <3>1 DEF EnteredAt
    <3> QED
      BY <2>2, <2>4, <3>1, <3>2, Zenon DEF Tracks
  <2> QED
    BY <2>5, <2>6
<1>7. CASE Moves(protocol, entry.state, e.call) # {}
  <2> DEFINE t == CHOOSE t \in Moves(protocol, entry.state, e.call) : TRUE
             m == entry.moved \/ t.to # protocol.initial
  <2>1. After(entry, e.call, e.line) = [state |-> t.to, since |-> e.line, moved |-> m]
    BY <1>7, Zenon DEF After
  <2>2. History(i)'[n + 1] = t.to
    <3>1. AfterEvent(protocol, entry.state, e, i) = t.to
      BY <1>7, Zenon DEF AfterEvent, Stays
    <3> QED
      BY <1>1, <1>5, <3>1
  <2>3. StateOf(i)' = t.to /\ SinceOf(i)' = e.line /\ MovedOf(i)' = m
    <3> HIDE DEF t, m
    <3> QED
      BY <1>2, <2>1
  <2> HIDE DEF t
  <2>4. History(i)'[Len(log')] = StateOf(i)'
    BY <1>1, <2>2, <2>3
  <2>5. (\E k \in 1..Len(log') : History(i)'[k] # protocol'.initial)
          = ((\E k \in 1..n : History(i)[k] # protocol.initial) \/ t.to # protocol.initial)
    <3>1. \A k : k \in 1..Len(log') <=> k = n + 1 \/ k \in 1..n
      BY <1>1
    <3>2. \A k \in 1..n : History(i)'[k] = History(i)[k]
      BY <1>1
    <3> HIDE DEF n
    <3> QED
      BY <1>4, <2>2, <3>1, <3>2
  <2>6. MovedOf(i)' = (\E k \in 1..Len(log') : History(i)'[k] # protocol'.initial)
    BY <1>3, <2>3, <2>5, Zenon DEF Tracks
  <2>7. new \in 1..Len(log') /\ \A j \in new..Len(log') : j = new
    BY <1>1, <1>5a
  <2>8. EnteredAt(i, new)'
    BY <1>1, <1>5a, <2>2, <2>3, <2>7 DEF EnteredAt
  <2> QED
    BY <2>4, <2>6, <2>7, <2>8, Zenon DEF Tracks
<1> QED
  BY <1>6, <1>7

\* The violations an event adds are of its instance, for the calls that offend.
LEMMA FoundGrows ==
  ASSUME TypeInv, NEW e \in Event, Check(e), NEW i \in Instance, Tracks(i), FoundSoFar(i)
  PROVE  FoundSoFar(i)'
<1> DEFINE n == Len(log)
           entry == EntryOf(e.instance, e.line)
           more == {Violation(e.instance, entry, e.line, c) : c \in Causes(entry.state, e.call)}
<1>1. /\ n \in Nat /\ Len(log') = n + 1 /\ log'[n + 1] = e /\ \A k \in 1..n : log'[k] = log[k]
      /\ \A k \in 0..n : History(i)'[k] = History(i)[k]
  BY HistoryGrows
<1>2. protocol' = protocol
  BY DEF Check
<1>3. violations' = violations \cup more
  BY DEF Check, Causes
<1>4. \A state, call : Causes(state, call)' = Causes(state, call)
  BY <1>2, Zenon DEF Causes, Forbids, Denial, IsTransition, Moves
<1>5. ASSUME NEW k \in 1..n
      PROVE  Offends(i, k)' = Offends(i, k)
  <2>1. log'[k] = log[k] /\ History(i)'[k-1] = History(i)[k-1]
    BY <1>1
  <2> QED
    BY <1>4, <2>1, Zenon DEF Offends
<1>5a. PICK new : new = n + 1
  OBVIOUS
<1>6. Offends(i, new)' = (e.instance = i /\ Causes(History(i)[n], e.call) # {})
  <2>1. log'[new] = e /\ History(i)'[new - 1] = History(i)[n]
    BY <1>1, <1>5a
  <2> QED
    BY <1>4, <2>1, Zenon DEF Offends
<1>7. (\E v \in more : v.instance = i) = (e.instance = i /\ Causes(History(i)[n], e.call) # {})
  <2>1. e.instance = i => entry.state = History(i)[n]
    BY EntryBefore DEF Tracks
  <2>2. \A c : Violation(e.instance, entry, e.line, c).instance = e.instance
    BY DEF Violation
  <2> HIDE DEF entry
  <2> QED
    BY <2>1, <2>2
<1> HIDE DEF more
<1>8. (\E v \in violations' : v.instance = i)
        = ((\E v \in violations : v.instance = i) \/ \E v \in more : v.instance = i)
  BY <1>3, Zenon
<1>9. (\E k \in 1..Len(log') : Offends(i, k)')
        = ((\E k \in 1..n : Offends(i, k)) \/ Offends(i, new)')
  <2>1. \A k : k \in 1..Len(log') <=> k = new \/ k \in 1..n
    BY <1>1, <1>5a
  <2> HIDE DEF n
  <2> QED
    BY <1>5, <2>1, Zenon
<1> QED
  BY <1>6, <1>7, <1>8, <1>9, Zenon DEF FoundSoFar

\* Where a violation comes from: entered by event k, seen at event m or at the end.
CausedAt(v, k, m) ==
  /\ k <= m /\ log[k].instance = v.instance /\ log[k].line = v.entered
  /\ IF v.cause = Exited THEN m > Len(log) /\ v.observed = last
     ELSE m \in 1..Len(log) /\ log[m].instance = v.instance /\ v.observed = log[m].line
  /\ \A j \in (k..(m - 1)) \cup {m - 1} : History(v.instance)[j] = v.state

LEMMA PointsIsCausedAt ==
  ASSUME log \in Seq(Event)
  PROVE  ViolationsPointAtTheirCause <=>
           \A v \in violations : \E k \in 1..Len(log), m \in 1..(Len(log) + 1) : CausedAt(v, k, m)
<1>1. DOMAIN log = 1..Len(log)
  OBVIOUS
<1> QED
  BY <1>1, Zenon DEF ViolationsPointAtTheirCause, CausedAt

LEMMA CauseIsNoExit ==
  ASSUME protocol \in Protocols, NEW state, NEW call, NEW c \in Causes(state, call)
  PROVE  c # Exited
<1>1. CASE c \in Forbids(protocol, state, call)
  <2>1. c \in DOMAIN protocol.operations /\ protocol.operations \in Seq(Range(protocol.operations))
    BY <1>1, ProtocolsAssumption DEF Forbids
  <2> QED
    BY <2>1 DEF Exited
<1>2. CASE c \in Denial(protocol, state, call)
  BY <1>2 DEF Denial, Denied, Exited
<1> QED
  BY <1>1, <1>2 DEF Causes

\* A violation already found keeps its cause when one more event is read.
LEMMA CauseStays ==
  ASSUME TypeInv, NEW e \in Event, Check(e), NEW v, v.cause # Exited,
         NEW k \in 1..Len(log), NEW m \in 1..(Len(log) + 1), CausedAt(v, k, m)
  PROVE  k \in 1..Len(log') /\ m \in 1..(Len(log') + 1) /\ CausedAt(v, k, m)'
<1>1. /\ Len(log) \in Nat /\ Len(log') = Len(log) + 1
      /\ \A l \in 1..Len(log) : log'[l] = log[l]
      /\ \A l \in 0..Len(log) : History(v.instance)'[l] = History(v.instance)[l]
  BY HistoryGrows
<1>2. m \in 1..Len(log) /\ log[m].instance = v.instance /\ v.observed = log[m].line
  BY DEF CausedAt
<1>3. \A j \in (k..(m - 1)) \cup {m - 1} : j \in 0..Len(log) /\ History(v.instance)[j] = v.state
  BY <1>2 DEF CausedAt
<1>4. \A j \in (k..(m - 1)) \cup {m - 1} : History(v.instance)'[j] = v.state
  BY <1>1, <1>3
<1>5. k <= m /\ log'[k].instance = v.instance /\ log'[k].line = v.entered
  BY <1>1 DEF CausedAt
<1>6. m \in 1..Len(log') /\ log'[m].instance = v.instance /\ v.observed = log'[m].line
  BY <1>1, <1>2
<1>7. k \in 1..Len(log') /\ m \in 1..(Len(log') + 1)
  BY <1>1, <1>6
<1> QED
  BY <1>4, <1>5, <1>6, <1>7, Zenon DEF CausedAt

\* One that the event adds is caused by the entry it found.
LEMMA NewCause ==
  ASSUME TypeInv, NEW e \in Event, Check(e), Tracks(e.instance),
         NEW c \in Causes(StateOf(e.instance), e.call),
         NEW v, v = Violation(e.instance, EntryOf(e.instance, e.line), e.line, c)
  PROVE  \E k \in 1..Len(log'), m \in 1..(Len(log') + 1) : CausedAt(v, k, m)'
<1> DEFINE i == e.instance
           n == Len(log)
           h == History(i)
           g == History(i)'
           entry == EntryOf(i, e.line)
<1>1. /\ n \in Nat /\ Len(log') = n + 1 /\ log'[n + 1] = e /\ \A k \in 1..n : log'[k] = log[k]
      /\ \A k \in 0..n : g[k] = h[k]
  BY HistoryGrows
<1>2. /\ v.instance = i /\ v.observed = e.line /\ v.cause = c /\ v.state = StateOf(i)
      /\ v.entered = IF i \in DOMAIN instances THEN SinceOf(i) ELSE e.line
  BY EntryBefore DEF Violation
<1>3. c # Exited
  BY CauseIsNoExit DEF TypeInv, TraceTypeOK
<1>4. h[n] = StateOf(i)
  BY DEF Tracks
<1>5. PICK m : m = n + 1
  OBVIOUS
<1>6. /\ m \in 1..Len(log') /\ m \in 1..(Len(log') + 1)
      /\ log'[m].instance = v.instance /\ v.observed = log'[m].line
  BY <1>1, <1>2, <1>5
<1>7. g[m - 1] = v.state
  BY <1>1, <1>2, <1>4, <1>5
<1>8. PICK k : /\ k \in 1..Len(log') /\ k <= m
               /\ log'[k].instance = v.instance /\ log'[k].line = v.entered
               /\ \A j \in k..(m - 1) : g[j] = v.state
  <2>1. CASE i \in DOMAIN instances
    <3>1. PICK k \in 1..n : EnteredAt(i, k)
      BY <2>1 DEF Tracks
    <3>2. \A j \in k..(m - 1) : j \in 0..n /\ h[j] = StateOf(i)
      BY <1>1, <1>5, <3>1 DEF EnteredAt
    <3>3. \A j \in k..(m - 1) : g[j] = v.state
      BY <1>1, <1>2, <3>2
    <3>4. k \in 1..Len(log') /\ k <= m /\ log'[k].instance = v.instance /\ log'[k].line = v.entered
      BY <1>1, <1>2, <1>5, <2>1, <3>1 DEF EnteredAt
    <3> QED
      BY <3>3, <3>4
  <2>2. CASE i \notin DOMAIN instances
    BY <1>1, <1>2, <1>5, <1>6, <2>2
  <2> QED
    BY <2>1, <2>2
<1>9. CausedAt(v, k, m)'
  <2>1. History(v.instance)' = g
    BY <1>2
  <2> HIDE DEF g
  <2>2. \A j \in (k..(m - 1)) \cup {m - 1} : History(v.instance)'[j] = v.state
    BY <1>7, <1>8, <2>1
  <2> QED
    BY <1>2, <1>3, <1>6, <1>8, <2>2, Zenon DEF CausedAt
<1> QED
  BY <1>6, <1>8, <1>9

LEMMA TraceCheck ==
  ASSUME TraceInv, NEW e \in Event, Check(e)
  PROVE  TraceInv'
<1> DEFINE i == e.instance
           entry == EntryOf(i, e.line)
           causes == Causes(StateOf(i), e.call)
<1>1. TypeInv' /\ LinesAreNumbered'
  <2>1. [TraceNext]_traceVars
    BY Zenon DEF TraceNext
  <2> QED
    BY <2>1, TypeStep, LinesStep DEF TraceInv
<1>2. \A j \in Instance : Tracks(j)'
  BY OwnTracks, OtherTracks DEF TraceInv
<1>3. verdict = "checking" /\ verdict' = "checking"
  BY DEF Check
<1>4. \A j \in Instance : FoundSoFar(j)'
  BY <1>3, FoundGrows DEF TraceInv
<1>5. violations' = violations \cup {Violation(i, entry, e.line, c) : c \in causes}
  <2>1. violations' = violations \cup {Violation(i, entry, e.line, c) : c \in Causes(entry.state, e.call)}
    BY DEF Check, Causes
  <2>2. entry.state = StateOf(i)
    BY EntryBefore
  <2> HIDE DEF entry
  <2> QED
    BY <2>1, <2>2
<1>6. \A v \in violations : v.cause # Exited
  BY <1>3 DEF TraceInv, OnlyEndExits
<1>7. protocol \in Protocols /\ log \in Seq(Event) /\ log' \in Seq(Event)
  BY <1>1 DEF TraceInv, TypeInv, TraceTypeOK
<1>7a. (log \in Seq(Event))'
  BY <1>1 DEF TypeInv, TraceTypeOK
<1>8. \A v \in violations' : v.cause # Exited
  <2>1. \A c \in causes : Violation(i, entry, e.line, c).cause = c /\ c # Exited
    BY <1>7, CauseIsNoExit DEF Violation
  <2> HIDE DEF causes, entry
  <2> QED
    BY <1>5, <1>6, <2>1
<1>9. \A v \in violations' : \E k \in 1..Len(log'), m \in 1..(Len(log') + 1) : CausedAt(v, k, m)'
  <2> SUFFICES ASSUME NEW v \in violations'
               PROVE  \E k \in 1..Len(log'), m \in 1..(Len(log') + 1) : CausedAt(v, k, m)'
    OBVIOUS
  <2>1. CASE v \in violations
    <3>1. PICK k \in 1..Len(log), m \in 1..(Len(log) + 1) : CausedAt(v, k, m)
      BY <1>7, <2>1, PointsIsCausedAt DEF TraceInv
    <3>2. k \in 1..Len(log') /\ m \in 1..(Len(log') + 1) /\ CausedAt(v, k, m)'
      BY <1>6, <2>1, <3>1, CauseStays DEF TraceInv
    <3> QED
      BY <3>2
  <2>2. CASE v \notin violations
    <3>1. PICK c \in causes : v = Violation(i, entry, e.line, c)
      BY <1>5, <2>2
    <3>2. Tracks(i)
      BY DEF TraceInv, Event
    <3> QED
      BY <3>1, <3>2, NewCause DEF TraceInv
  <2> QED
    BY <2>1, <2>2
<1>10. (ViolationsPointAtTheirCause <=>
          \A v \in violations : \E k \in 1..Len(log), m \in 1..(Len(log) + 1) : CausedAt(v, k, m))'
  BY <1>7a, PointsIsCausedAt, PTL
<1> QED
  BY <1>1, <1>2, <1>3, <1>4, <1>8, <1>9, <1>10 DEF TraceInv, OnlyEndExits, VerdictFitsTrace

\* What is read off the trace and the entries is the same while they are.
LEMMA SameTrace ==
  ASSUME UNCHANGED <<protocol, instances, last, log>>
  PROVE  /\ \A i : Tracks(i)' = Tracks(i)
         /\ \A i, k : Offends(i, k)' = Offends(i, k)
         /\ \A v, k, m : CausedAt(v, k, m)' = CausedAt(v, k, m)
         /\ \A i : Lawful(i)' = Lawful(i)
         /\ \A i : StateOf(i)' = StateOf(i)
<1>1. protocol' = protocol /\ instances' = instances /\ last' = last /\ log' = log
  OBVIOUS
<1>2. ASSUME NEW i
      PROVE  History(i)' = History(i)
  <2>1. History(i) = HistoryIn(protocol, log, i)
    BY Zenon DEF History, HistoryIn, HistoryEquation
  <2>2. History(i)' = HistoryIn(protocol', log', i)
    BY Zenon DEF History, HistoryIn, HistoryEquation
  <2> QED
    BY <1>1, <2>1, <2>2
<1>3. \A i : StateOf(i)' = StateOf(i) /\ SinceOf(i)' = SinceOf(i)
  BY <1>1 DEF StateOf, SinceOf
<1>4. \A i : MovedOf(i)' = MovedOf(i)
  BY <1>1, Zenon DEF MovedOf
<1>5. \A i, k : EnteredAt(i, k)' = EnteredAt(i, k)
  BY <1>1, <1>2, <1>3 DEF EnteredAt
<1>6. \A state, call : Causes(state, call)' = Causes(state, call)
  BY <1>1 DEF Causes
<1>7. \A i, k : Offends(i, k)' = Offends(i, k)
  BY <1>1, <1>2, <1>6 DEF Offends
<1>8. \A i : Tracks(i)' = Tracks(i)
  BY <1>1, <1>2, <1>3, <1>4, <1>5 DEF Tracks
<1>9. \A v, k, m : CausedAt(v, k, m)' = CausedAt(v, k, m)
  BY <1>1, <1>2 DEF CausedAt
<1>10. \A i : Lawful(i)' = Lawful(i)
  BY <1>1, <1>2 DEF Lawful
<1> QED
  BY <1>3, <1>7, <1>8, <1>9, <1>10

\* What a lawful history is, in terms of what the entries say.
LEMMA LawfulMeans ==
  ASSUME log \in Seq(Event), NEW i \in Instance, Tracks(i)
  PROVE  Lawful(i) <=> /\ ~ \E k \in 1..Len(log) : Offends(i, k)
                       /\ MovedOf(i) => MayExitIn(protocol, StateOf(i))
<1>1. DOMAIN log = 1..Len(log)
  OBVIOUS
<1>2. (\E k \in DOMAIN log : History(i)[k] # protocol.initial) = MovedOf(i)
  BY <1>1, Zenon DEF Tracks
<1>3. History(i)[Len(log)] = StateOf(i)
  BY DEF Tracks
<1>4. ASSUME NEW k \in DOMAIN log
      PROVE  Offends(i, k) <=> ~ (log[k].instance = i =>
                                    /\ Forbids(protocol, History(i)[k-1], log[k].call) = {}
                                    /\ Denial(protocol, History(i)[k-1], log[k].call) = {})
  BY Zenon DEF Offends, Causes
<1>5. (~ \E k \in 1..Len(log) : Offends(i, k)) <=>
        \A k \in DOMAIN log : log[k].instance = i =>
          /\ Forbids(protocol, History(i)[k-1], log[k].call) = {}
          /\ Denial(protocol, History(i)[k-1], log[k].call) = {}
  BY <1>1, <1>4, Zenon
<1> QED
  BY <1>2, <1>3, <1>5, Zenon DEF Lawful

LEMMA TraceEnd ==
  ASSUME TraceInv, End
  PROVE  TraceInv'
<1> DEFINE more == {Violation(i, instances[i], last, Exited) : i \in Outside}
<1>1. /\ verdict = "checking"
      /\ UNCHANGED <<protocol, instances, last, log>>
      /\ \/ verdict' = "error" /\ violations' = violations
         \/ verdict' = "done" /\ violations' = violations \cup more
  BY Zenon DEF End
<1>2. TypeInv' /\ LinesAreNumbered'
  <2>1. [TraceNext]_traceVars
    BY DEF TraceNext
  <2> QED
    BY <2>1, TypeStep, LinesStep DEF TraceInv
<1>3. \A i \in Instance : Tracks(i)'
  BY <1>1, SameTrace DEF TraceInv
<1>7. log \in Seq(Event) /\ (log \in Seq(Event))'
  BY <1>2 DEF TraceInv, TypeInv, TraceTypeOK
<1>8. \A v, k, m : CausedAt(v, k, m)' = CausedAt(v, k, m)
  BY <1>1, SameTrace
<1>9. \A v \in violations : \E k \in 1..Len(log), m \in 1..(Len(log) + 1) : CausedAt(v, k, m)
  BY <1>7, PointsIsCausedAt DEF TraceInv
<1>10. (ViolationsPointAtTheirCause <=>
          \A v \in violations : \E k \in 1..Len(log), m \in 1..(Len(log) + 1) : CausedAt(v, k, m))'
  BY <1>7, PointsIsCausedAt, PTL
<1>11. CASE verdict' = "error" /\ violations' = violations
  <2>1. ASSUME NEW i \in Instance, FoundSoFar(i)
        PROVE  FoundSoFar(i)'
    <3>1. \A k : Offends(i, k)' = Offends(i, k)
      BY <1>1, SameTrace
    <3> QED
      BY <1>1, <1>11, <2>1, <3>1, Zenon DEF FoundSoFar
  <2>2. \A i \in Instance : FoundSoFar(i)'
    BY <1>1, <2>1 DEF TraceInv
  <2>3. ViolationsPointAtTheirCause'
    BY <1>1, <1>8, <1>9, <1>10, <1>11
  <2>4. OnlyEndExits' /\ VerdictFitsTrace'
    BY <1>1, <1>11 DEF TraceInv, OnlyEndExits, VerdictFitsTrace
  <2> QED
    BY <1>2, <1>3, <2>2, <2>3, <2>4 DEF TraceInv
<1>12. CASE verdict' = "done" /\ violations' = violations \cup more
  <2>1. ASSUME NEW v \in more
        PROVE  \E k \in 1..Len(log), m \in 1..(Len(log) + 1) : CausedAt(v, k, m)
    <3>1. PICK i \in Outside : v = Violation(i, instances[i], last, Exited)
      OBVIOUS
    <3>2. i \in DOMAIN instances /\ i \in Instance /\ Tracks(i) /\ Len(log) \in Nat
      <4>1. i \in DOMAIN instances
        BY Zenon DEF Outside
      <4> QED
        BY <1>7, <4>1 DEF TraceInv, TypeInv, TraceTypeOK
    <3>3. PICK k \in 1..Len(log) : EnteredAt(i, k)
      BY <3>2, Zenon DEF Tracks
    <3>4. /\ v.instance = i /\ v.observed = last /\ v.cause = Exited
          /\ v.state = StateOf(i) /\ v.entered = SinceOf(i)
      BY <3>1, <3>2 DEF Violation, StateOf, SinceOf
    <3>5. \A j \in (k..((Len(log) + 1) - 1)) \cup {(Len(log) + 1) - 1} : History(i)[j] = StateOf(i)
      BY <3>2, <3>3 DEF EnteredAt
    <3>6. CausedAt(v, k, Len(log) + 1)
      BY <3>2, <3>3, <3>4, <3>5 DEF CausedAt, EnteredAt
    <3> QED
      BY <3>2, <3>6
  <2>2. ViolationsPointAtTheirCause'
    <3> HIDE DEF more
    <3> QED
      BY <1>1, <1>8, <1>9, <1>10, <1>12, <2>1
  <2>3. ASSUME NEW i \in Instance
        PROVE  (\E v \in more : v.instance = i) <=> MovedOf(i) /\ ~ MayExitIn(protocol, StateOf(i))
    <3>1. (\E v \in more : v.instance = i) <=> i \in Outside
      <4>1. \A j : Violation(j, instances[j], last, Exited).instance = j
        BY DEF Violation
      <4> QED
        BY <4>1
    <3>2. i \in Outside <=> MovedOf(i) /\ ~ MayExitIn(protocol, StateOf(i))
      BY Zenon DEF Outside, MovedOf, StateOf
    <3> QED
      BY <3>1, <3>2
  <2>4. ASSUME NEW i \in Instance
        PROVE  Lawful(i)' <=> ~ \E v \in violations' : v.instance = i
    <3>1. Lawful(i)' = Lawful(i)
      BY <1>1, SameTrace
    <3>2. (\E v \in violations' : v.instance = i)
            <=> (\E v \in violations : v.instance = i) \/ (\E v \in more : v.instance = i)
      <4> HIDE DEF more
      <4> QED
        BY <1>12
    <3>3. FoundSoFar(i) /\ Tracks(i)
      BY <1>1 DEF TraceInv
    <3> HIDE DEF more
    <3> QED
      BY <1>7, <2>3, <3>1, <3>2, <3>3, LawfulMeans, Zenon DEF FoundSoFar
  <2>5. VerdictFitsTrace' /\ OnlyEndExits'
    BY <1>12, <2>4 DEF VerdictFitsTrace, OnlyEndExits
  <2> QED
    BY <1>2, <1>3, <1>12, <2>2, <2>5 DEF TraceInv
<1> QED
  BY <1>1, <1>11, <1>12

LEMMA TraceInvInit == TraceInit => TraceInv
<1> SUFFICES ASSUME TraceInit PROVE TraceInv
  OBVIOUS
<1>1. TypeInv /\ LinesAreNumbered
  BY TypeInit, LinesInit
<1>2. log = <<>> /\ instances = <<>> /\ violations = {} /\ verdict = "parsed" /\ Len(log) = 0
  BY DEF TraceInit
<1>3. ASSUME NEW i \in Instance
      PROVE  Tracks(i) /\ FoundSoFar(i)
  <2>1. i \notin DOMAIN instances
    BY <1>2
  <2>2. History(i)[0] = protocol.initial
    <3>1. History(i) = HistoryIn(protocol, log, i)
      BY Zenon DEF History, HistoryIn, HistoryEquation
    <3> QED
      BY <1>2, <3>1, HistoryFollows DEF Follows
  <2>3. StateOf(i) = protocol.initial /\ MovedOf(i) = FALSE
    BY <2>1, Zenon DEF StateOf, MovedOf
  <2>4. ~ \E k \in 1..Len(log) : TRUE
    BY <1>2
  <2>5. Tracks(i)
    <3>1. (\E k \in 1..Len(log) : History(i)[k] # protocol.initial) = FALSE
      BY <2>4
    <3> QED
      BY <1>2, <2>1, <2>2, <2>3, <3>1, Zenon DEF Tracks
  <2>6. (\E v \in violations : v.instance = i) = (\E k \in 1..Len(log) : Offends(i, k))
    BY <1>2, <2>4
  <2> QED
    BY <2>5, <2>6, Zenon DEF FoundSoFar
<1> QED
  BY <1>1, <1>2, <1>3
  DEF TraceInv, OnlyEndExits, VerdictFitsTrace, ViolationsPointAtTheirCause

LEMMA TraceInvStep == TraceInv /\ [TraceNext]_traceVars => TraceInv'
<1> SUFFICES ASSUME TraceInv, [TraceNext]_traceVars
             PROVE  TraceInv'
  OBVIOUS
<1>1. ASSUME UNCHANGED <<protocol, instances, violations, last, log>>,
             verdict' = "done" => verdict = "done", verdict = "done" => verdict' = "done"
      PROVE  TraceInv'
  <2>1. TypeInv' /\ LinesAreNumbered'
    BY TypeStep, LinesStep DEF TraceInv
  <2>2. \A i : Tracks(i)' = Tracks(i) /\ FoundSoFar(i)' = FoundSoFar(i)
    BY <1>1, SameTrace DEF FoundSoFar
  <2>3. ViolationsPointAtTheirCause'
    <3>1. log \in Seq(Event) /\ (log \in Seq(Event))'
      BY <2>1 DEF TraceInv, TypeInv, TraceTypeOK
    <3>2. (ViolationsPointAtTheirCause <=>
             \A v \in violations : \E k \in 1..Len(log), m \in 1..(Len(log) + 1) : CausedAt(v, k, m))'
      BY <3>1, PointsIsCausedAt, PTL
    <3>3. \A v \in violations : \E k \in 1..Len(log), m \in 1..(Len(log) + 1) : CausedAt(v, k, m)
      BY <3>1, PointsIsCausedAt DEF TraceInv
    <3> QED
      BY <1>1, <3>2, <3>3, SameTrace
  <2>4. \A i : Lawful(i)' = Lawful(i)
    BY <1>1, SameTrace
  <2> QED
    BY <1>1, <2>1, <2>2, <2>3, <2>4 DEF TraceInv, OnlyEndExits, VerdictFitsTrace
<1>2. CASE Validate
  BY <1>1, <1>2 DEF Validate
<1>3. CASE End
  BY <1>3, TraceEnd
<1>4. ASSUME NEW e \in Event, Malformed(e)
      PROVE  TraceInv'
  <2>1. /\ UNCHANGED <<protocol, instances, violations, last, log>>
        /\ verdict = "checking" /\ verdict' = "error"
    BY <1>4, Zenon DEF Malformed
  <2> QED
    BY <1>1, <2>1
<1>5. ASSUME NEW e \in Event, Check(e)
      PROVE  TraceInv'
  BY <1>5, TraceCheck
<1>6. CASE UNCHANGED traceVars
  BY <1>1, <1>6 DEF traceVars
<1> QED
  BY <1>2, <1>3, <1>4, <1>5, <1>6 DEF TraceNext

LEMMA TraceInvariant == TraceSpec => []TraceInv
<1>1. TraceInit => TraceInv
  BY TraceInvInit
<1>2. TraceInv /\ [TraceNext]_traceVars => TraceInv'
  BY TraceInvStep
<1> QED
  BY <1>1, <1>2, PTL DEF TraceSpec

(* VerdictFitsTrace, of any trace under any contracts: an instance has a   *)
(* violation exactly when its own calls break the contract                 *)
(* (lib.rs:143-150), which Lawful reads off the trace as a whole.          *)
THEOREM VerdictCorrect == TraceSpec => []VerdictFitsTrace
<1>1. TraceInv => VerdictFitsTrace
  BY DEF TraceInv
<1> QED
  BY <1>1, TraceInvariant, PTL

(* ViolationsPointAtTheirCause, of any trace: entered_at and observed_at   *)
(* are the events between which the instance was in the state named.       *)
THEOREM CausesCorrect == TraceSpec => []ViolationsPointAtTheirCause
<1>1. TraceInv => ViolationsPointAtTheirCause
  BY DEF TraceInv
<1> QED
  BY <1>1, TraceInvariant, PTL
=============================================================================
