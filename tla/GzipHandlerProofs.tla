-------------------------- MODULE GzipHandlerProofs --------------------------
(* Proofs about GzipHandler: what reaches a client, and who has a writer,  *)
(* for any number of requests, writers and pieces.                         *)
EXTENDS GzipHandler, SequenceTheorems, TLAPS

-----------------------------------------------------------------------------
(* Sequences.                                                              *)

(* Two parts that agree with a sequence are the sequence.                  *)
LEMMA Splits ==
    ASSUME NEW S, NEW t \in Seq(S), NEW k \in 0 .. Len(t),
           NEW u \in Seq(S), NEW v \in Seq(S),
           Len(u) = k, Len(v) = Len(t) - k,
           \A i \in 1 .. k : u[i] = t[i],
           \A i \in 1 .. Len(t) - k : v[i] = t[k + i]
    PROVE  u \o v = t
<1>1. u \o v \in Seq(S) /\ Len(u \o v) = Len(t)
  OBVIOUS
<1>2. ASSUME NEW i \in 1 .. Len(t)
      PROVE  (u \o v)[i] = t[i]
  <2>1. CASE i <= k
    BY <2>1
  <2>2. CASE i > k
    <3>1. i - k \in 1 .. Len(t) - k /\ k + (i - k) = i
      BY <2>2
    <3>2. (u \o v)[i] = v[i - k]
      BY <3>1, <2>2
    <3> QED
      BY <3>1, <3>2
  <2> QED
    BY <2>1, <2>2
<1> QED
  BY <1>1, <1>2, SeqEqual

LEMMA Regroup ==
    ASSUME NEW S, NEW s \in Seq(S), NEW t \in Seq(S), NEW u \in Seq(S)
    PROVE  (s \o t) \o u = s \o (t \o u)
OBVIOUS

(* What a writer passes on and what it keeps is what it had.               *)
LEMMA SplitAfter ==
    ASSUME NEW S, NEW s \in Seq(S), NEW t \in Seq(S), NEW k \in 0 .. Len(t)
    PROVE  /\ SubSeq(t, 1, k) \in Seq(S)
           /\ SubSeq(t, k + 1, Len(t)) \in Seq(S)
           /\ (s \o SubSeq(t, 1, k)) \o SubSeq(t, k + 1, Len(t)) = s \o t
<1> DEFINE u == SubSeq(t, 1, k)
           v == SubSeq(t, k + 1, Len(t))
<1>1. u \in Seq(S) /\ v \in Seq(S)
  OBVIOUS
<1>2. /\ Len(u) = k /\ \A i \in 1 .. k : u[i] = t[i]
      /\ Len(v) = Len(t) - k /\ \A i \in 1 .. Len(t) - k : v[i] = t[k + i]
  OBVIOUS
<1> HIDE DEF u, v
<1>3. u \o v = t
  BY <1>1, <1>2, Splits
<1>r. \A a, b, c \in Seq(S) : (a \o b) \o c = a \o (b \o c)
  BY Regroup
<1>4. (s \o u) \o v = s \o (u \o v)
  BY <1>1, <1>r, Zenon
<1>5. (s \o u) \o v = s \o t
  BY <1>3, <1>4
<1> QED
  BY <1>1, <1>5 DEF u, v

LEMMA AppendAfter ==
    ASSUME NEW S
    PROVE  \A s, t \in Seq(S), e \in S : s \o Append(t, e) = Append(s \o t, e)
OBVIOUS

-----------------------------------------------------------------------------
(* Pieces.                                                                 *)

LEMMA PiecesTyped ==
    ASSUME TypeOK, NEW r \in Requests
    PROVE  /\ Trailer(r) \in AnyPiece
           /\ \A n \in Nat : Piece("plain", r, n) \in AnyPiece
           /\ \A n \in Nat : Piece("gzip", r, n) \in AnyPiece
BY DEF Trailer, Piece, AnyPiece

(* What was written grows by the next piece.                               *)
LEMMA PiecesGrow ==
    ASSUME TypeOK, NEW form, NEW r \in Requests,
           written'[r] = written[r] + 1
    PROVE  Pieces(form, r)' = Append(Pieces(form, r), Piece(form, r, written[r] + 1))
<1>1. written[r] \in Nat
  BY DEF TypeOK
<1> QED
  BY <1>1 DEF Pieces

LEMMA PiecesAreSame ==
    ASSUME NEW form, NEW r, written'[r] = written[r]
    PROVE  Pieces(form, r)' = Pieces(form, r)
BY DEF Pieces

LEMMA NothingWritten ==
    ASSUME NEW form, NEW r, written[r] = 0
    PROVE  Pieces(form, r) = << >>
BY DEF Pieces

(* A request of which nothing changes stays sound.                         *)
LEMMA OthersKeep ==
    ASSUME IInv, NEW q \in Requests,
           stage'[q] = stage[q], header'[q] = header[q], sent'[q] = sent[q],
           writer'[q] = writer[q], gzipWriter'[q] = gzipWriter[q],
           written'[q] = written[q], body'[q] = body[q],
           writer[q] = "gzip" /\ stage[q] \notin {"putting", "returned"} =>
              /\ target'[gzipWriter[q]] = target[gzipWriter[q]]
              /\ pending'[gzipWriter[q]] = pending[gzipWriter[q]]
    PROVE  DecisionIsSound(q)' /\ OutputIsSound(q)'
<1>1. DecisionIsSound(q) /\ OutputIsSound(q)
  BY DEF IInv
<1>2. \A form : Pieces(form, q)' = Pieces(form, q)
  BY PiecesAreSame
<1>3. Trailer(q)' = Trailer(q)
  BY DEF Trailer, Piece
<1> QED
  BY <1>1, <1>2, <1>3 DEF DecisionIsSound, OutputIsSound

-----------------------------------------------------------------------------
(* The steps.                                                              *)

LEMMA InitIInv == Init => IInv
<1> SUFFICES ASSUME Init PROVE IInv
  OBVIOUS
<1>1. TypeOK
  BY ConstantsAssumption DEF Init, TypeOK, Header, Untyped
<1>2. WritersAreKept
  BY ConstantsAssumption DEF Init, WritersAreKept, Holds
<1>3. ASSUME NEW r \in Requests
      PROVE  DecisionIsSound(r) /\ OutputIsSound(r)
  <2>1. Pieces("plain", r) = << >>
    BY NothingWritten DEF Init
  <2> QED
    BY <2>1 DEF Init, DecisionIsSound, OutputIsSound, NotSent, Untyped
<1> QED
  BY <1>1, <1>2, <1>3 DEF IInv

(* A writer changes hands only when it is taken or put back.               *)
LEMMA WritersKeptIfSame ==
    ASSUME IInv, NEW r \in Requests, NEW s, Goes(r, s),
           UNCHANGED <<gzipWriter, pool>>, stage[r] # "returned",
           s = "returned" => gzipWriter[r] = NoWriter
    PROVE  WritersAreKept'
<1>1. DOMAIN stage = Requests /\ stage' = [stage EXCEPT ![r] = s]
  BY DEF IInv, TypeOK, Goes
<1>2. ASSUME NEW q \in Requests, NEW w \in Writers
      PROVE  Holds(q, w)' <=> Holds(q, w)
  <2>1. w # NoWriter
    BY ConstantsAssumption
  <2> QED
    BY <1>1, <2>1 DEF Holds
<1> QED
  BY <1>2 DEF IInv, WritersAreKept

LEMMA SetHeaderKeeps ==
    ASSUME IInv, NEW r \in Requests, SetHeader(r)
    PROVE  IInv'
<1>1. TypeOK'
  BY ConstantsAssumption DEF IInv, TypeOK, SetHeader, output
<1>2. WritersAreKept'
  BY DEF IInv, WritersAreKept, SetHeader, Holds
<1>3. DecisionIsSound(r)'
  BY ConstantsAssumption DEF IInv, TypeOK, DecisionIsSound, SetHeader, output
<1>4. OutputIsSound(r)'
  <2>1. \A form : Pieces(form, r)' = Pieces(form, r)
    BY PiecesAreSame DEF SetHeader, output
  <2> QED
    BY <2>1 DEF IInv, OutputIsSound, SetHeader, output, Trailer, Piece
<1>5. \A q \in Requests \ {r} : DecisionIsSound(q)' /\ OutputIsSound(q)'
  BY OthersKeep DEF SetHeader, output, IInv, TypeOK
<1> QED
  BY <1>1, <1>2, <1>3, <1>4, <1>5 DEF IInv

LEMMA SendPlainKeeps ==
    ASSUME IInv, NEW r \in Requests, NEW h \in Header,
           h.encoding # "gzip", stage[r] = "handling", sent[r] = NotSent,
           NEW s \in {"handling", "writing"}, SendPlain(r, h, s),
           UNCHANGED output
    PROVE  IInv'
<1>1. TypeOK'
  BY DEF IInv, TypeOK, SendPlain, Sends, Goes, output
<1>2. WritersAreKept'
  BY WritersKeptIfSame DEF SendPlain
<1>n. writer[r] # "gzip" /\ written[r] = 0 /\ gzipWriter[r] = NoWriter
  BY DEF IInv, DecisionIsSound, TypeOK, NotSent
<1>h. h # NotSent
  BY DEF Header, NotSent
<1>3. DecisionIsSound(r)'
  BY <1>n, <1>h DEF IInv, TypeOK, SendPlain, Sends, Goes, output, DecisionIsSound
<1>4. OutputIsSound(r)'
  <2>1. Pieces("plain", r)' = Pieces("plain", r)
    BY PiecesAreSame DEF output
  <2>2. Pieces("plain", r) = body[r]
    BY <1>n, NothingWritten DEF IInv, OutputIsSound, DecisionIsSound, TypeOK
  <2> QED
    BY <2>1, <2>2 DEF IInv, TypeOK, OutputIsSound, SendPlain, output
<1>5. \A q \in Requests \ {r} : DecisionIsSound(q)' /\ OutputIsSound(q)'
  BY OthersKeep DEF SendPlain, Sends, Goes, output, IInv, TypeOK
<1> QED
  BY <1>1, <1>2, <1>3, <1>4, <1>5 DEF IInv

LEMMA TakeWriterKeeps ==
    ASSUME IInv, NEW r \in Requests, NEW h \in Header,
           stage[r] = "handling", sent[r] = NotSent,
           NEW s \in {"handling", "writing"}, TakeWriter(r, h, s),
           UNCHANGED output
    PROVE  IInv'
<1>t. PICK w \in pool :
         gzipWriter' = [gzipWriter EXCEPT ![r] = w] /\ pool' = pool \ {w}
  BY DEF TakeWriter
<1>n. writer[r] = "nil" /\ gzipWriter[r] = NoWriter /\ w \in Writers
  BY DEF TakeWriter, IInv, DecisionIsSound, TypeOK
<1>1. TypeOK'
  BY <1>t, <1>n DEF IInv, TypeOK, TakeWriter, Goes, output, Header
<1>2. WritersAreKept'
  <2>0. /\ gzipWriter'[r] = w /\ stage'[r] # "returned"
        /\ \A q \in Requests \ {r} :
              gzipWriter'[q] = gzipWriter[q] /\ stage'[q] = stage[q]
    BY <1>t DEF IInv, TypeOK, TakeWriter, Goes
  <2>n. \A v \in Writers : ~Holds(r, v)
    BY <1>n, ConstantsAssumption DEF Holds
  <2>1. ASSUME NEW q \in Requests, NEW v \in Writers
        PROVE  Holds(q, v)' <=> Holds(q, v) \/ (q = r /\ v = w)
    <3>1. CASE q = r
      BY <2>0, <2>n, <3>1 DEF Holds
    <3>2. CASE q # r
      <4>1. gzipWriter'[q] = gzipWriter[q] /\ stage'[q] = stage[q]
        BY <2>0, <3>2
      <4> QED
        BY <3>2, <4>1 DEF Holds
    <3> QED
      BY <3>1, <3>2
  <2>2. \A q \in Requests : ~Holds(q, w)
    BY <1>n DEF IInv, WritersAreKept
  <2>3. \A v \in Writers : v \in pool' <=> v \in pool /\ v # w
    BY <1>t
  <2>4. WritersAreKept
    BY DEF IInv
  <2> HIDE DEF Holds
  <2>5. ASSUME NEW v \in Writers
        PROVE  v \in pool' <=> ~\E q \in Requests : Holds(q, v)'
    <3>1. CASE v = w
      <4>1. Holds(r, v)' /\ v \notin pool'
        BY <2>1, <2>3, <3>1
      <4> QED
        BY <4>1
    <3>2. CASE v # w
      <4>1. v \in pool <=> ~\E q \in Requests : Holds(q, v)
        BY <2>4 DEF WritersAreKept
      <4>2. \A q \in Requests : Holds(q, v)' <=> Holds(q, v)
        BY <2>1, <3>2
      <4> QED
        BY <2>3, <3>2, <4>1, <4>2
    <3> QED
      BY <3>1, <3>2
  <2>6. ASSUME NEW v \in Writers, NEW p \in Requests, NEW q \in Requests,
               Holds(p, v)', Holds(q, v)'
        PROVE  p = q
    BY <2>1, <2>2, <2>4, <2>6 DEF WritersAreKept
  <2> QED
    BY <2>5, <2>6 DEF WritersAreKept
<1>3. DecisionIsSound(r)'
  <2>1. r \in Accepting /\ w # NoWriter
    BY <1>n, ConstantsAssumption DEF IInv, DecisionIsSound
  <2> QED
    BY <1>t, <1>n, <2>1 DEF IInv, TypeOK, TakeWriter, Goes, output,
                            DecisionIsSound, isCompressable, Header
<1>4. OutputIsSound(r)'
  BY <1>n DEF OutputIsSound, TakeWriter
<1>5. \A q \in Requests \ {r} : DecisionIsSound(q)' /\ OutputIsSound(q)'
  BY <1>t, OthersKeep DEF TakeWriter, Goes, output, IInv, TypeOK
<1> QED
  BY <1>1, <1>2, <1>3, <1>4, <1>5 DEF IInv

LEMMA WriteHeaderKeeps ==
    ASSUME IInv, NEW r \in Requests, WriteHeader(r)
    PROVE  IInv'
<1>1. stage[r] = "handling" /\ sent[r] = NotSent
  BY DEF WriteHeader
<1>2. header[r] \in Header /\ header[r].encoding # "gzip"
  BY <1>1 DEF IInv, TypeOK, DecisionIsSound, NotSent
<1> QED
  BY <1>1, <1>2, SendPlainKeeps, TakeWriterKeeps DEF WriteHeader

LEMMA WriteFirstKeeps ==
    ASSUME IInv, NEW r \in Requests, WriteFirst(r)
    PROVE  IInv'
<1>1. stage[r] = "handling" /\ sent[r] = NotSent
  BY DEF WriteFirst, MayWrite
<1>2. header[r] \in Header /\ header[r].encoding # "gzip"
  BY <1>1 DEF IInv, TypeOK, DecisionIsSound, NotSent
<1>3. PICK h \in Typed(header[r]) :
         SendPlain(r, h, "writing") \/ TakeWriter(r, h, "writing")
  BY DEF WriteFirst
<1>4. h \in Header /\ h.encoding # "gzip"
  BY <1>2 DEF Typed, Header
<1>5. UNCHANGED output
  BY DEF WriteFirst
<1> QED
  BY <1>1, <1>3, <1>4, <1>5, SendPlainKeeps, TakeWriterKeeps

LEMMA WriteMoreKeeps ==
    ASSUME IInv, NEW r \in Requests, WriteMore(r)
    PROVE  IInv'
<1>1. TypeOK'
  BY DEF IInv, TypeOK, WriteMore, MayWrite, Goes, decision, output
<1>2. WritersAreKept'
  BY WritersKeptIfSame DEF WriteMore, MayWrite, decision
<1>3. DecisionIsSound(r)'
  <2>1. writer[r] # "nil"
    BY DEF IInv, DecisionIsSound, WriteMore, MayWrite
  <2> QED
    BY <2>1 DEF IInv, TypeOK, DecisionIsSound, WriteMore, MayWrite, Goes,
                decision, output
<1>4. OutputIsSound(r)'
  <2>1. \A form : Pieces(form, r)' = Pieces(form, r)
    BY PiecesAreSame DEF WriteMore, output
  <2> QED
    BY <2>1 DEF IInv, TypeOK, OutputIsSound, WriteMore, MayWrite, Goes,
                decision, output
<1>5. \A q \in Requests \ {r} : DecisionIsSound(q)' /\ OutputIsSound(q)'
  BY OthersKeep DEF WriteMore, Goes, decision, output, IInv, TypeOK
<1> QED
  BY <1>1, <1>2, <1>3, <1>4, <1>5 DEF IInv

(* Another request that has a writer has another one.                      *)
LEMMA OwnWriter ==
    ASSUME IInv, NEW r \in Requests, NEW q \in Requests, q # r,
           gzipWriter[r] # NoWriter, stage[r] # "returned",
           stage[q] # "returned"
    PROVE  gzipWriter[q] # gzipWriter[r]
<1>1. gzipWriter[r] \in Writers
  BY DEF IInv, TypeOK
<1> QED
  BY <1>1 DEF IInv, WritersAreKept, Holds

LEMMA ResetWriterKeeps ==
    ASSUME IInv, NEW r \in Requests, ResetWriter(r)
    PROVE  IInv'
<1>n. /\ gzipWriter[r] \in Writers /\ gzipWriter[r] # NoWriter
      /\ writer[r] = "nil" /\ written[r] = 0 /\ body[r] = << >>
      /\ after[r] \in {"handling", "writing"} /\ stage[r] = "resetting"
  BY ConstantsAssumption DEF IInv, TypeOK, DecisionIsSound, ResetWriter
<1>h. header[r] # NotSent
  <2>1. \A h \in Header : h # NotSent
    BY DEF Header, NotSent
  <2> QED
    BY <2>1 DEF IInv, TypeOK
<1>1. TypeOK'
  BY <1>n DEF IInv, TypeOK, ResetWriter, Sends, Goes
<1>2. WritersAreKept'
  BY <1>n, WritersKeptIfSame DEF ResetWriter
<1>3. DecisionIsSound(r)'
  BY <1>n, <1>h DEF IInv, TypeOK, DecisionIsSound, ResetWriter, Sends, Goes
<1>4. OutputIsSound(r)'
  <2>1. Pieces("gzip", r)' = << >>
    BY <1>n, PiecesAreSame, NothingWritten DEF ResetWriter
  <2>2. body'[r] \o pending'[gzipWriter[r]] = << >>
    BY <1>n DEF IInv, TypeOK, ResetWriter
  <2> QED
    BY <1>n, <2>1, <2>2 DEF IInv, TypeOK, OutputIsSound, ResetWriter, Goes
<1>5. ASSUME NEW q \in Requests \ {r}
      PROVE  DecisionIsSound(q)' /\ OutputIsSound(q)'
  <2>1. stage[q] # "returned" => gzipWriter[q] # gzipWriter[r]
    BY <1>n, OwnWriter
  <2> QED
    BY <1>n, <2>1, OthersKeep DEF ResetWriter, Sends, Goes, IInv, TypeOK
<1> QED
  BY <1>1, <1>2, <1>3, <1>4, <1>5 DEF IInv

LEMMA WritePlainKeeps ==
    ASSUME IInv, NEW r \in Requests, WritePlain(r)
    PROVE  IInv'
<1>n. /\ written[r] \in Nat /\ body[r] \in Seq(AnyPiece)
      /\ Piece("plain", r, written[r] + 1) \in AnyPiece
  BY PiecesTyped DEF IInv, TypeOK
<1>1. TypeOK'
  BY <1>n, ConstantsAssumption DEF IInv, TypeOK, WritePlain, Goes, decision
<1>2. WritersAreKept'
  BY WritersKeptIfSame DEF WritePlain, decision
<1>3. DecisionIsSound(r)'
  BY DEF IInv, TypeOK, DecisionIsSound, WritePlain, Goes, decision
<1>4. OutputIsSound(r)'
  <2>1. Pieces("plain", r)' =
           Append(Pieces("plain", r), Piece("plain", r, written[r] + 1))
    BY PiecesGrow DEF IInv, TypeOK, WritePlain
  <2>2. Pieces("plain", r) = body[r]
    BY DEF IInv, OutputIsSound, WritePlain
  <2> QED
    BY <2>1, <2>2 DEF IInv, TypeOK, OutputIsSound, WritePlain, decision
<1>5. \A q \in Requests \ {r} : DecisionIsSound(q)' /\ OutputIsSound(q)'
  BY OthersKeep DEF WritePlain, Goes, decision, IInv, TypeOK
<1> QED
  BY <1>1, <1>2, <1>3, <1>4, <1>5 DEF IInv

LEMMA WriteGzipKeeps ==
    ASSUME IInv, NEW r \in Requests, WriteGzip(r)
    PROVE  IInv'
<1> DEFINE w == gzipWriter[r]
           piece == Piece("gzip", r, written[r] + 1)
           kept == Append(pending[w], piece)
<1>n. /\ w \in Writers /\ w # NoWriter /\ target[w] = r
      /\ writer[r] = "gzip" /\ stage[r] = "writing"
      /\ written[r] \in Nat
  BY DEF IInv, TypeOK, DecisionIsSound, OutputIsSound, WriteGzip
<1>s. /\ body[r] \in Seq(AnyPiece) /\ pending[w] \in Seq(AnyPiece)
      /\ piece \in AnyPiece /\ kept \in Seq(AnyPiece)
  BY <1>n, PiecesTyped DEF IInv, TypeOK
<1> HIDE DEF piece, kept
<1>k. PICK k \in 0 .. Len(kept) :
         /\ body' = [body EXCEPT ![r] = @ \o SubSeq(kept, 1, k)]
         /\ pending' = [pending EXCEPT ![w] = SubSeq(kept, k + 1, Len(kept))]
  BY <1>n DEF WriteGzip, piece, kept
<1>p. /\ SubSeq(kept, 1, k) \in Seq(AnyPiece)
      /\ SubSeq(kept, k + 1, Len(kept)) \in Seq(AnyPiece)
      /\ (body[r] \o SubSeq(kept, 1, k)) \o SubSeq(kept, k + 1, Len(kept))
            = body[r] \o kept
  BY <1>s, SplitAfter
<1>q. body[r] \o SubSeq(kept, 1, k) \in Seq(AnyPiece)
  BY <1>s, <1>p
<1> HIDE DEF w
<1>1. TypeOK'
  <2>1. body' \in [Requests -> Seq(AnyPiece)]
    BY <1>k, <1>q DEF IInv, TypeOK
  <2>2. pending' \in [Writers -> Seq(AnyPiece)]
    BY <1>k, <1>p DEF IInv, TypeOK
  <2>3. written' \in [Requests -> Nat]
    BY <1>n DEF IInv, TypeOK, WriteGzip
  <2> QED
    BY <2>1, <2>2, <2>3 DEF IInv, TypeOK, WriteGzip, Goes, decision
<1>2. WritersAreKept'
  BY WritersKeptIfSame DEF WriteGzip, decision
<1>3. DecisionIsSound(r)'
  BY <1>n DEF IInv, TypeOK, DecisionIsSound, WriteGzip, Goes, decision
<1>4. OutputIsSound(r)'
  <2>1. Pieces("gzip", r)' = Append(Pieces("gzip", r), piece)
    BY <1>n, PiecesGrow DEF IInv, TypeOK, WriteGzip, piece
  <2>2. Pieces("gzip", r) = body[r] \o pending[w]
    BY <1>n DEF IInv, OutputIsSound, w
  <2>3. body[r] \o kept = Append(body[r] \o pending[w], piece)
    <3>1. \A s, t \in Seq(AnyPiece), e \in AnyPiece :
             s \o Append(t, e) = Append(s \o t, e)
      BY AppendAfter
    <3> QED
      BY <1>s, <3>1, Zenon DEF kept
  <2>4. body'[r] \o pending'[w] = body[r] \o kept
    BY <1>n, <1>k, <1>p DEF IInv, TypeOK
  <2>5. body'[r] \o pending'[w] = Pieces("gzip", r)'
    BY <2>1, <2>2, <2>3, <2>4
  <2> QED
    BY <1>n, <2>5 DEF IInv, TypeOK, OutputIsSound, WriteGzip, Goes, decision, w
<1>5. ASSUME NEW q \in Requests \ {r}
      PROVE  DecisionIsSound(q)' /\ OutputIsSound(q)'
  <2>1. stage[q] # "returned" => gzipWriter[q] # w
    BY <1>n, OwnWriter DEF w
  <2>2. body'[q] = body[q] /\ \A v \in Writers \ {w} : pending'[v] = pending[v]
    BY <1>k DEF IInv, TypeOK
  <2>3. writer[q] = "gzip" => gzipWriter[q] \in Writers
    BY DEF IInv, TypeOK, DecisionIsSound
  <2>4. /\ stage'[q] = stage[q] /\ written'[q] = written[q]
        /\ UNCHANGED <<decision, target>>
    BY DEF WriteGzip, Goes, IInv, TypeOK
  <2> QED
    BY <2>1, <2>2, <2>3, <2>4, OthersKeep DEF decision
<1> QED
  BY <1>1, <1>2, <1>3, <1>4, <1>5 DEF IInv

LEMMA HandlerEndsKeeps ==
    ASSUME IInv, NEW r \in Requests, HandlerEnds(r)
    PROVE  IInv'
<1>n. stage[r] = "handling" /\ gzipWriter[r] \in Writers \cup {NoWriter}
  BY DEF IInv, TypeOK, HandlerEnds
<1>h. /\ sent'[r] = IF sent[r] = NotSent THEN header[r] ELSE sent[r]
      /\ sent'[r] \in Header /\ sent'[r] # NotSent
  <2>1. \A h \in Header : h # NotSent
    BY DEF Header, NotSent
  <2> QED
    BY <2>1 DEF IInv, TypeOK, HandlerEnds, Sends
<1>1. TypeOK'
  BY <1>h DEF IInv, TypeOK, HandlerEnds, Sends, Goes, output
<1>2. WritersAreKept'
  BY <1>n, WritersKeptIfSame DEF HandlerEnds
<1>3. DecisionIsSound(r)'
  <2>1. writer[r] = "gzip" => sent[r] # NotSent
    BY DEF IInv, DecisionIsSound, NotSent
  <2> QED
    BY <1>n, <1>h, <2>1 DEF IInv, TypeOK, DecisionIsSound, HandlerEnds, Goes, output
<1>4. OutputIsSound(r)'
  <2>1. \A form : Pieces(form, r)' = Pieces(form, r)
    BY PiecesAreSame DEF HandlerEnds, output
  <2>2. writer[r] = "gzip" => gzipWriter[r] # NoWriter
    BY DEF IInv, DecisionIsSound
  <2> QED
    BY <1>n, <2>1, <2>2 DEF IInv, TypeOK, OutputIsSound, HandlerEnds, Goes, output
<1>5. \A q \in Requests \ {r} : DecisionIsSound(q)' /\ OutputIsSound(q)'
  BY OthersKeep DEF HandlerEnds, Sends, Goes, output, IInv, TypeOK
<1> QED
  BY <1>1, <1>2, <1>3, <1>4, <1>5 DEF IInv

LEMMA CloseWriterKeeps ==
    ASSUME IInv, NEW r \in Requests, CloseWriter(r)
    PROVE  IInv'
<1> DEFINE w == gzipWriter[r]
<1>n. /\ w \in Writers /\ w # NoWriter /\ target[w] = r
      /\ writer[r] = "gzip" /\ stage[r] = "closing"
  BY DEF IInv, TypeOK, DecisionIsSound, OutputIsSound, CloseWriter
<1>s. /\ body[r] \in Seq(AnyPiece) /\ pending[w] \in Seq(AnyPiece)
      /\ Trailer(r) \in AnyPiece
  BY <1>n, PiecesTyped DEF IInv, TypeOK
<1>a. body[r] \o Append(pending[w], Trailer(r)) =
         Append(body[r] \o pending[w], Trailer(r))
  <2>1. \A s, t \in Seq(AnyPiece), e \in AnyPiece :
           s \o Append(t, e) = Append(s \o t, e)
    BY AppendAfter
  <2> QED
    BY <1>s, <2>1, Zenon
<1>b. /\ body' = [body EXCEPT ![r] = @ \o Append(pending[w], Trailer(r))]
      /\ pending' = [pending EXCEPT ![w] = << >>]
  BY <1>n DEF CloseWriter
<1>c. body[r] \o Append(pending[w], Trailer(r)) \in Seq(AnyPiece)
  BY <1>s
<1> HIDE DEF w
<1>1. TypeOK'
  <2>1. body' \in [Requests -> Seq(AnyPiece)]
    BY <1>b, <1>c DEF IInv, TypeOK
  <2>e. << >> \in Seq(AnyPiece)
    OBVIOUS
  <2>2. pending' \in [Writers -> Seq(AnyPiece)]
    BY <1>b, <2>e DEF IInv, TypeOK
  <2> QED
    BY <2>1, <2>2 DEF IInv, TypeOK, CloseWriter, Goes, decision
<1>2. WritersAreKept'
  BY <1>n, WritersKeptIfSame DEF CloseWriter, decision
<1>3. DecisionIsSound(r)'
  BY <1>n DEF IInv, TypeOK, DecisionIsSound, CloseWriter, Goes, decision
<1>4. OutputIsSound(r)'
  <2>1. Pieces("gzip", r)' = Pieces("gzip", r)
    BY PiecesAreSame DEF CloseWriter
  <2>2. Pieces("gzip", r) = body[r] \o pending[w]
    BY <1>n DEF IInv, OutputIsSound, w
  <2>3. body'[r] = Append(Pieces("gzip", r)', Trailer(r))
    BY <1>a, <1>b, <2>1, <2>2 DEF IInv, TypeOK
  <2>4. Trailer(r)' = Trailer(r)
    BY DEF Trailer, Piece
  <2> QED
    BY <1>n, <2>3, <2>4 DEF IInv, TypeOK, OutputIsSound, CloseWriter, Goes, decision
<1>5. ASSUME NEW q \in Requests \ {r}
      PROVE  DecisionIsSound(q)' /\ OutputIsSound(q)'
  <2>1. stage[q] # "returned" => gzipWriter[q] # w
    BY <1>n, OwnWriter DEF w
  <2>2. body'[q] = body[q] /\ \A v \in Writers \ {w} : pending'[v] = pending[v]
    BY <1>b DEF IInv, TypeOK
  <2>3. writer[q] = "gzip" => gzipWriter[q] \in Writers
    BY DEF IInv, TypeOK, DecisionIsSound
  <2>4. /\ stage'[q] = stage[q] /\ written'[q] = written[q]
        /\ UNCHANGED <<decision, target>>
    BY DEF CloseWriter, Goes, IInv, TypeOK
  <2> QED
    BY <2>1, <2>2, <2>3, <2>4, OthersKeep DEF decision
<1> QED
  BY <1>1, <1>2, <1>3, <1>4, <1>5 DEF IInv

(* The writer goes back to the pool when nobody has it any more.           *)
LEMMA PutWriterKeeps ==
    ASSUME IInv, NEW r \in Requests, PutWriter(r)
    PROVE  IInv'
<1> DEFINE w == gzipWriter[r]
<1>n. /\ w \in Writers /\ w # NoWriter /\ stage[r] = "putting"
      /\ writer[r] = "gzip"
  BY DEF IInv, TypeOK, DecisionIsSound, PutWriter
<1>u. /\ UNCHANGED <<decision, output>> /\ pool' = pool \cup {w}
      /\ stage' = [stage EXCEPT ![r] = "returned"]
  BY DEF PutWriter, Goes
<1> HIDE DEF w
<1>1. TypeOK'
  BY <1>n, <1>u DEF IInv, TypeOK, decision, output
<1>2. WritersAreKept'
  <2>0. WritersAreKept /\ Holds(r, w)
    BY <1>n DEF IInv, Holds, w
  <2>1. ASSUME NEW q \in Requests, NEW v \in Writers
        PROVE  Holds(q, v)' <=> Holds(q, v) /\ q # r
    BY <1>u DEF Holds, IInv, TypeOK, decision
  <2>2. \A q \in Requests : Holds(q, w) => q = r
    BY <1>n, <2>0 DEF WritersAreKept
  <2>3. \A v \in Writers \ {w} : ~Holds(r, v)
    BY DEF Holds, w
  <2> HIDE DEF Holds
  <2>4. ASSUME NEW v \in Writers
        PROVE  v \in pool' <=> ~\E q \in Requests : Holds(q, v)'
    <3>1. CASE v = w
      BY <1>u, <2>1, <2>2, <3>1
    <3>2. CASE v # w
      <4>1. v \in pool <=> ~\E q \in Requests : Holds(q, v)
        BY <2>0 DEF WritersAreKept
      <4>2. \A q \in Requests : Holds(q, v)' <=> Holds(q, v)
        BY <2>1, <2>3, <3>2
      <4> QED
        BY <1>u, <3>2, <4>1, <4>2
    <3> QED
      BY <3>1, <3>2
  <2>5. ASSUME NEW v \in Writers, NEW p \in Requests, NEW q \in Requests,
               Holds(p, v)', Holds(q, v)'
        PROVE  p = q
    BY <2>0, <2>1, <2>5 DEF WritersAreKept
  <2> QED
    BY <2>4, <2>5 DEF WritersAreKept
<1>3. DecisionIsSound(r)'
  BY <1>n, <1>u DEF IInv, TypeOK, DecisionIsSound, decision, output
<1>4. OutputIsSound(r)'
  <2>1. \A form : Pieces(form, r)' = Pieces(form, r)
    BY <1>u, PiecesAreSame DEF output
  <2>2. Trailer(r)' = Trailer(r)
    BY DEF Trailer, Piece
  <2> QED
    BY <1>n, <1>u, <2>1, <2>2
       DEF IInv, TypeOK, OutputIsSound, decision, output
<1>5. \A q \in Requests \ {r} : DecisionIsSound(q)' /\ OutputIsSound(q)'
  BY <1>u, OthersKeep DEF decision, output, IInv, TypeOK
<1> QED
  BY <1>1, <1>2, <1>3, <1>4, <1>5 DEF IInv

LEMMA StutteringKeeps ==
    ASSUME IInv, UNCHANGED vars
    PROVE  IInv'
<1>1. TypeOK'
  BY DEF IInv, TypeOK, vars, decision, output
<1>2. WritersAreKept'
  BY DEF IInv, WritersAreKept, Holds, vars, decision
<1>3. \A q \in Requests : DecisionIsSound(q)' /\ OutputIsSound(q)'
  BY OthersKeep DEF vars, decision, output
<1> QED
  BY <1>1, <1>2, <1>3 DEF IInv

LEMMA NextIInv ==
    ASSUME IInv, [Next]_vars
    PROVE  IInv'
<1>1. ASSUME NEW r \in Requests, Step(r)
      PROVE  IInv'
  BY <1>1, SetHeaderKeeps, WriteHeaderKeeps, WriteFirstKeeps, WriteMoreKeeps,
     ResetWriterKeeps, WritePlainKeeps, WriteGzipKeeps, HandlerEndsKeeps,
     CloseWriterKeeps, PutWriterKeeps, Zenon DEF Step
<1>2. CASE AllReturned
  BY <1>2, StutteringKeeps DEF AllReturned
<1>3. CASE UNCHANGED vars
  BY <1>3, StutteringKeeps
<1> QED
  BY <1>1, <1>2, <1>3 DEF Next

-----------------------------------------------------------------------------
(* The theorems.                                                           *)

(* The inductive invariant of the gzip handler (WriteHeader, Write, Close).*)
THEOREM Invariant == Spec => []IInv
<1>1. Init => IInv
  BY InitIInv
<1>2. IInv /\ [Next]_vars => IInv'
  BY NextIInv
<1> QED
  BY <1>1, <1>2, PTL DEF Spec

(* Type correctness: also that no nil is put into gzipWriterPool.          *)
THEOREM TypeCorrect == Spec => []TypeOK
<1>1. IInv => TypeOK
  BY DEF IInv
<1> QED
  BY <1>1, Invariant, PTL

(* A client reads what its request's handler has written: all of it, in    *)
(* order, once, and nothing that went through the same writer before or    *)
(* after.                                                                  *)
THEOREM ResponsesAreOwn == Spec => []ClientReadsWhatWasWritten
<1>1. IInv => ClientReadsWhatWasWritten
  <2> SUFFICES ASSUME IInv, NEW r \in Requests, stage[r] = "returned"
               PROVE  body[r] = IF sent[r].encoding = "gzip"
                                THEN Append(Pieces("gzip", r), Trailer(r))
                                ELSE Pieces("plain", r)
    BY DEF ClientReadsWhatWasWritten
  <2>1. DecisionIsSound(r) /\ OutputIsSound(r) /\ writer[r] \in {"nil", "plain", "gzip"}
    BY DEF IInv, TypeOK
  <2>2. CASE writer[r] = "gzip"
    BY <2>1, <2>2 DEF DecisionIsSound, OutputIsSound
  <2>3. CASE writer[r] = "plain"
    BY <2>1, <2>3 DEF DecisionIsSound, OutputIsSound
  <2>4. CASE writer[r] = "nil"
    BY <2>1, <2>4, NothingWritten DEF DecisionIsSound
  <2> QED
    BY <2>1, <2>2, <2>3, <2>4
<1> QED
  BY <1>1, Invariant, PTL

(* The header says what the body is, and only who accepts gzip gets it.    *)
THEOREM HeaderIsTrue == Spec => []CompressedAsAnnounced
<1>1. IInv => CompressedAsAnnounced
  <2> SUFFICES ASSUME IInv, NEW r \in Requests, sent[r] # NotSent
               PROVE  /\ sent[r].encoding = "gzip" =>
                            r \in Accepting /\ sent[r].type = "text" /\ ~sent[r].length
                      /\ body[r] # << >> =>
                            (writer[r] = "gzip" <=> sent[r].encoding = "gzip")
    BY DEF CompressedAsAnnounced
  <2>1. DecisionIsSound(r)
    BY DEF IInv
  <2> QED
    BY <2>1 DEF DecisionIsSound
<1> QED
  BY <1>1, Invariant, PTL

(* gzipWriterPool neither loses a writer nor gives one to two requests.    *)
THEOREM PoolIsSound == Spec => []WritersAreKept
<1>1. IInv => WritersAreKept
  BY DEF IInv
<1> QED
  BY <1>1, Invariant, PTL

=============================================================================
