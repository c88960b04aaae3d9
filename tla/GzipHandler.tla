---------------------------- MODULE GzipHandler ----------------------------
(***************************************************************************)
(* util/gzip_handler.go: requests that compress their responses with gzip  *)
(* writers from a shared pool.                                             *)
(*                                                                         *)
(* The handler inside is any program that sets headers, calls WriteHeader  *)
(* and Write, and returns or panics.  A gzip writer passes on what it      *)
(* likes of what it is given and keeps the rest until it is closed; then   *)
(* its trailer follows.                                                    *)
(***************************************************************************)
EXTENDS Integers, Sequences

CONSTANTS
    Requests,
    Accepting,      \* those whose Accept-Encoding holds "gzip"
    Headers,        \* what the handlers may have set when they decide
    Writers,        \* what the pool can give, new ones included
    NoWriter,
    MaxWrites       \* bound of the pieces of a response

(* "text" is one of GzipCompressableTypes; an encoding of the handler's is *)
(* "own", that of this code "gzip".                                        *)
Header == [type : {"none", "text", "image"},
           encoding : {"none", "own", "gzip"}, length : BOOLEAN]

Untyped == [type |-> "none", encoding |-> "none", length |-> FALSE]
NotSent == [type |-> "none", encoding |-> "unsent", length |-> FALSE]

ASSUME ConstantsAssumption ==
    /\ Accepting \subseteq Requests
    /\ Headers \subseteq {h \in Header : h.encoding # "gzip"}
    /\ NoWriter \notin Writers
    /\ MaxWrites \in Nat

VARIABLES
    stage,          \* "handling", "resetting", "writing", "closing",
                    \* "putting" or "returned"
    after,          \* where a request goes after it has sent its header
    header, sent,   \* the response's headers, and those that went out
    writer,         \* what grw.writer is: "nil", "plain" or "gzip"
    gzipWriter,     \* grw.gzipWriter
    written,        \* the number of pieces the handler has written
    body,           \* the pieces given to the server
    pool,           \* the writers nobody uses
    target,         \* the request each writer writes to
    pending         \* the pieces it keeps

decision == <<after, header, sent, writer, gzipWriter>>
output == <<written, body, target, pending>>
vars == <<stage, decision, output, pool>>

Init ==
    /\ stage = [r \in Requests |-> "handling"]
    /\ after = [r \in Requests |-> "handling"]
    /\ header = [r \in Requests |-> Untyped]
    /\ sent = [r \in Requests |-> NotSent]
    /\ writer = [r \in Requests |-> IF r \in Accepting THEN "nil" ELSE "plain"]
    /\ gzipWriter = [r \in Requests |-> NoWriter]
    /\ written = [r \in Requests |-> 0]
    /\ body = [r \in Requests |-> << >>]
    /\ pool = Writers
    /\ target = [w \in Writers |-> NoWriter]
    /\ pending = [w \in Writers |-> << >>]

Goes(r, s) == stage' = [stage EXCEPT ![r] = s]
Sends(r, h) == sent' = [sent EXCEPT ![r] = h]

isCompressable(h) == h.encoding = "none" /\ h.type = "text"

-----------------------------------------------------------------------------
(* The handler sets its headers, once (a bound).                           *)
SetHeader(r) ==
    /\ stage[r] = "handling" /\ sent[r] = NotSent /\ header[r] = Untyped
    /\ \E h \in Headers : header' = [header EXCEPT ![r] = h]
    /\ UNCHANGED <<stage, after, sent, writer, gzipWriter, output, pool>>

(* The first WriteHeader, with headers h, called by the handler or in a    *)
(* Write; the request then goes on to s.                                   *)
SendPlain(r, h, s) ==
    /\ writer[r] = "nil" => ~isCompressable(h)
    /\ writer' = [writer EXCEPT ![r] = "plain"]
    /\ header' = [header EXCEPT ![r] = h]
    /\ Sends(r, h) /\ Goes(r, s)
    /\ UNCHANGED <<after, gzipWriter, pool>>

\* Faulty variant: the length of the uncompressed body is announced.
TakeWriterKeepingLength(r, h, s) ==
    /\ writer[r] = "nil" /\ isCompressable(h)
    /\ header' = [header EXCEPT ![r] = [h EXCEPT !.encoding = "gzip"]]
    /\ \E w \in pool :
          /\ gzipWriter' = [gzipWriter EXCEPT ![r] = w]
          /\ pool' = pool \ {w}
    /\ after' = [after EXCEPT ![r] = s]
    /\ Goes(r, "resetting")
    /\ UNCHANGED <<sent, writer>>

TakeWriter(r, h, s) ==
    /\ writer[r] = "nil" /\ isCompressable(h)
    /\ header' = [header EXCEPT ![r] =
                    [h EXCEPT !.encoding = "gzip", !.length = FALSE]]
    /\ \E w \in pool :
          /\ gzipWriter' = [gzipWriter EXCEPT ![r] = w]
          /\ pool' = pool \ {w}
    /\ after' = [after EXCEPT ![r] = s]
    /\ Goes(r, "resetting")
    /\ UNCHANGED <<sent, writer>>

\* Faulty variant: the writer is used as it comes out of the pool.
UseWriter(r) ==
    /\ stage[r] = "resetting"
    /\ target' = [target EXCEPT ![gzipWriter[r]] = IF @ = NoWriter THEN r ELSE @]
    /\ writer' = [writer EXCEPT ![r] = "gzip"]
    /\ Sends(r, header[r]) /\ Goes(r, after[r])
    /\ UNCHANGED <<after, header, gzipWriter, written, body, pending, pool>>

ResetWriter(r) ==
    /\ stage[r] = "resetting"
    /\ target' = [target EXCEPT ![gzipWriter[r]] = r]
    /\ pending' = [pending EXCEPT ![gzipWriter[r]] = << >>]
    /\ writer' = [writer EXCEPT ![r] = "gzip"]
    /\ Sends(r, header[r]) /\ Goes(r, after[r])
    /\ UNCHANGED <<after, header, gzipWriter, written, body, pool>>

WriteHeader(r) ==
    /\ stage[r] = "handling" /\ sent[r] = NotSent
    /\ \/ SendPlain(r, header[r], "handling")
       \/ TakeWriter(r, header[r], "handling")
    /\ UNCHANGED output

-----------------------------------------------------------------------------
(* A missing content type is guessed from the bytes.                       *)
Typed(h) ==
    IF h.type # "none" THEN {h}
    ELSE {[h EXCEPT !.type = t] : t \in {"text", "image"}}

MayWrite(r) == stage[r] = "handling" /\ written[r] < MaxWrites

WriteFirst(r) ==
    /\ MayWrite(r) /\ sent[r] = NotSent
    /\ \E h \in Typed(header[r]) :
          SendPlain(r, h, "writing") \/ TakeWriter(r, h, "writing")
    /\ UNCHANGED output

WriteMore(r) ==
    /\ MayWrite(r) /\ sent[r] # NotSent
    /\ Goes(r, "writing")
    /\ UNCHANGED <<decision, output, pool>>

Piece(form, r, n) == <<form, r, n>>

WritePlain(r) ==
    /\ stage[r] = "writing" /\ writer[r] = "plain"
    /\ written' = [written EXCEPT ![r] = @ + 1]
    /\ body' = [body EXCEPT ![r] = Append(@, Piece("plain", r, written[r] + 1))]
    /\ Goes(r, "handling")
    /\ UNCHANGED <<decision, target, pending, pool>>

WriteGzip(r) ==
    /\ stage[r] = "writing" /\ writer[r] = "gzip"
    /\ written' = [written EXCEPT ![r] = @ + 1]
    /\ LET w    == gzipWriter[r]
           kept == Append(pending[w], Piece("gzip", r, written[r] + 1))
       IN  \E k \in 0 .. Len(kept) :
              /\ body' = [body EXCEPT ![target[w]] = @ \o SubSeq(kept, 1, k)]
              /\ pending' = [pending EXCEPT ![w] = SubSeq(kept, k + 1, Len(kept))]
    /\ Goes(r, "handling")
    /\ UNCHANGED <<decision, target, pool>>

-----------------------------------------------------------------------------
\* Faulty variant: a handler that fails does not close its writer.
HandlerEndsUnclosed(r) ==
    /\ stage[r] = "handling"
    /\ Sends(r, IF sent[r] = NotSent THEN header[r] ELSE sent[r])
    /\ \/ Goes(r, "returned")
       \/ gzipWriter[r] # NoWriter /\ Goes(r, "closing")
    /\ UNCHANGED <<after, header, writer, gzipWriter, output, pool>>

\* Faulty variant: the writer is given back before it is closed.
HandlerEndsPuttingFirst(r) ==
    /\ stage[r] = "handling"
    /\ Sends(r, IF sent[r] = NotSent THEN header[r] ELSE sent[r])
    /\ Goes(r, IF gzipWriter[r] = NoWriter THEN "returned" ELSE "closing")
    /\ pool' = pool \cup ({gzipWriter[r]} \ {NoWriter})
    /\ UNCHANGED <<after, header, writer, gzipWriter, output>>

(* The handler returns or panics; the deferred Close runs in both cases.   *)
(* A header that was not sent is sent by the server.                       *)
HandlerEnds(r) ==
    /\ stage[r] = "handling"
    /\ Sends(r, IF sent[r] = NotSent THEN header[r] ELSE sent[r])
    /\ Goes(r, IF gzipWriter[r] = NoWriter THEN "returned" ELSE "closing")
    /\ UNCHANGED <<after, header, writer, gzipWriter, output, pool>>

Trailer(r) == Piece("trailer", r, 0)

CloseWriter(r) ==
    /\ stage[r] = "closing"
    /\ LET w == gzipWriter[r] IN
       /\ body' = [body EXCEPT ![target[w]] =
                     @ \o Append(pending[w], Trailer(target[w]))]
       /\ pending' = [pending EXCEPT ![w] = << >>]
    /\ Goes(r, "putting")
    /\ UNCHANGED <<decision, written, target, pool>>

PutWriter(r) ==
    /\ stage[r] = "putting"
    /\ pool' = pool \cup {gzipWriter[r]}
    /\ Goes(r, "returned")
    /\ UNCHANGED <<decision, output>>

-----------------------------------------------------------------------------
Step(r) ==
    \/ SetHeader(r) \/ WriteHeader(r) \/ WriteFirst(r) \/ WriteMore(r)
    \/ ResetWriter(r) \/ WritePlain(r) \/ WriteGzip(r)
    \/ HandlerEnds(r) \/ CloseWriter(r) \/ PutWriter(r)

AllReturned == (\A r \in Requests : stage[r] = "returned") /\ UNCHANGED vars

Next == AllReturned \/ \E r \in Requests : Step(r)

Spec == Init /\ [][Next]_vars

-----------------------------------------------------------------------------
AnyPiece == {"plain", "gzip", "trailer"} \X Requests \X Nat

(* Types of the gzip handler: the pool holds writers, never nil.           *)
TypeOK ==
    /\ stage \in [Requests -> {"handling", "resetting", "writing", "closing",
                              "putting", "returned"}]
    /\ after \in [Requests -> {"handling", "writing"}]
    /\ header \in [Requests -> Header]
    /\ sent \in [Requests -> Header \cup {NotSent}]
    /\ writer \in [Requests -> {"nil", "plain", "gzip"}]
    /\ gzipWriter \in [Requests -> Writers \cup {NoWriter}]
    /\ written \in [Requests -> Nat]
    /\ pool \subseteq Writers
    /\ target \in [Writers -> Requests \cup {NoWriter}]
    /\ body \in [Requests -> Seq(AnyPiece)]
    /\ pending \in [Writers -> Seq(AnyPiece)]

Pieces(form, r) == [n \in 1 .. written[r] |-> Piece(form, r, n)]

(* When a request has returned, its client has what its handler wrote, all *)
(* of it, once and in order, and nothing of another request's, compressed  *)
(* exactly if the header says so.                                          *)
ClientReadsWhatWasWritten ==
    \A r \in Requests : stage[r] = "returned" =>
       body[r] = IF sent[r].encoding = "gzip"
                 THEN Append(Pieces("gzip", r), Trailer(r))
                 ELSE Pieces("plain", r)

(* Only who accepts it gets a compressed response, of a compressable type, *)
(* without the length of the uncompressed one; and an encoding of the      *)
(* handler's stays as it is.                                               *)
CompressedAsAnnounced ==
    \A r \in Requests : sent[r] # NotSent =>
       /\ sent[r].encoding = "gzip" =>
             r \in Accepting /\ sent[r].type = "text" /\ ~sent[r].length
       /\ body[r] # << >> => (writer[r] = "gzip" <=> sent[r].encoding = "gzip")

Holds(r, w) == gzipWriter[r] = w /\ stage[r] # "returned"

(* No writer is lost or used twice: each is in the pool or belongs to one  *)
(* request that has not returned.                                          *)
WritersAreKept ==
    \A w \in Writers :
       /\ w \in pool <=> ~\E r \in Requests : Holds(r, w)
       /\ \A r, q \in Requests : Holds(r, w) /\ Holds(q, w) => r = q

-----------------------------------------------------------------------------
(* The inductive invariant.                                                *)

(* A header goes out with the decision, and the decision is for good.      *)
DecisionIsSound(r) ==
    /\ writer[r] = "nil" =>
          /\ sent[r] # NotSent => stage[r] = "returned"
          /\ stage[r] \in {"handling", "resetting", "returned"}
          /\ r \in Accepting
          /\ written[r] = 0 /\ body[r] = << >>
    /\ writer[r] = "gzip" =>
          /\ sent[r].encoding = "gzip" /\ sent[r].type = "text" /\ ~sent[r].length
          /\ gzipWriter[r] # NoWriter /\ r \in Accepting
          /\ stage[r] # "resetting"
    /\ writer[r] # "gzip" =>
          /\ sent[r].encoding # "gzip"
          /\ stage[r] \notin {"closing", "putting"}
          /\ stage[r] = "resetting" <=> gzipWriter[r] # NoWriter
          /\ stage[r] # "resetting" => header[r].encoding # "gzip"
    /\ stage[r] = "resetting" =>
          /\ writer[r] = "nil" /\ r \in Accepting
          /\ header[r].encoding = "gzip" /\ header[r].type = "text"
          /\ ~header[r].length
    /\ writer[r] = "plain" /\ sent[r] = NotSent => written[r] = 0
    /\ stage[r] \notin {"handling", "resetting"} => sent[r] # NotSent

(* What has reached the client and what its writer keeps is what was       *)
(* written.                                                                *)
OutputIsSound(r) ==
    /\ writer[r] = "plain" => body[r] = Pieces("plain", r)
    /\ writer[r] = "gzip" =>
          LET w == gzipWriter[r] IN
          IF stage[r] \in {"putting", "returned"}
          THEN body[r] = Append(Pieces("gzip", r), Trailer(r))
          ELSE target[w] = r /\ body[r] \o pending[w] = Pieces("gzip", r)

(* What every step of WriteHeader, Write and Close preserves.              *)
IInv ==
    /\ TypeOK /\ WritersAreKept
    /\ \A r \in Requests : DecisionIsSound(r) /\ OutputIsSound(r)

=============================================================================
