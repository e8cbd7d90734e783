-------------------------------- MODULE Reply --------------------------------
(***************************************************************************)
(* One request to the server, from its validation to the last byte of its  *)
(* answer (ft-model/src/openai.rs, ft-model/src/bin/serve.rs): the pump    *)
(* turns tokens into characters (Utf8Stream) and characters into text that *)
(* is safe to send (StopMatcher); the handler streams it as server-sent    *)
(* events or collects it.  What the worker does is in module Worker; here  *)
(* it is a source of events.                                               *)
(*                                                                         *)
(* Bytes: ASCII characters, the lead and the continuation byte of          *)
(* characters of three bytes.  "?" is U+FFFD, which from_utf8_lossy puts   *)
(* for what is not a character.                                            *)
(***************************************************************************)
EXTENDS Integers, Sequences, SequencesExt

CONSTANTS
  Ascii,       \* the characters of one byte that tokens contain
  Lead, Cont,  \* first and further bytes of a character of three bytes
  Wide,        \* that character
  Pieces,      \* the byte strings that tokens decode to
  StopLists,   \* the stop parameters of requests: sequences of strings
  MaxTokens,   \* bound: the worker sends at most this many tokens
  MaxStops     \* 4: the most stop sequences check_common accepts

ASSUME ReplyConstants ==
  /\ Lead # Cont /\ {Lead, Cont, Wide, "?"} \cap Ascii = {} /\ Wide # "?"
  /\ Pieces \subseteq Seq(Ascii \cup {Lead, Cont})
  /\ StopLists \subseteq Seq(Seq(Ascii \cup {Wide}))
  /\ MaxTokens \in Nat /\ MaxStops \in Nat

VARIABLES
  request,   \* the request; its field at says how far it has come
  bytes,     \* everything decode_bytes has returned (history)
  pending,   \* Utf8Stream.pending
  mangled,   \* has a push replaced a character that was still coming? (history)
  pushed,    \* everything given to the StopMatcher (history)
  buf,       \* StopMatcher.buf
  said,      \* everything sent as Out::Text (history)
  taken,     \* tokens taken by the pump
  ended,     \* how the pump ended: "no", or the finish reason, or "failed", "gone"
  outs,      \* the channel from the pump to the handler
  answer     \* what the client has received, or collect has collected for it

replyVars == <<request, bytes, pending, mangled, pushed, buf, said, taken, ended, outs, answer>>

-----------------------------------------------------------------------------
\* Utf8Stream

\* What std's UTF-8 decoder makes of the head of p: a character, bytes that
\* cannot be one, or the beginning of one that has not all come yet.
Unit(p) ==
  CASE p[1] \in Ascii -> [size |-> 1, char |-> p[1], is |-> "char"]
    [] IsPrefix(<<Lead, Cont, Cont>>, p) -> [size |-> 3, char |-> Wide, is |-> "char"]
    [] p \in {<<Lead>>, <<Lead, Cont>>} -> [size |-> Len(p), char |-> "?", is |-> "short"]
    [] IsPrefix(<<Lead, Cont>>, p) /\ Len(p) > 2 /\ p[3] # Cont ->
         [size |-> 2, char |-> "?", is |-> "bad"]
    [] OTHER -> [size |-> 1, char |-> "?", is |-> "bad"]

Units[p \in Seq(Ascii \cup {Lead, Cont})] ==
  IF p = <<>> THEN <<>>
  ELSE <<Unit(p)>> \o Units[SubSeq(p, Unit(p).size + 1, Len(p))]

Chars(units) == [i \in DOMAIN units |-> units[i].char]
Lossy(p) == Chars(Units[p])
Has(p, what) == \E i \in DOMAIN Units[p] : Units[p][i].is = what

\* Mutant of Utf8Push: an incomplete character is not held back.
Utf8PushAll(p) == [text |-> Lossy(p), rest |-> <<>>]

\* Utf8Stream::push, p being what was pending and what has come: the end is kept
\* if it is all that is wrong, and then everything before it is characters.
Utf8Push(p) ==
  IF Has(p, "short") /\ ~Has(p, "bad")
  THEN [text |-> Chars(Front(Units[p])),
        rest |-> SubSeq(p, Len(p) - Last(Units[p]).size + 1, Len(p))]
  ELSE [text |-> Lossy(p), rest |-> <<>>]

-----------------------------------------------------------------------------
\* StopMatcher

Occurs(s, text) == \E i \in 0..(Len(text) - Len(s)) : SubSeq(text, i + 1, i + Len(s)) = s

\* check_common: the stop sequences of the request, without the empty ones.
ActiveStops(r) == SelectSeq(r.stop, LAMBDA s : s # <<>>)

\* StopMatcher.stops, as a set: the order of the stop sequences does not matter.
Stops == ToSet(request.stop) \ {<<>>}

\* Positions, from 0, at which a stop sequence begins.
HitsIn(text) ==
  {i \in 0..Len(text) : \E s \in Stops : /\ i + Len(s) <= Len(text)
                                          /\ SubSeq(text, i + 1, i + Len(s)) = s}

\* Mutant of Hold: nothing is held back.
HoldNothing(text) == 0
\* Mutant of Hold: whatever contains a prefix of a stop is held back.
HoldTooMuch(text) ==
  IF \E s \in Stops : \E k \in 1..(Len(s) - 1) : Occurs(SubSeq(s, 1, k), text)
  THEN Len(text) ELSE 0

\* The longest end of text that is the beginning of a stop sequence.
Hold(text) ==
  LET held == {k \in 1..Len(text) : \E s \in Stops : /\ k < Len(s)
                                                     /\ IsSuffix(SubSeq(s, 1, k), text)}
  IN  IF held = {} THEN 0 ELSE Max(held)

\* StopMatcher::push, text being what was held back and what has come.
StopPush(text) ==
  IF HitsIn(text) # {}
  THEN [text |-> SubSeq(text, 1, Min(HitsIn(text))), rest |-> <<>>, hit |-> TRUE]
  ELSE [text |-> SubSeq(text, 1, Len(text) - Hold(text)),
        rest |-> SubSeq(text, Len(text) - Hold(text) + 1, Len(text)), hit |-> FALSE]

-----------------------------------------------------------------------------
\* The handler's side

\* What chat and completions refuse, in the order of their checks.
Refusal(r) ==
  CASE ~r.wellFormed -> "body"
    [] r.n # 1 -> "n"
    [] Len(ActiveStops(r)) > MaxStops -> "stop"
    [] r.prompts # 1 -> IF r.endpoint = "chat" THEN "messages" ELSE "prompt"
    [] ~r.fits -> "context_length_exceeded"
    [] ~r.temperatureInRange -> "temperature"
    [] OTHER -> "none"

\* Requests that run, and requests with something wrong; n is 1 if it is absent, a
\* chat has no echo.
Requests ==
  [at : {"sent"}, endpoint : {"chat"}, stream : BOOLEAN, usage : BOOLEAN, echo : {FALSE},
   stop : StopLists, n : {1}, prompts : {1},
   wellFormed : {TRUE}, fits : {TRUE}, temperatureInRange : {TRUE}]
  \cup
  [at : {"sent"}, endpoint : {"completion"}, stream : BOOLEAN, usage : {TRUE}, echo : BOOLEAN,
   stop : StopLists, n : {1}, prompts : {1},
   wellFormed : {TRUE}, fits : {TRUE}, temperatureInRange : {TRUE}]
  \cup
  [at : {"sent"}, endpoint : {"chat", "completion"}, stream : {TRUE}, usage : {TRUE},
   echo : {FALSE}, stop : StopLists, n : {1, 2}, prompts : {0, 1},
   wellFormed : BOOLEAN, fits : BOOLEAN, temperatureInRange : BOOLEAN]

Echo == [is |-> "text", text |-> <<"prompt">>]

\* The first thing on the wire: the role, or the prompt when echo asks for it.
Opening(r) ==
  IF r.endpoint = "chat" THEN <<[is |-> "role"]>>
  ELSE IF r.echo THEN <<Echo>> ELSE <<>>

\* Mutant of Closing: the usage before the finish reason.
ClosingUsageFirst(r, o) ==
  (IF r.usage THEN <<[is |-> "usage", tokens |-> o.tokens]>> ELSE <<>>)
  \o <<[is |-> "finish", reason |-> o.is], [is |-> "[DONE]"]>>

\* What sse queues for Out::Done.
Closing(r, o) ==
  <<[is |-> "finish", reason |-> o.is]>>
  \o (IF r.usage THEN <<[is |-> "usage", tokens |-> o.tokens]>> ELSE <<>>)
  \o <<[is |-> "[DONE]"]>>

-----------------------------------------------------------------------------
\* Actions

ReplyInit ==
  /\ request = [at |-> "none"]
  /\ bytes = <<>> /\ pending = <<>> /\ mangled = FALSE
  /\ pushed = <<>> /\ buf = <<>> /\ said = <<>>
  /\ taken = 0 /\ ended = "no" /\ outs = <<>> /\ answer = <<>>

\* chat, completions: a request is refused, or the worker gets its job.  A
\* worker that is gone is the other way to fail here.
Accept ==
  /\ request.at = "none"
  /\ \E r \in Requests :
       LET refusal == Refusal(r)
       IN  \/ /\ refusal # "none"
              /\ request' = [r EXCEPT !.at = "refused"]
              /\ answer' = <<[is |-> "error", why |-> refusal]>>
           \/ /\ refusal = "none"
              /\ request' = [r EXCEPT !.at = "refused"]
              /\ answer' = <<[is |-> "error", why |-> "inference worker is gone"]>>
           \/ /\ refusal = "none"
              /\ request' = [r EXCEPT !.at = "running"]
              /\ answer' = IF r.stream THEN Opening(r) ELSE <<>>
  /\ UNCHANGED <<bytes, pending, mangled, pushed, buf, said, taken, ended, outs>>

Pumping == request.at \in {"running", "left"} /\ ended = "no"

\* Out::Text, unless it is empty; nobody takes it once the client has left.
Emitted(text) == IF text = <<>> THEN <<>> ELSE <<[is |-> "text", text |-> text]>>

\* WorkerEvent::Token
TakeToken ==
  /\ Pumping
  /\ taken < MaxTokens
  /\ \E piece \in Pieces :
       LET all  == pending \o piece
           utf8 == Utf8Push(all)
           stop == StopPush(buf \o utf8.text)
           gone == request.at = "left" /\ stop.text # <<>>
       IN  /\ bytes' = bytes \o piece
           /\ pending' = utf8.rest
           /\ mangled' = (mangled \/ (Has(all, "short") /\ Has(all, "bad")))
           /\ pushed' = pushed \o utf8.text
           /\ buf' = stop.rest
           /\ taken' = taken + 1
           /\ said' = IF gone THEN said ELSE said \o stop.text
           /\ ended' = IF gone THEN "gone" ELSE IF stop.hit THEN "stop" ELSE "no"
           /\ outs' = IF request.at = "left" THEN outs
                      ELSE outs \o Emitted(stop.text)
                           \o (IF stop.hit THEN <<[is |-> "stop", tokens |-> taken + 1]>> ELSE <<>>)
  /\ UNCHANGED <<request, answer>>

\* The last text: all of it, unless it completes a stop sequence.
Flush(stop) == IF stop.hit THEN stop.text ELSE stop.text \o stop.rest

\* WorkerEvent::Done(Some(finish)): the rest is sent whether or not somebody
\* listens, and a stop sequence in it is the reason to finish.
TakeDone ==
  /\ Pumping
  /\ \E finish \in {"stop", "length"} :
       LET utf8   == Lossy(pending)
           stop   == StopPush(buf \o utf8)
           reason == IF stop.hit THEN "stop" ELSE finish
       IN  /\ pending' = <<>>
           /\ pushed' = pushed \o utf8
           /\ buf' = <<>>
           /\ said' = said \o Flush(stop)
           /\ ended' = reason
           /\ outs' = IF request.at = "left" THEN outs
                      ELSE outs \o Emitted(Flush(stop)) \o <<[is |-> reason, tokens |-> taken]>>
  /\ UNCHANGED <<request, bytes, mangled, taken, answer>>

\* WorkerEvent::Done(None), or the worker has died.
TakeFailure ==
  /\ Pumping
  /\ ended' = "failed"
  /\ outs' = IF request.at = "left" THEN outs ELSE Append(outs, [is |-> "failed"])
  /\ UNCHANGED <<request, bytes, pending, mangled, pushed, buf, said, taken, answer>>

Failure == [is |-> "error", why |-> "generation failed"]

\* What sse queues for an output.
Streamed(r, o) ==
  CASE o.is = "text" -> <<o>>
    [] o.is = "failed" -> <<Failure, [is |-> "[DONE]"]>>
    [] OTHER -> Closing(r, o)

\* What collect and the handler after it make of an output, a being the texts
\* so far: the body is sent when all of it is there.
Collected(r, a, o) ==
  CASE o.is = "text" -> Append(a, o)
    [] o.is = "failed" -> <<Failure>>
    [] OTHER -> (IF r.echo THEN <<Echo>> ELSE <<>>) \o a
                \o <<[is |-> "finish", reason |-> o.is], [is |-> "usage", tokens |-> o.tokens]>>

\* sse in its body, or collect, takes the next output.
Deliver ==
  /\ request.at = "running"
  /\ outs # <<>>
  /\ LET o == Head(outs)
     IN  /\ answer' = IF request.stream THEN answer \o Streamed(request, o)
                      ELSE Collected(request, answer, o)
         /\ request' = IF o.is = "text" THEN request ELSE [request EXCEPT !.at = "answered"]
  /\ outs' = Tail(outs)
  /\ UNCHANGED <<bytes, pending, mangled, pushed, buf, said, taken, ended>>

\* The client goes away: the handler and its end of the channel are dropped.
ClientLeaves ==
  /\ request.at = "running"
  /\ request' = [request EXCEPT !.at = "left"]
  /\ outs' = <<>>
  /\ UNCHANGED <<bytes, pending, mangled, pushed, buf, said, taken, ended, answer>>

ReplyNext == Accept \/ TakeToken \/ TakeDone \/ TakeFailure \/ Deliver \/ ClientLeaves

ReplySpec == ReplyInit /\ [][ReplyNext]_replyVars

-----------------------------------------------------------------------------
\* Properties

Sayable == request.at # "none" /\ ended \in {"no", "stop", "length"}

\* However tokens cut the text into pieces, no stop sequence is ever sent, nor
\* anything after one, and nothing else is lost: what was sent and what is held
\* back are together the text so far, or the text ends where a stop begins.
StopsCutTheText ==
  Sayable =>
    /\ \A s \in Stops : ~Occurs(s, said)
    /\ \/ said \o buf = pushed /\ (ended # "no" => buf = <<>>)
       \/ ended = "stop" /\ \E s \in Stops : IsPrefix(said \o s, pushed)

\* What is held back may yet turn out to be a stop sequence or a character;
\* anything else has been sent on at once.
HeldBackOnlyWhatMayChange ==
  Sayable =>
    /\ buf # <<>> => \E s \in Stops : IsStrictPrefix(buf, s)
    /\ pending # <<>> => IsStrictPrefix(pending, <<Lead, Cont, Cont>>)

\* The text is the decoding of all bytes together, whatever the tokens split,
\* as long as invalid bytes and an incomplete character never meet in one push.
CharactersComeWhole ==
  Sayable /\ ~mangled => pushed \o Lossy(pending) = Lossy(bytes)

\* The texts of an answer, one after another, and what else is in it.
TextOf(a) == FlattenSeq([i \in DOMAIN a |-> IF a[i].is = "text" THEN a[i].text ELSE <<>>])
OthersOf(a) == FlattenSeq([i \in DOMAIN a |-> IF a[i].is = "text" THEN <<>> ELSE <<a[i]>>])

\* The client gets the opening, then exactly what the pump sent, then the reason
\* why it ended, the number of tokens if it asked for it, and [DONE] if it is a
\* stream; while it runs, the beginning of that.
AnswerIsTheReply ==
  LET full == (IF request.echo THEN Echo.text ELSE <<>>) \o said
      role == IF request.endpoint = "chat" /\ request.stream THEN <<[is |-> "role"]>> ELSE <<>>
      done == IF request.stream THEN <<[is |-> "[DONE]"]>> ELSE <<>>
      closing == <<[is |-> "finish", reason |-> ended]>>
                 \o (IF request.usage \/ ~request.stream
                     THEN <<[is |-> "usage", tokens |-> taken]>> ELSE <<>>) \o done
  IN  /\ request.at = "running" /\ request.stream => IsPrefix(TextOf(answer), full)
      /\ request.at = "answered" /\ ended # "failed" =>
           /\ TextOf(answer) = full
           /\ OthersOf(answer) = role \o closing
           /\ IsSuffix(closing, answer)
      /\ request.at = "answered" /\ ended = "failed" =>
           OthersOf(answer) = role \o <<Failure>> \o done

=============================================================================
