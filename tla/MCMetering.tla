----------------------------- MODULE MCMetering -----------------------------
(***************************************************************************)
(* Two vendors: the model "gpt" has a new price on the second day, and     *)
(* "claude" long-context rates and cache writes above and below the rate   *)
(* of plain input; "new" is in no book.  Each request has the responses    *)
(* that differ in how usage is reported, in order of the vendor's shapes.  *)
(***************************************************************************)
EXTENDS Metering, TLC

CONSTANTS gpt, claude, new

None == [c \in Category |-> NoRate]
Rate(in, out, w5, w1) ==
  [None EXCEPT !["input"] = in, !["output"] = out, !["write5m"] = w5, !["write1h"] = w1]
File(from, models) == [effective |-> from, models |-> models]
Priced(base, long, threshold) ==
  [rate |-> base, long |-> long, threshold |-> threshold,
   defaultMax |-> 2, free |-> FALSE, aliases |-> {}]

MCModel == {gpt, claude, new}
MCBook ==
  <<File(0, gpt :> Priced(Rate(3, 5, NoRate, NoRate), None, 0)
            @@ claude :> Priced(Rate(3, 5, 3, 6), [Rate(6, 9, NoRate, NoRate) EXCEPT !["cached"] = 1], 5)),
    File(1, gpt :> Priced(Rate(4, 5, NoRate, NoRate), None, 0))>>
MCFallback == [input |-> 9, output |-> 9, defaultMax |-> 2]

OpenAI(prompt, cached, output, reasoning, total) ==
  [shape |-> "openai", prompt |-> prompt, cached |-> cached, write |-> 0, miss |-> 0,
   output |-> output, reasoning |-> reasoning, total |-> total]
Anthropic(input, w5, w1, creation, output) ==
  [shape |-> "anthropic", input |-> input, cached |-> 0, write5m |-> w5, write1h |-> w1,
   creation |-> creation, output |-> output]

Tokens(in, cached, w5, w1, out) ==
  [c \in Category |-> CASE c = "input" -> in [] c = "cached" -> cached [] c = "write5m" -> w5
                        [] c = "write1h" -> w1 [] c = "output" -> out]

Content == <<Prefix, Payload("content", NoReport), Nl, Nl>>
Done    == <<Prefix, Payload("done", NoReport), Nl, Nl>>
Event(kind, report) == <<Prefix, Payload(kind, report), Nl, Nl>>
Answer(symbols, streaming, billed) ==
  [symbols |-> symbols, streaming |-> streaming, billed |-> billed]

(* Two requests that stream, and one in the long context; one that does    *)
(* not; one of no output; one of a model without a price; and two that     *)
(* cannot be metered, for what they hold and for their length.             *)
Asks(model, bytes, chars, max) ==
  [model |-> model, bytes |-> bytes, chars |-> chars, max |-> max, route |-> "text", json |-> TRUE,
   features |-> {}, stream |-> TRUE, wantsUsage |-> TRUE, enforce |-> TRUE, strict |-> TRUE]
Chat     == [Asks(gpt, 2, 1, 2) EXCEPT !.wantsUsage = FALSE]
Message  == Asks(claude, 3, 2, 2)
Long     == Asks(claude, 4, 2, 2)
Plain    == [Asks(gpt, 2, 2, 0) EXCEPT !.strict = FALSE, !.stream = FALSE]
Embedded == [Asks(gpt, 1, 1, 0) EXCEPT !.route = "embeddings", !.stream = FALSE]
Unknown  == [Asks(new, 2, 2, 1) EXCEPT !.enforce = FALSE, !.strict = FALSE, !.stream = FALSE]
Picture  == [Unknown EXCEPT !.model = gpt, !.features = {"media"}]
Upload   == [Unknown EXCEPT !.model = gpt, !.bytes = 5]

MCRequest == {Chat, Message, Long, Plain, Embedded, Unknown, Picture, Upload}
MCAnswers ==
  Chat :>
    {\* the usage chunk that was asked for; reasoning beside the output
     Answer(Content \o Event("usage only", OpenAI(3, 1, 1, 1, 5)) \o Done, TRUE, Tokens(2, 1, 0, 0, 2)),
     \* the same, the stream ending without its last line ends
     Answer(Content \o <<Prefix, Payload("usage only", OpenAI(3, 0, 2, 1, 5))>>, TRUE, Tokens(3, 0, 0, 0, 2)),
     \* a vendor that does not report although it was asked to
     Answer(Content \o Done, TRUE, Tokens(3, 0, 0, 0, 1))}
  @@ Message :>
    {\* usage in two pieces; cache writes, of which one has no lifetime
     Answer(<<Text, Nl>> \o Event("start", Anthropic(1, 0, 2, 3, 1)) \o Content
              \o Event("delta", Anthropic(0, 0, 0, 0, 2)), TRUE, Tokens(1, 0, 1, 2, 2)),
     \* a cache write at the rate of plain input
     Answer(Event("start", Anthropic(1, 1, 0, 1, 2)), TRUE, Tokens(1, 0, 1, 0, 2))}
  @@ Long :>
    {\* a line over the cap; the long-context rates
     Answer(Event("start", Anthropic(5, 0, 0, 0, 1)) \o <<Prefix, Text, Text, Text, Text, Nl, Nl>>
              \o Event("delta", Anthropic(0, 0, 0, 0, 2)), TRUE, Tokens(5, 0, 0, 0, 2))}
  @@ Plain :>
    {Answer(<<Text, Payload("body", OpenAI(2, 1, 3, 1, 5)), Text>>, FALSE, Tokens(1, 1, 0, 0, 3)),
     Answer(<<Text, Text, Text, Payload("body", OpenAI(2, 0, 1, 0, 3))>>, FALSE, Tokens(2, 0, 0, 0, 1))}
  @@ Embedded :> {Answer(<<Payload("body", OpenAI(2, 0, 0, 0, 2))>>, FALSE, Tokens(2, 0, 0, 0, 0)),
     \* no usage: output is estimated where there is none
     Answer(<<Text>>, FALSE, Tokens(2, 0, 0, 0, 0))}
  @@ Unknown :> {Answer(<<Payload("body", OpenAI(2, 0, 1, 0, 3))>>, FALSE, Tokens(2, 0, 0, 0, 1))}
  @@ Picture :> {Answer(<<Payload("body", OpenAI(2, 0, 1, 0, 3))>>, FALSE, Tokens(2, 0, 0, 0, 1))}
  @@ Upload :> {Answer(<<Text>>, FALSE, Tokens(5, 0, 0, 0, 1))}
=============================================================================
