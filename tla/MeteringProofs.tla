--------------------------- MODULE MeteringProofs ---------------------------
(***************************************************************************)
(* Metering is right, for every book, every request, every response and    *)
(* any number of them: the stream is faithful, exact entries are exact, a  *)
(* charge is within its hold, and reconciliation tells.                    *)
(***************************************************************************)
EXTENDS Metering, ObserverProofs

-----------------------------------------------------------------------------
(***************************************************************************)
(* The stream.                                                             *)
(***************************************************************************)

(* The request being served, and how far its response is copied.           *)
Serving ==
  request # << >> =>
    \E q \in Request : \E a \in Answers[q] :
      /\ request = <<q>> /\ response = <<a>>
      /\ reader.streaming = a.streaming
      /\ Copied(reader, a.symbols, Range(a.symbols))

(* No request is served at first.                                          *)
LEMMA ServingInit == MeteringInit => Serving
BY DEF MeteringInit, Serving

(* What the reader has made of the response is as above at any time: only  *)
(* Forward makes a reader, only CopyResponse uses it.                      *)
LEMMA ServingStep == Serving /\ [MeteringNext]_meteringVars => Serving'
<1> SUFFICES ASSUME Serving, [MeteringNext]_meteringVars
             PROVE  Serving'
  OBVIOUS
<1>1. CASE Forward
  <2>1. PICK q \in Request : \E a \in Answers[q], p \in Lookup(q.model, day) :
          /\ request' = <<q>> /\ response' = <<a>>
          /\ reader' = NewReader(a.symbols, a.streaming, a.streaming /\ EnableStreamUsage(q))
    BY <1>1, Zenon DEF Forward
  <2>2. PICK a \in Answers[q] :
          /\ request' = <<q>> /\ response' = <<a>>
          /\ reader' = NewReader(a.symbols, a.streaming, a.streaming /\ EnableStreamUsage(q))
    BY <2>1, Zenon
  <2>3. a.symbols \in Seq(Range(a.symbols)) /\ a.streaming \in BOOLEAN
    BY VendorsReport, Zenon
  <2>4. PICK f : f = (a.streaming /\ EnableStreamUsage(q)) /\ f \in BOOLEAN /\ (f => a.streaming)
    <3>1. (a.streaming /\ EnableStreamUsage(q)) \in BOOLEAN
      OBVIOUS
    <3> QED
      BY <3>1
  <2>5. Copied(reader', a.symbols, Range(a.symbols)) /\ reader'.streaming = a.streaming
    <3>1. reader' = NewReader(a.symbols, a.streaming, f)
      BY <2>2, <2>4, Zenon
    <3>2. Readable(Range(a.symbols), a.symbols, a.streaming, f)
      BY <2>3, <2>4, Zenon DEF Readable
    <3>3. Opens(Range(a.symbols), a.symbols, a.streaming, f)
      BY <3>2, NewCopies, Zenon
    <3> QED
      BY <3>1, <3>3, Zenon DEF Opens
  <2> QED
    BY <2>2, <2>4, <2>5, Zenon DEF Serving
<1>2. CASE ForwardUnmetered
  <2>1. UNCHANGED <<reader, request, response>>
    BY <1>2 DEF ForwardUnmetered
  <2> QED
    BY <2>1 DEF Serving
<1>3. CASE CopyResponse
  <2>1. request # << >> /\ Copy /\ UNCHANGED <<request, response>>
    BY <1>3 DEF CopyResponse
  <2>7a. PICK q \in Request : \E a \in Answers[q] :
          /\ request = <<q>> /\ response = <<a>> /\ reader.streaming = a.streaming
          /\ Copied(reader, a.symbols, Range(a.symbols))
    BY <2>1, Zenon DEF Serving
  <2>2. PICK a \in Answers[q] :
          /\ request = <<q>> /\ response = <<a>> /\ reader.streaming = a.streaming
          /\ Copied(reader, a.symbols, Range(a.symbols))
    BY <2>7a, Zenon
  <2>3. /\ MaxObserved \in Nat /\ MaxObserved >= 2
        /\ a.symbols \in Seq(Range(a.symbols)) /\ (a.streaming => OneDataLine(a.symbols))
    BY VendorsReport, Zenon
  <2>4. PICK w, V, r, x : w = a.symbols /\ V = Range(a.symbols) /\ r = reader /\ x = reader'
    OBVIOUS
  <2>5. Copied(x, w, V) /\ x.streaming = r.streaming /\ x.filtering = r.filtering
    <3>1. w \in Seq(V) /\ Copied(r, w, V) /\ (r.streaming => OneDataLine(w))
      BY <2>2, <2>3, <2>4, Zenon
    <3> QED
      BY <2>1, <2>3, <2>4, <3>1, CopiedStep
  <2>6. request' = <<q>> /\ response' = <<a>> /\ reader'.streaming = a.streaming
    BY <2>1, <2>2, <2>4, <2>5, Zenon
  <2>7. Copied(reader', a.symbols, Range(a.symbols))
    BY <2>4, <2>5, Zenon
  <2> QED
    BY <2>6, <2>7, Zenon DEF Serving
<1>4. CASE Midnight
  <2>1. UNCHANGED <<reader, request, response>>
    BY <1>4 DEF Midnight
  <2> QED
    BY <2>1 DEF Serving
<1>5. CASE Record
  BY <1>5, Zenon DEF Record, Serving
<1>6. CASE UNCHANGED meteringVars
  BY <1>6 DEF meteringVars, Serving
<1> QED
  BY <1>1, <1>2, <1>3, <1>4, <1>5, <1>6, Zenon DEF MeteringNext

(* With that the stream is faithful.                                       *)
LEMMA FaithfulServing == Serving => FaithfulStream
<1> SUFFICES ASSUME Serving, request # << >>
             PROVE  /\ IsPrefix(reader.received,
                                Visible(SubSeq(response[1].symbols, 1,
                                               Len(response[1].symbols) - Len(reader.upstream))))
                    /\ reader.ended =>
                         reader.received = Visible(SubSeq(response[1].symbols, 1,
                                                          Len(response[1].symbols) - Len(reader.upstream)))
                    /\ IsPrefix(reader.events,
                                Payloads(SubSeq(response[1].symbols, 1,
                                                Len(response[1].symbols) - Len(reader.upstream))))
                    /\ reader.done = "complete" =>
                         /\ SubSeq(response[1].symbols, 1, Len(response[1].symbols) - Len(reader.upstream))
                              = response[1].symbols
                         /\ reader.events = IF reader.truncated /\ ~reader.streaming THEN << >>
                                            ELSE Payloads(response[1].symbols)
  BY Zenon DEF FaithfulStream
<1>7. PICK q \in Request : \E a \in Answers[q] :
        /\ response = <<a>> /\ reader.streaming = a.streaming
        /\ Copied(reader, a.symbols, Range(a.symbols))
  BY Zenon DEF Serving
<1>1. PICK a \in Answers[q] :
        /\ response = <<a>> /\ reader.streaming = a.streaming
        /\ Copied(reader, a.symbols, Range(a.symbols))
  BY <1>7, Zenon
<1>2. a.symbols \in Seq(Range(a.symbols)) /\ (a.streaming => OneDataLine(a.symbols))
  BY VendorsReport, Zenon
<1>3. PICK w, V, r, s : /\ w = response[1].symbols /\ w = a.symbols /\ V = Range(a.symbols) /\ r = reader
                        /\ s = SubSeq(w, 1, Len(w) - Len(r.upstream))
  <2>1. response[1] = a
    BY <1>1
  <2> QED
    BY <2>1, Zenon
<1>4. w \in Seq(V) /\ Copied(r, w, V) /\ (r.streaming => OneDataLine(w))
  BY <1>1, <1>2, <1>3, Zenon
<1>5. /\ IsPrefix(r.received, Shown(r, s))
      /\ r.ended => r.received = Shown(r, s)
      /\ IsPrefix(r.events, Payloads(s))
      /\ r.done = "complete" =>
           /\ s = w
           /\ r.events = IF r.truncated /\ ~r.streaming THEN << >> ELSE Payloads(w)
  <2>1. Shows(V, r, w, s)
    BY <1>3, <1>4, CopiedShows, Zenon
  <2> QED
    BY <2>1, Zenon DEF Shows
<1>6. Visible(s) = Shown(r, s)
  BY <1>3, Zenon DEF Visible, Shown
<1> QED
  BY <1>3, <1>5, <1>6, Zenon

(* Wherever reads cut a response, whatever comes of it: the client has     *)
(* what the vendor sent but for the withheld chunk, and each payload is    *)
(* observed once, in order (observingReader: Read, readFiltered,           *)
(* consumeEvents, scanEvents, flush). For every response of every vendor,  *)
(* every way of reading it and every cap.                                  *)
THEOREM FaithfulStreams == MeteringSpec => []FaithfulStream
<1>1. MeteringInit => Serving
  BY ServingInit
<1>2. Serving /\ [MeteringNext]_meteringVars => Serving'
  BY ServingStep
<1>3. Serving => FaithfulStream
  BY FaithfulServing
<1> QED
  BY <1>1, <1>2, <1>3, PTL DEF MeteringSpec

-----------------------------------------------------------------------------
(***************************************************************************)
(* Prices, and what a hold covers.                                         *)
(***************************************************************************)

(* A price: rates of a token, in no category below 0.                      *)
IsPrice(p) ==
  /\ \A c \in Category : p.rate[c] \in Nat /\ p.long[c] \in Nat
  /\ p.threshold \in Int /\ p.defaultMax \in Nat

(* The price of a model of the book (modelFile.price).                     *)
LEMMA PriceIsPrice ==
  ASSUME NEW m, ValidModel(m)
  PROVE  IsPrice(price(m))
<1>1. /\ \A c \in Category : m.rate[c] \in Nat \cup {NoRate} /\ m.long[c] \in Nat \cup {NoRate}
      /\ m.rate["input"] # NoRate /\ m.rate["output"] # NoRate
      /\ m.threshold \in Int /\ m.defaultMax \in Nat
  BY DEF ValidModel, RatesOfFile
<1>2. \A r, d : r \in Nat \cup {NoRate} /\ d \in Nat => rateOr(r, d) \in Nat
  BY DEF rateOr
<1> DEFINE input   == m.rate["input"]
           cached  == rateOr(m.rate["cached"], input)
           write5m == rateOr(m.rate["write5m"], input)
           write   == rateOr(m.long["write5m"], write5m)
<1>3. input \in Nat /\ m.rate["output"] \in Nat
  BY <1>1 DEF Category
<1>4. cached \in Nat /\ write5m \in Nat
  BY <1>1, <1>2, <1>3 DEF Category
<1>5. write \in Nat
  BY <1>1, <1>2, <1>4 DEF Category
<1>6. /\ rateOr(m.rate["write1h"], write5m) \in Nat /\ rateOr(m.long["input"], input) \in Nat
      /\ rateOr(m.long["cached"], cached) \in Nat /\ rateOr(m.long["output"], m.rate["output"]) \in Nat
  BY <1>1, <1>2, <1>3, <1>4 DEF Category
<1> HIDE DEF input, cached, write5m, write
<1>7. price(m) =
        [rate |-> [input |-> input, cached |-> cached, write5m |-> write5m,
                   write1h |-> rateOr(m.rate["write1h"], write5m), output |-> m.rate["output"]],
         long |-> [input |-> rateOr(m.long["input"], input),
                   cached |-> rateOr(m.long["cached"], cached),
                   write5m |-> write, write1h |-> write,
                   output |-> rateOr(m.long["output"], m.rate["output"])],
         threshold |-> m.threshold, defaultMax |-> m.defaultMax]
  BY DEF price, input, cached, write5m, write
<1>8. price(m).threshold \in Int /\ price(m).defaultMax \in Nat
  BY <1>1, <1>7
<1>9. \A c \in Category : price(m).rate[c] \in Nat /\ price(m).long[c] \in Nat
  BY <1>3, <1>4, <1>5, <1>6, <1>7 DEF Category
<1> QED
  BY <1>8, <1>9 DEF IsPrice

(* The price of a model that is not in it.                                 *)
LEMMA FallbackIsPrice == IsPrice(fallbackPrice)
BY BookIsValid DEF IsPrice, fallbackPrice, Category

(* Whatever Lookup gives is a price.                                       *)
LEMMA LookupIsPrice ==
  ASSUME NEW model, NEW at, NEW p \in Lookup(model, at)
  PROVE  IsPrice(p)
<1>1. CASE LookupKnown(model, at) = {}
  BY <1>1, FallbackIsPrice DEF Lookup
<1>2. CASE LookupKnown(model, at) # {}
  <2>1. p \in LookupKnown(model, at)
    BY <1>2 DEF Lookup
  <2>2. PICK i \in Latest(model, at) : p \in {price(Book[i].models[n]) : n \in EntriesFor(Book[i], model)}
    BY <2>1, Zenon DEF LookupKnown
  <2>3. PICK n \in EntriesFor(Book[i], model) : p = price(Book[i].models[n])
    BY <2>2, Zenon
  <2>4. i \in DOMAIN Book /\ n \in DOMAIN Book[i].models
    BY <2>3 DEF Latest, Applicable, EntriesFor
  <2>5. ValidModel(Book[i].models[n])
    BY <2>4, BookIsValid, Zenon
  <2> QED
    BY <2>3, <2>5, PriceIsPrice, Zenon
<1> QED
  BY <1>1, <1>2

(* Half a unit is rounded up: the cost is the last number of whole units   *)
(* that is not above what the tokens count, half a unit added.             *)
LEMMA RateRounds ==
  ASSUME NEW t \in Nat, NEW perUnit \in Nat
  PROVE  /\ rate(t, perUnit) \in Nat
         /\ TokensPerUnit * rate(t, perUnit) <= t * perUnit + TokensPerUnit \div 2
         /\ t * perUnit + TokensPerUnit \div 2 < TokensPerUnit * rate(t, perUnit) + TokensPerUnit
         /\ t = 0 => rate(t, perUnit) = 0
<1>1. PICK T \in Nat : T = TokensPerUnit /\ T > 0
  BY BookIsValid
<1>2. PICK w \in Nat, m \in Nat : w = t \div T /\ m = t % T /\ t = T * w + m /\ m < T
  BY <1>1
<1>3. PICK h \in Nat : h = T \div 2 /\ 2 * h <= T
  BY <1>1
<1>4. PICK x \in Nat : x = m * perUnit
  BY <1>2
<1>5. PICK y \in Nat, z \in Nat : y = (x + h) \div T /\ x + h = T * y + z /\ z < T
  BY <1>1, <1>3, <1>4
<1>6. rate(t, perUnit) = w * perUnit + y
  BY <1>1, <1>2, <1>3, <1>4, <1>5 DEF rate
<1>7. t * perUnit = T * (w * perUnit) + x
  BY <1>1, <1>2, <1>4
<1>8. PICK v \in Nat : v = w * perUnit
  BY <1>2
<1>9. T * (v + y) = T * v + T * y
  BY <1>1, <1>5, <1>8
<1>10. rate(t, perUnit) \in Nat
  BY <1>5, <1>6, <1>8
<1>11. PICK a \in Nat, b \in Nat : a = T * v /\ b = T * y
  BY <1>1, <1>5, <1>8
<1>12. T * rate(t, perUnit) = a + b /\ t * perUnit = a + x /\ x + h = b + z
  BY <1>5, <1>6, <1>7, <1>8, <1>9, <1>11
<1>13. a + b <= a + x + h /\ a + x + h < a + b + T
  BY <1>1, <1>3, <1>4, <1>5, <1>11, <1>12
<1>14. t = 0 => rate(t, perUnit) = 0
  BY <1>1, <1>2, <1>3, <1>4, <1>5, <1>6
<1> QED
  BY <1>1, <1>3, <1>10, <1>12, <1>13, <1>14

(* So it is no more than half a unit away on either side.                  *)
LEMMA RateBounds ==
  ASSUME NEW t \in Nat, NEW perUnit \in Nat
  PROVE  /\ rate(t, perUnit) \in Nat
         /\ 2 * (TokensPerUnit * rate(t, perUnit)) <= 2 * (t * perUnit) + TokensPerUnit
         /\ 2 * (t * perUnit) < 2 * (TokensPerUnit * rate(t, perUnit)) + TokensPerUnit + 1
         /\ t = 0 => rate(t, perUnit) = 0
<1>1. PICK T \in Nat, h \in Nat : T = TokensPerUnit /\ h = T \div 2 /\ 2 * h <= T /\ T <= 2 * h + 1
  BY BookIsValid
<1>2. /\ rate(t, perUnit) \in Nat
      /\ T * rate(t, perUnit) <= t * perUnit + h
      /\ t * perUnit + h < T * rate(t, perUnit) + T
      /\ t = 0 => rate(t, perUnit) = 0
  BY <1>1, RateRounds
<1>3. PICK x \in Nat, y \in Nat : x = T * rate(t, perUnit) /\ y = t * perUnit
  BY <1>1, <1>2
<1> QED
  BY <1>1, <1>2, <1>3

(* The categories of input are four.                                       *)
LEMMA FourInputs == Cardinality(Inputs) = 4
<1>1. Cardinality({"input"}) = 1 /\ IsFiniteSet({"input"})
  BY FS_Singleton
<1>2. Cardinality({"input", "cached"}) = 2 /\ IsFiniteSet({"input", "cached"})
  <2>1. {"input", "cached"} = {"input"} \cup {"cached"} /\ "cached" \notin {"input"}
    OBVIOUS
  <2> QED
    BY <1>1, <2>1, FS_AddElement
<1>3. Cardinality({"input", "cached", "write5m"}) = 3 /\ IsFiniteSet({"input", "cached", "write5m"})
  <2>1. {"input", "cached", "write5m"} = {"input", "cached"} \cup {"write5m"} /\ "write5m" \notin {"input", "cached"}
    OBVIOUS
  <2> QED
    BY <1>2, <2>1, FS_AddElement
<1>4. /\ Inputs = {"input", "cached", "write5m"} \cup {"write1h"}
      /\ "write1h" \notin {"input", "cached", "write5m"}
  BY DEF Inputs, Category
<1> QED
  BY <1>3, <1>4, FS_AddElement

(* The rates of a request, whichever they are.                             *)
LEMMA RatesAreNat ==
  ASSUME NEW p, IsPrice(p), NEW u, NEW c \in Category
  PROVE  Rates(p, u)[c] \in Nat
BY DEF IsPrice, Rates

(* Nothing costs less than nothing.                                        *)
LEMMA CostIsNat ==
  ASSUME NEW p, IsPrice(p), NEW u \in Usage
  PROVE  Cost(p, u) \in Nat
<1>1. \A c \in Category : u[c] \in Nat
  BY DEF Usage
<1>2. \A c \in Category : rate(u[c], Rates(p, u)[c]) \in Nat
  <2> TAKE c \in Category
  <2>1. u[c] \in Nat /\ Rates(p, u)[c] \in Nat
    BY <1>1, RatesAreNat, Zenon
  <2> QED
    BY <2>1, RateBounds, Zenon
<1> QED
  BY <1>2 DEF Cost, Category

(* No more is paid for fewer tokens at no higher a rate.                   *)
LEMMA ProductGrows ==
  ASSUME NEW a \in Nat, NEW x \in Nat, NEW y \in Nat, a > 0 => x <= y
  PROVE  a * x <= a * y /\ a * x \in Nat /\ a * y \in Nat
OBVIOUS

(* What is paid for a category, u tokens at rate r, and what they count at *)
(* the rate h.                                                             *)
LEMMA PaidAt ==
  ASSUME NEW t \in Nat, NEW r \in Nat, NEW h \in Nat, t > 0 => r <= h
  PROVE  2 * (TokensPerUnit * rate(t, r)) <= 2 * (t * h) + TokensPerUnit
<1>1. /\ rate(t, r) \in Nat
      /\ 2 * (TokensPerUnit * rate(t, r)) <= 2 * (t * r) + TokensPerUnit
  BY RateBounds
<1>2. t * r <= t * h /\ t * r \in Nat /\ t * h \in Nat
  BY ProductGrows
<1>3. TokensPerUnit \in Nat
  BY BookIsValid
<1>4. PICK x \in Nat : x = TokensPerUnit * rate(t, r)
  BY <1>1, <1>3
<1> QED
  BY <1>1, <1>2, <1>3, <1>4

(* No more tokens at no higher a rate cost no more, rounding included.     *)
LEMMA RateGrows ==
  ASSUME NEW t \in Nat, NEW s \in Nat, NEW r \in Nat, NEW k \in Nat, t <= s, r <= k
  PROVE  rate(t, r) <= rate(s, k)
<1>1. PICK T \in Nat, h \in Nat : T = TokensPerUnit /\ T > 0 /\ h = T \div 2
  BY BookIsValid
<1>2. PICK v \in Nat, w \in Nat : v = rate(t, r) /\ w = rate(s, k)
  BY RateRounds
<1>3. T * v <= t * r + h /\ s * k + h < T * w + T
  BY <1>1, <1>2, RateRounds
<1>4. t * r <= s * k
  <2>1. \A x, y, z \in Nat : x <= y => x * z <= y * z /\ x * z \in Nat /\ y * z \in Nat
    OBVIOUS
  <2>2. t * r <= s * r /\ t * r \in Nat /\ s * r \in Nat
    BY <2>1
  <2>3. s * r <= s * k /\ s * k \in Nat
    BY ProductGrows
  <2> QED
    BY <2>2, <2>3
<1>5. PICK x \in Nat, y \in Nat : x = t * r /\ y = s * k
  OBVIOUS
<1>6. v <= w
  <2> SUFFICES ASSUME v >= w + 1
               PROVE  FALSE
    BY <1>2
  <2>1. T * v >= T * (w + 1) /\ T * (w + 1) = T * w + T
    BY <1>1, <1>2
  <2>2. PICK c \in Nat, d \in Nat : c = T * v /\ d = T * w
    BY <1>1, <1>2
  <2> QED
    BY <1>1, <1>3, <1>4, <1>5, <2>1, <2>2
<1> QED
  BY <1>2, <1>6

(* Five charges within a hold for all the input at one rate and for the    *)
(* output: what the rounding of each input adds is no more than two.       *)
HeldFor(a, b, c, d, o, ra, rb, rc, rd, ro, i, l, h, k) ==
  /\ (a > 0 => ra <= h) /\ (b > 0 => rb <= h) /\ (c > 0 => rc <= h) /\ (d > 0 => rd <= h) /\ ro <= k
  /\ a + b + c + d <= i /\ o <= l

Covered(a, b, c, d, o, ra, rb, rc, rd, ro, i, l, h, k) ==
  rate(a, ra) + rate(b, rb) + rate(c, rc) + rate(d, rd) + rate(o, ro) <= rate(i, h) + rate(l, k) + 2

(* Four categories of input, each rounded on its own, come to no more than *)
(* two units above the one that holds for all of them, and the output to   *)
(* no more than its own (Cost).                                            *)
LEMMA PaidWithinHold ==
  ASSUME NEW a \in Nat, NEW b \in Nat, NEW c \in Nat, NEW d \in Nat, NEW o \in Nat,
         NEW ra \in Nat, NEW rb \in Nat, NEW rc \in Nat, NEW rd \in Nat, NEW ro \in Nat,
         NEW i \in Nat, NEW l \in Nat, NEW h \in Nat, NEW k \in Nat,
         HeldFor(a, b, c, d, o, ra, rb, rc, rd, ro, i, l, h, k)
  PROVE  Covered(a, b, c, d, o, ra, rb, rc, rd, ro, i, l, h, k)
<1>0. /\ (a > 0 => ra <= h) /\ (b > 0 => rb <= h) /\ (c > 0 => rc <= h) /\ (d > 0 => rd <= h) /\ ro <= k
      /\ a + b + c + d <= i /\ o <= l
  BY Zenon DEF HeldFor
<1>1. PICK T \in Nat : T = TokensPerUnit /\ T > 0
  BY BookIsValid
<1>2. PICK va \in Nat, vb \in Nat, vc \in Nat, vd \in Nat, vo \in Nat, vi \in Nat, vl \in Nat :
        /\ va = rate(a, ra) /\ vb = rate(b, rb) /\ vc = rate(c, rc) /\ vd = rate(d, rd) /\ vo = rate(o, ro)
        /\ vi = rate(i, h) /\ vl = rate(l, k)
  BY RateBounds
<1>3. /\ 2 * (T * va) <= 2 * (a * h) + T /\ 2 * (T * vb) <= 2 * (b * h) + T
      /\ 2 * (T * vc) <= 2 * (c * h) + T /\ 2 * (T * vd) <= 2 * (d * h) + T
  BY <1>0, <1>1, <1>2, PaidAt
<1>4. 2 * (i * h) < 2 * (T * vi) + T + 1
  BY <1>1, <1>2, RateBounds
<1>5. vo <= vl
  BY <1>0, <1>2, RateGrows
<1>6. (a + b + c + d) * h <= i * h
  <2>1. \A x, y, z \in Nat : x <= y => x * z <= y * z
    OBVIOUS
  <2>2. a + b + c + d \in Nat
    OBVIOUS
  <2> QED
    BY <1>0, <2>1, <2>2
<1>7. (a + b + c + d) * h = a * h + b * h + c * h + d * h
  OBVIOUS
<1>8. PICK xa \in Nat, xb \in Nat, xc \in Nat, xd \in Nat, xi \in Nat :
        xa = a * h /\ xb = b * h /\ xc = c * h /\ xd = d * h /\ xi = i * h
  OBVIOUS
<1>9. xa + xb + xc + xd <= xi
  BY <1>6, <1>7, <1>8
<1>10. PICK paid \in Nat : paid = va + vb + vc + vd
  OBVIOUS
<1>11. 2 * (T * paid) <= 2 * (xa + xb + xc + xd) + 4 * T
  <2>1. T * paid = T * va + T * vb + T * vc + T * vd
    BY <1>1, <1>2, <1>10
  <2>2. PICK ya \in Nat, yb \in Nat, yc \in Nat, yd \in Nat :
          ya = T * va /\ yb = T * vb /\ yc = T * vc /\ yd = T * vd
    <3>1. \A v \in Nat : T * v \in Nat
      BY <1>1
    <3> QED
      BY <1>2, <3>1, Zenon
  <2>3. 2 * ya <= 2 * xa + T /\ 2 * yb <= 2 * xb + T /\ 2 * yc <= 2 * xc + T /\ 2 * yd <= 2 * xd + T
    BY <1>3, <1>8, <2>2
  <2> QED
    BY <1>1, <2>1, <2>2, <2>3
<1>12. PICK y \in Nat, z \in Nat : y = T * paid /\ z = T * vi
  BY <1>1, <1>2, <1>10
<1>13. 2 * y < 2 * z + 5 * T + 1
  BY <1>1, <1>4, <1>8, <1>9, <1>11, <1>12
<1>14. paid <= vi + 2
  <2> SUFFICES ASSUME paid >= vi + 3
               PROVE  FALSE
    BY <1>2, <1>10
  <2>1. T * paid >= T * (vi + 3) /\ T * (vi + 3) = T * vi + 3 * T
    BY <1>1, <1>2, <1>10
  <2> QED
    BY <1>1, <1>12, <1>13, <2>1
<1> QED
  BY <1>2, <1>5, <1>10, <1>14 DEF Covered

-----------------------------------------------------------------------------
(***************************************************************************)
(* Groups of rows.                                                         *)
(***************************************************************************)

(* Rows that can be added up.                                              *)
HasAmounts(r) == r.cost \in Int /\ r.usage \in Usage

(* What an aggregate can be; one without records has no usage.             *)
Groups == {g \in [records : Nat, cost : Int, usage : Usage] : g.records = 0 => g.usage = NoUsage}

(* A row joined to a group, when it is of that group.                      *)
Joined(group, r, model, period) ==
  IF r.model = model /\ inPeriod(r.day, period) THEN add(group, r) ELSE group

(* A group begins with nothing.                                            *)
LEMMA NoneYetIsGroup == NoneYet \in Groups
BY DEF NoneYet, Groups, NoUsage, Usage

(* A row more makes a group of it.                                         *)
LEMMA GroupsAdd ==
  ASSUME NEW g \in Groups, NEW r, HasAmounts(r)
  PROVE  add(g, r) \in Groups
<1>1. [c \in Category |-> g.usage[c] + r.usage[c]] \in Usage
  BY DEF Groups, Usage, HasAmounts
<1>2. g.records + 1 \in Nat /\ g.records + 1 # 0 /\ g.cost + r.cost \in Int
  BY DEF Groups, HasAmounts
<1> QED
  BY <1>1, <1>2 DEF add, Groups

(* So does one that may be of another group.                               *)
LEMMA GroupsJoin ==
  ASSUME NEW g \in Groups, NEW r, HasAmounts(r), NEW model, NEW period
  PROVE  Joined(g, r, model, period) \in Groups
BY GroupsAdd DEF Joined

(* The same, as a function.                                                *)
JoinOp(R, model, period) == [g \in Groups |-> [r \in R |-> Joined(g, r, model, period)]]

(* What the fold of Aggregate chooses: see FoldLeft.                       *)
PlacesJoined(f, rows, model, period) ==
  f = [T \in SUBSET DOMAIN rows |->
         IF T = {} THEN NoneYet ELSE Joined(f[T \ {Max(T)}], rows[Max(T)], model, period)]

(* Aggregate by the function its fold chooses.                             *)
LEMMA AggregateDef ==
  ASSUME NEW rows, NEW model, NEW period
  PROVE  Aggregate(rows, model, period) = (CHOOSE f : PlacesJoined(f, rows, model, period))[DOMAIN rows]
BY Zenon DEF Aggregate, PlacesJoined, Joined, FoldLeft, MapThenFoldSet

(* Aggregate is a fold by Joined.                                          *)
LEMMA AggregateFold ==
  ASSUME NEW R, \A r \in R : HasAmounts(r), NEW s \in Seq(R), NEW model, NEW period
  PROVE  /\ Aggregate(s, model, period) \in Groups
         /\ Folds(Aggregate(s, model, period), JoinOp(R, model, period), NoneYet, s)
<1> DEFINE op == JoinOp(R, model, period)
           X  == Groups
<1>1. op \in [X -> [R -> X]] /\ NoneYet \in X /\ \A g \in X, r \in R : op[g][r] = Joined(g, r, model, period)
  <2>1. \A g \in X, r \in R : Joined(g, r, model, period) \in X
    BY GroupsJoin, Zenon
  <2> HIDE DEF X
  <2> QED
    BY <2>1, NoneYetIsGroup, Zenon DEF JoinOp, X
<1> HIDE DEF op, X
<1>2. PICK g \in [SUBSET DOMAIN s -> X] : FoldsPlaces(g, op, NoneYet, s)
  BY <1>1, FoldsPlacesSome
<1>3. \A i \in DOMAIN s : s[i] \in R
  BY LenProperties
<1>4. PlacesJoined(g, s, model, period)
  <2>1. ASSUME NEW T \in SUBSET DOMAIN s
        PROVE  g[T] = IF T = {} THEN NoneYet ELSE Joined(g[T \ {Max(T)}], s[Max(T)], model, period)
    <3>1. CASE T = {}
      BY <1>2, <3>1, Zenon DEF FoldsPlaces
    <3>2. CASE T # {}
      <4>1. Max(T) \in DOMAIN s /\ g[T] = op[g[T \ {Max(T)}]][s[Max(T)]]
        BY <1>2, <3>2, Zenon DEF FoldsPlaces
      <4>2. T \ {Max(T)} \in SUBSET DOMAIN s
        OBVIOUS
      <4>3. g[T \ {Max(T)}] \in X
        BY <4>2, Zenon
      <4> QED
        BY <1>1, <1>3, <3>2, <4>1, <4>3, Zenon
    <3> QED
      BY <3>1, <3>2
  <2> QED
    BY <2>1, Zenon DEF PlacesJoined
<1>5. PICK f : f = (CHOOSE x : PlacesJoined(x, s, model, period)) /\ PlacesJoined(f, s, model, period)
  BY <1>4, Zenon
<1>6. f[{}] = NoneYet
  BY <1>5, Zenon DEF PlacesJoined
<1>7. ASSUME NEW T \in SUBSET DOMAIN s, T # {}, f[T \ {Max(T)}] \in X
      PROVE  f[T] = op[f[T \ {Max(T)}]][s[Max(T)]]
  <2>1. f[T] = Joined(f[T \ {Max(T)}], s[Max(T)], model, period)
    BY <1>5, <1>7, Zenon DEF PlacesJoined
  <2>2. Max(T) \in DOMAIN s
    BY <1>2, <1>7, Zenon DEF FoldsPlaces
  <2> QED
    BY <1>1, <1>3, <1>7, <2>1, <2>2, Zenon
<1>8. f[DOMAIN s] \in X /\ Folds(f[DOMAIN s], op, NoneYet, s)
  <2>1. FoldsWithin(f, X, op, NoneYet, s)
    BY <1>6, <1>7, Zenon DEF FoldsWithin
  <2> QED
    BY <1>1, <2>1, PlacesFold, Zenon
<1>9. Aggregate(s, model, period) = f[DOMAIN s]
  BY <1>5, AggregateDef, Zenon
<1> QED
  BY <1>8, <1>9, Zenon DEF op, X

(* The aggregate, a row at a time.                                         *)
LEMMA AggregateAppend ==
  ASSUME NEW R, \A r \in R : HasAmounts(r), NEW s \in Seq(R), NEW r \in R, NEW model, NEW period
  PROVE  Aggregate(Append(s, r), model, period) = Joined(Aggregate(s, model, period), r, model, period)
<1>1. Append(s, r) \in Seq(R)
  BY AppendProperties
<1>2. Aggregate(s, model, period) \in Groups /\ Folds(Aggregate(s, model, period), JoinOp(R, model, period), NoneYet, s)
  BY AggregateFold
<1>3. Folds(Aggregate(Append(s, r), model, period), JoinOp(R, model, period), NoneYet, Append(s, r))
  BY <1>1, AggregateFold
<1>4. Aggregate(Append(s, r), model, period) = JoinOp(R, model, period)[Aggregate(s, model, period)][r]
  BY <1>2, <1>3, FoldsAppend
<1> QED
  BY <1>2, <1>4, Zenon DEF JoinOp

(* No rows come to nothing.                                                *)
LEMMA AggregateEmpty ==
  ASSUME NEW model, NEW period
  PROVE  Aggregate(<< >>, model, period) = NoneYet
<1>1. << >> \in Seq({}) /\ \A r \in {} : HasAmounts(r)
  BY EmptySeq
<1> QED
  BY <1>1, AggregateFold, FoldsEmpty

-----------------------------------------------------------------------------
(***************************************************************************)
(* What is written down.                                                   *)
(***************************************************************************)

(* The types of what is written down.                                      *)
DaysOf == 0 .. Days - 1
Prices == {fallbackPrice} \cup UNION {UNION {Lookup(m, d) : d \in DaysOf} : m \in Model}
Rows   == [model : Model, usage : Usage, day : DaysOf, cost : Int]
Holds  == [amount : Int, price : Prices, row : Nat]
Entries ==
  [model : Model, usage : Usage, cost : Int, estimated : BOOLEAN, day : DaysOf, price : Prices,
   request : Request, held : Holds]

Written == day \in DaysOf /\ held \in Holds /\ statement \in Seq(Rows) /\ ledger \in Seq(Entries)

(* The prices that are written down.                                       *)
LEMMA PricesArePrices ==
  ASSUME NEW p \in Prices
  PROVE  IsPrice(p)
<1>1. CASE p = fallbackPrice
  BY <1>1, FallbackIsPrice
<1>2. CASE p \in UNION {UNION {Lookup(m, d) : d \in DaysOf} : m \in Model}
  <2>1. PICK m \in Model : p \in UNION {Lookup(m, d) : d \in DaysOf}
    BY <1>2, Zenon
  <2>2. PICK d \in DaysOf : p \in Lookup(m, d)
    BY <2>1, Zenon
  <2> QED
    BY <2>2, LookupIsPrice, Zenon
<1> QED
  BY <1>1, <1>2 DEF Prices

(* What a lookup gives is one of them.                                     *)
LEMMA LookupInPrices ==
  ASSUME NEW m \in Model, NEW d \in DaysOf, NEW p \in Lookup(m, d)
  PROVE  p \in Prices /\ IsPrice(p)
<1>1. p \in Prices
  <2>1. p \in UNION {Lookup(m, e) : e \in DaysOf}
    OBVIOUS
  <2> QED
    BY <2>1 DEF Prices
<1> QED
  BY <1>1, PricesArePrices, Zenon

(* Features can be counted.                                                *)
LEMMA FeaturesFinite ==
  ASSUME NEW F \in SUBSET Feature
  PROVE  Cardinality(F) \in Nat /\ (F = {} => Cardinality(F) = 0)
<1>1. IsFiniteSet(Feature)
  <2>1. IsFiniteSet({"media"})
    BY FS_Singleton
  <2>2. IsFiniteSet({"media"} \cup {"hosted tool"})
    BY <2>1, FS_AddElement
  <2>3. IsFiniteSet(({"media"} \cup {"hosted tool"}) \cup {"modifier"})
    BY <2>2, FS_AddElement
  <2>4. Feature = ({"media"} \cup {"hosted tool"}) \cup {"modifier"}
    BY DEF Feature
  <2> QED
    BY <2>3, <2>4, Zenon
<1>2. IsFiniteSet(F)
  BY <1>1, FS_Subset
<1> QED
  BY <1>2, FS_CardinalityType, FS_EmptySet

(* What the request q holds, at the price p.                               *)
LEMMA ReservedIsNat ==
  ASSUME NEW q \in Request, NEW p, IsPrice(p)
  PROVE  /\ ReservedUsage(q, p) \in Usage /\ Reserved(q, p) \in Nat
         /\ ReservedUsage(q, p)["input"] = q.bytes + InputOverhead
         /\ ReservedUsage(q, p)["output"] = IF NoOutput(q) THEN 0 ELSE ReservationTokens(q.max, p)
         /\ \A c \in {"cached", "write5m", "write1h"} : ReservedUsage(q, p)[c] = 0
         /\ q.bytes \in Nat /\ InputOverhead \in Nat /\ ReservationTokens(q.max, p) \in Nat /\ q.max \in Nat
<1>1. q.bytes \in Nat /\ q.max \in Nat /\ InputOverhead \in Nat /\ p.defaultMax \in Nat
  BY RequestsAreRead, BookIsValid DEF IsPrice
<1>2. ReservationTokens(q.max, p) \in Nat
  BY <1>1 DEF ReservationTokens
<1>3. PICK o \in Nat : o = IF NoOutput(q) THEN 0 ELSE ReservationTokens(q.max, p)
  BY <1>2
<1>4. ReservedUsage(q, p) = [NoUsage EXCEPT !["input"] = q.bytes + InputOverhead, !["output"] = o]
  BY <1>3, Zenon DEF ReservedUsage, ReservationInputTokens
<1>5. /\ ReservedUsage(q, p) \in Usage
      /\ ReservedUsage(q, p)["input"] = q.bytes + InputOverhead
      /\ ReservedUsage(q, p)["output"] = o
      /\ \A c \in {"cached", "write5m", "write1h"} : ReservedUsage(q, p)[c] = 0
  BY <1>1, <1>4 DEF NoUsage, Usage, Category
<1>6. Reserved(q, p) \in Nat
  BY <1>5, CostIsNat, Zenon DEF Reserved
<1> QED
  BY <1>1, <1>2, <1>3, <1>5, <1>6, Zenon

(* No report is no usage.                                                  *)
LEMMA NothingReported == ReportedIn(<< >>) = NoUsage
<1> DEFINE Places(f) == f = [T \in SUBSET DOMAIN << >> |->
                               IF T = {} THEN NoUsage
                               ELSE Merge(f[T \ {Max(T)}], UsageFrom(<< >>[Max(T)].report))]
<1>1. ReportedIn(<< >>) = (CHOOSE f : Places(f))[DOMAIN << >>]
  BY Zenon DEF ReportedIn, FoldLeft, MapThenFoldSet
<1>2. DOMAIN << >> = {} /\ SUBSET DOMAIN << >> = {{}}
  OBVIOUS
<1>3. Places([T \in {{}} |-> NoUsage])
  BY <1>2
<1>4. PICK f : f = (CHOOSE g : Places(g)) /\ Places(f)
  <2> HIDE DEF Places
  <2> QED
    BY <1>3, Zenon
<1>5. f[{}] = NoUsage
  BY <1>2, <1>4
<1> QED
  BY <1>1, <1>2, <1>4, <1>5, Zenon

(* What is reported of a response comes up to what is billed, and is that  *)
(* when the response was complete.                                         *)
LEMMA ReportsComeUp ==
  ASSUME Serving, request # << >>
  PROVE  /\ UpTo(ReportedUsage, response[1].billed)
         /\ reader.done = "complete" => ReportedUsage \in {NoUsage, response[1].billed}
<1>1. PICK q \in Request : \E a \in Answers[q] :
        response = <<a>> /\ reader.streaming = a.streaming /\ Copied(reader, a.symbols, Range(a.symbols))
  BY Zenon DEF Serving
<1>2. PICK a \in Answers[q] :
        response = <<a>> /\ reader.streaming = a.streaming /\ Copied(reader, a.symbols, Range(a.symbols))
  BY <1>1, Zenon
<1>3. /\ a.symbols \in Seq(Range(a.symbols)) /\ (a.streaming => OneDataLine(a.symbols))
      /\ a.billed \in Usage
      /\ ReportedIn(Payloads(a.symbols)) \in {NoUsage, a.billed}
      /\ \A n \in DOMAIN Payloads(a.symbols) : UpTo(ReportedIn(SubSeq(Payloads(a.symbols), 1, n)), a.billed)
  BY VendorsReport, Zenon
<1>4. PICK w, V, r, s, l : /\ w = a.symbols /\ V = Range(a.symbols) /\ r = reader
                           /\ s = SubSeq(w, 1, Len(w) - Len(r.upstream)) /\ l = Payloads(w)
  OBVIOUS
<1>5. Shows(V, r, w, s)
  <2>1. w \in Seq(V) /\ Copied(r, w, V) /\ (r.streaming => OneDataLine(w))
    BY <1>2, <1>3, <1>4, Zenon
  <2> QED
    BY <1>4, <2>1, CopiedShows, Zenon
<1>6. /\ r.events \in Seq(V) /\ l \in Seq(V) /\ IsPrefix(r.events, l)
      /\ r.done = "complete" => r.events = << >> \/ r.events = l
  BY <1>4, <1>5, Zenon DEF Shows
<1>7. response[1].billed = a.billed
  BY <1>2
<1>8. UpTo(NoUsage, a.billed)
  BY <1>3 DEF UpTo, NoUsage, Usage
<1>9. UpTo(ReportedIn(r.events), a.billed)
  <2>1. CASE r.events = << >>
    BY <1>8, <2>1, NothingReported, Zenon
  <2>2. CASE r.events # << >>
    <3>1. PICK n \in Nat, k \in Nat : n = Len(r.events) /\ k = Len(l) /\ DOMAIN l = 1 .. k /\ n > 0 /\ n <= k
      <4>1. Len(r.events) \in Nat /\ Len(l) \in Nat /\ DOMAIN l = 1 .. Len(l) /\ Len(r.events) <= Len(l)
        BY <1>6, LenProperties DEF IsPrefix
      <4>2. Len(r.events) # 0
        BY <1>6, <2>2, EmptySeq
      <4>3. Len(r.events) > 0
        BY <4>1, <4>2
      <4> QED
        BY <4>1, <4>3, Zenon
    <3>2. SubSeq(l, 1, n) = r.events
      <4>1. SubSeq(r.events, 1, Len(r.events)) = r.events
        BY <1>6, SubSeqFull
      <4> QED
        BY <1>6, <3>1, <4>1, Zenon DEF IsPrefix
    <3>3. n \in DOMAIN l
      BY <3>1
    <3> QED
      BY <1>3, <1>4, <3>2, <3>3, Zenon
  <2> QED
    BY <2>1, <2>2
<1>10. r.done = "complete" => ReportedIn(r.events) \in {NoUsage, a.billed}
  BY <1>3, <1>4, <1>6, NothingReported, Zenon
<1> QED
  BY <1>4, <1>7, <1>9, <1>10, Zenon DEF ReportedUsage

(* What the reservation of q and the row of the statement it will meet say *)
(* when the vendor bills usage for it.                                     *)
Meets(st, h, q, usage) ==
  /\ h.row \in DOMAIN st
  /\ st[h.row].model = q.model /\ st[h.row].usage = usage /\ st[h.row].cost = Cost(h.price, usage)
  /\ h.amount = Reserved(q, h.price)

(* The request being served has its row and its hold.                      *)
Holding ==
  request # << >> =>
    /\ request[1] \in Request /\ response[1].billed \in Usage
    /\ Meets(statement, held, request[1], response[1].billed)

(* What was charged without a report.                                      *)
Guessed(e) ==
  /\ e.usage["input"] <= e.request.bytes
  /\ \A c \in {"cached", "write5m", "write1h"} : e.usage[c] = 0
  /\ e.usage["output"] <= ReservationTokens(e.request.max, e.price)

(* The entry e, of the row of the statement st that its hold names.        *)
Settled(e, st) ==
  /\ Meets(st, e.held, e.request, st[e.held.row].usage)
  /\ e.model = e.request.model /\ e.price \in Lookup(e.model, e.day) /\ e.cost = Cost(e.price, e.usage)
  /\ UpTo(e.usage, st[e.held.row].usage) \/ (e.estimated /\ Guessed(e))
  /\ ~e.estimated => e.usage = st[e.held.row].usage /\ LookupKnown(e.model, e.day) # {}

(* And so do all entries.                                                  *)
Settlement == \A i \in DOMAIN ledger : Settled(ledger[i], statement)

(* What is estimated is no more input than there are bytes, and no more    *)
(* output than was reserved (estimate).                                    *)
LEMMA EstimateIs ==
  ASSUME NEW q \in Request, NEW p, IsPrice(p)
  PROVE  /\ estimate(q, p) \in Usage
         /\ estimate(q, p)["input"] <= q.bytes
         /\ \A c \in {"cached", "write5m", "write1h"} : estimate(q, p)[c] = 0
         /\ estimate(q, p)["output"] <= ReservationTokens(q.max, p)
<1>1. PICK t \in Nat : t = ReservationTokens(q.max, p)
  BY ReservedIsNat
<1>2. PICK i \in Nat : i = EstimateFromChars(q.chars) /\ i <= q.bytes
  <2>1. q.chars \in Nat /\ q.bytes \in Nat /\ q.chars <= q.bytes
    BY RequestsAreRead
  <2>2. PICK k \in Nat : k = CharsPerToken /\ k > 0
    BY BookIsValid
  <2>3. PICK n \in Nat : n = q.chars
    BY <2>1
  <2>4. PICK i \in Int, z \in Int : i = (n + k - 1) \div k /\ n + k - 1 = k * i + z /\ 0 <= z /\ z < k /\ i >= 0
    BY <2>2
  <2>5. i <= n
    <3> SUFFICES ASSUME i >= n + 1
                 PROVE  FALSE
      BY <2>4
    <3>1. k * i >= k * (n + 1)
      BY <2>2, <2>4
    <3>2. k * (n + 1) = k * n + k
      BY <2>2
    <3>3. k * n >= n
      BY <2>2
    <3>4. PICK x \in Int, y \in Int : x = k * i /\ y = k * n
      BY <2>2, <2>4
    <3> QED
      BY <2>2, <2>4, <3>1, <3>2, <3>3, <3>4
  <2> QED
    BY <2>1, <2>2, <2>3, <2>4, <2>5 DEF EstimateFromChars
<1>3. PICK o \in Nat : o = (IF reader.done = "complete" THEN t ELSE t \div 2) /\ o <= t
  BY <1>1
<1>4. estimate(q, p) = [NoUsage EXCEPT !["input"] = i, !["output"] = o]
  BY <1>1, <1>2, <1>3, Zenon DEF estimate
<1> QED
  BY <1>1, <1>2, <1>3, <1>4 DEF NoUsage, Usage, Category

(* An entry settles the hold of the request it is for.                     *)
LEMMA EntrySettles ==
  ASSUME Serving, Written, Holding, Record
  PROVE  \E e \in Entries : /\ ledger' = Append(ledger, e) /\ Settled(e, statement)
                            /\ e.held = held /\ e.day = day /\ e.model = request[1].model
<1>1. /\ request # << >> /\ day \in DaysOf /\ held \in Holds /\ request[1] \in Request
      /\ response[1].billed \in Usage /\ Meets(statement, held, request[1], response[1].billed)
  BY DEF Record, Written, Holding
<1>2. PICK q, b : q = request[1] /\ b = response[1].billed
  OBVIOUS
<1>3. PICK p \in Lookup(request[1].model, day) :
        LET usage == IF ReportedUsage = NoUsage THEN estimate(request[1], p) ELSE ReportedUsage
        IN  ledger' = Append(ledger,
              [model |-> request[1].model, usage |-> usage, cost |-> Cost(p, usage),
               estimated |-> Estimated(request[1]), day |-> day,
               price |-> p, request |-> request[1], held |-> held])
  BY Zenon DEF Record
<1>4. PICK usage : usage = IF ReportedUsage = NoUsage THEN estimate(q, p) ELSE ReportedUsage
  OBVIOUS
<1>5. PICK est : est = Estimated(q) /\ est \in BOOLEAN
  BY DEF Estimated
<1>6. PICK e : e = [model |-> q.model, usage |-> usage, cost |-> Cost(p, usage), estimated |-> est, day |-> day,
                    price |-> p, request |-> q, held |-> held]
  OBVIOUS
<1>7. ledger' = Append(ledger, e)
  BY <1>2, <1>3, <1>4, <1>5, <1>6, Zenon
<1>8. /\ e.model = q.model /\ e.usage = usage /\ e.cost = Cost(p, usage) /\ e.estimated = est /\ e.day = day
      /\ e.price = p /\ e.request = q /\ e.held = held
  BY <1>6
<1>9. q \in Request /\ q.model \in Model /\ p \in Lookup(q.model, day) /\ p \in Prices /\ IsPrice(p)
  <2>1. q \in Request /\ p \in Lookup(q.model, day)
    BY <1>1, <1>2
  <2>2. q.model \in Model
    BY <2>1, RequestsAreRead
  <2> QED
    BY <1>1, <2>1, <2>2, LookupInPrices, Zenon
<1>10. UpTo(ReportedUsage, b) /\ (reader.done = "complete" => ReportedUsage \in {NoUsage, b})
  BY <1>1, <1>2, ReportsComeUp, Zenon
<1>11. usage \in Usage /\ (UpTo(usage, b) \/ (est /\ Guessed(e)))
  <2>1. CASE ReportedUsage = NoUsage
    <3>1. usage = estimate(q, p)
      BY <1>4, <2>1, Zenon
    <3>2. est
      BY <1>5, <2>1, Zenon DEF Estimated
    <3>3. /\ usage \in Usage /\ usage["input"] <= q.bytes /\ usage["output"] <= ReservationTokens(q.max, p)
          /\ \A c \in {"cached", "write5m", "write1h"} : usage[c] = 0
      BY <1>9, <3>1, EstimateIs, Zenon
    <3>4. Guessed(e)
      BY <1>8, <3>3, Zenon DEF Guessed
    <3> QED
      BY <3>2, <3>3, <3>4, Zenon
  <2>2. CASE ReportedUsage # NoUsage
    <3>1. usage = ReportedUsage
      BY <1>4, <2>2, Zenon
    <3> QED
      BY <1>10, <3>1, Zenon DEF UpTo
  <2> QED
    BY <2>1, <2>2
<1>12. ~est => usage = b /\ LookupKnown(q.model, day) # {}
  <2> SUFFICES ASSUME ~est
               PROVE  usage = b /\ LookupKnown(q.model, day) # {}
    OBVIOUS
  <2>1. LookupKnown(q.model, day) # {} /\ ReportedUsage # NoUsage /\ reader.done = "complete"
    BY <1>5, Zenon DEF Estimated
  <2>2. ReportedUsage = b
    BY <1>10, <2>1
  <2> QED
    BY <1>4, <2>1, <2>2, Zenon
<1>13. e \in Entries
  <2>1. Cost(p, usage) \in Int
    BY <1>9, <1>11, CostIsNat
  <2> QED
    BY <1>1, <1>5, <1>6, <1>9, <1>11, <2>1 DEF Entries
<1>14. statement[held.row].usage = b
  BY <1>1, <1>2, Zenon DEF Meets
<1>15. Settled(e, statement)
  BY <1>1, <1>2, <1>8, <1>9, <1>11, <1>12, <1>14, Zenon DEF Settled
<1> QED
  BY <1>2, <1>7, <1>8, <1>13, <1>15, Zenon

(* A row more changes nothing for those there are.                         *)
LEMMA RowsStay ==
  ASSUME NEW st \in Seq(Rows), NEW r \in Rows
  PROVE  /\ Append(st, r) \in Seq(Rows) /\ Append(st, r)[Len(st) + 1] = r /\ Len(st) + 1 \in DOMAIN Append(st, r)
         /\ Len(st) + 1 \in Nat /\ DOMAIN Append(st, r) = DOMAIN st \cup {Len(st) + 1} /\ Len(st) + 1 \notin DOMAIN st
         /\ \A i \in DOMAIN st : i \in DOMAIN Append(st, r) /\ Append(st, r)[i] = st[i]
<1>1. PICK n \in Nat : n = Len(st) /\ DOMAIN st = 1 .. n
  BY LenProperties
<1>2. /\ Append(st, r) \in Seq(Rows) /\ Len(Append(st, r)) = n + 1 /\ Append(st, r)[n + 1] = r
      /\ \A i \in 1 .. n : Append(st, r)[i] = st[i]
  BY <1>1, AppendProperties
<1>3. DOMAIN Append(st, r) = 1 .. n + 1
  BY <1>2, LenProperties
<1>4. /\ n + 1 \in 1 .. n + 1 /\ 1 .. n + 1 = (1 .. n) \cup {n + 1} /\ n + 1 \notin 1 .. n
      /\ \A i \in 1 .. n : i \in 1 .. n + 1
  OBVIOUS
<1> QED
  BY <1>1, <1>2, <1>3, <1>4

(* So an entry stays settled.                                              *)
LEMMA SettledStays ==
  ASSUME NEW st \in Seq(Rows), NEW r \in Rows, NEW e, Settled(e, st)
  PROVE  Settled(e, Append(st, r))
<1>1. e.held.row \in DOMAIN st
  BY Zenon DEF Settled, Meets
<1>2. e.held.row \in DOMAIN Append(st, r) /\ Append(st, r)[e.held.row] = st[e.held.row]
  BY <1>1, RowsStay
<1> QED
  BY <1>1, <1>2, Zenon DEF Settled, Meets

(* The row r is what is billed for q as usage, at the price p.             *)
BilledAs(r, q, usage, p) ==
  /\ r \in Rows /\ r.model = q.model /\ r.usage = usage /\ r.day = day
  /\ r.cost = Cost(p, usage) + Cardinality(q.features)

(* What the vendor bills is a row.                                         *)
LEMMA BillsRow ==
  ASSUME Written, NEW q \in Request, NEW a \in Answers[q], NEW p \in Lookup(q.model, day), Bills(q, a, p)
  PROVE  \E r \in Rows : statement' = Append(statement, r) /\ BilledAs(r, q, a.billed, p)
<1>1. q.model \in Model /\ q.features \in SUBSET Feature
  BY RequestsAreRead
<1>2. a.billed \in Usage
  BY VendorsReport, Zenon
<1>3. day \in DaysOf
  BY DEF Written
<1>4. Cost(p, a.billed) \in Nat /\ Cardinality(q.features) \in Nat
  <2>1. IsPrice(p)
    BY <1>1, <1>3, LookupInPrices, Zenon
  <2> QED
    BY <1>1, <1>2, <2>1, CostIsNat, FeaturesFinite, Zenon
<1>5. Cost(p, a.billed) + Cardinality(q.features) \in Int
  BY <1>4
<1>6. PICK r : r = [model |-> q.model, usage |-> a.billed, day |-> day,
                    cost |-> Cost(p, a.billed) + Cardinality(q.features)]
  OBVIOUS
<1>7. r \in Rows
  BY <1>1, <1>2, <1>3, <1>5, <1>6 DEF Rows
<1>8. r.model = q.model /\ r.usage = a.billed /\ r.day = day /\ r.cost = Cost(p, a.billed) + Cardinality(q.features)
  BY <1>6
<1>9. statement' = Append(statement, r)
  BY <1>6, Zenon DEF Bills
<1> QED
  BY <1>7, <1>8, <1>9, Zenon DEF BilledAs

(* What Forward does to the books.                                         *)
LEMMA ForwardWrites ==
  ASSUME Written, Forward
  PROVE  /\ request = << >> /\ request' # << >> /\ UNCHANGED <<day, ledger>>
         /\ request'[1] \in Request /\ response'[1].billed \in Usage
         /\ held' \in Holds /\ held'.row = Len(statement) + 1
         /\ \E r \in Rows : /\ statement' = Append(statement, r)
                            /\ r.model = request'[1].model /\ r.usage = response'[1].billed
                            /\ Meets(statement', held', request'[1], response'[1].billed)
<1>1. PICK q \in Request : \E a \in Answers[q], p \in Lookup(q.model, day) :
       /\ Metered(q)
       /\ held' = [amount |-> Reserved(q, p), price |-> p, row |-> Len(statement) + 1]
       /\ request' = <<q>> /\ response' = <<a>>
       /\ Bills(q, a, p)
  BY Zenon DEF Forward
<1>2. PICK a \in Answers[q] : \E p \in Lookup(q.model, day) :
       /\ Metered(q)
       /\ held' = [amount |-> Reserved(q, p), price |-> p, row |-> Len(statement) + 1]
       /\ request' = <<q>> /\ response' = <<a>>
       /\ Bills(q, a, p)
  BY <1>1, Zenon
<1>3. PICK p \in Lookup(q.model, day) :
       /\ Metered(q)
       /\ held' = [amount |-> Reserved(q, p), price |-> p, row |-> Len(statement) + 1]
       /\ request' = <<q>> /\ response' = <<a>>
       /\ Bills(q, a, p)
  BY <1>2, Zenon
<1>4. request = << >> /\ UNCHANGED <<day, ledger>>
  BY DEF Forward
<1>5. request' # << >> /\ request'[1] = q /\ response'[1] = a
  BY <1>3
<1>6. a.billed \in Usage
  BY VendorsReport, Zenon
<1>7. PICK r \in Rows : statement' = Append(statement, r) /\ BilledAs(r, q, a.billed, p)
  BY <1>3, BillsRow, Zenon
<1>8. statement \in Seq(Rows) /\ day \in DaysOf /\ q.model \in Model
  BY RequestsAreRead DEF Written
<1>9. p \in Prices /\ IsPrice(p)
  BY <1>8, LookupInPrices, Zenon
<1>10. Reserved(q, p) \in Nat
  BY <1>9, ReservedIsNat, Zenon
<1>11. Len(statement) + 1 \in Nat /\ Len(statement) + 1 \in DOMAIN statement' /\ statement'[Len(statement) + 1] = r
  BY <1>7, <1>8, RowsStay, Zenon
<1>12. /\ held' \in Holds /\ held'.row = Len(statement) + 1 /\ held'.price = p /\ held'.amount = Reserved(q, p)
  BY <1>3, <1>9, <1>10, <1>11 DEF Holds
<1>13. r.model = q.model /\ r.usage = a.billed /\ r.cost = Cost(p, a.billed)
  <2>1. Cardinality(q.features) = 0
    <3>1. q.features = {}
      BY <1>3 DEF Metered, UnsupportedBilling, ModelFound
    <3> QED
      BY <3>1, FeaturesFinite
  <2>2. Cost(p, a.billed) \in Nat
    BY <1>6, <1>9, CostIsNat, Zenon
  <2>3. r.cost = Cost(p, a.billed) + Cardinality(q.features) /\ r.model = q.model /\ r.usage = a.billed
    BY <1>7, Zenon DEF BilledAs
  <2> QED
    BY <2>1, <2>2, <2>3
<1>14. Meets(statement', held', q, a.billed)
  BY <1>11, <1>12, <1>13, Zenon DEF Meets
<1> QED
  BY <1>4, <1>5, <1>6, <1>7, <1>12, <1>13, <1>14, Zenon

(* What ForwardUnmetered does to them.                                     *)
LEMMA UnmeteredWrites ==
  ASSUME Written, ForwardUnmetered
  PROVE  /\ request = << >> /\ UNCHANGED <<reader, day, request, held, response, ledger>>
         /\ \E r \in Rows : statement' = Append(statement, r) /\ r.usage # NoUsage
<1>1. request = << >> /\ UNCHANGED <<reader, day, request, held, response, ledger>>
  BY DEF ForwardUnmetered
<1>2. PICK q \in Request : \E a \in Answers[q], p \in Lookup(q.model, day) : Bills(q, a, p)
  BY Zenon DEF ForwardUnmetered
<1>3. PICK a \in Answers[q] : \E p \in Lookup(q.model, day) : Bills(q, a, p)
  BY <1>2, Zenon
<1>4. PICK p \in Lookup(q.model, day) : Bills(q, a, p)
  BY <1>3, Zenon
<1>5. PICK r \in Rows : statement' = Append(statement, r) /\ BilledAs(r, q, a.billed, p)
  BY <1>4, BillsRow, Zenon
<1>6. a.billed # NoUsage
  BY VendorsReport, Zenon
<1> QED
  BY <1>1, <1>5, <1>6, Zenon DEF BilledAs

(* The invariant of the books.                                             *)
Books == Written /\ Holding /\ Settlement

(* The books are empty at first.                                           *)
LEMMA BooksInit == MeteringInit => Books
<1> SUFFICES ASSUME MeteringInit
             PROVE  Books
  OBVIOUS
<1>1. day \in DaysOf
  BY RequestsAreRead DEF MeteringInit, DaysOf
<1>2. held \in Holds
  BY DEF MeteringInit, NoHold, Holds, Prices
<1>3. statement \in Seq(Rows) /\ ledger \in Seq(Entries) /\ DOMAIN ledger = {} /\ request = << >>
  BY EmptySeq DEF MeteringInit
<1> QED
  BY <1>1, <1>2, <1>3, Zenon DEF Books, Written, Holding, Settlement

(* Every step leaves them in order: what Forward reserves Record settles,  *)
(* and the rows in between disturb neither.                                *)
LEMMA BooksStep == Serving /\ Books /\ [MeteringNext]_meteringVars => Books'
<1> SUFFICES ASSUME Serving, Books, [MeteringNext]_meteringVars
             PROVE  Books'
  OBVIOUS
<1>0. /\ Written /\ Holding /\ Settlement
      /\ day \in DaysOf /\ held \in Holds /\ statement \in Seq(Rows) /\ ledger \in Seq(Entries)
  BY DEF Books, Written
<1>1. CASE Forward
  <2>1. /\ request' # << >> /\ UNCHANGED <<day, ledger>>
        /\ request'[1] \in Request /\ response'[1].billed \in Usage
        /\ held' \in Holds
        /\ \E r \in Rows : /\ statement' = Append(statement, r)
                           /\ Meets(statement', held', request'[1], response'[1].billed)
    BY <1>0, <1>1, ForwardWrites, Zenon
  <2>2. PICK r \in Rows : /\ statement' = Append(statement, r)
                          /\ Meets(statement', held', request'[1], response'[1].billed)
    BY <2>1, Zenon
  <2>3. Written'
    <3>1. statement' \in Seq(Rows)
      BY <1>0, <2>2, RowsStay, Zenon
    <3> QED
      BY <1>0, <2>1, <3>1 DEF Written
  <2>4. Holding'
    BY <2>1, <2>2, Zenon DEF Holding
  <2>5. Settlement'
    <3>1. \A i \in DOMAIN ledger : Settled(ledger[i], statement')
      BY <1>0, <2>2, SettledStays, Zenon DEF Settlement
    <3> QED
      BY <2>1, <3>1 DEF Settlement
  <2> QED
    BY <2>3, <2>4, <2>5, Zenon DEF Books
<1>2. CASE ForwardUnmetered
  <2>1. request = << >> /\ UNCHANGED <<reader, day, request, held, response, ledger>>
    BY <1>0, <1>2, UnmeteredWrites, Zenon
  <2>2. PICK r \in Rows : statement' = Append(statement, r)
    BY <1>0, <1>2, UnmeteredWrites, Zenon
  <2>3. Written'
    <3>1. statement' \in Seq(Rows)
      BY <1>0, <2>2, RowsStay, Zenon
    <3> QED
      BY <1>0, <2>1, <3>1 DEF Written
  <2>4. Holding'
    BY <2>1 DEF Holding
  <2>5. Settlement'
    <3>1. \A i \in DOMAIN ledger : Settled(ledger[i], statement')
      BY <1>0, <2>2, SettledStays, Zenon DEF Settlement
    <3> QED
      BY <2>1, <3>1 DEF Settlement
  <2> QED
    BY <2>3, <2>4, <2>5, Zenon DEF Books
<1>3. CASE CopyResponse
  <2>1. UNCHANGED <<day, request, held, response, ledger, statement>>
    BY <1>3 DEF CopyResponse
  <2> QED
    BY <1>0, <2>1 DEF Books, Written, Holding, Settlement
<1>4. CASE Midnight
  <2>1. UNCHANGED <<reader, request, held, response, ledger, statement>> /\ day < Days - 1 /\ day' = day + 1
    BY <1>4 DEF Midnight
  <2>2. day' \in DaysOf
    BY <1>0, <2>1, RequestsAreRead DEF DaysOf
  <2> QED
    BY <1>0, <2>1, <2>2 DEF Books, Written, Holding, Settlement
<1>5. CASE Record
  <2>1. request' = << >> /\ held' = NoHold /\ UNCHANGED <<day, statement>>
    BY <1>5 DEF Record
  <2>2. PICK e \in Entries : ledger' = Append(ledger, e) /\ Settled(e, statement)
    BY <1>0, <1>5, EntrySettles, Zenon
  <2>3. Written'
    <3>1. NoHold \in Holds
      BY DEF NoHold, Holds, Prices
    <3>2. Append(ledger, e) \in Seq(Entries)
      BY <1>0, AppendProperties
    <3> QED
      BY <1>0, <2>1, <2>2, <3>1, <3>2, Zenon DEF Written
  <2>4. Holding'
    BY <2>1, Zenon DEF Holding
  <2>5. Settlement'
    <3>1. PICK n \in Nat : n = Len(ledger) /\ DOMAIN ledger = 1 .. n
      BY <1>0, LenProperties
    <3>2. /\ ledger' \in Seq(Entries) /\ Len(ledger') = n + 1 /\ ledger'[n + 1] = e
          /\ \A i \in 1 .. n : ledger'[i] = ledger[i]
      BY <1>0, <2>2, <3>1, AppendProperties
    <3>3. DOMAIN ledger' = 1 .. n + 1
      BY <3>2, LenProperties
    <3>4. ASSUME NEW i \in DOMAIN ledger'
          PROVE  Settled(ledger'[i], statement)
      <4>1. i = n + 1 \/ i \in 1 .. n
        BY <3>3, <3>4
      <4>2. CASE i = n + 1
        BY <2>2, <3>2, <4>2, Zenon
      <4>3. CASE i \in 1 .. n
        <5>1. Settled(ledger[i], statement) /\ ledger'[i] = ledger[i]
          BY <1>0, <3>1, <3>2, <4>3, Zenon DEF Settlement
        <5> QED
          BY <5>1, Zenon
      <4> QED
        BY <4>1, <4>2, <4>3, Zenon
    <3>5. statement' = statement
      BY <2>1
    <3> QED
      BY <3>4, <3>5, Zenon DEF Settlement
  <2> QED
    BY <2>3, <2>4, <2>5, Zenon DEF Books
<1>6. CASE UNCHANGED meteringVars
  BY <1>0, <1>6 DEF meteringVars, Books, Written, Holding, Settlement
<1> QED
  BY <1>1, <1>2, <1>3, <1>4, <1>5, <1>6, Zenon DEF MeteringNext

-----------------------------------------------------------------------------
(***************************************************************************)
(* The charge.                                                             *)
(***************************************************************************)

(* With that an entry that is no estimate is exact.                        *)
LEMMA BooksExact == Books => ExactEntries
<1> SUFFICES ASSUME Books, NEW i \in DOMAIN ledger, ~ledger[i].estimated
             PROVE  /\ ledger[i].usage = Billed(ledger[i])
                    /\ ledger[i].cost \in {Cost(p, Billed(ledger[i])) :
                                             p \in LookupKnown(ledger[i].model, ledger[i].day)}
  BY Zenon DEF ExactEntries
<1>1. PICK e : e = ledger[i]
  OBVIOUS
<1>2. Settled(e, statement) /\ ~e.estimated
  BY <1>1, Zenon DEF Books, Settlement
<1>3. /\ e.usage = Billed(e) /\ LookupKnown(e.model, e.day) # {}
      /\ e.price \in Lookup(e.model, e.day) /\ e.cost = Cost(e.price, e.usage)
  BY <1>2, Zenon DEF Settled, Billed
<1>4. e.price \in LookupKnown(e.model, e.day)
  BY <1>3, Zenon DEF Lookup
<1>5. e.cost \in {Cost(p, Billed(e)) : p \in LookupKnown(e.model, e.day)}
  BY <1>3, <1>4, Zenon
<1> QED
  BY <1>1, <1>3, <1>5, Zenon

(* What the reservation amounts to: the input and the output.              *)
LEMMA ReservedSplits ==
  ASSUME NEW q \in Request, NEW p, IsPrice(p),
         NEW h, h = Rates(p, ReservedUsage(q, p))["input"], NEW k, k = Rates(p, ReservedUsage(q, p))["output"],
         NEW o, o = ReservedUsage(q, p)["output"]
  PROVE  /\ h \in Nat /\ k \in Nat /\ o \in Nat /\ q.bytes + InputOverhead \in Nat
         /\ Reserved(q, p) = rate(q.bytes + InputOverhead, h) + rate(o, k)
<1>1. PICK u : u = ReservedUsage(q, p)
  OBVIOUS
<1>2. /\ u \in Usage /\ u["input"] = q.bytes + InputOverhead /\ u["output"] = o
      /\ u["cached"] = 0 /\ u["write5m"] = 0 /\ u["write1h"] = 0
      /\ q.bytes \in Nat /\ InputOverhead \in Nat
  BY <1>1, ReservedIsNat
<1>3. PICK r : r = Rates(p, u)
  OBVIOUS
<1>4. \A c \in Category : r[c] \in Nat
  BY <1>3, RatesAreNat, Zenon
<1>5. h \in Nat /\ k \in Nat /\ h = r["input"] /\ k = r["output"]
  BY <1>1, <1>3, <1>4 DEF Category
<1>6. o \in Nat /\ q.bytes + InputOverhead \in Nat
  BY <1>2 DEF Usage, Category
<1>7. rate(0, r["cached"]) = 0 /\ rate(0, r["write5m"]) = 0 /\ rate(0, r["write1h"]) = 0
  BY <1>4, RateBounds DEF Category
<1>8. Cost(p, u) = rate(u["input"], r["input"]) + rate(u["cached"], r["cached"])
                   + rate(u["write5m"], r["write5m"]) + rate(u["write1h"], r["write1h"])
                   + rate(u["output"], r["output"])
  BY <1>3, Zenon DEF Cost
<1>9. rate(q.bytes + InputOverhead, h) \in Nat /\ rate(o, k) \in Nat
  BY <1>5, <1>6, RateBounds
<1>10. Cost(p, u) = rate(q.bytes + InputOverhead, h) + 0 + 0 + 0 + rate(o, k)
  BY <1>2, <1>5, <1>7, <1>8, Zenon
<1> QED
  BY <1>1, <1>5, <1>6, <1>9, <1>10 DEF Reserved

(* No more tokens than were reserved, but for output nothing was held for. *)
Within(e, i, o) == TotalInput(e.usage) <= i /\ (NoOutput(e.request) \/ e.usage["output"] <= o)

(* What is charged are no more tokens than were held for, whether they     *)
(* were reported within the limits or estimated.                           *)
LEMMA ChargedWithin ==
  ASSUME NEW e \in Entries, Settled(e, statement), WithinLimits(e), Billed(e) \in Usage
  PROVE  Within(e, e.request.bytes + InputOverhead, ReservedUsage(e.request, e.price)["output"])
<1>1. e.request \in Request /\ IsPrice(e.price) /\ e.usage \in Usage
  <2>1. e.request \in Request /\ e.price \in Prices /\ e.usage \in Usage
    BY DEF Entries
  <2> QED
    BY <2>1, PricesArePrices, Zenon
<1>2. PICK q, p, u, b : q = e.request /\ p = e.price /\ u = e.usage /\ b = Billed(e)
  OBVIOUS
<1>3. PICK t, i, m, o : t = ReservationTokens(q.max, p) /\ i = q.bytes /\ m = q.max /\ o = ReservedUsage(q, p)["output"]
  OBVIOUS
<1>4. /\ o = (IF NoOutput(q) THEN 0 ELSE t) /\ i \in Nat /\ InputOverhead \in Nat /\ t \in Nat /\ m \in Nat
  <2>1. q \in Request /\ IsPrice(p)
    BY <1>1, <1>2, Zenon
  <2> QED
    BY <1>3, <2>1, ReservedIsNat, Zenon
<1>5. m <= t
  BY <1>3, <1>4 DEF ReservationTokens
<1>6. \A c \in Category : u[c] \in Nat /\ b[c] \in Nat
  BY <1>1, <1>2 DEF Usage
<1>7. /\ b["input"] + b["cached"] + b["write5m"] + b["write1h"] <= i + InputOverhead
      /\ b["output"] <= IF NoOutput(q) THEN 0 ELSE m
  BY <1>2, <1>3, Zenon DEF WithinLimits, TotalInput
<1>8. UpTo(u, b) \/ (e.estimated /\ Guessed(e))
  BY <1>2, Zenon DEF Settled, Billed
<1>9. CASE UpTo(u, b)
  <2>1. \A c \in Category : u[c] <= b[c]
    BY <1>9 DEF UpTo
  <2>2. /\ u["input"] <= b["input"] /\ u["cached"] <= b["cached"] /\ u["write5m"] <= b["write5m"]
        /\ u["write1h"] <= b["write1h"] /\ u["output"] <= b["output"]
    BY <2>1 DEF Category
  <2>3. /\ u["input"] \in Nat /\ u["cached"] \in Nat /\ u["write5m"] \in Nat /\ u["write1h"] \in Nat /\ u["output"] \in Nat
        /\ b["input"] \in Nat /\ b["cached"] \in Nat /\ b["write5m"] \in Nat /\ b["write1h"] \in Nat /\ b["output"] \in Nat
    BY <1>6 DEF Category
  <2>4. u["input"] + u["cached"] + u["write5m"] + u["write1h"] <= i + InputOverhead
    BY <1>4, <1>7, <2>2, <2>3
  <2>5. u["output"] <= o
    BY <1>4, <1>5, <1>7, <2>2, <2>3
  <2> QED
    BY <1>2, <1>3, <2>4, <2>5, Zenon DEF Within, TotalInput
<1>10. CASE e.estimated /\ Guessed(e)
  <2>1. /\ u["input"] <= i /\ u["cached"] = 0 /\ u["write5m"] = 0 /\ u["write1h"] = 0 /\ u["output"] <= t
    BY <1>2, <1>3, <1>10 DEF Guessed
  <2>2. NoOutput(q) \/ o = t
    BY <1>4, Zenon
  <2>3. u["input"] \in Nat
    BY <1>6 DEF Category
  <2>4. u["input"] + u["cached"] + u["write5m"] + u["write1h"] <= i + InputOverhead
    BY <1>4, <2>1, <2>3
  <2> QED
    BY <1>2, <1>3, <2>1, <2>2, <2>4, Zenon DEF Within, TotalInput
<1> QED
  BY <1>8, <1>9, <1>10, Zenon

(* With that a charge is within its hold.                                  *)
LEMMA BooksWithinHold == Books => ChargeWithinHold
<1> SUFFICES ASSUME Books, NEW i \in DOMAIN ledger, NEW e, e = ledger[i],
                    WithinLimits(e), PricedAsHeld(e)
             PROVE  2 * (e.cost - UnheldOutput(e) - (e.held.amount + PriceChange(e))) <= Cardinality(Inputs)
  BY Zenon DEF ChargeWithinHold
<1>1. ledger \in Seq(Entries) /\ statement \in Seq(Rows) /\ Settled(e, statement)
  BY Zenon DEF Books, Written, Settlement
<1>2. e \in Entries
  BY <1>1, LenProperties
<1>3. Billed(e) \in Usage
  <2>1. e.held.row \in DOMAIN statement
    BY <1>1, Zenon DEF Settled, Meets
  <2>2. statement[e.held.row] \in Rows
    BY <1>1, <2>1, LenProperties
  <2> QED
    BY <2>2 DEF Rows, Billed
<1>4. PICK q, p, u : q = e.request /\ p = e.price /\ u = e.usage
  OBVIOUS
<1>5. q \in Request /\ IsPrice(p) /\ u \in Usage
  <2>1. e.request \in Request /\ e.price \in Prices /\ e.usage \in Usage
    BY <1>2 DEF Entries
  <2> QED
    BY <1>4, <2>1, PricesArePrices, Zenon
<1>6. PICK h, k, o, l : /\ h = Rates(p, ReservedUsage(q, p))["input"] /\ k = Rates(p, ReservedUsage(q, p))["output"]
                        /\ o = ReservedUsage(q, p)["output"] /\ l = q.bytes + InputOverhead
  OBVIOUS
<1>7. /\ h \in Nat /\ k \in Nat /\ o \in Nat /\ l \in Nat
      /\ Reserved(q, p) = rate(l, h) + rate(o, k)
  BY <1>5, <1>6, ReservedSplits
<1>8. Within(e, l, o)
  BY <1>1, <1>2, <1>3, <1>4, <1>6, ChargedWithin, Zenon
<1>9. PICK r : r = Rates(p, u)
  OBVIOUS
<1>10. \A c \in Category : r[c] \in Nat /\ u[c] \in Nat
  <2>1. \A c \in Category : r[c] \in Nat
    BY <1>5, <1>9, RatesAreNat, Zenon
  <2> QED
    BY <1>5, <2>1 DEF Usage
<1>11. /\ \A c \in Inputs : u[c] > 0 => r[c] <= h
       /\ r["output"] <= k
  BY <1>4, <1>6, <1>9, Zenon DEF PricedAsHeld
<1>12. PICK a \in Nat, b \in Nat, c \in Nat, d \in Nat, g \in Nat :
         a = u["input"] /\ b = u["cached"] /\ c = u["write5m"] /\ d = u["write1h"] /\ g = u["output"]
  BY <1>10 DEF Category
<1>13. PICK ra \in Nat, rb \in Nat, rc \in Nat, rd \in Nat, rg \in Nat :
         ra = r["input"] /\ rb = r["cached"] /\ rc = r["write5m"] /\ rd = r["write1h"] /\ rg = r["output"]
  BY <1>10 DEF Category
<1>14. /\ a > 0 => ra <= h
       /\ b > 0 => rb <= h
       /\ c > 0 => rc <= h
       /\ d > 0 => rd <= h
       /\ rg <= k
  BY <1>11, <1>12, <1>13 DEF Inputs, Category
<1>15. PICK s \in Nat : s = IF NoOutput(q) THEN 0 ELSE g
  BY <1>12
<1>16. a + b + c + d <= l /\ s <= o
  <2>1. a + b + c + d <= l /\ (NoOutput(q) \/ g <= o)
    BY <1>4, <1>8, <1>12, Zenon DEF Within, TotalInput
  <2> QED
    BY <1>7, <1>15, <2>1
<1>17. rate(a, ra) + rate(b, rb) + rate(c, rc) + rate(d, rd) + rate(s, rg) <= rate(l, h) + rate(o, k) + 2
  <2>1. HeldFor(a, b, c, d, s, ra, rb, rc, rd, rg, l, o, h, k)
    BY <1>14, <1>16, Zenon DEF HeldFor
  <2>2. Covered(a, b, c, d, s, ra, rb, rc, rd, rg, l, o, h, k)
    BY <1>7, <2>1, PaidWithinHold, Zenon
  <2> QED
    BY <2>2, Zenon DEF Covered
<1>18. e.cost - UnheldOutput(e) = rate(a, ra) + rate(b, rb) + rate(c, rc) + rate(d, rd) + rate(s, rg)
  <2>1. e.cost = rate(a, ra) + rate(b, rb) + rate(c, rc) + rate(d, rd) + rate(g, rg)
    <3>1. e.cost = Cost(p, u)
      BY <1>1, <1>4, Zenon DEF Settled
    <3> QED
      BY <1>9, <1>12, <1>13, <3>1, Zenon DEF Cost
  <2>2. UnheldOutput(e) = IF NoOutput(q) THEN rate(g, rg) ELSE 0
    BY <1>4, <1>9, <1>12, <1>13, Zenon DEF UnheldOutput
  <2>3. /\ rate(a, ra) \in Nat /\ rate(b, rb) \in Nat /\ rate(c, rc) \in Nat /\ rate(d, rd) \in Nat
        /\ rate(g, rg) \in Nat /\ rate(0, rg) = 0
    BY RateBounds
  <2>4. CASE NoOutput(q)
    <3>1. s = 0 /\ UnheldOutput(e) = rate(g, rg)
      BY <1>15, <2>2, <2>4
    <3>2. rate(s, rg) = 0
      BY <2>3, <3>1, Zenon
    <3> QED
      BY <2>1, <2>3, <3>1, <3>2
  <2>5. CASE ~NoOutput(q)
    <3>1. s = g /\ UnheldOutput(e) = 0
      BY <1>15, <2>2, <2>5
    <3>2. rate(s, rg) = rate(g, rg)
      BY <3>1, Zenon
    <3> QED
      BY <2>1, <2>3, <3>1, <3>2
  <2> QED
    BY <2>4, <2>5, Zenon
<1>19. e.held.amount + PriceChange(e) = rate(l, h) + rate(o, k)
  <2>1. PICK f : f = e.held.price
    OBVIOUS
  <2>2. e.held.amount = Reserved(q, f) /\ PriceChange(e) = Reserved(q, p) - Reserved(q, f)
    BY <1>1, <1>4, <2>1, Zenon DEF Settled, Meets, PriceChange
  <2>3. Reserved(q, f) \in Nat
    <3>1. f \in Prices
      BY <1>2, <2>1 DEF Entries, Holds
    <3> QED
      BY <1>5, <3>1, PricesArePrices, ReservedIsNat, Zenon
  <2>4. Reserved(q, p) \in Nat
    BY <1>5, ReservedIsNat, Zenon
  <2>5. e.held.amount + PriceChange(e) = Reserved(q, p)
    BY <2>2, <2>3, <2>4
  <2> QED
    BY <1>7, <2>5, Zenon
<1> QED
  <2>1. PICK v \in Nat, w \in Nat : v = e.cost - UnheldOutput(e) /\ w = e.held.amount + PriceChange(e)
    <3>1. /\ rate(a, ra) \in Nat /\ rate(b, rb) \in Nat /\ rate(c, rc) \in Nat /\ rate(d, rd) \in Nat
          /\ rate(s, rg) \in Nat /\ rate(l, h) \in Nat /\ rate(o, k) \in Nat
      BY <1>7, RateBounds, Zenon
    <3> QED
      BY <1>18, <1>19, <3>1
  <2>2. v <= w + 2
    BY <1>17, <1>18, <1>19, <2>1, Zenon
  <2> QED
    BY <2>1, <2>2, FourInputs

(* An entry that is not marked as an estimate has what the vendor billed,  *)
(* at a price of the book in force on its day (Record, UsageFrom, Merge),  *)
(* for every book, every request and every response.                       *)
THEOREM EntriesExact == MeteringSpec => []ExactEntries
<1>1. MeteringInit => Serving /\ Books
  BY ServingInit, BooksInit
<1>2. Serving /\ Books /\ [MeteringNext]_meteringVars => (Serving /\ Books)'
  BY ServingStep, BooksStep
<1>3. Books => ExactEntries
  BY BooksExact
<1> QED
  BY <1>1, <1>2, <1>3, PTL DEF MeteringSpec

(* Under the policy strict a charge is within its hold and what a change   *)
(* of price adds to such a hold, but for half a unit in each category of   *)
(* input and the output estimated for a request without one, as long as no *)
(* token is dearer than it was held for (Reserve, Record, estimate, Cost), *)
(* for every book, every request and every response.                       *)
THEOREM ChargesWithinHolds == MeteringSpec => []ChargeWithinHold
<1>1. MeteringInit => Serving /\ Books
  BY ServingInit, BooksInit
<1>2. Serving /\ Books /\ [MeteringNext]_meteringVars => (Serving /\ Books)'
  BY ServingStep, BooksStep
<1>3. Books => ChargeWithinHold
  BY BooksWithinHold
<1> QED
  BY <1>1, <1>2, <1>3, PTL DEF MeteringSpec

-----------------------------------------------------------------------------
(***************************************************************************)
(* The statement.                                                          *)
(***************************************************************************)

(* Rows and entries can be added up.                                       *)
LEMMA BooksHaveAmounts == (\A r \in Rows : HasAmounts(r)) /\ (\A e \in Entries : HasAmounts(e))
BY DEF Rows, Entries, HasAmounts

Whole == Span(0, Days)
Periods == {Whole} \cup {Span(d, d + 1) : d \in DaysOf}

(* The entries are exact, and of the days of their rows when P tells days  *)
(* apart.                                                                  *)
Faultless(P) ==
  /\ \A i \in DOMAIN ledger : Exact(i)
  /\ P = Whole \/ \A i \in DOMAIN ledger : SameDay(i)

(* The rows that have an entry, or are about to have one; and what the     *)
(* ledger comes to with that one.                                          *)
Rowed == Entered \cup (IF request = << >> THEN {} ELSE {held.row})
Due(m, P) ==
  IF request = << >> THEN Aggregate(ledger, m, P)
  ELSE Joined(Aggregate(ledger, m, P), statement[held.row], m, P)
Stated(m, P) == Aggregate(statement, m, P)

(* What was metered exactly comes to what was billed, over the whole time  *)
(* and, entries being of the days of their rows, day by day.               *)
Agrees == \A m \in Model, P \in Periods : Faultless(P) /\ Rowed = DOMAIN statement => Stated(m, P) = Due(m, P)

(* Usage there is on one side.                                             *)
AtLeast(g, f) == \A c \in Category : f.usage[c] <= g.usage[c]
Exceeds(g, f) == \E c \in Category : f.usage[c] < g.usage[c]

(* And a row without an entry is on the side of the statement alone.       *)
Tells ==
  Faultless(Whole) =>
    /\ \A m \in Model : AtLeast(Stated(m, Whole), Due(m, Whole))
    /\ Rowed # DOMAIN statement => \E m \in Model : Exceeds(Stated(m, Whole), Due(m, Whole))

(* All the days are in the period of all days.                             *)
LEMMA SpansMeet ==
  ASSUME NEW t \in DaysOf
  PROVE  inPeriod(t, Whole)
BY RequestsAreRead DEF inPeriod, Whole, Span, DaysOf

(* What counts of two rows in P is the same.                               *)
Alike(e, r, P) ==
  e.model = r.model /\ e.usage = r.usage /\ e.cost = r.cost /\ (inPeriod(e.day, P) <=> inPeriod(r.day, P))

(* Such rows add the same.                                                 *)
LEMMA JoinedAlike ==
  ASSUME NEW g, NEW e, NEW r, NEW m, NEW P, Alike(e, r, P)
  PROVE  Joined(g, e, m, P) = Joined(g, r, m, P)
BY DEF Joined, add, Alike

(* The aggregates are groups.                                              *)
LEMMA DueIsGroup ==
  ASSUME Written, Holding, NEW m, NEW P
  PROVE  Aggregate(ledger, m, P) \in Groups /\ Stated(m, P) \in Groups /\ Due(m, P) \in Groups
<1>1. ledger \in Seq(Entries) /\ statement \in Seq(Rows)
  BY DEF Written
<1>2. Aggregate(ledger, m, P) \in Groups
  BY <1>1, AggregateFold, BooksHaveAmounts
<1>3. Aggregate(statement, m, P) \in Groups
  BY <1>1, AggregateFold, BooksHaveAmounts
<1>4. ASSUME request # << >>
      PROVE  Joined(Aggregate(ledger, m, P), statement[held.row], m, P) \in Groups
  <2>1. statement[held.row] \in Rows
    <3>1. held.row \in DOMAIN statement
      BY <1>4, Zenon DEF Holding, Meets
    <3> QED
      BY <1>1, <3>1, LenProperties
  <2>2. HasAmounts(statement[held.row])
    BY <2>1, BooksHaveAmounts, Zenon
  <2> QED
    BY <1>2, <2>2, GroupsJoin, Zenon
<1> QED
  BY <1>2, <1>3, <1>4, Zenon DEF Due, Stated

(* A row more is joined to the statement.                                  *)
LEMMA StatedGrows ==
  ASSUME Written, NEW r \in Rows, statement' = Append(statement, r), NEW m, NEW P
  PROVE  Stated(m, P)' = Joined(Stated(m, P), r, m, P)
<1>1. statement \in Seq(Rows)
  BY DEF Written
<1>2. Aggregate(Append(statement, r), m, P) = Joined(Aggregate(statement, m, P), r, m, P)
  BY <1>1, AggregateAppend, BooksHaveAmounts
<1> QED
  BY <1>2, Zenon DEF Stated

(* An entry, and the one to come, is of a row of the statement.            *)
LEMMA EnteredStated ==
  ASSUME Books
  PROVE  Entered \subseteq DOMAIN statement /\ Rowed \subseteq DOMAIN statement
<1>1. ASSUME NEW i \in DOMAIN ledger
      PROVE  ledger[i].held.row \in DOMAIN statement
  BY Zenon DEF Books, Settlement, Settled, Meets
<1>2. request # << >> => held.row \in DOMAIN statement
  BY Zenon DEF Books, Holding, Meets
<1> QED
  BY <1>1, <1>2 DEF Entered, Rowed

(* A row more leaves the entries as faultless as they were.                *)
LEMMA FaultlessStays ==
  ASSUME Books, NEW r \in Rows, statement' = Append(statement, r), ledger' = ledger, NEW P
  PROVE  Faultless(P)' => Faultless(P)
<1>1. ASSUME NEW i \in DOMAIN ledger
      PROVE  (Exact(i)' => Exact(i)) /\ (SameDay(i)' => SameDay(i))
  <2>1. ledger[i].held.row \in DOMAIN statement
    BY Zenon DEF Books, Settlement, Settled, Meets
  <2>2. statement \in Seq(Rows)
    BY DEF Books, Written
  <2>3. statement'[ledger[i].held.row] = statement[ledger[i].held.row]
    BY <2>1, <2>2, RowsStay
  <2> QED
    BY <2>3, Zenon DEF Exact, SameDay
<1>2. DOMAIN ledger' = DOMAIN ledger
  OBVIOUS
<1>3. Whole' = Whole
  BY DEF Whole, Span
<1> QED
  BY <1>1, <1>2, <1>3, Zenon DEF Faultless

(* How the books grow: a row with a reservation, a row without one, or an  *)
(* entry.                                                                  *)
Reserves(r) ==
  /\ statement' = Append(statement, r)
  /\ Rowed' = Rowed \cup {Len(statement) + 1}
  /\ \A P : Faultless(P)' => Faultless(P)
  /\ \A m, P : Stated(m, P)' = Joined(Stated(m, P), r, m, P) /\ Due(m, P)' = Joined(Due(m, P), r, m, P)

Slips(r) ==
  /\ statement' = Append(statement, r)
  /\ Rowed' = Rowed /\ r.usage # NoUsage
  /\ \A P : Faultless(P)' => Faultless(P)
  /\ \A m, P : Stated(m, P)' = Joined(Stated(m, P), r, m, P) /\ Due(m, P)' = Due(m, P)

Keeps ==
  /\ statement' = statement
  /\ Rowed' = Rowed
  /\ \A P : Faultless(P)' => Faultless(P)
  /\ \A m : \A P \in Periods : Stated(m, P)' = Stated(m, P) /\ (Faultless(P)' => Due(m, P)' = Due(m, P))

(* Forward adds a row, and the reservation that will meet it.              *)
LEMMA ForwardReserves ==
  ASSUME Books, Forward
  PROVE  \E r \in Rows : Reserves(r)
<1>1. Written
  BY DEF Books
<1>2. request = << >> /\ request' # << >> /\ UNCHANGED ledger /\ held'.row = Len(statement) + 1
  BY <1>1, ForwardWrites, Zenon
<1>3. PICK r \in Rows : statement' = Append(statement, r)
  BY <1>1, ForwardWrites, Zenon
<1>4. statement \in Seq(Rows)
  BY <1>1 DEF Written
<1>5. statement'[held'.row] = r
  <2>1. Append(statement, r)[Len(statement) + 1] = r
    BY <1>4, RowsStay, Zenon
  <2> QED
    BY <1>2, <1>3, <2>1
<1>6. Rowed' = Rowed \cup {Len(statement) + 1}
  <2>1. Entered' = Entered
    BY <1>2 DEF Entered
  <2>2. Rowed' = Entered' \cup {held'.row} /\ Rowed = Entered
    BY <1>2 DEF Rowed
  <2> QED
    BY <1>2, <2>1, <2>2, Zenon
<1>7. ASSUME NEW P
      PROVE  Faultless(P)' => Faultless(P)
  BY <1>2, <1>3, FaultlessStays, Zenon
<1>8. ASSUME NEW m, NEW P
      PROVE  Stated(m, P)' = Joined(Stated(m, P), r, m, P) /\ Due(m, P)' = Joined(Due(m, P), r, m, P)
  <2>1. Stated(m, P)' = Joined(Stated(m, P), r, m, P)
    BY <1>1, <1>3, StatedGrows, Zenon
  <2>2. Due(m, P) = Aggregate(ledger, m, P)
    BY <1>2, Zenon DEF Due
  <2>3. Due(m, P)' = Joined(Aggregate(ledger, m, P), r, m, P)
    BY <1>2, <1>5, Zenon DEF Due
  <2> QED
    BY <2>1, <2>2, <2>3, Zenon
<1> QED
  BY <1>3, <1>6, <1>7, <1>8, Zenon DEF Reserves

(* ForwardUnmetered adds a row that no entry will meet.                    *)
LEMMA UnmeteredSlips ==
  ASSUME Books, ForwardUnmetered
  PROVE  \E r \in Rows : Slips(r)
<1>1. Written
  BY DEF Books
<1>2. request = << >> /\ UNCHANGED <<request, held, ledger>>
  BY <1>1, UnmeteredWrites
<1>3. PICK r \in Rows : statement' = Append(statement, r) /\ r.usage # NoUsage
  BY <1>1, UnmeteredWrites, Zenon
<1>4. Rowed' = Rowed
  BY <1>2 DEF Rowed, Entered
<1>5. ASSUME NEW P
      PROVE  Faultless(P)' => Faultless(P)
  BY <1>2, <1>3, FaultlessStays, Zenon
<1>6. ASSUME NEW m, NEW P
      PROVE  Stated(m, P)' = Joined(Stated(m, P), r, m, P) /\ Due(m, P)' = Due(m, P)
  <2>1. Stated(m, P)' = Joined(Stated(m, P), r, m, P)
    BY <1>1, <1>3, StatedGrows, Zenon
  <2>2. Due(m, P) = Aggregate(ledger, m, P) /\ Due(m, P)' = Aggregate(ledger, m, P)
    BY <1>2, Zenon DEF Due
  <2> QED
    BY <2>1, <2>2, Zenon
<1> QED
  BY <1>3, <1>4, <1>5, <1>6, Zenon DEF Slips

(* The entry of a hold comes to what its row comes to, when it is exact.   *)
LEMMA RecordKeeps ==
  ASSUME Serving, Books, Record
  PROVE  Keeps
<1>1. /\ Written /\ Holding /\ ledger \in Seq(Entries) /\ statement \in Seq(Rows)
      /\ request # << >> /\ request' = << >> /\ statement' = statement
  BY DEF Books, Written, Record
<1>2. PICK e \in Entries : /\ ledger' = Append(ledger, e) /\ Settled(e, statement)
                           /\ e.held = held /\ e.day = day /\ e.model = request[1].model
  BY <1>1, EntrySettles, Zenon
<1>3. PICK n \in Nat : n = Len(ledger) /\ DOMAIN ledger = 1 .. n
  BY <1>1, LenProperties
<1>4. /\ ledger' \in Seq(Entries) /\ DOMAIN ledger' = 1 .. n + 1 /\ ledger'[n + 1] = e
      /\ \A i \in 1 .. n : ledger'[i] = ledger[i]
  <2>1. /\ ledger' \in Seq(Entries) /\ Len(ledger') = n + 1 /\ ledger'[n + 1] = e
        /\ \A i \in 1 .. n : ledger'[i] = ledger[i]
    BY <1>1, <1>2, <1>3, AppendProperties
  <2> QED
    BY <2>1, LenProperties
<1>5. (1 .. n) \cup {n + 1} = 1 .. n + 1
  OBVIOUS
<1>6. Rowed' = Rowed
  <2>1. Entered = {ledger[i].held.row : i \in 1 .. n}
    BY <1>3 DEF Entered
  <2>2. Entered' = {ledger'[i].held.row : i \in 1 .. n + 1}
    BY <1>4 DEF Entered
  <2>3. Entered' = Entered \cup {held.row}
    BY <1>2, <1>4, <1>5, <2>1, <2>2
  <2> QED
    BY <1>1, <2>3 DEF Rowed
<1>7. /\ \A i \in DOMAIN ledger : i \in DOMAIN ledger' /\ (Exact(i)' => Exact(i)) /\ (SameDay(i)' => SameDay(i))
      /\ n + 1 \in DOMAIN ledger'
      /\ Exact(n + 1)' => ~e.estimated /\ e.price = e.held.price
      /\ SameDay(n + 1)' => e.day = statement[held.row].day
  <2>1. ASSUME NEW i \in DOMAIN ledger
        PROVE  i \in DOMAIN ledger' /\ (Exact(i)' => Exact(i)) /\ (SameDay(i)' => SameDay(i))
    <3>1. i \in 1 .. n /\ i \in 1 .. n + 1
      BY <1>3
    <3>2. ledger'[i] = ledger[i] /\ i \in DOMAIN ledger'
      BY <1>4, <3>1, Zenon
    <3> QED
      BY <1>1, <3>2, Zenon DEF Exact, SameDay
  <2>2. n + 1 \in DOMAIN ledger'
    BY <1>4
  <2> QED
    BY <1>1, <1>2, <1>4, <2>1, <2>2, Zenon DEF Exact, SameDay
<1>8. Whole' = Whole
  BY DEF Whole, Span
<1>9. ASSUME NEW P
      PROVE  Faultless(P)' => Faultless(P)
  BY <1>7, <1>8, Zenon DEF Faultless
<1>10. ASSUME NEW m, NEW P \in Periods
       PROVE  Stated(m, P)' = Stated(m, P) /\ (Faultless(P)' => Due(m, P)' = Due(m, P))
  <2>1. Stated(m, P)' = Stated(m, P)
    BY <1>1, Zenon DEF Stated
  <2> SUFFICES ASSUME Faultless(P)'
               PROVE  Due(m, P)' = Due(m, P)
    BY <2>1
  <2>2. Due(m, P)' = Aggregate(ledger', m, P)
    BY <1>1, Zenon DEF Due
  <2>3. Aggregate(ledger', m, P) = Joined(Aggregate(ledger, m, P), e, m, P)
    BY <1>1, <1>2, AggregateAppend, BooksHaveAmounts
  <2>4. PICK r \in Rows : r = statement[held.row]
    <3>1. held.row \in DOMAIN statement
      BY <1>1, Zenon DEF Holding, Meets
    <3> QED
      BY <1>1, <3>1, LenProperties
  <2>5. Due(m, P) = Joined(Aggregate(ledger, m, P), r, m, P)
    BY <1>1, <2>4, Zenon DEF Due
  <2>6. ~e.estimated /\ e.price = e.held.price /\ (P = Whole \/ e.day = r.day)
    BY <1>7, <1>8, <2>4, Zenon DEF Faultless
  <2>7. e.usage = r.usage /\ e.cost = r.cost /\ e.model = r.model
    <3>1. e.usage = r.usage
      BY <1>2, <2>4, <2>6, Zenon DEF Settled
    <3>2. r.cost = Cost(e.held.price, r.usage) /\ e.cost = Cost(e.price, e.usage) /\ r.model = e.model
      BY <1>2, <2>4, Zenon DEF Settled, Meets
    <3> QED
      BY <2>6, <3>1, <3>2, Zenon
  <2>8. inPeriod(e.day, P) <=> inPeriod(r.day, P)
    <3>1. CASE P = Whole
      <4>1. e.day \in DaysOf /\ r.day \in DaysOf
        BY DEF Entries, Rows
      <4> QED
        BY <3>1, <4>1, SpansMeet, Zenon
    <3>2. CASE e.day = r.day
      BY <3>2, Zenon
    <3> QED
      BY <2>6, <3>1, <3>2, Zenon
  <2>9. Joined(Aggregate(ledger, m, P), e, m, P) = Joined(Aggregate(ledger, m, P), r, m, P)
    <3>1. Alike(e, r, P)
      BY <2>7, <2>8, Zenon DEF Alike
    <3>2. PICK g : g = Aggregate(ledger, m, P)
      OBVIOUS
    <3>3. Joined(g, e, m, P) = Joined(g, r, m, P)
      BY <3>1, JoinedAlike
    <3> QED
      BY <3>2, <3>3, Zenon
  <2> QED
    BY <2>2, <2>3, <2>5, <2>9, Zenon
<1> QED
  BY <1>1, <1>6, <1>9, <1>10, Zenon DEF Keeps

(* Joining the same row keeps two groups apart, or together.               *)
LEMMA JoinedKeepsOrder ==
  ASSUME NEW f \in Groups, NEW g \in Groups, NEW r \in Rows, NEW m, NEW P
  PROVE  /\ AtLeast(g, f) => AtLeast(Joined(g, r, m, P), Joined(f, r, m, P))
         /\ Exceeds(g, f) => Exceeds(Joined(g, r, m, P), Joined(f, r, m, P))
<1>1. CASE r.model = m /\ inPeriod(r.day, P)
  <2>1. Joined(g, r, m, P) = add(g, r) /\ Joined(f, r, m, P) = add(f, r)
    BY <1>1, Zenon DEF Joined
  <2>2. \A c \in Category : f.usage[c] \in Nat /\ g.usage[c] \in Nat /\ r.usage[c] \in Nat
    BY DEF Groups, Rows, Usage
  <2>3. ASSUME NEW c \in Category
        PROVE  /\ add(f, r).usage[c] = f.usage[c] + r.usage[c]
               /\ add(g, r).usage[c] = g.usage[c] + r.usage[c]
    BY DEF add
  <2>4. ASSUME NEW c \in Category
        PROVE  /\ f.usage[c] <= g.usage[c] => add(f, r).usage[c] <= add(g, r).usage[c]
               /\ f.usage[c] < g.usage[c] => add(f, r).usage[c] < add(g, r).usage[c]
    BY <2>2, <2>3
  <2> QED
    BY <2>1, <2>4, Zenon DEF AtLeast, Exceeds
<1>2. CASE ~(r.model = m /\ inPeriod(r.day, P))
  BY <1>2, Zenon DEF Joined
<1> QED
  BY <1>1, <1>2

(* A row joined to one of them only.                                       *)
LEMMA JoinedGrows ==
  ASSUME NEW f \in Groups, NEW g \in Groups, NEW r \in Rows, NEW m, NEW P, AtLeast(g, f)
  PROVE  /\ AtLeast(Joined(g, r, m, P), f)
         /\ m = r.model /\ inPeriod(r.day, P) /\ r.usage # NoUsage => Exceeds(Joined(g, r, m, P), f)
<1>1. CASE r.model = m /\ inPeriod(r.day, P)
  <2>1. Joined(g, r, m, P) = add(g, r)
    BY <1>1, Zenon DEF Joined
  <2>2. \A c \in Category : f.usage[c] \in Nat /\ g.usage[c] \in Nat /\ r.usage[c] \in Nat /\ f.usage[c] <= g.usage[c]
    BY DEF Groups, Rows, Usage, AtLeast
  <2>3. ASSUME NEW c \in Category
        PROVE  add(g, r).usage[c] = g.usage[c] + r.usage[c]
    BY DEF add
  <2>4. ASSUME NEW c \in Category
        PROVE  f.usage[c] <= add(g, r).usage[c] /\ (r.usage[c] # 0 => f.usage[c] < add(g, r).usage[c])
    BY <2>2, <2>3
  <2>5. r.usage # NoUsage => \E c \in Category : r.usage[c] # 0
    BY DEF Rows, Usage, NoUsage
  <2> QED
    BY <2>1, <2>4, <2>5, Zenon DEF AtLeast, Exceeds
<1>2. CASE ~(r.model = m /\ inPeriod(r.day, P))
  BY <1>2, Zenon DEF Joined
<1> QED
  BY <1>1, <1>2

(* The invariant of reconciliation.                                        *)
Reconciles == Agrees /\ Tells

(* All the days are a period to be told about.                             *)
LEMMA WholeIsPeriod == Whole \in Periods /\ Whole' = Whole /\ Periods' = Periods
BY DEF Periods, Whole, Span, DaysOf

(* A row with its reservation is on both sides.                            *)
LEMMA ReservesReconciles ==
  ASSUME Books, Reconciles, NEW r \in Rows, Reserves(r)
  PROVE  Reconciles'
<1>1. /\ statement \in Seq(Rows) /\ statement' = Append(statement, r)
      /\ Rowed' = Rowed \cup {Len(statement) + 1}
      /\ \A P : Faultless(P)' => Faultless(P)
      /\ \A m, P : Stated(m, P)' = Joined(Stated(m, P), r, m, P) /\ Due(m, P)' = Joined(Due(m, P), r, m, P)
  BY Zenon DEF Reserves, Books, Written
<1>2. Rowed' = DOMAIN statement' <=> Rowed = DOMAIN statement
  <2>1. DOMAIN statement' = DOMAIN statement \cup {Len(statement) + 1} /\ Len(statement) + 1 \notin DOMAIN statement
    BY <1>1, RowsStay, Zenon
  <2>2. Rowed \subseteq DOMAIN statement
    BY EnteredStated
  <2> QED
    BY <1>1, <2>1, <2>2
<1>3. Agrees'
  <2>1. ASSUME NEW m \in Model, NEW P \in Periods, Faultless(P)', Rowed' = DOMAIN statement'
        PROVE  Stated(m, P)' = Due(m, P)'
    <3>1. Stated(m, P) = Due(m, P)
      BY <1>1, <1>2, <2>1, Zenon DEF Reconciles, Agrees
    <3> QED
      BY <1>1, <3>1, Zenon
  <2> QED
    BY <2>1, WholeIsPeriod, Zenon DEF Agrees
<1>4. Tells'
  <2>1. SUFFICES ASSUME Faultless(Whole)'
                 PROVE  /\ \A m \in Model : AtLeast(Stated(m, Whole)', Due(m, Whole)')
                        /\ Rowed' # DOMAIN statement' => \E m \in Model : Exceeds(Stated(m, Whole)', Due(m, Whole)')
    BY WholeIsPeriod, Zenon DEF Tells, AtLeast, Exceeds
  <2>2. /\ \A m \in Model : AtLeast(Stated(m, Whole), Due(m, Whole))
        /\ Rowed # DOMAIN statement => \E m \in Model : Exceeds(Stated(m, Whole), Due(m, Whole))
    <3>1. Faultless(Whole)
      BY <1>1, <2>1, WholeIsPeriod, Zenon DEF Faultless
    <3> QED
      BY <3>1, Zenon DEF Reconciles, Tells
  <2>3. ASSUME NEW m \in Model
        PROVE  /\ AtLeast(Stated(m, Whole), Due(m, Whole)) => AtLeast(Stated(m, Whole)', Due(m, Whole)')
               /\ Exceeds(Stated(m, Whole), Due(m, Whole)) => Exceeds(Stated(m, Whole)', Due(m, Whole)')
    <3>1. Stated(m, Whole) \in Groups /\ Due(m, Whole) \in Groups
      BY DueIsGroup, Zenon DEF Books
    <3>2. /\ Stated(m, Whole)' = Joined(Stated(m, Whole), r, m, Whole)
          /\ Due(m, Whole)' = Joined(Due(m, Whole), r, m, Whole)
      BY <1>1, WholeIsPeriod
    <3> QED
      BY <3>1, <3>2, JoinedKeepsOrder, Zenon
  <2> QED
    BY <1>2, <2>2, <2>3, Zenon
<1> QED
  BY <1>3, <1>4, Zenon DEF Reconciles

(* A row without one is on the side of the statement alone, and stays so.  *)
LEMMA SlipsReconciles ==
  ASSUME Books, Reconciles, request = << >>, NEW r \in Rows, Slips(r)
  PROVE  Reconciles'
<1>1. /\ statement \in Seq(Rows) /\ statement' = Append(statement, r)
      /\ Rowed' = Rowed /\ r.usage # NoUsage
      /\ \A P : Faultless(P)' => Faultless(P)
      /\ \A m, P : Stated(m, P)' = Joined(Stated(m, P), r, m, P) /\ Due(m, P)' = Due(m, P)
  BY Zenon DEF Slips, Books, Written
<1>2. Rowed' # DOMAIN statement'
  <2>1. DOMAIN statement' = DOMAIN statement \cup {Len(statement) + 1} /\ Len(statement) + 1 \notin DOMAIN statement
    BY <1>1, RowsStay, Zenon
  <2>2. Rowed \subseteq DOMAIN statement
    BY EnteredStated
  <2> QED
    BY <1>1, <2>1, <2>2
<1>3. Agrees'
  BY <1>2, Zenon DEF Agrees
<1>4. Tells'
  <2>1. SUFFICES ASSUME Faultless(Whole)'
                 PROVE  /\ \A m \in Model : AtLeast(Stated(m, Whole)', Due(m, Whole)')
                        /\ \E m \in Model : Exceeds(Stated(m, Whole)', Due(m, Whole)')
    BY WholeIsPeriod, Zenon DEF Tells, AtLeast, Exceeds
  <2>2. \A m \in Model : AtLeast(Stated(m, Whole), Due(m, Whole))
    <3>1. Faultless(Whole)
      BY <1>1, <2>1, WholeIsPeriod, Zenon DEF Faultless
    <3> QED
      BY <3>1, Zenon DEF Reconciles, Tells
  <2>3. ASSUME NEW m \in Model
        PROVE  /\ AtLeast(Stated(m, Whole)', Due(m, Whole)')
               /\ m = r.model => Exceeds(Stated(m, Whole)', Due(m, Whole)')
    <3>1. Stated(m, Whole) \in Groups /\ Due(m, Whole) \in Groups
      BY DueIsGroup, Zenon DEF Books
    <3>2. Stated(m, Whole)' = Joined(Stated(m, Whole), r, m, Whole) /\ Due(m, Whole)' = Due(m, Whole)
      BY <1>1, WholeIsPeriod
    <3>3. inPeriod(r.day, Whole)
      <4>1. r.day \in DaysOf
        BY DEF Rows
      <4> QED
        BY <4>1, SpansMeet, Zenon
    <3> QED
      BY <1>1, <2>2, <3>1, <3>2, <3>3, JoinedGrows, Zenon
  <2>4. r.model \in Model
    BY DEF Rows
  <2> QED
    BY <2>3, <2>4, Zenon
<1> QED
  BY <1>3, <1>4, Zenon DEF Reconciles

(* An exact entry takes the place of its row.                              *)
LEMMA KeepsReconciles ==
  ASSUME Reconciles, Keeps
  PROVE  Reconciles'
<1>1. /\ statement' = statement /\ Rowed' = Rowed
      /\ \A P : Faultless(P)' => Faultless(P)
      /\ \A m : \A P \in Periods : Stated(m, P)' = Stated(m, P) /\ (Faultless(P)' => Due(m, P)' = Due(m, P))
  BY Zenon DEF Keeps
<1>2. Agrees'
  <2>1. ASSUME NEW m \in Model, NEW P \in Periods, Faultless(P)', Rowed' = DOMAIN statement'
        PROVE  Stated(m, P)' = Due(m, P)'
    <3>1. Stated(m, P) = Due(m, P)
      BY <1>1, <2>1, Zenon DEF Reconciles, Agrees
    <3> QED
      BY <1>1, <2>1, <3>1, Zenon
  <2> QED
    BY <2>1, WholeIsPeriod, Zenon DEF Agrees
<1>3. Tells'
  <2>1. SUFFICES ASSUME Faultless(Whole)'
                 PROVE  /\ \A m \in Model : AtLeast(Stated(m, Whole)', Due(m, Whole)')
                        /\ Rowed' # DOMAIN statement' => \E m \in Model : Exceeds(Stated(m, Whole)', Due(m, Whole)')
    BY WholeIsPeriod, Zenon DEF Tells, AtLeast, Exceeds
  <2>2. Faultless(Whole)
    BY <1>1, <2>1, WholeIsPeriod, Zenon DEF Faultless
  <2>3. /\ \A m \in Model : AtLeast(Stated(m, Whole), Due(m, Whole))
        /\ Rowed # DOMAIN statement => \E m \in Model : Exceeds(Stated(m, Whole), Due(m, Whole))
    BY <2>2, Zenon DEF Reconciles, Tells
  <2>4. \A m : Stated(m, Whole)' = Stated(m, Whole) /\ Due(m, Whole)' = Due(m, Whole)
    BY <1>1, <2>1, WholeIsPeriod
  <2> QED
    BY <1>1, <2>3, <2>4, Zenon
<1> QED
  BY <1>2, <1>3, Zenon DEF Reconciles

(* What is in two periods.                                                 *)
SumsTo(l, r, b) == b.records = l.records + r.records /\ b.cost = l.cost + r.cost

(* A period is the sum of the two it is divided into.                      *)
Adds ==
  \A m \in Model, d \in 1 .. Days - 1 :
    SumsTo(Aggregate(ledger, m, Span(0, d)), Aggregate(ledger, m, Span(d, Days)), Aggregate(ledger, m, Span(0, Days)))

(* An entry is in one of two adjacent periods, and not in both (inPeriod). *)
LEMMA JoinedSums ==
  ASSUME NEW l \in Groups, NEW r \in Groups, NEW b \in Groups, SumsTo(l, r, b),
         NEW e \in Entries, NEW m, NEW d \in 1 .. Days - 1
  PROVE  SumsTo(Joined(l, e, m, Span(0, d)), Joined(r, e, m, Span(d, Days)), Joined(b, e, m, Span(0, Days)))
<1>1. e.day \in DaysOf /\ e.cost \in Int
  BY DEF Entries
<1>2. /\ inPeriod(e.day, Span(0, Days))
      /\ inPeriod(e.day, Span(0, d)) <=> ~inPeriod(e.day, Span(d, Days))
  BY <1>1, RequestsAreRead DEF inPeriod, Span, DaysOf
<1>3. /\ b.records = l.records + r.records /\ b.cost = l.cost + r.cost
      /\ l.records \in Nat /\ l.cost \in Int /\ r.records \in Nat /\ r.cost \in Int
      /\ b.records \in Nat /\ b.cost \in Int
  BY DEF SumsTo, Groups
<1>4. \A g : add(g, e).records = g.records + 1 /\ add(g, e).cost = g.cost + e.cost
  BY DEF add
<1>5. /\ b.records + 1 = (l.records + 1) + r.records /\ b.cost + e.cost = (l.cost + e.cost) + r.cost
      /\ b.records + 1 = l.records + (r.records + 1) /\ b.cost + e.cost = l.cost + (r.cost + e.cost)
  BY <1>1, <1>3
<1>6. CASE e.model # m
  <2>1. \A g, P : Joined(g, e, m, P) = g
    BY <1>6, Zenon DEF Joined
  <2> QED
    BY <2>1, Zenon
<1>7. CASE e.model = m /\ inPeriod(e.day, Span(0, d))
  <2>1. /\ Joined(l, e, m, Span(0, d)) = add(l, e) /\ Joined(r, e, m, Span(d, Days)) = r
        /\ Joined(b, e, m, Span(0, Days)) = add(b, e)
    BY <1>2, <1>7, Zenon DEF Joined
  <2> QED
    BY <1>3, <1>4, <1>5, <2>1, Zenon DEF SumsTo
<1>8. CASE e.model = m /\ ~inPeriod(e.day, Span(0, d))
  <2>1. /\ Joined(l, e, m, Span(0, d)) = l /\ Joined(r, e, m, Span(d, Days)) = add(r, e)
        /\ Joined(b, e, m, Span(0, Days)) = add(b, e)
    BY <1>2, <1>8, Zenon DEF Joined
  <2> QED
    BY <1>3, <1>4, <1>5, <2>1, Zenon DEF SumsTo
<1> QED
  BY <1>6, <1>7, <1>8

(* So the sum of the two is that of both.                                  *)
LEMMA EntryAdds ==
  ASSUME Written, Adds, NEW e \in Entries, ledger' = Append(ledger, e)
  PROVE  Adds'
<1>1. ledger \in Seq(Entries)
  BY DEF Written
<1>2. ASSUME NEW m \in Model, NEW d \in 1 .. Days - 1
      PROVE  SumsTo(Aggregate(ledger', m, Span(0, d)), Aggregate(ledger', m, Span(d, Days)),
                    Aggregate(ledger', m, Span(0, Days)))
  <2>1. \A P : /\ Aggregate(ledger, m, P) \in Groups
               /\ Aggregate(ledger', m, P) = Joined(Aggregate(ledger, m, P), e, m, P)
    <3>1. ASSUME NEW P
          PROVE  /\ Aggregate(ledger, m, P) \in Groups
                 /\ Aggregate(Append(ledger, e), m, P) = Joined(Aggregate(ledger, m, P), e, m, P)
      BY <1>1, AggregateFold, AggregateAppend, BooksHaveAmounts
    <3> QED
      BY <3>1, Zenon
  <2>2. PICK l, r, b : /\ l = Aggregate(ledger, m, Span(0, d)) /\ r = Aggregate(ledger, m, Span(d, Days))
                       /\ b = Aggregate(ledger, m, Span(0, Days))
    OBVIOUS
  <2>3. SumsTo(l, r, b) /\ l \in Groups /\ r \in Groups /\ b \in Groups
    BY <2>1, <2>2, Zenon DEF Adds
  <2>4. SumsTo(Joined(l, e, m, Span(0, d)), Joined(r, e, m, Span(d, Days)), Joined(b, e, m, Span(0, Days)))
    BY <2>3, JoinedSums, Zenon
  <2> QED
    BY <2>1, <2>2, <2>4, Zenon
<1>3. \A i, j : Span(i, j)' = Span(i, j)
  BY DEF Span
<1> QED
  BY <1>2, <1>3, Zenon DEF Adds

(* Which holds of nothing.                                                 *)
LEMMA NothingSums == SumsTo(NoneYet, NoneYet, NoneYet)
BY DEF SumsTo, NoneYet

(* At first there is nothing on either side.                               *)
LEMMA ReconcilesInit == MeteringInit => Reconciles /\ Adds
<1> SUFFICES ASSUME MeteringInit
             PROVE  Reconciles /\ Adds
  OBVIOUS
<1>1. request = << >> /\ statement = << >> /\ ledger = << >>
  BY DEF MeteringInit
<1>2. \A m, P : Aggregate(ledger, m, P) = NoneYet /\ Aggregate(statement, m, P) = NoneYet
  BY <1>1, AggregateEmpty, Zenon
<1>3. \A m, P : Stated(m, P) = NoneYet /\ Due(m, P) = NoneYet
  BY <1>1, <1>2, Zenon DEF Stated, Due
<1>4. Rowed = DOMAIN statement
  BY <1>1 DEF Rowed, Entered
<1>5. AtLeast(NoneYet, NoneYet)
  BY DEF AtLeast, NoneYet, NoUsage
<1>6. Reconciles
  BY <1>3, <1>4, <1>5, Zenon DEF Reconciles, Agrees, Tells
<1>7. Adds
  BY <1>2, NothingSums, Zenon DEF Adds
<1> QED
  BY <1>6, <1>7

(* Every step keeps the two sides together.                                *)
LEMMA ReconcilesStep ==
  Serving /\ Books /\ Reconciles /\ Adds /\ [MeteringNext]_meteringVars => (Reconciles /\ Adds)'
<1> SUFFICES ASSUME Serving, Books, Reconciles, Adds, [MeteringNext]_meteringVars
             PROVE  Reconciles' /\ Adds'
  OBVIOUS
<1>0. Written /\ Holding
  BY DEF Books
<1>1. ASSUME ledger' = ledger
      PROVE  Adds'
  BY <1>1 DEF Adds, SumsTo
<1>2. ASSUME UNCHANGED <<request, held, ledger, statement>>
      PROVE  Reconciles'
  <2>1. /\ \A P : Faultless(P)' => Faultless(P)
        /\ Rowed' = Rowed
        /\ \A m, P : Stated(m, P)' = Stated(m, P) /\ Due(m, P)' = Due(m, P)
    BY <1>2 DEF Faultless, Exact, SameDay, Rowed, Entered, Stated, Due, Whole, Span
  <2>2. Keeps
    BY <1>2, <2>1 DEF Keeps
  <2> QED
    BY <2>2, KeepsReconciles
<1>3. CASE Forward
  <2>1. PICK r \in Rows : Reserves(r)
    BY <1>3, ForwardReserves, Zenon
  <2>2. Reconciles'
    BY <2>1, ReservesReconciles, Zenon
  <2>3. ledger' = ledger
    BY <1>0, <1>3, ForwardWrites
  <2> QED
    BY <1>1, <2>2, <2>3
<1>4. CASE ForwardUnmetered
  <2>1. PICK r \in Rows : Slips(r)
    BY <1>4, UnmeteredSlips, Zenon
  <2>2. request = << >> /\ ledger' = ledger
    BY <1>0, <1>4, UnmeteredWrites
  <2>3. Reconciles'
    BY <2>1, <2>2, SlipsReconciles, Zenon
  <2> QED
    BY <1>1, <2>2, <2>3
<1>5. CASE CopyResponse
  BY <1>1, <1>2, <1>5 DEF CopyResponse
<1>6. CASE Midnight
  BY <1>1, <1>2, <1>6 DEF Midnight
<1>7. CASE Record
  <2>1. Reconciles'
    BY <1>7, RecordKeeps, KeepsReconciles, Zenon
  <2>2. PICK e \in Entries : ledger' = Append(ledger, e)
    BY <1>0, <1>7, EntrySettles, Zenon
  <2>3. Adds'
    BY <1>0, <2>2, EntryAdds, Zenon
  <2> QED
    BY <2>1, <2>3
<1>8. CASE UNCHANGED meteringVars
  BY <1>1, <1>2, <1>8 DEF meteringVars
<1> QED
  BY <1>3, <1>4, <1>5, <1>6, <1>7, <1>8, Zenon DEF MeteringNext

(* Groups that are equal match (groupStatus, Build).                       *)
LEMMA EqualsMatch ==
  ASSUME NEW entries, NEW rows, NEW P,
         \A m \in Model : /\ Aggregate(entries, m, P) \in Groups
                          /\ Aggregate(rows, m, P) = Aggregate(entries, m, P)
  PROVE  ~Mismatched(Build(entries, rows, P, 0))
<1> DEFINE D == {m \in Model : Aggregate(entries, m, P).records > 0 \/ Aggregate(rows, m, P).records > 0}
<1>1. Build(entries, rows, P, 0) =
        [m \in D |-> groupStatus(Aggregate(entries, m, P), Aggregate(rows, m, P), 0)]
  BY DEF Build
<1>2. ASSUME NEW m \in D
      PROVE  groupStatus(Aggregate(entries, m, P), Aggregate(rows, m, P), 0) = "match"
  <2>1. PICK g \in Groups : Aggregate(entries, m, P) = g /\ Aggregate(rows, m, P) = g
    OBVIOUS
  <2>2. g.records \in Nat /\ g.cost \in Int /\ g.records > 0
    BY <2>1 DEF Groups
  <2>3. g.cost - g.cost \in -0 .. 0 /\ ~(g.records = 0)
    BY <2>2
  <2>4. usageDelta(g, g) = {}
    BY DEF usageDelta
  <2>5. groupStatus(g, g, 0) = "match"
    BY <2>2, <2>3, <2>4 DEF groupStatus
  <2> QED
    BY <2>1, <2>5, Zenon
<1> HIDE DEF D
<1> QED
  BY <1>1, <1>2 DEF Mismatched

(* A group that has more on one side is a mismatch, whatever the tolerance *)
(* (groupStatus, usageDelta).                                              *)
LEMMA MoreMismatches ==
  ASSUME NEW entries, NEW rows, NEW P, NEW t, NEW m \in Model,
         Aggregate(entries, m, P) \in Groups, Aggregate(rows, m, P) \in Groups,
         Exceeds(Aggregate(rows, m, P), Aggregate(entries, m, P))
  PROVE  Mismatched(Build(entries, rows, P, t))
<1> DEFINE D == {n \in Model : Aggregate(entries, n, P).records > 0 \/ Aggregate(rows, n, P).records > 0}
<1>1. Build(entries, rows, P, t) =
        [n \in D |-> groupStatus(Aggregate(entries, n, P), Aggregate(rows, n, P), t)]
  BY DEF Build
<1>2. PICK f \in Groups, g \in Groups : f = Aggregate(entries, m, P) /\ g = Aggregate(rows, m, P)
  OBVIOUS
<1>3. PICK c \in Category : f.usage[c] < g.usage[c]
  BY <1>2, Zenon DEF Exceeds
<1>4. f.usage[c] \in Nat /\ g.usage[c] \in Nat /\ f.records \in Nat /\ g.records \in Nat
  BY DEF Groups, Usage
<1>5. g.records > 0
  <2>1. g.usage # NoUsage
    <3>1. NoUsage[c] = 0
      BY DEF NoUsage
    <3> QED
      BY <1>3, <1>4, <3>1
  <2>2. g.records # 0
    BY <2>1 DEF Groups
  <2> QED
    BY <1>4, <2>2
<1>6. groupStatus(f, g, t) # "match"
  <2>1. usageDelta(f, g) # {}
    <3>1. f.usage[c] # g.usage[c]
      BY <1>3, <1>4
    <3> QED
      BY <3>1 DEF usageDelta
  <2> QED
    BY <1>4, <1>5, <2>1 DEF groupStatus
<1>7. m \in D
  BY <1>2, <1>5
<1> HIDE DEF D
<1>8. m \in DOMAIN Build(entries, rows, P, t) /\ Build(entries, rows, P, t)[m] # "match"
  BY <1>1, <1>2, <1>6, <1>7
<1> QED
  BY <1>8, Zenon DEF Mismatched

(* With that reconciliation tells.                                         *)
LEMMA BooksTell == Books /\ Reconciles /\ Adds => ReconciliationTells
<1> SUFFICES ASSUME Books, Reconciles, Adds, request = << >>
             PROVE  /\ (\A i \in DOMAIN ledger : Exact(i)) =>
                         /\ Entered = DOMAIN statement => Reconciled(ledger, 0, Days)
                         /\ Entered # DOMAIN statement =>
                              Mismatched(Build(ledger, statement, Span(0, Days), Days * 1000))
                         /\ (\A i \in DOMAIN ledger : SameDay(i)) /\ Entered = DOMAIN statement =>
                              \A d \in 0 .. Days - 1 : Reconciled(ledger, d, d + 1)
                    /\ Adds
  BY Zenon DEF ReconciliationTells, Adds, SumsTo
<1>1. Rowed = Entered
  BY DEF Rowed
<1>2. \A m, P : /\ Aggregate(ledger, m, P) \in Groups /\ Aggregate(statement, m, P) \in Groups
                /\ Due(m, P) = Aggregate(ledger, m, P) /\ Stated(m, P) = Aggregate(statement, m, P)
  <2>1. \A m, P : Aggregate(ledger, m, P) \in Groups /\ Stated(m, P) \in Groups
    BY DueIsGroup, Zenon DEF Books
  <2> QED
    BY <2>1, Zenon DEF Due, Stated
<1>3. ASSUME Entered = DOMAIN statement, NEW P \in Periods, Faultless(P)
      PROVE  ~Mismatched(Build(ledger, statement, P, 0))
  <2>1. \A m \in Model : Aggregate(statement, m, P) = Aggregate(ledger, m, P)
    BY <1>1, <1>2, <1>3, Zenon DEF Reconciles, Agrees
  <2> QED
    BY <1>2, <2>1, EqualsMatch, Zenon
<1>4. ASSUME \A i \in DOMAIN ledger : Exact(i), Entered = DOMAIN statement
      PROVE  Reconciled(ledger, 0, Days)
  <2>1. Faultless(Whole)
    BY <1>4, Zenon DEF Faultless
  <2> QED
    BY <1>3, <1>4, <2>1, WholeIsPeriod, Zenon DEF Reconciled, Whole
<1>5. ASSUME \A i \in DOMAIN ledger : Exact(i), Entered # DOMAIN statement
      PROVE  Mismatched(Build(ledger, statement, Span(0, Days), Days * 1000))
  <2>1. Faultless(Whole)
    BY <1>5, Zenon DEF Faultless
  <2>2. PICK m \in Model : Exceeds(Stated(m, Whole), Due(m, Whole))
    BY <1>1, <1>5, <2>1, Zenon DEF Reconciles, Tells
  <2>3. /\ Aggregate(ledger, m, Whole) \in Groups /\ Aggregate(statement, m, Whole) \in Groups
        /\ Exceeds(Aggregate(statement, m, Whole), Aggregate(ledger, m, Whole))
    BY <1>2, <2>2, Zenon
  <2>4. \A t : Mismatched(Build(ledger, statement, Whole, t))
    BY <2>3, MoreMismatches
  <2> QED
    BY <2>4, Zenon DEF Whole
<1>6. ASSUME \A i \in DOMAIN ledger : Exact(i), Entered = DOMAIN statement,
             \A i \in DOMAIN ledger : SameDay(i), NEW d \in 0 .. Days - 1
      PROVE  Reconciled(ledger, d, d + 1)
  <2>1. Faultless(Span(d, d + 1)) /\ Span(d, d + 1) \in Periods
    BY <1>6, Zenon DEF Faultless, Periods, DaysOf
  <2> QED
    BY <1>3, <1>6, <2>1, Zenon DEF Reconciled
<1> QED
  BY <1>4, <1>5, <1>6, Zenon

(* Exact entries match the statement, a row without an entry is told of    *)
(* whatever the tolerance, and no entry is in two adjacent periods or in   *)
(* neither (Build, inPeriod, groupStatus), for every number of requests,   *)
(* of models and of days.                                                  *)
THEOREM ReconciliationsTell == MeteringSpec => []ReconciliationTells
<1>1. MeteringInit => Serving /\ Books /\ Reconciles /\ Adds
  BY ServingInit, BooksInit, ReconcilesInit
<1>2. Serving /\ Books /\ Reconciles /\ Adds /\ [MeteringNext]_meteringVars
        => (Serving /\ Books /\ Reconciles /\ Adds)'
  BY ServingStep, BooksStep, ReconcilesStep
<1>3. Books /\ Reconciles /\ Adds => ReconciliationTells
  BY BooksTell
<1> QED
  BY <1>1, <1>2, <1>3, PTL DEF MeteringSpec
=============================================================================
