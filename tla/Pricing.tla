------------------------------ MODULE Pricing -------------------------------
(***************************************************************************)
(* The price book and what it makes of tokens: internal/pricing.           *)
(*                                                                         *)
(* The book is read once, when the process starts (Reload has no other     *)
(* caller than Load), so what changes during a request is the date: a file *)
(* takes effect on its day.  A provider and a model of the code are one    *)
(* model here, and a version, a source and a name of a file are left out.  *)
(***************************************************************************)
EXTENDS Integers, Sequences, FiniteSets

CONSTANTS
  Model,
  Book,            \* the files, in the order Reload sorts them into
  NoRate,          \* a rate that a file leaves out
  TokensPerUnit,   \* what a rate is for: tokensPerUnit
  CharsPerToken,   \* DefaultCharsPerToken
  InputOverhead,   \* ReservationInputOverhead
  Fallback         \* DefaultFallback

Category == {"input", "cached", "write5m", "write1h", "output"}
Inputs   == Category \ {"output"}

Usage == [Category -> Nat]
NoUsage == [c \in Category |-> 0]

TotalInput(u) == u["input"] + u["cached"] + u["write5m"] + u["write1h"]

-----------------------------------------------------------------------------
(***************************************************************************)
(* What a file may say: validate.                                          *)
(***************************************************************************)

LongRates == {"input", "cached", "output"}

(* A rate below 0 is refused where it is read.                             *)
RatesOfFile == [Category -> Nat \cup {NoRate}]

ValidModel(m) ==
  /\ m.rate \in RatesOfFile /\ m.long \in RatesOfFile /\ m.threshold \in Int
  /\ IF m.free
     THEN m.threshold = 0 /\ \A c \in Category : m.rate[c] \in {0, NoRate} /\ m.long[c] \in {0, NoRate}
     ELSE m.rate["input"] # 0 /\ m.rate["output"] # 0
  /\ NoRate \notin {m.rate["input"], m.rate["output"]}
  /\ m.defaultMax \in Nat /\ m.defaultMax > 0
  /\ IF m.threshold > 0 THEN \A c \in LongRates : m.long[c] # NoRate
                        ELSE \A c \in Category : m.long[c] = NoRate

ASSUME BookIsValid ==
  /\ \A i \in DOMAIN Book : /\ DOMAIN Book[i].models \subseteq Model
                            /\ \A n \in DOMAIN Book[i].models : ValidModel(Book[i].models[n])
  /\ \A i, j \in DOMAIN Book : i < j => Book[i].effective <= Book[j].effective
  /\ {TokensPerUnit, CharsPerToken} \subseteq Nat \ {0} /\ InputOverhead \in Nat
  /\ {Fallback.input, Fallback.output, Fallback.defaultMax} \subseteq Nat

-----------------------------------------------------------------------------
(***************************************************************************)
(* Resolving a price.                                                      *)
(***************************************************************************)

rateOr(r, default) == IF r = NoRate THEN default ELSE r

(* A field that is left out takes the rate of another one.                 *)
price(m) ==
  LET input   == m.rate["input"]
      cached  == rateOr(m.rate["cached"], input)
      write5m == rateOr(m.rate["write5m"], input)
      write   == rateOr(m.long["write5m"], write5m)
  IN  [rate |-> [input |-> input, cached |-> cached, write5m |-> write5m,
                 write1h |-> rateOr(m.rate["write1h"], write5m), output |-> m.rate["output"]],
       long |-> [input |-> rateOr(m.long["input"], input),
                 cached |-> rateOr(m.long["cached"], cached),
                 write5m |-> write, write1h |-> write,
                 output |-> rateOr(m.long["output"], m.rate["output"])],
       threshold |-> m.threshold, defaultMax |-> m.defaultMax]

fallbackPrice ==
  LET rates == [c \in Category |-> IF c = "output" THEN Fallback.output ELSE Fallback.input]
  IN  [rate |-> rates, long |-> rates, threshold |-> 0, defaultMax |-> Fallback.defaultMax]

(* The entries of a file a model resolves to: the one of its name, or else *)
(* any that has it as an alias, in the order a Go map is walked in.        *)
EntriesFor(f, model) ==
  IF model \in DOMAIN f.models THEN {model}
  ELSE {n \in DOMAIN f.models : model \in f.models[n].aliases}

Applicable(model, at) ==
  {i \in DOMAIN Book : Book[i].effective <= at /\ EntriesFor(Book[i], model) # {}}

(* The last of them has the price.                                         *)
Latest(model, at) ==
  {i \in Applicable(model, at) : \A k \in Applicable(model, at) : k <= i}

(* What LookupKnown can answer on a day: {} when the book has no price.    *)
LookupKnown(model, at) ==
  UNION {{price(Book[i].models[n]) : n \in EntriesFor(Book[i], model)} : i \in Latest(model, at)}

Lookup(model, at) ==
  IF LookupKnown(model, at) = {} THEN {fallbackPrice} ELSE LookupKnown(model, at)

-----------------------------------------------------------------------------
(***************************************************************************)
(* Costs, and the tokens reserved or assumed.                              *)
(***************************************************************************)

(* Half a nanodollar is rounded up, once per category.                     *)
rate(tokens, perUnit) ==
  LET whole == tokens \div TokensPerUnit
      rem   == tokens % TokensPerUnit
  IN  whole * perUnit + (rem * perUnit + TokensPerUnit \div 2) \div TokensPerUnit

(* The long-context rates are those of the whole request.                  *)
Rates(p, u) ==
  IF p.threshold > 0 /\ TotalInput(u) >= p.threshold THEN p.long ELSE p.rate

Cost(p, u) ==
  LET r == Rates(p, u)
  IN  rate(u["input"], r["input"]) + rate(u["cached"], r["cached"])
      + rate(u["write5m"], r["write5m"]) + rate(u["write1h"], r["write1h"])
      + rate(u["output"], r["output"])

EstimateFromChars(chars) == (chars + CharsPerToken - 1) \div CharsPerToken

(* Mutant: a reservation is sized like an estimate.                        *)
MutReservationInputTokens(bytes) == EstimateFromChars(bytes)

(* A tokenizer makes no more tokens of a body than it has bytes.           *)
ReservationInputTokens(bytes) == bytes + InputOverhead

(* A limit of 0 is no limit.                                               *)
ReservationTokens(max, p) == IF max > 0 THEN max ELSE p.defaultMax
=============================================================================
