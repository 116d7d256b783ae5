----------------------- MODULE GenerationRoutesProofs -----------------------
(***************************************************************************)
(* The routes without batching, for any number of clients, prompt lengths  *)
(* and max_tokens: one generation at a time holds the cache, a dropped     *)
(* stream stops it, and what the client is told is what it did.            *)
(***************************************************************************)
EXTENDS GenerationRoutes, FiniteSetTheorems, TLAPS

GenStates == {"none", "waiting", "start", "prefill", "loop", "pass", "done", "panicked"}
Inside == {"start", "prefill", "loop", "pass"}
HandlerStates ==
  {"none", "response", "streaming", "final", "generating", "absent", "collecting",
   "collects absent", "done", "dropped", "unpolled drop", "lost"}

GenOK ==
  /\ req \in [Clients -> [kind : Kinds, prompt : PromptLens, max : MaxTokens]]
  /\ gen \in [Clients -> GenStates]
  /\ lock \in Clients \cup {"none", "poisoned"}
  /\ held \in SUBSET Clients
  /\ sampled \in [Clients -> Nat]
  /\ result \in [Clients -> {"none", "stop", "length", "error"}]

HttpOK ==
  /\ handler \in [Clients -> HandlerStates]
  /\ cancel \in SUBSET Clients
  /\ taken \in [Clients -> Nat]
  /\ seen \in [Clients -> {"none", "token", "stop", "length", "error"}]
  /\ active \in Nat

(* Whoever is inside has the mutex, and handles belong to whoever is inside *)
(* or to one that panicked there.                                          *)
Mutex ==
  /\ \A c \in Clients : gen[c] \in Inside => lock = c
  /\ \A c \in held : \/ gen[c] \in Inside \ {"start"}
                     \/ gen[c] = "panicked" /\ lock = "poisoned"

(* How far a generation is and what it has sent.                           *)
Counts(c) ==
  /\ gen[c] \in {"none", "waiting", "start", "prefill"} => sampled[c] = 0
  /\ sampled[c] <= req[c].max
  /\ gen[c] = "pass" => sampled[c] < req[c].max
  /\ gen[c] = "done" <=> result[c] # "none"
  /\ result[c] = "length" => sampled[c] = req[c].max

(* A client is told the reason once the generation is over and read.       *)
Told(c) ==
  /\ handler[c] = "none" => gen[c] = "none"
  /\ handler[c] = "collecting" => gen[c] = "done"
  /\ handler[c] \in {"final", "done"} =>
       Closed(c) /\ taken[c] = sampled[c] /\ seen[c] = Reason(c)

(* A generation that was cancelled before its next look at the flag has    *)
(* begun no pass since.                                                    *)
Stops(c) ==
  /\ after[c] \in 0 .. 2
  /\ ~Left(c) => after[c] = 0
  /\ c \in cancel => Left(c) /\ after[c] <= 1
  /\ c \in cancel /\ gen[c] \in {"none", "waiting", "start", "prefill", "pass"} => after[c] = 0

AfterOK == after \in [Clients -> 0 .. 2]

IInv ==
  /\ GenOK /\ HttpOK /\ AfterOK /\ Mutex
  /\ \A c \in Clients : Counts(c) /\ Told(c) /\ Stops(c)

LEMMA MaxPositive ==
  ASSUME GenOK, NEW c \in Clients
  PROVE  req[c].max \in Nat /\ req[c].max > 0
<1>1. req[c].max \in MaxTokens
  BY DEF GenOK
<1>2. req[c].max \in Nat \ {0}
  BY <1>1, RoutesAssumption, Zenon
<1> QED BY <1>2

LEMMA IInvInit == Init => IInv
<1> SUFFICES ASSUME Init PROVE IInv
  OBVIOUS
<1>1. GenOK
  BY DEF Init, GenOK, GenStates
<1>2. HttpOK /\ AfterOK
  BY DEF Init, HttpOK, HandlerStates, AfterOK
<1>3. Mutex
  BY DEF Init, Mutex, Inside
<1>4. ASSUME NEW c \in Clients PROVE Counts(c) /\ Told(c) /\ Stops(c)
  <2>1. req[c].max \in Nat /\ req[c].max > 0
    BY <1>1, MaxPositive
  <2> QED BY <2>1 DEF Init, Counts, Told, Stops, Left
<1> QED BY <1>1, <1>2, <1>3, <1>4 DEF IInv

(***************************************************************************)
(* Steps of handlers: the generation does not move, except that Start      *)
(* makes one.                                                              *)
(***************************************************************************)
LEMMA GenSame ==
  ASSUME IInv, UNCHANGED <<req, genVars>>
  PROVE  GenOK' /\ Mutex' /\ \A c \in Clients : Counts(c)'
BY DEF IInv, genVars, GenOK, Mutex, Counts

(* Only the handler of c moves, and what it tells is right.                *)
LEMMA HandlerStep ==
  ASSUME IInv, NEW c \in Clients, UNCHANGED <<req, after, genVars>>, HttpOK',
         \A d \in Clients \ {c} : /\ handler'[d] = handler[d] /\ taken'[d] = taken[d]
                                  /\ seen'[d] = seen[d] /\ (d \in cancel' <=> d \in cancel),
         Told(c)', Stops(c)'
  PROVE  IInv'
<1>1. GenOK' /\ Mutex' /\ \A d \in Clients : Counts(d)'
  BY GenSame
<1>2. AfterOK'
  BY DEF IInv, AfterOK
<1>3. ASSUME NEW d \in Clients, d # c PROVE Told(d)' /\ Stops(d)'
  <2>1. d \in Clients \ {c}
    BY <1>3
  <2>2. Told(d)'
    BY <2>1 DEF IInv, Told, Closed, Reason, genVars
  <2>3. Stops(d)'
    BY <2>1, Zenon DEF IInv, Stops, Left, genVars
  <2> QED BY <2>2, <2>3
<1> QED BY <1>1, <1>2, <1>3 DEF IInv

LEMMA FinishedNat == HttpOK => Finished \in Nat
BY DEF HttpOK, Finished

LEMMA StartStep ==
  ASSUME IInv, NEW c \in Clients, Start(c) PROVE IInv'
<1>0. gen[c] = "none" /\ handler[c] = "none" /\ c \notin cancel /\ after[c] = 0
  BY Zenon DEF Start, IInv, Told, Stops, Left
<1>1. GenOK' /\ HttpOK' /\ AfterOK'
  <2>1. GenOK'
    BY DEF Start, IInv, GenOK, GenStates
  <2>2. HttpOK'
    <3>1. (IF req[c].kind = "stream" THEN "response" ELSE "generating") \in HandlerStates
      BY DEF HandlerStates
    <3>2. handler' \in [Clients -> HandlerStates]
      BY <3>1 DEF Start, IInv, HttpOK
    <3> QED BY <3>2 DEF Start, IInv, HttpOK
  <2> QED BY <2>1, <2>2 DEF Start, IInv, AfterOK
<1>2. Mutex'
  BY <1>0 DEF Start, IInv, GenOK, Mutex, Inside
<1>3. ASSUME NEW d \in Clients PROVE Counts(d)'
  BY <1>0 DEF Start, IInv, GenOK, GenStates, Counts
<1>4. ASSUME NEW d \in Clients PROVE Told(d)'
  BY <1>0 DEF Start, IInv, GenOK, HttpOK, Told, Closed, Reason
<1>5. ASSUME NEW d \in Clients PROVE Stops(d)'
  BY <1>0, Zenon DEF Start, IInv, GenOK, HttpOK, Stops, Left
<1> QED BY <1>1, <1>2, <1>3, <1>4, <1>5 DEF IInv

LEMMA PollStep ==
  ASSUME IInv, NEW c \in Clients, Poll(c) PROVE IInv'
<1>1. HttpOK'
  BY Zenon DEF Poll, IInv, HttpOK, HandlerStates
<1>2. handler'[c] = "streaming" /\ Told(c)' /\ Stops(c)'
  BY Zenon DEF Poll, IInv, HttpOK, Told, Stops, Left, genVars
<1> QED BY <1>1, <1>2, HandlerStep DEF Poll, IInv, HttpOK

LEMMA TokenStep ==
  ASSUME IInv, NEW c \in Clients, StreamToken(c) PROVE IInv'
<1>1. HttpOK'
  BY DEF StreamToken, IInv, HttpOK
<1>2. Told(c)' /\ Stops(c)'
  BY Zenon DEF StreamToken, IInv, HttpOK, Told, Stops, Left, genVars
<1> QED BY <1>1, <1>2, HandlerStep DEF StreamToken, IInv, HttpOK

LEMMA FinalStep ==
  ASSUME IInv, NEW c \in Clients, StreamFinal(c) PROVE IInv'
<1>0. Reason(c) \in {"stop", "length", "error"}
  BY DEF Reason
<1>1. HttpOK'
  BY <1>0, Zenon DEF StreamFinal, IInv, HttpOK, HandlerStates
<1>2. Told(c)'
  BY DEF StreamFinal, IInv, HttpOK, Told, Closed, Reason, genVars
<1>3. Stops(c)'
  BY ZenonT(60) DEF StreamFinal, IInv, HttpOK, Stops, Left, genVars
<1> QED BY <1>1, <1>2, <1>3, HandlerStep DEF StreamFinal, IInv, HttpOK

LEMMA DoneStep ==
  ASSUME IInv, NEW c \in Clients, StreamDone(c) PROVE IInv'
<1>1. HttpOK'
  BY FinishedNat, Zenon DEF StreamDone, IInv, HttpOK, HandlerStates
<1>2. Told(c)'
  BY DEF StreamDone, IInv, HttpOK, Told, Closed, Reason, genVars
<1>3. Stops(c)'
  BY Zenon DEF StreamDone, IInv, HttpOK, Stops, Left, genVars
<1> QED BY <1>1, <1>2, <1>3, HandlerStep DEF StreamDone, IInv, HttpOK

LEMMA CollectStep ==
  ASSUME IInv, NEW c \in Clients, Collect(c) PROVE IInv'
<1>1. HttpOK'
  BY Zenon DEF Collect, IInv, HttpOK, HandlerStates
<1>2. Told(c)'
  BY Zenon DEF Collect, IInv, HttpOK, Told, Closed, Reason, genVars
<1>3. Stops(c)'
  BY Zenon DEF Collect, IInv, HttpOK, Stops, Left, genVars
<1> QED BY <1>1, <1>2, <1>3, HandlerStep, Zenon DEF Collect, IInv, HttpOK

LEMMA AnswerStep ==
  ASSUME IInv, NEW c \in Clients, Answer(c) PROVE IInv'
<1>0. Reason(c) \in {"stop", "length", "error"}
  BY DEF Reason
<1>1. HttpOK'
  BY <1>0, FinishedNat, Zenon DEF Answer, IInv, HttpOK, HandlerStates, GenOK
<1>2. Told(c)'
  BY Zenon DEF Answer, IInv, HttpOK, Told, Closed, Reason, genVars
<1>3. Stops(c)'
  BY ZenonT(60) DEF Answer, IInv, HttpOK, Stops, Left, genVars
<1> QED BY <1>1, <1>2, <1>3, HandlerStep, Zenon DEF Answer, IInv, HttpOK

LEMMA PanicStep ==
  ASSUME IInv, NEW c \in Clients, HandlerPanics(c) \/ DropCollecting(c) PROVE IInv'
<1>1. HttpOK'
  BY Zenon DEF HandlerPanics, DropCollecting, IInv, HttpOK, HandlerStates
<1>2. Told(c)'
  BY Zenon DEF HandlerPanics, DropCollecting, IInv, HttpOK, Told, genVars
<1>3. Stops(c)'
  BY Zenon DEF HandlerPanics, DropCollecting, IInv, HttpOK, Stops, Left, genVars
<1> QED BY <1>1, <1>2, <1>3, HandlerStep, ZenonT(60) DEF HandlerPanics, DropCollecting, IInv, HttpOK

(* The guard sets the flag when no pass was begun since the client left.   *)
LEMMA DropStreamStep ==
  ASSUME IInv, NEW c \in Clients, DropStream(c) PROVE IInv'
<1>1. HttpOK'
  BY FinishedNat, Zenon DEF DropStream, IInv, HttpOK, HandlerStates
<1>2. Told(c)'
  BY DEF DropStream, IInv, HttpOK, Told, genVars
<1>3. Stops(c)'
  <2>1. after[c] = 0 /\ after' = after
    BY Zenon DEF DropStream, IInv, Stops, Left
  <2>2. Left(c)'
    BY DEF DropStream, IInv, HttpOK, Left
  <2> QED BY <2>1, <2>2 DEF Stops
<1> QED BY <1>1, <1>2, <1>3, HandlerStep DEF DropStream, IInv, HttpOK

LEMMA LeaveStep ==
  ASSUME IInv, NEW c \in Clients, DropResponse(c) \/ LeaveHandler(c) PROVE IInv'
<1>1. HttpOK'
  BY Zenon DEF DropResponse, LeaveHandler, IInv, HttpOK, HandlerStates
<1>2. Told(c)'
  BY Zenon DEF DropResponse, LeaveHandler, IInv, HttpOK, Told, genVars
<1>3. Stops(c)'
  BY Zenon DEF DropResponse, LeaveHandler, IInv, HttpOK, Stops, Left, genVars
<1> QED BY <1>1, <1>2, <1>3, HandlerStep, Zenon DEF DropResponse, LeaveHandler, IInv, HttpOK

(***************************************************************************)
(* Steps of the generation of c: the handlers do not move.                 *)
(***************************************************************************)
Running == {"waiting"} \cup Inside

LEMMA GenerationStep ==
  ASSUME IInv, NEW c \in Clients, UNCHANGED httpVars, gen[c] \in Running,
         GenOK', AfterOK', Mutex',
         \A d \in Clients \ {c} : /\ gen'[d] = gen[d] /\ sampled'[d] = sampled[d]
                                  /\ result'[d] = result[d] /\ after'[d] = after[d],
         Counts(c)', Stops(c)'
  PROVE  IInv'
<1>1. HttpOK'
  BY DEF IInv, HttpOK, httpVars
<1>2. Told(c)'
  BY DEF IInv, Told, Closed, Running, Inside, httpVars
<1>3. ASSUME NEW d \in Clients, d # c PROVE Counts(d)' /\ Told(d)' /\ Stops(d)'
  <2>1. d \in Clients \ {c}
    BY <1>3
  <2>2. Counts(d)'
    BY <2>1 DEF IInv, Counts, httpVars
  <2>3. Told(d)'
    BY <2>1 DEF IInv, Told, Closed, Reason, httpVars
  <2>4. Stops(d)'
    BY <2>1, Zenon DEF IInv, Stops, Left, httpVars
  <2> QED BY <2>2, <2>3, <2>4
<1> QED BY <1>1, <1>2, <1>3 DEF IInv

LEMMA LockStep ==
  ASSUME IInv, NEW c \in Clients, Lock(c) PROVE IInv'
<1>1. GenOK' /\ AfterOK'
  BY DEF Lock, IInv, GenOK, GenStates, AfterOK, httpVars
<1>2. Mutex'
  <2>1. CASE lock = "none"
    BY <2>1, RoutesAssumption DEF Lock, IInv, GenOK, Mutex, Inside
  <2>2. CASE lock = "poisoned"
    BY <2>2, RoutesAssumption DEF Lock, IInv, GenOK, Mutex, Inside
  <2> QED BY <2>1, <2>2 DEF Lock
<1>3. Counts(c)'
  BY DEF Lock, IInv, GenOK, Counts, httpVars
<1>4. Stops(c)'
  BY Zenon DEF Lock, IInv, GenOK, Stops, Left, httpVars
<1> QED BY <1>1, <1>2, <1>3, <1>4, GenerationStep DEF Lock, IInv, GenOK, Running

(* What a generation that ends leaves behind.                              *)
LEMMA EndStep ==
  ASSUME IInv, NEW c \in Clients, NEW r \in {"stop", "length", "error"},
         gen[c] \in Inside, End(c, r), UNCHANGED <<sampled, httpVars>>, AfterOK', Stops(c)',
         \A d \in Clients \ {c} : after'[d] = after[d],
         r = "length" => sampled[c] = req[c].max
  PROVE  IInv'
<1>0. lock = c /\ \A d \in Clients \ {c} : gen[d] \notin Inside
  BY DEF IInv, Mutex
<1>1. GenOK'
  BY DEF End, IInv, GenOK, GenStates, httpVars
<1>2. Mutex'
  BY <1>0, RoutesAssumption DEF End, IInv, GenOK, Mutex, Inside
<1>3. Counts(c)'
  BY DEF End, IInv, GenOK, Counts, Inside, httpVars
<1> QED BY <1>1, <1>2, <1>3, GenerationStep, Zenon DEF End, IInv, GenOK, Running

LEMMA PanicsStep ==
  ASSUME IInv, NEW c \in Clients, gen[c] \in Inside, Panics(c), UNCHANGED httpVars,
         AfterOK', Stops(c)', \A d \in Clients \ {c} : after'[d] = after[d]
  PROVE  IInv'
<1>0. lock = c /\ \A d \in Clients \ {c} : gen[d] \notin Inside
  BY DEF IInv, Mutex
<1>1. GenOK'
  BY DEF Panics, IInv, GenOK, GenStates, httpVars
<1>2. Mutex'
  BY <1>0, RoutesAssumption DEF Panics, IInv, GenOK, Mutex, Inside
<1>3. Counts(c)'
  BY DEF Panics, IInv, GenOK, Counts, Inside, httpVars
<1> QED BY <1>1, <1>2, <1>3, GenerationStep DEF Panics, IInv, GenOK, Running

LEMMA SentStep ==
  ASSUME IInv, NEW c \in Clients, gen[c] \in {"prefill", "pass"}, Sent(c, "loop"),
         UNCHANGED httpVars, AfterOK', Stops(c)',
         \A d \in Clients \ {c} : after'[d] = after[d]
  PROVE  IInv'
<1>0. lock = c /\ (\A d \in Clients \ {c} : gen[d] \notin Inside)
      /\ req[c].max \in Nat /\ req[c].max > 0
  BY MaxPositive DEF IInv, Mutex, Inside
<1>1. GenOK'
  BY DEF Sent, IInv, GenOK, GenStates, httpVars
<1>2. Mutex'
  BY <1>0, RoutesAssumption DEF Sent, IInv, GenOK, Mutex, Inside
<1>3. Counts(c)'
  BY <1>0 DEF Sent, IInv, GenOK, Counts, Inside, httpVars
<1> QED BY <1>1, <1>2, <1>3, GenerationStep DEF Sent, IInv, GenOK, Running, Inside

LEMMA BeginStep ==
  ASSUME IInv, NEW c \in Clients, Begin(c) PROVE IInv'
<1>0. gen[c] = "start" /\ lock = c /\ c \notin held /\ gen[c] \in Inside
      /\ UNCHANGED <<sampled, after, httpVars>>
  BY DEF Begin, IInv, Mutex, Inside
<1>1. AfterOK' /\ \A d \in Clients \ {c} : after'[d] = after[d]
  BY <1>0 DEF IInv, AfterOK
<1>2. CASE End(c, "error")
  <2>1. Stops(c)'
    BY <1>0, <1>2, ZenonT(60) DEF End, IInv, GenOK, Stops, Left, httpVars
  <2> QED BY <1>0, <1>1, <1>2, <2>1, EndStep
<1>3. CASE /\ held' = held \cup {c} /\ gen' = [gen EXCEPT ![c] = "prefill"]
           /\ UNCHANGED <<result, lock>>
  <2>1. GenOK'
    BY <1>0, <1>3 DEF IInv, GenOK, GenStates, httpVars
  <2>2. Mutex'
    BY <1>0, <1>3, RoutesAssumption DEF IInv, GenOK, Mutex, Inside
  <2>3. Counts(c)'
    BY <1>0, <1>3 DEF IInv, GenOK, Counts, httpVars
  <2>4. Stops(c)'
    BY <1>0, <1>3, Zenon DEF IInv, GenOK, Stops, Left, httpVars
  <2> QED BY <1>0, <1>1, <1>3, <2>1, <2>2, <2>3, <2>4, GenerationStep, Zenon DEF IInv, GenOK, Running
<1>4. End(c, "error") \/ (/\ held' = held \cup {c} /\ gen' = [gen EXCEPT ![c] = "prefill"]
                          /\ UNCHANGED <<result, lock>>)
  BY <1>0 DEF Begin, End
<1> QED BY <1>2, <1>3, <1>4

(* A pass counts at most once after the flag was set: it was begun before  *)
(* the next look at it.                                                    *)
LEMMA PassCounted ==
  ASSUME IInv, NEW c \in Clients, gen[c] \in {"prefill", "pass"}, CountPass(c),
         UNCHANGED httpVars, gen'[c] \in {"loop", "done", "panicked"}
  PROVE  AfterOK' /\ Stops(c)' /\ \A d \in Clients \ {c} : after'[d] = after[d]
<1>1. AfterOK' /\ \A d \in Clients \ {c} : after'[d] = after[d]
  BY DEF IInv, AfterOK, CountPass
<1>2. after'[c] = IF Left(c) /\ after[c] < 2 THEN after[c] + 1 ELSE after[c]
  BY DEF IInv, AfterOK, CountPass
<1>3. (Left(c)' <=> Left(c)) /\ cancel' = cancel /\ after[c] \in 0 .. 2
  BY Zenon DEF Left, httpVars, IInv, Stops
<1> QED BY <1>1, <1>2, <1>3 DEF IInv, Stops

LEMMA PassStep ==
  ASSUME IInv, NEW c \in Clients, gen[c] \in {"prefill", "pass"}, CountPass(c),
         UNCHANGED httpVars,
         \/ Sent(c, "loop")
         \/ End(c, "stop") /\ UNCHANGED sampled
         \/ End(c, "error") /\ UNCHANGED sampled
         \/ Panics(c)
  PROVE  IInv'
<1>0. gen[c] \in Inside
  BY DEF Inside
<1>1. gen'[c] \in {"loop", "done", "panicked"}
  BY DEF Sent, End, Panics, IInv, GenOK
<1>2. AfterOK' /\ Stops(c)' /\ \A d \in Clients \ {c} : after'[d] = after[d]
  BY <1>1, PassCounted
<1>3. CASE Sent(c, "loop")
  BY <1>2, <1>3, SentStep
<1>4. CASE End(c, "stop") /\ UNCHANGED sampled
  BY <1>0, <1>2, <1>4, EndStep
<1>5. CASE End(c, "error") /\ UNCHANGED sampled
  BY <1>0, <1>2, <1>5, EndStep
<1>6. CASE Panics(c)
  BY <1>0, <1>2, <1>6, PanicsStep
<1> QED BY <1>3, <1>4, <1>5, <1>6

LEMMA CheckStep ==
  ASSUME IInv, NEW c \in Clients, Check(c) PROVE IInv'
<1>0. /\ gen[c] = "loop" /\ gen[c] \in Inside /\ UNCHANGED <<sampled, after, httpVars>>
      /\ lock = c /\ req[c].max \in Nat /\ sampled[c] \in Nat /\ sampled[c] <= req[c].max
  BY MaxPositive DEF Check, IInv, Mutex, Inside, Counts, GenOK
<1>1. AfterOK' /\ \A d \in Clients \ {c} : after'[d] = after[d]
  BY <1>0 DEF IInv, AfterOK
<1>2. CASE ~More(c) /\ End(c, "length")
  <2>1. Stops(c)'
    BY <1>0, <1>2, Zenon DEF End, IInv, GenOK, Stops, Left, httpVars
  <2>2. sampled[c] = req[c].max
    BY <1>0, <1>2, SMTT(60) DEF More
  <2> QED BY <1>0, <1>1, <1>2, <2>1, <2>2, EndStep
<1>3. CASE End(c, "stop")
  <2>1. Stops(c)'
    BY <1>0, <1>3, ZenonT(60) DEF End, IInv, GenOK, Stops, Left, httpVars
  <2> QED BY <1>0, <1>1, <1>3, <2>1, EndStep
<1>4. CASE /\ More(c) /\ c \notin cancel
           /\ gen' = [gen EXCEPT ![c] = "pass"] /\ UNCHANGED <<lock, held, result>>
  <2>1. GenOK'
    BY <1>0, <1>4 DEF IInv, GenOK, GenStates, httpVars
  <2>2. Mutex'
    BY <1>0, <1>4, RoutesAssumption DEF IInv, GenOK, Mutex, Inside
  <2>3. Counts(c)'
    BY <1>0, <1>4 DEF IInv, GenOK, Counts, More, httpVars
  <2>4. Stops(c)'
    BY <1>0, <1>4, Zenon DEF IInv, GenOK, Stops, Left, httpVars
  <2> QED BY <1>0, <1>1, <1>4, <2>1, <2>2, <2>3, <2>4, GenerationStep DEF IInv, GenOK, Running
<1> QED BY <1>2, <1>3, <1>4 DEF Check

LEMMA GenerationSteps ==
  ASSUME IInv, NEW c \in Clients, Generation(c) PROVE IInv'
<1>1. CASE Prefill(c)
  BY <1>1, PassStep DEF Prefill
<1>2. CASE Pass(c)
  BY <1>2, PassStep DEF Pass
<1> QED BY <1>1, <1>2, LockStep, BeginStep, CheckStep DEF Generation

LEMMA IInvNext == IInv /\ [Next]_vars => IInv'
<1> SUFFICES ASSUME IInv, [Next]_vars PROVE IInv'
  OBVIOUS
<1>1. CASE UNCHANGED vars
  <2>1. GenOK' /\ HttpOK' /\ AfterOK' /\ Mutex'
    BY <1>1 DEF vars, IInv, GenOK, HttpOK, AfterOK, Mutex
  <2>2. ASSUME NEW c \in Clients PROVE Counts(c)' /\ Told(c)' /\ Stops(c)'
    BY <1>1, Zenon DEF vars, IInv, Counts, Told, Closed, Reason, Stops, Left
  <2> QED BY <2>1, <2>2 DEF IInv
<1>2. ASSUME NEW c \in Clients, Start(c) \/ Generation(c) PROVE IInv'
  BY <1>2, StartStep, GenerationSteps
<1>3. ASSUME NEW c \in Clients, Handler(c) PROVE IInv'
  BY <1>3, PollStep, TokenStep, FinalStep, DoneStep, CollectStep, AnswerStep, PanicStep
     DEF Handler
<1>4. ASSUME NEW c \in Clients, Departs(c) PROVE IInv'
  BY <1>4, DropStreamStep, LeaveStep, PanicStep DEF Departs
<1> QED BY <1>1, <1>2, <1>3, <1>4 DEF Next

(* Whatever fails or is cancelled, whoever gets the mutex of the cache     *)
(* next finds no handle taken (generate_with_cancel frees on every path).  *)
THEOREM PoolWholeWhenFreeCorrect == Spec => []PoolWholeWhenFree
<1>1. IInv => PoolWholeWhenFree
  BY RoutesAssumption DEF IInv, GenOK, Mutex, PoolWholeWhenFree, Inside
<1> QED BY <1>1, IInvInit, IInvNext, PTL DEF Spec

(* finish_reason "length" comes with max_tokens tokens, and no generation  *)
(* gives more (the for loop of generate_inner).                            *)
THEOREM LengthMeansAllCorrect == Spec => []LengthMeansAll
<1>1. IInv => LengthMeansAll
  BY DEF IInv, Counts, LengthMeansAll
<1> QED BY <1>1, IInvInit, IInvNext, PTL DEF Spec

(* A finished answer has every token and the generation's own reason, an   *)
(* error when its thread panicked.                                         *)
THEOREM EndsHonestlyCorrect == Spec => []EndsHonestly
<1>1. ASSUME IInv, NEW c \in Clients, handler[c] = "done"
      PROVE  /\ taken[c] = sampled[c] /\ seen[c] \in {"stop", "length", "error"}
             /\ gen[c] = "done" => seen[c] = result[c]
             /\ gen[c] = "panicked" => seen[c] = "error"
  BY <1>1 DEF IInv, GenOK, Told, Counts, Closed, Reason
<1>2. IInv => EndsHonestly
  BY <1>1 DEF EndsHonestly
<1> QED BY <1>2, IInvInit, IInvNext, PTL DEF Spec

(* Both: what a client is told at the end of its answer is true.           *)
THEOREM AnswersHonestCorrect == Spec => []AnswersHonest
BY EndsHonestlyCorrect, LengthMeansAllCorrect, PTL DEF AnswersHonest

(* Dropping a stream costs at most the pass that was about to begin.       *)
THEOREM CancelStopsCorrect == Spec => []CancelStops
<1>1. IInv => CancelStops
  BY DEF IInv, HttpOK, Stops, CancelStops
<1> QED BY <1>1, IInvInit, IInvNext, PTL DEF Spec

(***************************************************************************)
(* The counter.                                                            *)
(***************************************************************************)
LEMMA FiniteFlights ==
  /\ IsFiniteSet(InFlight) /\ Cardinality(InFlight) \in Nat
  /\ IsFiniteSet(Uncounted) /\ Cardinality(Uncounted) \in Nat
<1>1. InFlight \subseteq Clients /\ Uncounted \subseteq Clients
  BY Zenon DEF InFlight, Uncounted
<1> QED BY <1>1, FS_Subset, FS_CardinalityType, RoutesAssumption

LEMMA CounterSame ==
  ASSUME CounterNeverTwice, InFlight' = InFlight, Uncounted' = Uncounted, active' = active
  PROVE  CounterNeverTwice'
BY DEF CounterNeverTwice

LEMMA CounterStart ==
  ASSUME CounterNeverTwice, NEW c, c \notin InFlight, InFlight' = InFlight \cup {c},
         Uncounted' = Uncounted, active' = active + 1
  PROVE  CounterNeverTwice'
<1>1. Cardinality(InFlight') = Cardinality(InFlight) + 1
  BY FiniteFlights, FS_AddElement, Zenon
<1> QED BY <1>1, FiniteFlights DEF CounterNeverTwice

LEMMA CounterEnd ==
  ASSUME CounterNeverTwice, NEW c, c \in InFlight, InFlight' = InFlight \ {c},
         Uncounted' = Uncounted, active' = Finished
  PROVE  CounterNeverTwice'
<1>1. Cardinality(InFlight') = Cardinality(InFlight) - 1
  BY FiniteFlights, FS_RemoveElement, Zenon
<1>2. Cardinality(InFlight) > 0
  BY FiniteFlights, FS_EmptySet
<1> QED BY <1>1, <1>2, FiniteFlights DEF CounterNeverTwice, Finished

LEMMA CounterLost ==
  ASSUME CounterNeverTwice, NEW c, c \in InFlight, InFlight' = InFlight \ {c},
         c \notin Uncounted, Uncounted' = Uncounted \cup {c}, active' = active
  PROVE  CounterNeverTwice'
<1>1. Cardinality(InFlight') = Cardinality(InFlight) - 1
  BY FiniteFlights, FS_RemoveElement, Zenon
<1>2. Cardinality(Uncounted') = Cardinality(Uncounted) + 1
  BY FiniteFlights, FS_AddElement, Zenon
<1> QED BY <1>1, <1>2, FiniteFlights DEF CounterNeverTwice

LEMMA CounterStep ==
  ASSUME IInv, CounterNeverTwice, NEW c \in Clients,
         Start(c) \/ Generation(c) \/ Handler(c) \/ Departs(c)
  PROVE  CounterNeverTwice'
<1>0. handler \in [Clients -> HandlerStates]
  BY DEF IInv, HttpOK
<1>1. CASE Start(c)
  <2>1. c \notin InFlight /\ InFlight' = InFlight \cup {c} /\ Uncounted' = Uncounted
    BY <1>0, <1>1, Zenon DEF Start, InFlight, Uncounted
  <2> QED BY <1>1, <2>1, CounterStart DEF Start
<1>2. CASE Generation(c)
  <2>1. UNCHANGED <<handler, active>>
    BY <1>2, ZenonT(60) DEF Generation, Lock, Begin, Prefill, Check, Pass, httpVars
  <2> QED BY <2>1, CounterSame, SMTT(60) DEF InFlight, Uncounted
<1>3. CASE StreamToken(c)
  BY <1>3, CounterSame, SMTT(60) DEF StreamToken, InFlight, Uncounted
<1>4. CASE Poll(c) \/ StreamFinal(c) \/ Collect(c) \/ LeaveHandler(c)
  <2>1. InFlight' = InFlight /\ Uncounted' = Uncounted
    BY <1>0, <1>4, Zenon DEF Poll, StreamFinal, Collect, LeaveHandler, InFlight, Uncounted
  <2> QED BY <1>4, <2>1, CounterSame, ZenonT(60) DEF Poll, StreamFinal, Collect, LeaveHandler
<1>5. CASE StreamDone(c) \/ Answer(c) \/ DropStream(c)
  <2>1. c \in InFlight /\ InFlight' = InFlight \ {c} /\ Uncounted' = Uncounted
    BY <1>0, <1>5, ZenonT(60) DEF StreamDone, Answer, DropStream, InFlight, Uncounted
  <2> QED BY <1>5, <2>1, CounterEnd, Zenon DEF StreamDone, Answer, DropStream
<1>6. CASE HandlerPanics(c) \/ DropResponse(c) \/ DropCollecting(c)
  <2>1. /\ c \in InFlight /\ InFlight' = InFlight \ {c}
        /\ c \notin Uncounted /\ Uncounted' = Uncounted \cup {c}
    BY <1>0, <1>6, Zenon DEF HandlerPanics, DropResponse, DropCollecting, InFlight, Uncounted
  <2> QED BY <1>6, <2>1, CounterLost, ZenonT(60) DEF HandlerPanics, DropResponse, DropCollecting
<1> QED BY <1>1, <1>2, <1>3, <1>4, <1>5, <1>6 DEF Handler, Departs

(* The counter shows the requests in flight and those nothing counts off,  *)
(* and never falls twice for one (MetricsGuard and its disarming).         *)
THEOREM CounterNeverTwiceCorrect == Spec => []CounterNeverTwice
<1>1. Init => CounterNeverTwice
  <2> SUFFICES ASSUME Init PROVE CounterNeverTwice
    OBVIOUS
  <2>1. InFlight = {} /\ Uncounted = {} /\ active = 0
    BY Zenon DEF Init, InFlight, Uncounted
  <2> QED BY <2>1, FS_EmptySet DEF CounterNeverTwice
<1>2. IInv /\ CounterNeverTwice /\ [Next]_vars => CounterNeverTwice'
  <2> SUFFICES ASSUME IInv, CounterNeverTwice, [Next]_vars PROVE CounterNeverTwice'
    OBVIOUS
  <2>1. CASE UNCHANGED vars
    BY <2>1, CounterSame DEF vars, InFlight, Uncounted
  <2> QED BY <2>1, CounterStep DEF Next
<1> QED BY <1>1, <1>2, IInvInit, IInvNext, PTL DEF Spec
=============================================================================
