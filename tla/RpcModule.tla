------------------------------ MODULE RpcModule ------------------------------
(***************************************************************************)
(* The rpc module of flatworm: what a page calls to make JSON-RPC          *)
(* requests, to put them in batches and to match responses with them.  The *)
(* module keeps the next automatic id and nothing else; the page keeps its *)
(* requests and the responses that came, and the transport between them,   *)
(* which is the page's, loses, repeats, delays and reorders.  A message    *)
(* has the members that its record has; an id is null, a string or a       *)
(* number as it is spelled, and a double keeps DoubleDigits digits, of     *)
(* which the safe integers are those that need no more.                    *)
(***************************************************************************)
EXTENDS JsonText

CONSTANTS
  RpcMethods,       \* names: "m", "rpc.m" is reserved, "long" is too long
  RpcIds,           \* ids that a page chooses itself
  RpcCodes,         \* codes of errors
  ServerIds,        \* the ways servers spell an id: [RpcIds -> SUBSET RpcIds]
  DoubleDigits,     \* stands for the 53 bits of a double
  MaxBatch,         \* max_batch_size
  MaxRpcRequests, MaxResponses      \* bounds on what a page asks and holds

ASSUME RpcConstants == {MaxBatch, MaxRpcRequests, MaxResponses} \subseteq Nat /\ DoubleDigits \in Nat \ {0}

VARIABLES
  next_id,      \* Instance::next_id
  loaded,       \* between initialize and shutdown
  held,         \* requests the page waits for, each with its serial number
  serials,      \* how many requests were made
  flight,       \* responses on their way
  gathered,     \* responses that arrived, in that order
  matched       \* the last answer of correlate, with the requests it was for

RpcVars == <<next_id, loaded, held, serials, flight, gathered, matched>>

-----------------------------------------------------------------------------
(* Ids.                                                                    *)
NullId == [kind |-> "null", run |-> <<>>]
NameId(s) == [kind |-> "string", run |-> s]
NumberId(run) == [kind |-> "number", run |-> run]
Places(n) == Len(DigitsOf(n.digits)) + n.ten
AsDouble(id) == RoundTo(NumberOf(NumberParts(id.run)), DoubleDigits)
(* safe_integer: the double is an integer and small enough, and so is what *)
(* was spelled.  The cap on the exponent is beyond that of any spelling    *)
(* the module takes.                                                       *)
ZerosAtEnd(s) == Cardinality({i \in DOMAIN s : \A j \in i..Len(s) : s[j] = "0"})
DoubleIsSafe(id) == AsDouble(id).ten >= 0 /\ Places(AsDouble(id)) <= DoubleDigits
SpelledWhole(id) ==
  LET p == NumberParts(id.run)
      digits == p.whole \o p.fraction
      power == Decimal(p.power)
      exponent == IF p.powerSign = "-" THEN -power ELSE power
  IN  ZerosAtEnd(digits) = Len(digits) \/ Len(p.fraction) - exponent <= ZerosAtEnd(digits)
SafeInteger(id) == id.kind = "number" /\ DoubleIsSafe(id) /\ SpelledWhole(id)
AutomaticId(n) == NumberId(DigitsOf(n))
(* These depend on the id alone and are looked up.                         *)
KnownIds == RpcIds \cup ServerIds \cup RpcCodes \cup {AutomaticId(n) : n \in 1..(MaxRpcRequests + 1)}
SafeIntegers == [id \in KnownIds |-> SafeInteger(id)]
IdKeys == [id \in KnownIds |-> IF id.kind = "number" THEN <<"n", AsDouble(id)>> ELSE <<id.kind, id.run>>]
ValidId(id) == id.kind \in {"null", "string"} \/ SafeIntegers[id]
IdKey(id) == IdKeys[id]
SameId(left, right) == ValidId(left) /\ ValidId(right) /\ IdKey(left) = IdKey(right)
MaxSafeInteger == 10^DoubleDigits - 1

-----------------------------------------------------------------------------
(* Messages.                                                               *)
Has(msg, name) == name \in DOMAIN msg
MethodName(method) == method \notin {"rpc.m", "long"}
Version(msg) == Has(msg, "jsonrpc") /\ msg.jsonrpc = "2.0"
ValidRequest(m) ==
  /\ Version(m) /\ Has(m, "method") /\ ~Has(m, "result") /\ ~Has(m, "error") /\ MethodName(m.method)
  /\ Has(m, "params") => m.params \in {"object", "array"}
  /\ Has(m, "id") => ValidId(m.id)
ValidResponse(m) ==
  /\ Version(m) /\ Has(m, "id") /\ Has(m, "result") # Has(m, "error") /\ ~Has(m, "method") /\ ~Has(m, "params")
  /\ ValidId(m.id)
  /\ Has(m, "error") => Has(m.error, "code") /\ SafeIntegers[m.error.code] /\ Has(m.error, "message")
(* each_message: one message, or a batch of some and not too many.         *)
EachMessage(wire) == wire.batch => Len(wire.messages) \in 1..MaxBatch
ValidRequests(wire) == EachMessage(wire) /\ \A i \in DOMAIN wire.messages : ValidRequest(wire.messages[i])
ValidResponses(wire) == EachMessage(wire) /\ \A i \in DOMAIN wire.messages : ValidResponse(wire.messages[i])
One(msg) == [batch |-> FALSE, messages |-> <<msg>>]
Batched(msgs) == [batch |-> TRUE, messages |-> msgs]

RequestOf(method, params, id) ==
  [f \in {"jsonrpc", "method"} \cup (IF params = "none" THEN {} ELSE {"params"}) \cup (IF id = {} THEN {} ELSE {"id"}) |->
    CASE f = "jsonrpc" -> "2.0" [] f = "method" -> method [] f = "params" -> params [] OTHER -> CHOOSE i \in id : TRUE]
ResultOf(id) == [jsonrpc |-> "2.0", id |-> id, result |-> "value"]
ErrorOf(id, code) == [jsonrpc |-> "2.0", id |-> id, error |-> [code |-> code, message |-> "text"]]

IdsIn(msgs) == SelectSeq(msgs, LAMBDA m : Has(m, "id"))
Keys(msgs) == {IdKey(msgs[i].id) : i \in DOMAIN msgs}
Distinct(msgs) == Cardinality(Keys(msgs)) = Len(msgs)
BatchOk(msgs) == ValidRequests(Batched(msgs)) /\ Distinct(IdsIn(msgs))

(* correlate: one response for every request with an id and no other, each *)
(* id once, in the order of the requests.                                  *)
CorrelateOk(asks, responses) ==
  LET order == IdsIn(asks.messages)
  IN  /\ ValidRequests(asks) /\ Distinct(order)
      /\ \/ responses = {} /\ order = <<>>
         \/ \E wire \in responses :
              /\ order # <<>> /\ asks.batch = wire.batch /\ ValidResponses(wire)
              /\ Distinct(wire.messages) /\ Keys(wire.messages) = Keys(order)
InArrivalOrder(asks, responses) ==
  IF responses = {} THEN <<>> ELSE (CHOOSE wire \in responses : TRUE).messages
Correlate(asks, responses) ==
  LET order == IdsIn(asks.messages)
      came == UNION {{wire.messages[i] : i \in DOMAIN wire.messages} : wire \in responses}
  IN  [i \in DOMAIN order |-> CHOOSE m \in came : IdKey(m.id) = IdKey(order[i].id)]

-----------------------------------------------------------------------------
Nothing == [requests |-> <<>>, responses |-> <<>>]
RpcInit ==
  /\ next_id = 1 /\ loaded = FALSE /\ held = <<>> /\ serials = 0 /\ flight = {} /\ gathered = <<>>
  /\ matched = Nothing

Initialize == ~loaded /\ loaded' = TRUE /\ next_id' = 1 /\ UNCHANGED <<held, serials, flight, gathered, matched>>
(* With the instance goes the page, and all that it held.                  *)
Shutdown ==
  /\ loaded /\ loaded' = FALSE /\ held' = <<>> /\ flight' = {} /\ gathered' = <<>> /\ matched' = Nothing
  /\ UNCHANGED <<next_id, serials>>
(* invoke, after the operation: the result is delivered or it is not, and  *)
(* only a delivered one counts.                                            *)
Deliver(msg, automatic) ==
  /\ serials < MaxRpcRequests
  /\ serials' = serials + 1
  /\ held' = Append(held, [message |-> msg, serial |-> serials + 1, automatic |-> automatic])
  /\ next_id' = IF automatic THEN next_id + 1 ELSE next_id
  /\ UNCHANGED <<loaded, flight, gathered, matched>>
Request(method, params) ==
  LET msg == RequestOf(method, params, {AutomaticId(next_id)})
  IN  loaded /\ next_id <= MaxSafeInteger /\ ValidRequest(msg) /\ Deliver(msg, TRUE)
RequestAs(method, params, id) ==
  LET msg == RequestOf(method, params, {id}) IN loaded /\ ValidRequest(msg) /\ Deliver(msg, FALSE)
Notification(method, params) ==
  LET msg == RequestOf(method, params, {}) IN loaded /\ ValidRequest(msg) /\ Deliver(msg, FALSE)

(* A server answers a request it got, spelling the id its own way, and     *)
(* may answer it again.                                                    *)
SpellingsOf(id) == {id} \cup {other \in ServerIds : IdKey(other) = IdKey(id)}
Answers(id) == {ResultOf(i) : i \in SpellingsOf(id)} \cup {ErrorOf(id, code) : code \in RpcCodes}
Respond(request, answer) ==
  /\ Cardinality(flight) + Len(gathered) < MaxResponses
  /\ flight' = flight \cup {[message |-> answer, serial |-> request.serial, automatic |-> request.automatic]}
  /\ UNCHANGED <<next_id, loaded, held, serials, gathered, matched>>
Arrive(response, again) ==
  /\ Len(gathered) < MaxResponses
  /\ gathered' = Append(gathered, response)
  /\ flight' = IF again THEN flight ELSE flight \ {response}
  /\ UNCHANGED <<next_id, loaded, held, serials, matched>>
(* parseResponse with an expected id: the page lets the others go.         *)
ParseResponse(i, id) ==
  /\ ~(ValidResponse(gathered[i].message) /\ SameId(gathered[i].message.id, id))
  /\ gathered' = RemoveAt(gathered, i)
  /\ UNCHANGED <<next_id, loaded, held, serials, flight, matched>>

(* The page sends what it holds as one request or as a batch, and          *)
(* correlates what it gathered with it.                                    *)
Messages(entries) == [i \in DOMAIN entries |-> entries[i].message]
SentAs == IF Len(held) = 1 THEN {One(held[1].message), Batched(Messages(held))} ELSE {Batched(Messages(held))}
GatheredAs ==
  CASE gathered = <<>> -> {{}}
    [] Len(gathered) = 1 -> {{One(gathered[1].message)}, {Batched(Messages(gathered))}}
    [] OTHER -> {{Batched(Messages(gathered))}}
CorrelateOperation(asks, responses) ==
  /\ loaded /\ held # <<>> /\ (asks.batch => BatchOk(asks.messages)) /\ CorrelateOk(asks, responses)
  /\ matched' = [ requests |-> SelectSeq(held, LAMBDA h : Has(h.message, "id")),
                  responses |-> [i \in DOMAIN Correlate(asks, responses) |->
                    gathered[CHOOSE g \in DOMAIN gathered : gathered[g].message = Correlate(asks, responses)[i]]] ]
  /\ held' = <<>> /\ gathered' = <<>>
  /\ UNCHANGED <<next_id, loaded, serials, flight>>

RpcNext ==
  \/ Initialize \/ Shutdown
  \/ \E method \in RpcMethods, params \in {"none", "number"} :
       \/ Request(method, params) \/ Notification(method, params)
       \/ \E id \in RpcIds : RequestAs(method, params, id)
  \/ \E h \in {held[i] : i \in DOMAIN held} : Has(h.message, "id") /\ \E a \in Answers(h.message.id) : Respond(h, a)
  \/ \E f \in flight, again \in BOOLEAN : Arrive(f, again)
  \/ \E i \in DOMAIN gathered, h \in {held[j] : j \in DOMAIN held} : Has(h.message, "id") /\ ParseResponse(i, h.message.id)
  \/ \E asks \in SentAs, responses \in GatheredAs : CorrelateOperation(asks, responses)

-----------------------------------------------------------------------------
(* The reference: what is spelled is an integer of so many digits.         *)
IsSafeInteger(id) ==
  LET n == NumberOf(NumberParts(id.run)) IN id.kind = "number" /\ n.ten >= 0 /\ Places(n) <= DoubleDigits
IdsAreSafeIntegers == \A id \in RpcIds \cup ServerIds \cup RpcCodes : SafeInteger(id) <=> IsSafeInteger(id)
(* Automatic ids of requests a page got are distinct; every request with   *)
(* an id is matched with one valid response of its id, whatever came in    *)
(* what order and however servers spell it; a late answer to an earlier    *)
(* request is never taken for the answer to one that the module numbered,  *)
(* unless the page chose that id itself; exactly one answer for each       *)
(* request is always accepted; and an id is one exactly when it is spelled *)
(* as a safe integer, also where the double rounds it to one.              *)
RpcIsSound ==
  /\ \A i, j \in DOMAIN held : i # j /\ held[i].automatic /\ held[j].automatic => ~SameId(held[i].message.id, held[j].message.id)
  /\ Len(matched.responses) = Len(matched.requests)
  /\ \A i \in DOMAIN matched.responses :
       LET asked == matched.requests[i]
           answer == matched.responses[i]
       IN  /\ ValidResponse(answer.message) /\ SameId(answer.message.id, asked.message.id)
           /\ asked.automatic /\ answer.automatic => asked.serial = answer.serial
  /\ LET waits == {i \in DOMAIN held : Has(held[i].message, "id")}
         settled == Len(gathered) = Cardinality(waits)
                    /\ \A i \in waits : \E g \in DOMAIN gathered : gathered[g].serial = held[i].serial /\ ValidResponse(gathered[g].message)
     IN  settled /\ waits # {} /\ BatchOk(Messages(held))
           => CorrelateOk(Batched(Messages(held)), {Batched(Messages(gathered))})
  /\ IdsAreSafeIntegers

(* Nothing that is sent as JSON changes on its way: neither the values     *)
(* that the readers and writers of it exchange nor the requests and        *)
(* responses that the rpc module makes and matches.                        *)
MessagesAreKept == JsonIsKept /\ RpcIsSound
=============================================================================
