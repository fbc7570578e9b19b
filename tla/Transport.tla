------------------------------ MODULE Transport ------------------------------
(***************************************************************************)
(* The socket client (src/core/network_client.cpp) and the DevTools client *)
(* that talks over its web sockets (src/core/cdp.cpp): choosing a proxy,   *)
(* connecting, CONNECT and SOCKS5, TLS, sending, reading a response framed *)
(* by a length, by chunks or by the end of the connection, and web socket  *)
(* frames.                                                                 *)
(*                                                                         *)
(* The server writes a well-formed response and may stop at any point (an  *)
(* answer to HEAD stops after its headers); what it wrote arrives in       *)
(* pieces of any size.  The response is a sequence of tokens: the header   *)
(* block, chunk sizes, bytes of the body and line ends; a body may contain *)
(* line ends and what looks like a chunk size too.  No more arrives than a *)
(* size_t counts, but a size line may announce as much.                    *)
(***************************************************************************)
EXTENDS Integers, Sequences, SequencesExt

CONSTANTS
  Responses,       \* what servers answer: [framing, body, chunks: the sizes of the chunks]
  MaxBody,         \* max_response_bytes
  WordSize,        \* 2^64 in the build: where a size_t wraps
  MaxAddresses,    \* addresses a name resolves to
  MaxSocketFrames, \* frames of one receive, 4096 in the code
  MaxCdpEvents,    \* 1024 in the code
  MaxCdpCalls,     \* bound: commands
  MaxEmitted       \* bound: messages the browser sends by itself

VARIABLES
  treq,     \* the request: https, ws (a web socket is opened), bounded (timeout_ms > 0), and the proxy selected
  tpc,
  address,  \* the candidate connect tries
  layers,   \* whom the connection is encrypted for, outermost first
  peer,     \* who reads what is written: "proxy", "origin"
  reply,    \* external: the server's response, the tokens it wrote, and how its writing ended
  received, \* the number of tokens in raw
  at,       \* decode_chunked's offset
  part,     \* decode_chunked's chunk_size, 0 when the next line is to be read
  decoded,  \* decode_chunked's body, or the body of the response
  secrets   \* history: [what, to, sealed] of everything secret that was written

VARIABLES
  nextId, active, linked,   \* CdpClient: next_id_, active_, transport_
  message, frameCount,     \* locals of receive
  cdpEvents,               \* events_
  inbound,  \* external: frames on their way to the client
  writing,  \* external: the message whose frames the browser is writing
  unanswered,     \* external: commands the browser has not answered
  emitted, taken,          \* history: events sent, events take_events returned
  cdpAnswers               \* history: [asked, got] of every call that returned

ReadVars == <<reply, received, at, part, decoded>>
CdpVars == <<nextId, active, linked, message, frameCount, cdpEvents, inbound, writing, unanswered, emitted, taken, cdpAnswers>>
TransportVars == <<treq, tpc, address, layers, peer, ReadVars, secrets, CdpVars>>

NoReply == [framing |-> "none", tokens |-> <<>>, body |-> <<>>, wrote |-> 0, end |-> "stall"]
Proxies == {"none", "http", "https", "socks5"}
TransportInit ==
  /\ treq \in [https : BOOLEAN, ws : BOOLEAN, bounded : BOOLEAN, proxy : {"none"}]
  /\ treq.ws => treq.bounded                     \* open_websocket insists on 1 to 300000 ms
  /\ tpc = "start" /\ address = 1 /\ layers = <<>> /\ peer = "nobody"
  /\ reply = NoReply /\ received = 0 /\ at = 0 /\ part = 0 /\ decoded = <<>> /\ secrets = {}
  /\ nextId = 0 /\ active = FALSE /\ linked = FALSE /\ message = <<>> /\ frameCount = 0 /\ cdpEvents = <<>>
  /\ inbound = <<>> /\ writing = <<>> /\ unanswered = <<>> /\ emitted = <<>> /\ taken = <<>> /\ cdpAnswers = {}

-----------------------------------------------------------------------------
(* Proxies: the request's own, the client's, the environment's.            *)

Enabled(proxy) == proxy # "none"
FromEnvironment(env, excluded) ==
  IF excluded THEN "none"
  ELSE LET own == env[IF treq.https THEN "https" ELSE "http"] IN IF Enabled(own) THEN own ELSE env["all"]
Selected(own, set, env, excluded) ==
  IF Enabled(own) THEN own ELSE IF Enabled(set) THEN set ELSE FromEnvironment(env, excluded)
Select ==
  \E own, set \in Proxies, env \in [{"https", "http", "all"} -> Proxies], excluded \in BOOLEAN :
    /\ tpc = "start" /\ tpc' = "connect"
    /\ treq' = [treq EXCEPT !.proxy = Selected(own, set, env, excluded)]
    /\ UNCHANGED <<address, layers, peer, ReadVars, secrets, CdpVars>>

TransportFails == tpc' = "failed"
(* open_connection: one address after the other; with no timeout only a    *)
(* connect that succeeds at once counts.                                   *)
Connected ==
  /\ tpc = "connect" /\ peer' = IF Enabled(treq.proxy) THEN "proxy" ELSE "origin"
  /\ tpc' = CASE treq.proxy = "https" -> "proxytls" [] treq.proxy = "socks5" -> "socks"
              [] treq.proxy = "http" /\ (treq.https \/ treq.ws) -> "tunnel" [] OTHER -> "tls"
  /\ UNCHANGED <<treq, address, layers, ReadVars, secrets, CdpVars>>
AddressFails ==
  /\ tpc = "connect"
  /\ IF address < MaxAddresses THEN address' = address + 1 /\ UNCHANGED tpc ELSE TransportFails /\ UNCHANGED address
  /\ UNCHANGED <<treq, layers, peer, ReadVars, secrets, CdpVars>>

(* Steps of the handshakes: any of them may fail or time out.              *)
Secret(what) == [what |-> what, to |-> peer, sealed |-> layers # <<>> /\ Last(layers) = peer]
ProxyTls ==
  /\ tpc = "proxytls" /\ layers' = Append(layers, peer)
  /\ tpc' = IF treq.https \/ treq.ws THEN "tunnel" ELSE "tls"
  /\ UNCHANGED <<treq, address, peer, ReadVars, secrets, CdpVars>>
(* CONNECT with Proxy-Authorization, or the SOCKS5 greeting with a name    *)
(* and a password; a 2xx or a granted request opens the tunnel.            *)
Tunnel ==
  /\ tpc \in {"tunnel", "socks"}
  /\ secrets' = secrets \cup {Secret("proxy credentials")}
  /\ peer' = "origin" /\ tpc' = "tls"
  /\ UNCHANGED <<treq, address, layers, ReadVars, CdpVars>>
TunnelRefused ==
  /\ tpc \in {"tunnel", "socks"} /\ TransportFails
  /\ secrets' = secrets \cup {Secret("proxy credentials")}
  /\ UNCHANGED <<treq, address, layers, peer, ReadVars, CdpVars>>
OriginTls ==
  /\ tpc = "tls" /\ tpc' = "request"
  /\ layers' = IF treq.https THEN Append(layers, "origin") ELSE layers
  /\ UNCHANGED <<treq, address, peer, ReadVars, secrets, CdpVars>>
HandshakeFails ==
  /\ tpc \in {"proxytls", "tls", "request", "upgrade"} /\ TransportFails
  /\ UNCHANGED <<treq, address, layers, peer, ReadVars, secrets, CdpVars>>

(* The request: to the origin, or, for plain http over an http or https    *)
(* proxy, to the proxy with its credentials.  A Proxy-Authorization header *)
(* of the caller is left out.                                              *)
ForwardProxy == treq.proxy \in {"http", "https"} /\ ~treq.https
Token(is, n) == [is |-> is, n |-> n]
Byte(n) == Token("byte", n)
Eol == Token("eol", 0)
SizeLine(n) == <<Token("size", n), Eol>>
UpTo(sizes, n) == FoldSeq(+, 0, SubSeq(sizes, 1, n))
Chunk(r, n) == SizeLine(r.chunks[n]) \o SubSeq(r.body, UpTo(r.chunks, n - 1) + 1, UpTo(r.chunks, n)) \o <<Eol>>
Chunked(r) == FlattenSeq([n \in DOMAIN r.chunks |-> Chunk(r, n)]) \o SizeLine(0) \o <<Eol>>
Tokens(r) == <<Token("head", 0)>> \o (IF r.framing = "chunked" THEN Chunked(r) ELSE r.body)
Written ==
  secrets \cup {Secret("request")} \cup (IF ForwardProxy THEN {Secret("proxy credentials")} ELSE {})
SendRequest ==
  /\ tpc = "request" /\ ~treq.ws
  /\ secrets' = Written
  /\ \E r \in Responses, end \in {"close", "reset", "stall"} : \E n \in 0..Min({Len(Tokens(r)), WordSize - 1}) :
       reply' = [framing |-> r.framing, tokens |-> Tokens(r), body |-> r.body, wrote |-> n, end |-> end]
  /\ tpc' = "head"
  /\ UNCHANGED <<treq, address, layers, peer, received, at, part, decoded, CdpVars>>

-----------------------------------------------------------------------------
(* recv_more.  Without TLS a connection that was reset looks like one that *)
(* was closed.                                                             *)
Reading == tpc \in {"head", "length", "rest", "chunks", "trailer"}
HasLine(from) == \E i \in (from + 1)..received : reply.tokens[i] = Eol
LineEnd(from) == CHOOSE i \in (from + 1)..received : reply.tokens[i] = Eol /\ \A j \in (from + 1)..(i - 1) : reply.tokens[j] # Eol
LineArrives(from, n) == HasLine(from)
ChunkArrives(from, n) == HasLine((from + n) % WordSize)
BodySize == received - 1
NeedsMore ==
  CASE tpc = "head" -> received = 0
    [] tpc = "length" -> BodySize < Len(reply.body)
    [] tpc = "rest" -> BodySize < MaxBody
    [] tpc = "chunks" -> IF part = 0 THEN ~HasLine(at) ELSE ~ChunkArrives(at, part)
    [] tpc = "trailer" -> ~HasLine(at)
RecvMore ==
  /\ Reading /\ NeedsMore
  /\ received' \in (received + 1)..reply.wrote
  /\ UNCHANGED <<treq, tpc, address, layers, peer, reply, at, part, decoded, secrets, CdpVars>>
AtEnd == received = reply.wrote
Eof == AtEnd /\ (reply.end = "close" \/ (reply.end = "reset" /\ layers = <<>>))
RecvFails ==
  /\ Reading /\ NeedsMore /\ AtEnd /\ TransportFails
  /\ \/ reply.end = "stall" /\ treq.bounded
     \/ reply.end = "reset" /\ layers # <<>>
     \/ Eof /\ tpc # "rest"                                                     \* truncated
  /\ UNCHANGED <<treq, address, layers, peer, ReadVars, secrets, CdpVars>>

(* read_response.                                                          *)
Responds(b) == decoded' = b /\ tpc' = "done"
HeadRead ==
  /\ tpc = "head" /\ ~NeedsMore
  /\ CASE reply.framing = "chunked" -> tpc' = "chunks" /\ at' = 1
       [] reply.framing = "length" -> at' = at /\ tpc' = IF Len(reply.body) > MaxBody THEN "failed" ELSE "length"
       [] OTHER -> at' = at /\ tpc' = "rest"
  /\ UNCHANGED <<treq, address, layers, peer, reply, received, part, decoded, secrets, CdpVars>>
LengthRead ==
  /\ tpc = "length" /\ ~NeedsMore
  /\ Responds(SubSeq(reply.tokens, 2, 1 + Len(reply.body)))
  /\ UNCHANGED <<treq, address, layers, peer, reply, received, at, part, secrets, CdpVars>>
RestRead ==
  /\ tpc = "rest" /\ (Eof \/ ~NeedsMore)
  /\ IF BodySize > MaxBody THEN TransportFails /\ UNCHANGED decoded ELSE Responds(SubSeq(reply.tokens, 2, received))
  /\ UNCHANGED <<treq, address, layers, peer, reply, received, at, part, secrets, CdpVars>>
(* decode_chunked: a size line; then, once a line end arrived behind it,   *)
(* the chunk, or as much of it as arrived.  The sums are a size_t's.       *)
SizeRead ==
  /\ tpc = "chunks" /\ part = 0 /\ ~NeedsMore
  /\ at' = LineEnd(at)
  /\ LET token == reply.tokens[at + 1] IN
       IF token.is # "size" THEN TransportFails /\ UNCHANGED part
       ELSE IF token.n = 0 THEN tpc' = "trailer" /\ UNCHANGED part
       ELSE IF (Len(decoded) + token.n) % WordSize > MaxBody THEN TransportFails /\ UNCHANGED part
       ELSE part' = token.n /\ UNCHANGED tpc
  /\ UNCHANGED <<treq, address, layers, peer, reply, received, decoded, secrets, CdpVars>>
ChunkRead ==
  /\ tpc = "chunks" /\ part > 0 /\ ~NeedsMore
  /\ decoded' = decoded \o SubSeq(reply.tokens, at + 1, IF at + part < received THEN at + part ELSE received)
  /\ at' = (at + part + 1) % WordSize /\ part' = 0
  /\ UNCHANGED <<treq, tpc, address, layers, peer, reply, received, secrets, CdpVars>>
TrailerRead ==
  /\ tpc = "trailer" /\ ~NeedsMore /\ Responds(decoded)
  /\ UNCHANGED <<treq, address, layers, peer, reply, received, at, part, secrets, CdpVars>>

-----------------------------------------------------------------------------
(* open_websocket's upgrade, and CdpClient over the web socket.  A client  *)
(* whose call failed has given its socket up.                              *)
Upgrade ==
  /\ tpc = "request" /\ treq.ws /\ tpc' = "upgrade" /\ secrets' = secrets \cup {Secret("request")}
  /\ UNCHANGED <<treq, address, layers, peer, ReadVars, CdpVars>>
Upgraded ==
  /\ tpc = "upgrade" /\ tpc' = "socket" /\ linked' = TRUE
  /\ UNCHANGED <<treq, address, layers, peer, ReadVars, secrets, nextId, active, message, frameCount, cdpEvents, inbound, writing, unanswered, emitted, taken, cdpAnswers>>
Around == UNCHANGED <<treq, tpc, address, layers, peer, ReadVars, secrets>>
CdpCall ==
  /\ linked /\ ~active /\ nextId < MaxCdpCalls
  /\ nextId' = nextId + 1 /\ active' = TRUE /\ unanswered' = Append(unanswered, nextId + 1)
  /\ message' = <<>> /\ frameCount' = 0
  /\ Around /\ UNCHANGED <<linked, cdpEvents, inbound, writing, emitted, taken, cdpAnswers>>
CallOver == active' = FALSE /\ message' = <<>> /\ frameCount' = 0
(* A deadline, a frame or an answer that is wrong, an error the browser    *)
(* reports, a limit: transport_.reset().                                   *)
CallFails ==
  /\ active /\ linked' = FALSE /\ CallOver
  /\ Around /\ UNCHANGED <<nextId, cdpEvents, inbound, writing, unanswered, emitted, taken, cdpAnswers>>

(* External: the browser answers commands in order and sends events, each  *)
(* message in frames, with pings between them.                             *)
StartMessage ==
  /\ linked /\ writing = <<>> /\ Len(inbound) < 2
  /\ \E parts \in 1..2 :
       \/ /\ unanswered # <<>> /\ unanswered' = Tail(unanswered)
          /\ writing' = <<[kind |-> "reply", id |-> Head(unanswered), n |-> 1, of |-> parts]>> /\ emitted' = emitted
       \/ /\ Len(emitted) < MaxEmitted
          /\ writing' = <<[kind |-> "event", id |-> Len(emitted) + 1, n |-> 1, of |-> parts]>>
          /\ emitted' = Append(emitted, Len(emitted) + 1) /\ unanswered' = unanswered
  /\ Around /\ UNCHANGED <<nextId, active, linked, message, frameCount, cdpEvents, inbound, taken, cdpAnswers>>
SendFrame ==
  /\ writing # <<>> /\ Len(inbound) < 2
  /\ LET f == Head(writing) IN
       \/ inbound' = Append(inbound, f) /\ writing' = IF f.n = f.of THEN <<>> ELSE <<[f EXCEPT !.n = @ + 1]>>
       \/ inbound' = Append(inbound, [kind |-> "ping"]) /\ writing' = writing
  /\ Around /\ UNCHANGED <<nextId, active, linked, message, frameCount, cdpEvents, unanswered, emitted, taken, cdpAnswers>>

(* receive, a frame at a time: a ping is answered, a text frame begins a   *)
(* message, continuations follow it; what the last one completes goes to   *)
(* call.                                                                   *)
Begins(f) == f.n = 1
GoodFrame(f) == Begins(f) <=> message = <<>>
Completed(m) == IF \A i \in DOMAIN m : m[i] = [m[1] EXCEPT !.n = i] THEN m[1] ELSE [kind |-> "garbled"]
Dispatch(m) ==
  \/ /\ m.kind = "reply" /\ m.id = nextId
     /\ cdpAnswers' = cdpAnswers \cup {[asked |-> nextId, got |-> m.id]}
     /\ CallOver /\ UNCHANGED <<linked, cdpEvents>>
  \/ /\ m.kind = "event" /\ Len(cdpEvents) < MaxCdpEvents
     /\ cdpEvents' = Append(cdpEvents, m.id) /\ message' = <<>> /\ frameCount' = 0
     /\ UNCHANGED <<active, linked, cdpAnswers>>
  \/ /\ m.kind = "garbled" \/ (m.kind = "reply" /\ m.id # nextId) \/ (m.kind = "event" /\ Len(cdpEvents) >= MaxCdpEvents)
     /\ linked' = FALSE /\ CallOver /\ UNCHANGED <<cdpEvents, cdpAnswers>>
ReceiveFrame ==
  /\ active /\ inbound # <<>> /\ inbound' = Tail(inbound)
  /\ LET f == Head(inbound) IN
       IF frameCount >= MaxSocketFrames \/ (f.kind # "ping" /\ (~GoodFrame(f) \/ Len(message) + 1 > MaxBody))
       THEN linked' = FALSE /\ CallOver /\ UNCHANGED <<cdpEvents, cdpAnswers>>
       ELSE IF f.kind = "ping"
       THEN frameCount' = frameCount + 1 /\ UNCHANGED <<active, linked, message, cdpEvents, cdpAnswers>>
       ELSE IF f.n < f.of
       THEN message' = Append(message, f) /\ frameCount' = frameCount + 1 /\ UNCHANGED <<active, linked, cdpEvents, cdpAnswers>>
       ELSE Dispatch(Completed(Append(message, f)))
  /\ Around /\ UNCHANGED <<nextId, writing, unanswered, emitted, taken>>
TakeEvents ==
  /\ ~active /\ cdpEvents # <<>> /\ taken' = taken \o cdpEvents /\ cdpEvents' = <<>>
  /\ Around /\ UNCHANGED <<nextId, active, linked, message, frameCount, inbound, writing, unanswered, emitted, cdpAnswers>>

TransportNext ==
  \/ Select \/ Connected \/ AddressFails \/ ProxyTls \/ Tunnel \/ TunnelRefused \/ OriginTls \/ HandshakeFails
  \/ SendRequest \/ RecvMore \/ RecvFails \/ HeadRead \/ LengthRead \/ RestRead \/ SizeRead \/ ChunkRead \/ TrailerRead
  \/ Upgrade \/ Upgraded \/ CdpCall \/ CallFails \/ StartMessage \/ SendFrame \/ ReceiveFrame \/ TakeEvents
TransportSpec == TransportInit /\ [][TransportNext]_TransportVars

-----------------------------------------------------------------------------
(* A response that announced its size is whole or an error, however the    *)
(* network cut it up, and never larger than max_response_bytes; one that   *)
(* ends with its connection is a beginning of the body, and all of it when *)
(* it is shorter than the limit and the server closed after writing it all.*)
(* Chunks that announce more than a size_t holds are excepted: their sum   *)
(* wraps past the limit, and what arrived by then counts as the chunk.     *)
BodyIsWhole ==
  tpc = "done" /\ (reply.framing = "chunked" => Len(reply.body) < WordSize) =>
    /\ Len(decoded) <= MaxBody
    /\ reply.framing # "close" => decoded = reply.body
    /\ reply.framing = "close" =>
         /\ IsPrefix(decoded, reply.body)
         /\ (reply.wrote = Len(reply.tokens) /\ Len(reply.body) < MaxBody) => decoded = reply.body
(* The proxy's credentials are read by the proxy alone, and an https       *)
(* request is written inside a TLS layer made with its origin.             *)
SecretsStayOnTheirHop ==
  \A s \in secrets :
    /\ s.what = "proxy credentials" => s.to = "proxy"
    /\ (s.what = "request" /\ treq.https) => s.to = "origin" /\ s.sealed
(* A call returns the answer to its own command, although earlier ones may *)
(* have timed out; events reach take_events once each, in order.           *)
AnswersBelongToCalls ==
  /\ \A a \in cdpAnswers : a.asked = a.got
  /\ IsPrefix(taken \o cdpEvents, emitted)
(* What arrives is what was sent (send, read_response, CdpClient::call).   *)
WhatArrivesWasSent == BodyIsWhole /\ SecretsStayOnTheirHop /\ AnswersBelongToCalls
=============================================================================
