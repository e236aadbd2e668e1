--------------------------- MODULE ReferenceProxy ---------------------------
(***************************************************************************)
(* The OpenAI-compatible server (src/server/q38_openai.py): one thread to  *)
(* a connection, which answers GET from memory and either refuses a chat   *)
(* completion or passes it on to a reference upstream.                     *)
(*                                                                         *)
(* The upstream answers when it likes, sends its body in pieces, and may   *)
(* close early, reset or fall silent; the client may send half a body,     *)
(* close its sending side, stop reading or leave; the operator may end the *)
(* process.  A handler waits for the body of its request without a         *)
(* timeout.  A body of the upstream is read whole before the status goes   *)
(* out, except for a stream, whose status is already sent when the         *)
(* upstream fails.                                                         *)
(***************************************************************************)
EXTENDS Integers, Sequences, FiniteSetsExt

CONSTANTS
  Requests,
  Kinds,      \* request -> the kinds it may be
  MaxPieces,  \* bound on the pieces of an upstream body
  ReadSize    \* pieces in one read(8192)

ASSUME BoundsAssumption ==
  MaxPieces \in Nat \ {0} /\ ReadSize \in Nat \ {0}

VARIABLES
  server,    \* the process: "serving" or "down"
  reference, \* whether --reference-base-url was given
  kind,      \* what each client asks
  client,    \* "away", "there", "stalled" (reads nothing) or "gone"
  upload,    \* the request body: "nothing", "short" (more may come), "whole"
             \* or "cut" (short, and the client closed its sending side)
  thread,    \* where the handler is, what it will write and what it took
  upstream,  \* the upstream's side of each proxied request
  reply      \* what went out on each connection

vars == <<server, reference, kind, client, upload, thread, upstream, reply>>

OwnPiece   == 0
NoStatus   == "none"
Undeclared == -1
Relayed    == {"upstream ok", "upstream error"}
OwnStatus  == {"200", "400", "404", "502", "503"}

Replies == INSTANCE HttpReplies

(* A chat completion by its payload: an object, with or without "stream";  *)
(* a list that dict() accepts but that has no get(); a value dict() does   *)
(* not accept; text that is not JSON; a request without a usable           *)
(* Content-Length (none, 0, not a number), of which no body is read.       *)
Chats == {"object", "stream", "pairs", "scalar", "garbage", "unmeasured"}
Gets  == {"health", "models", "unknown"}

Pieces(n) == [k \in 1..n |-> k]

Idle   == [pc |-> "queued", status |-> NoStatus, declared |-> Undeclared,
           out |-> << >>, taken |-> 0]
Ended  == [Idle EXCEPT !.pc = "closed"]
Silent == [status |-> NoStatus, framing |-> "none", size |-> 0, sent |-> 0,
           end |-> "open"]

Init ==
  /\ server = "serving" /\ reference \in BOOLEAN
  /\ kind     = [r \in Requests |-> "none"]
  /\ client   = [r \in Requests |-> "away"]
  /\ upload   = [r \in Requests |-> "nothing"]
  /\ thread   = [r \in Requests |-> Idle]
  /\ upstream = [r \in Requests |-> Silent]
  /\ reply    = [r \in Requests |-> Replies!NoReply]

-----------------------------------------------------------------------------
(* The client, until its connection ends: the head of a request is there   *)
(* when it connects, the body comes when the client likes, or never.       *)
Connect(r) ==
  /\ client[r] = "away" /\ server = "serving"
  /\ \E k \in Kinds[r] : kind' = [kind EXCEPT ![r] = k]
  /\ client' = [client EXCEPT ![r] = "there"]
  /\ UNCHANGED <<server, reference, upload, thread, upstream, reply>>

Upload(r) ==
  /\ client[r] = "there" /\ kind[r] \notin Gets /\ ~reply[r].closed
  /\ upload[r] \in {"nothing", "short"}
  /\ \E u \in {"short", "whole", "cut"} \ {upload[r]} :
        upload' = [upload EXCEPT ![r] = u]
  /\ UNCHANGED <<server, reference, kind, client, thread, upstream, reply>>

Behave(r) ==
  /\ client[r] \in {"there", "stalled"} /\ ~reply[r].closed
  /\ \E c \in {"there", "stalled", "gone"} \ {client[r]} :
        client' = [client EXCEPT ![r] = c]
  /\ UNCHANGED <<server, reference, kind, upload, thread, upstream, reply>>

-----------------------------------------------------------------------------
(* The upstream, once urlopen() has sent it the request.                   *)
Asked(r) == thread[r].pc \in {"urlopen", "whole", "relay head", "relay",
                              "write"}

UpstreamAnswers(r) ==
  /\ thread[r].pc = "urlopen" /\ upstream[r].status = NoStatus
  /\ \E s \in Relayed, f \in {"length", "chunked", "eof"}, n \in 0..MaxPieces :
        upstream' = [upstream EXCEPT ![r] =
                       [Silent EXCEPT !.status = s, !.framing = f, !.size = n]]
  /\ UNCHANGED <<server, reference, kind, client, upload, thread, reply>>

UpstreamSends(r) ==
  /\ Asked(r) /\ upstream[r].status # NoStatus /\ upstream[r].end = "open"
  /\ \/ /\ upstream[r].sent < upstream[r].size
        /\ upstream' = [upstream EXCEPT ![r].sent = @ + 1]
     \/ /\ upstream[r].sent = upstream[r].size
        /\ upstream' = [upstream EXCEPT ![r].end = "finished"]
     \/ /\ upstream[r].sent < upstream[r].size
        /\ upstream' = [upstream EXCEPT ![r].end = "closed early"]
     \/ upstream' = [upstream EXCEPT ![r].end = "reset"]
  /\ UNCHANGED <<server, reference, kind, client, upload, thread, reply>>

-----------------------------------------------------------------------------
(* The thread of a request.                                                *)
Goto(r, at) == thread' = [thread EXCEPT ![r].pc = at]

End(r) ==
  /\ thread' = [thread EXCEPT ![r] = Ended]
  /\ reply' = [reply EXCEPT ![r].closed = TRUE]

Quiet == UNCHANGED <<server, reference, kind, client, upload, upstream>>

(* Send status, headers and body: from the head on, two writes.            *)
Answer(r, status, body) ==
  /\ thread' = [thread EXCEPT ![r].pc = "head", ![r].status = status,
                              ![r].declared = Len(body), ![r].out = body]
  /\ UNCHANGED reply

SendJson(r, status) == Answer(r, status, <<OwnPiece>>)

(* Mutant: HTTPServer, without threads.                                    *)
Accept_Serial(r) ==
  /\ server = "serving" /\ client[r] # "away" /\ thread[r].pc = "queued"
  /\ \A q \in Requests : thread[q].pc \in {"queued", "closed"}
  /\ Goto(r, "begin")
  /\ Quiet /\ UNCHANGED reply

Accept(r) ==
  /\ server = "serving" /\ client[r] # "away" /\ thread[r].pc = "queued"
  /\ Goto(r, "begin")
  /\ Quiet /\ UNCHANGED reply

DoGet(r) ==
  /\ thread[r].pc = "begin" /\ kind[r] \in Gets
  /\ SendJson(r, IF kind[r] \in {"health", "models"} THEN "200" ELSE "404")
  /\ Quiet

DoPostElsewhere(r) ==
  /\ thread[r].pc = "begin" /\ kind[r] = "post elsewhere"
  /\ SendJson(r, "404")
  /\ Quiet

(* rfile.read(length) returns with the whole body, or with less at the end *)
(* of what the client will ever send; until then it blocks.                *)
BodyEnds(r) == upload[r] \in {"whole", "cut"} \/ client[r] = "gone"

(* The body is read before anything is decided, and only then is the       *)
(* reference looked at; dict() of a scalar raises out of the handler.      *)
DoPost(r) ==
  /\ thread[r].pc = "begin" /\ kind[r] \in Chats
  /\ kind[r] = "unmeasured" \/ BodyEnds(r)
  /\ CASE kind[r] \in {"unmeasured", "garbage"} \/ upload[r] # "whole" ->
            SendJson(r, "400")
       [] OTHER ->
            IF ~reference THEN SendJson(r, "503")
            ELSE IF kind[r] = "scalar" THEN End(r)
            ELSE Goto(r, "urlopen") /\ UNCHANGED reply
  /\ Quiet

(* No connection, no answer in 600 s, or an answer that is not HTTP.       *)
UrlopenFails(r) ==
  /\ thread[r].pc = "urlopen" /\ upstream[r].status = NoStatus
  /\ SendJson(r, "502") /\ Quiet

(* What comes after urlopen(): the body of an error is read whole; a       *)
(* payload without get() raises.                                           *)
UrlopenReturns(r) ==
  /\ thread[r].pc = "urlopen" /\ upstream[r].status # NoStatus
  /\ CASE upstream[r].status = "upstream error" ->
            Goto(r, "whole") /\ UNCHANGED reply
       [] OTHER ->
            IF kind[r] = "pairs" THEN End(r)
            ELSE /\ Goto(r, IF kind[r] = "stream" THEN "relay head" ELSE "whole")
                 /\ UNCHANGED reply
  /\ Quiet

(* Mutant: the body is collected with read(8192) until it returns nothing. *)
Intact_Pieces(r) ==
  \/ upstream[r].end = "finished"
  \/ upstream[r].end = "closed early" /\ upstream[r].framing # "chunked"

(* read(): an early end shows, unless the end is all there is to mark it.  *)
Intact(r) ==
  \/ upstream[r].end = "finished"
  \/ upstream[r].end = "closed early" /\ upstream[r].framing = "eof"

ReadWhole(r) ==
  /\ thread[r].pc = "whole"
  /\ IF Intact(r) THEN Answer(r, upstream[r].status, Pieces(upstream[r].sent))
     ELSE End(r)  \* IncompleteRead, a reset, or a silence of 600 s
  /\ Quiet

-----------------------------------------------------------------------------
(* A write blocks while the client stalls, and may fail once it is gone.   *)
Write(r, next) ==
  /\ client[r] # "stalled"
  /\ \/ next
     \/ client[r] = "gone" /\ End(r)
  /\ Quiet

SendHead(r) ==
  /\ thread[r].pc \in {"head", "relay head"}
  /\ Write(r, IF thread[r].pc = "head"
              THEN /\ reply' = [reply EXCEPT ![r].status = thread[r].status,
                                             ![r].declared = thread[r].declared]
                   /\ Goto(r, "body")
              ELSE /\ reply' = [reply EXCEPT ![r].status = upstream[r].status]
                   /\ Goto(r, "relay"))

SendBody(r) ==
  /\ thread[r].pc = "body"
  /\ Write(r, /\ reply' = [reply EXCEPT ![r].got = @ \o thread[r].out]
              /\ Goto(r, "return"))

(* HTTP/1.0: the handler returns and shutdown_request() closes.            *)
Return(r) == thread[r].pc = "return" /\ End(r) /\ Quiet

Left(r) == upstream[r].sent - thread[r].taken

(* Mutant: a read that is not full ends the loop.                          *)
ReadPiece_ShortIsEnd(r) ==
  LET n == Min({Left(r), ReadSize}) IN
  /\ thread[r].pc = "relay"
  /\ \/ Left(r) >= ReadSize
     \/ upstream[r].end \in {"finished", "closed early"}
  /\ upstream[r].end = "closed early" /\ upstream[r].framing = "chunked"
       => Left(r) >= ReadSize
  /\ IF n < ReadSize THEN End(r)
     ELSE /\ thread' = [thread EXCEPT ![r].pc = "write", ![r].taken = @ + n,
                          ![r].out = [k \in 1..n |-> thread[r].taken + k]]
          /\ UNCHANGED reply
  /\ Quiet

(* read(8192) returns a full buffer or what is left; an early close of a   *)
(* body that is not chunked looks like its end.                            *)
ReadPiece(r) ==
  LET n == Min({Left(r), ReadSize}) IN
  /\ thread[r].pc = "relay"
  /\ \/ Left(r) >= ReadSize
     \/ upstream[r].end \in {"finished", "closed early"}
  /\ upstream[r].end = "closed early" /\ upstream[r].framing = "chunked"
       => Left(r) >= ReadSize
  /\ IF n = 0 THEN End(r)
     ELSE /\ thread' = [thread EXCEPT ![r].pc = "write", ![r].taken = @ + n,
                          ![r].out = [k \in 1..n |-> thread[r].taken + k]]
          /\ UNCHANGED reply
  /\ Quiet

(* Mutant: urlopen() without a timeout.                                    *)
RelayFails_NoTimeout(r) ==
  /\ thread[r].pc = "relay"
  /\ \/ upstream[r].end = "reset"
     \/ /\ upstream[r].end = "closed early" /\ upstream[r].framing = "chunked"
        /\ Left(r) < ReadSize
  /\ End(r) /\ Quiet

(* Nothing for 600 s, a reset, or a chunked body cut short: the connection *)
(* ends where it is.                                                       *)
RelayFails(r) ==
  /\ thread[r].pc = "relay"
  /\ \/ upstream[r].end = "open" /\ Left(r) < ReadSize
     \/ upstream[r].end = "reset"
     \/ /\ upstream[r].end = "closed early" /\ upstream[r].framing = "chunked"
        /\ Left(r) < ReadSize
  /\ End(r) /\ Quiet

(* Mutant: the reader goes on from the beginning of the buffer.            *)
WritePiece_Again(r) ==
  /\ thread[r].pc = "write"
  /\ Write(r, /\ reply' = [reply EXCEPT ![r].got = Pieces(1) \o @]
              /\ Goto(r, "relay"))

WritePiece(r) ==
  /\ thread[r].pc = "write"
  /\ Write(r, /\ reply' = [reply EXCEPT ![r].got = @ \o thread[r].out]
              /\ Goto(r, "relay"))

(* Ctrl-C: server_close(), and the daemon threads end with the process.    *)
Interrupt ==
  /\ server = "serving"
  /\ server' = "down"
  /\ thread' = [r \in Requests |-> Ended]
  /\ reply'  = [r \in Requests |-> [reply[r] EXCEPT !.closed = TRUE]]
  /\ UNCHANGED <<reference, kind, client, upload, upstream>>

Thread(r) ==
  \/ DoGet(r) \/ DoPostElsewhere(r) \/ DoPost(r)
  \/ UrlopenFails(r) \/ UrlopenReturns(r) \/ ReadWhole(r)
  \/ SendHead(r) \/ SendBody(r) \/ Return(r)
  \/ ReadPiece(r) \/ RelayFails(r) \/ WritePiece(r)

Next ==
  \/ Interrupt
  \/ \E r \in Requests :
       \/ Connect(r) \/ Upload(r) \/ Behave(r)
       \/ UpstreamAnswers(r) \/ UpstreamSends(r)
       \/ Accept(r) \/ Thread(r)

(* Threads are scheduled and the accept loop turns; every wait for the     *)
(* upstream ends after 600 s.  Nothing is promised for clients, for the    *)
(* upstream or for Ctrl-C.                                                 *)
Spec ==
  /\ Init /\ [][Next]_vars
  /\ \A r \in Requests : WF_vars(Accept(r)) /\ WF_vars(Thread(r))

-----------------------------------------------------------------------------
(* A client that received as many bytes as were declared has the whole     *)
(* body the upstream meant, unless nothing but the end of the connection   *)
(* marked its end: proxy_reference() never declares the length of a body   *)
(* that was cut short.  And the status says whose fault it is: 502 only    *)
(* for an upstream that gave no answer, 400 only for a request that cannot *)
(* be read or whose body will never be whole, 503 only without a           *)
(* reference, and the upstream's own status whenever its body is passed on.*)
RepliesAreHonest ==
  \A r \in Requests :
    /\ (/\ reply[r].status \in Relayed
        /\ reply[r].declared = Len(reply[r].got))
          => \/ reply[r].got = Pieces(upstream[r].size)
             \/ upstream[r].framing = "eof" /\ upstream[r].end = "closed early"
    /\ reply[r].status = "502" => upstream[r].status = NoStatus
    /\ reply[r].status = "503" => ~reference
    /\ reply[r].status = "400" => \/ kind[r] \in {"garbage", "unmeasured"}
                                  \/ upload[r] # "whole" /\ BodyEnds(r)
    /\ reply[r].status \in Relayed => reply[r].status = upstream[r].status
    /\ Len(reply[r].got) > 1 => reply[r].status \in Relayed

(* Each connection is a reply as HttpReplies describes it: one status, one *)
(* body in order from one source, no longer than declared.  A failure of   *)
(* the upstream in the middle of a stream only ends the connection.        *)
RepliesImplement == Replies!Spec

(* A client that sent all it will send, or asked what needs no body, and   *)
(* does not stop reading is answered or hung up on, whatever the upstream  *)
(* does.  A client that holds half a body back, or does not read, is       *)
(* waited for as long as it stays; once it leaves, its thread ends.        *)
EveryRequestEnds ==
  \A r \in Requests :
    <>[](/\ client[r] # "stalled" /\ thread[r].pc # "queued"
         /\ \/ BodyEnds(r)
            \/ kind[r] \in Gets \cup {"post elsewhere", "unmeasured"})
      => <>(thread[r].pc = "closed")

(* A stream the upstream finishes while it is relayed reaches its client   *)
(* to the last piece, also when it does not fill a whole read.             *)
FinishedStreamsArrive ==
  \A r \in Requests :
    (thread[r].pc = "relay" /\ upstream[r].end = "finished")
      ~> \/ reply[r].got = Pieces(upstream[r].size)
         \/ client[r] \in {"stalled", "gone"} \/ server = "down"

(* /health answers while other requests wait for the upstream, for the     *)
(* rest of a body that may never come, or for a client that does not read: *)
(* each connection has a thread.                                           *)
HealthAnswers ==
  \A r \in Requests :
    (kind[r] = "health" /\ thread[r].pc = "queued" /\ server = "serving")
      ~> \/ reply[r].status = "200"
         \/ client[r] \in {"stalled", "gone"} \/ server = "down"
=============================================================================
