------------------------ MODULE ReferenceProxy_proofs -----------------------
(***************************************************************************)
(* The replies of the server (src/server/q38_openai.py) are honest and     *)
(* implement HttpReplies, for any number of connections, any sizes of      *)
(* bodies and of reads.                                                    *)
(*                                                                         *)
(* The invariant says of every request what its thread has in hand, what   *)
(* went out, and that the two agree (AnswerIsReady, ReplyIsSound,          *)
(* ReplyIsInStep); a step touches one request, so each action is looked    *)
(* at for that request alone (OneAtATime).                                 *)
(***************************************************************************)
EXTENDS ReferenceProxy, SequenceTheorems, TLAPS

(* Bounds and sequences: the pieces of a body, and a slice that goes on    *)
(* from the first of them.                                                 *)
LEMMA MinOfTwo ==
  ASSUME NEW a \in Int, NEW b \in Int
  PROVE  /\ Min({a, b}) \in {a, b}
         /\ Min({a, b}) <= a /\ Min({a, b}) <= b
<1>1. \E x \in {a, b} : \A y \in {a, b} : x =< y
  <2>1. CASE a <= b
    BY <2>1
  <2>2. CASE b <= a
    BY <2>2
  <2> QED
    BY <2>1, <2>2
<1> QED
  BY <1>1 DEF Min

LEMMA NatBounds ==
  /\ \A a, b \in Nat : a = b => a <= b
  /\ \A n \in Nat : 0 <= n /\ 0 \in 0 .. n
  OBVIOUS

LEMMA PiecesAreSeq ==
  ASSUME NEW n \in Nat
  PROVE  Pieces(n) \in Seq(Nat) /\ Len(Pieces(n)) = n
  BY DEF Pieces

(* n pieces after the first a.                                             *)
Slice(a, n) == [k \in 1..n |-> a + k]

LEMMA NextPieces ==
  ASSUME NEW a \in Nat, NEW n \in Nat
  PROVE  /\ Slice(a, n) \in Seq(Nat)
         /\ Pieces(a) \o Slice(a, n) = Pieces(a + n)
<1> DEFINE s == Slice(a, n)
<1>1. s \in Seq(Nat) /\ Len(s) = n
  BY DEF Slice
<1>2. Pieces(a) \in Seq(Nat) /\ Pieces(a + n) \in Seq(Nat)
      /\ Len(Pieces(a)) = a /\ Len(Pieces(a + n)) = a + n
  BY PiecesAreSeq
<1>3. Pieces(a) \o s \in Seq(Nat) /\ Len(Pieces(a) \o s) = a + n
  BY <1>1, <1>2, ConcatProperties
<1>4. \A i \in 1 .. a + n : (Pieces(a) \o s)[i] = Pieces(a + n)[i]
  <2> SUFFICES ASSUME NEW i \in 1 .. a + n
               PROVE  (Pieces(a) \o s)[i] = Pieces(a + n)[i]
    BY <1>1, <1>2
  <2>1. (Pieces(a) \o s)[i] = IF i <= a THEN Pieces(a)[i] ELSE s[i - a]
    <3> HIDE DEF s
    <3>1. \A j \in 1 .. Len(Pieces(a)) + Len(s) :
             (Pieces(a) \o s)[j] = IF j <= Len(Pieces(a)) THEN Pieces(a)[j]
                                   ELSE s[j - Len(Pieces(a))]
      BY <1>1, <1>2, ConcatProperties
    <3> QED
      BY <1>1, <1>2, <3>1
  <2> QED
    BY <2>1 DEF s, Pieces, Slice
<1> QED
  BY <1>1, <1>2, <1>3, <1>4, SeqEqual

-----------------------------------------------------------------------------
(* What a thread can have in hand.                                         *)
Before == {"queued", "begin", "urlopen", "whole", "head", "relay head"}
Places == Before \cup {"body", "return", "relay", "write", "closed"}

Statuses == Relayed \cup OwnStatus \cup {NoStatus}

ThreadType == [pc : Places, status : Statuses, declared : Int,
               out : Seq(Nat), taken : Nat]

AllKinds == (UNION {Kinds[r] : r \in Requests}) \cup {"none"}

UpstreamType ==
  [status : Relayed \cup {NoStatus},
   framing : {"none", "length", "chunked", "eof"}, size : Nat, sent : Nat,
   end : {"open", "finished", "closed early", "reset"}]

TypeInv ==
  /\ thread \in [Requests -> ThreadType]
  /\ upstream \in [Requests -> UpstreamType]
  /\ reply \in [Requests ->
       [status : Statuses, declared : Int,
        got : Seq(Nat), closed : BOOLEAN]]
  /\ client \in [Requests -> {"away", "there", "stalled", "gone"}]
  /\ upload \in [Requests -> {"nothing", "short", "whole", "cut"}]
  /\ kind \in [Requests -> AllKinds]

(* The upstream sends no more than its body has.                           *)
BodyIsBounded(r) ==
  /\ upstream[r].size <= MaxPieces
  /\ upstream[r].sent <= upstream[r].size
  /\ upstream[r].end = "finished" => upstream[r].sent = upstream[r].size

(* Why a request may be refused: its body will never be whole.             *)
BadRequest(r) ==
  \/ kind[r] \in {"garbage", "unmeasured"}
  \/ upload[r] # "whole" /\ BodyEnds(r)

Deserved(r, status) ==
  /\ status \in OwnStatus
  /\ status = "502" => upstream[r].status = NoStatus
  /\ status = "503" => ~reference
  /\ status = "400" => BadRequest(r)

(* The whole body of the upstream, as far as anybody can tell.             *)
Measured(r, n) == n = upstream[r].sent /\ Intact(r)

(* What a thread is about to write is its own piece, or all of a body that *)
(* was read to its end.                                                    *)
AnswerIsReady(r) ==
  thread[r].pc \in {"head", "body"} =>
    \/ /\ Deserved(r, thread[r].status)
       /\ thread[r].out = <<OwnPiece>> /\ thread[r].declared = 1
    \/ /\ thread[r].status = upstream[r].status /\ upstream[r].status \in Relayed
       /\ thread[r].out = Pieces(upstream[r].sent)
       /\ Measured(r, thread[r].declared)

(* What went out on a connection.                                          *)
OwnReply(r) ==
  /\ Deserved(r, reply[r].status)
  /\ reply[r].declared = 1 /\ reply[r].got \in {<< >>, <<OwnPiece>>}

RelayedReply(r) ==
  /\ reply[r].status \in Relayed /\ reply[r].status = upstream[r].status
  /\ \E n \in 0 .. upstream[r].sent : reply[r].got = Pieces(n)
  /\ reply[r].declared = Undeclared \/ Measured(r, reply[r].declared)

ReplyIsSound(r) ==
  \/ reply[r].status = NoStatus /\ reply[r].declared = Undeclared
       /\ reply[r].got = << >>
  \/ OwnReply(r)
  \/ RelayedReply(r)

(* The place of the thread and the reply agree.                            *)
ReplyIsInStep(r) ==
  /\ reply[r].closed <=> thread[r].pc = "closed"
  /\ thread[r].pc \in Before => reply[r].status = NoStatus
  /\ thread[r].pc = "body" =>
       /\ reply[r].status = thread[r].status
       /\ reply[r].declared = thread[r].declared /\ reply[r].got = << >>
  /\ thread[r].pc \in {"relay", "write"} =>
       /\ reply[r].status = upstream[r].status
       /\ reply[r].declared = Undeclared
       /\ thread[r].taken <= upstream[r].sent
  /\ thread[r].pc = "relay" => reply[r].got = Pieces(thread[r].taken)
  /\ thread[r].pc = "relay head" => thread[r].taken = 0
  /\ thread[r].pc \in {"queued", "begin", "urlopen", "whole"} =>
       thread[r].taken = 0
  /\ thread[r].pc = "write" =>
       \E n \in 1 .. thread[r].taken :
         /\ reply[r].got = Pieces(thread[r].taken - n)
         /\ thread[r].out = Slice(thread[r].taken - n, n)

(* A body is read only of an upstream that answered; nothing is decided    *)
(* for a client that has not connected.                                    *)
AskedInOrder(r) ==
  /\ thread[r].pc \in {"whole", "relay head", "relay", "write"} =>
       upstream[r].status \in Relayed
  /\ client[r] = "away" => thread[r].pc = "queued" \/ server = "down"

ReqInv(r) ==
  /\ BodyIsBounded(r) /\ AnswerIsReady(r) /\ ReplyIsSound(r)
  /\ ReplyIsInStep(r) /\ AskedInOrder(r)

IInv == TypeInv /\ \A r \in Requests : ReqInv(r)

-----------------------------------------------------------------------------
LEMMA Typed ==
  ASSUME TypeInv, NEW r \in Requests
  PROVE  /\ thread \in [Requests -> ThreadType] /\ thread[r] \in ThreadType
         /\ thread[r].declared \in Int /\ thread[r].out \in Seq(Nat)
         /\ thread[r].taken \in Nat
         /\ upstream \in [Requests -> UpstreamType]
         /\ upstream[r] \in UpstreamType
         /\ upstream[r].size \in Nat /\ upstream[r].sent \in Nat
         /\ reply[r].got \in Seq(Nat)
<1>1. /\ thread \in [Requests -> ThreadType] /\ thread[r] \in ThreadType
      /\ upstream \in [Requests -> UpstreamType]
      /\ upstream[r] \in UpstreamType /\ reply[r].got \in Seq(Nat)
  BY DEF TypeInv
<1> QED
  BY <1>1 DEF ThreadType, UpstreamType

(* The changes the actions make to a record keep its type.                 *)
LEMMA ThreadMoves ==
  ASSUME NEW t \in ThreadType, NEW at \in Places
  PROVE  /\ [t EXCEPT !.pc = at] \in ThreadType
         /\ [t EXCEPT !.pc = at].pc = at
         /\ [t EXCEPT !.pc = at].taken = t.taken
         /\ [t EXCEPT !.pc = at].out = t.out
         /\ [t EXCEPT !.pc = at].status = t.status
         /\ [t EXCEPT !.pc = at].declared = t.declared
  BY DEF ThreadType

LEMMA NothingSentYet ==
  ASSUME IInv, NEW r \in Requests, thread[r].pc \in Before
  PROVE  /\ reply[r].status = NoStatus /\ reply[r].declared = Undeclared
         /\ reply[r].got = << >> /\ ~reply[r].closed
<1>1. ReqInv(r)
  BY DEF IInv
<1>2. reply[r].status = NoStatus /\ ~reply[r].closed
  BY <1>1 DEF ReqInv, ReplyIsInStep, Before
<1> QED
  BY <1>1, <1>2 DEF ReqInv, ReplyIsSound, OwnReply, RelayedReply, Deserved,
     OwnStatus, Relayed, NoStatus

(* Steps that touch one request leave the others as they are.              *)
Same(q) ==
  /\ thread'[q] = thread[q] /\ upstream'[q] = upstream[q]
  /\ reply'[q] = reply[q] /\ client'[q] = client[q]
  /\ upload'[q] = upload[q] /\ kind'[q] = kind[q]

LEMMA OneAtATime ==
  ASSUME IInv, NEW r \in Requests, TypeInv', ReqInv(r)',
         \A q \in Requests \ {r} : Same(q),
         UNCHANGED <<server, reference>>
  PROVE  IInv'
<1> SUFFICES ASSUME NEW q \in Requests, q # r PROVE ReqInv(q)'
  BY DEF IInv
<1>1. Same(q) /\ ReqInv(q)
  BY DEF IInv
<1>2. BodyIsBounded(q)' /\ AskedInOrder(q)'
  BY <1>1 DEF Same, ReqInv, BodyIsBounded, AskedInOrder
<1>3. AnswerIsReady(q)'
  BY <1>1 DEF Same, ReqInv, AnswerIsReady, Deserved, BadRequest, BodyEnds,
     Measured, Intact
<1>4. ReplyIsSound(q)'
  BY <1>1 DEF Same, ReqInv, ReplyIsSound, OwnReply, RelayedReply, Deserved,
     BadRequest, BodyEnds, Measured, Intact
<1>5. ReplyIsInStep(q)'
  BY <1>1 DEF Same, ReqInv, ReplyIsInStep
<1> QED
  BY <1>2, <1>3, <1>4, <1>5 DEF ReqInv

LEMMA EndKeeps ==
  ASSUME IInv, NEW r \in Requests, thread[r].pc # "queued", End(r), Quiet
  PROVE  IInv'
<1> USE DEF IInv, Quiet, End
<1>1. /\ thread'[r] = Ended
      /\ reply'[r] = [reply[r] EXCEPT !.closed = TRUE]
      /\ \A q \in Requests \ {r} : Same(q)
  BY DEF TypeInv, ThreadType, Same
<1>2. TypeInv'
  <2>1. "closed" \in Places /\ NoStatus \in Statuses
        /\ Undeclared \in Int /\ << >> \in Seq(Nat)
    BY DEF Places, Statuses, Undeclared
  <2>2. Ended \in ThreadType
    BY <2>1 DEF Ended, Idle, ThreadType
  <2> QED
    BY <2>2 DEF TypeInv
<1>3. thread'[r].pc = "closed"
  BY <1>1 DEF Ended, Idle
<1>4. /\ reply'[r].closed /\ reply'[r].status = reply[r].status
      /\ reply'[r].declared = reply[r].declared /\ reply'[r].got = reply[r].got
  BY <1>1 DEF TypeInv
<1>5. ReqInv(r)
  OBVIOUS
<1>6. BodyIsBounded(r)' /\ AskedInOrder(r)' /\ AnswerIsReady(r)'
  BY <1>3, <1>5 DEF ReqInv, BodyIsBounded, AskedInOrder, AnswerIsReady
<1>7. ReplyIsSound(r)'
  BY <1>4, <1>5 DEF ReqInv, ReplyIsSound, OwnReply, RelayedReply, Deserved,
     BadRequest, BodyEnds, Measured, Intact
<1>8. ReplyIsInStep(r)'
  BY <1>3, <1>4 DEF ReplyIsInStep, Before
<1>9. ReqInv(r)'
  BY <1>6, <1>7, <1>8 DEF ReqInv
<1> QED
  BY <1>1, <1>2, <1>9, OneAtATime

(* An answer is prepared while nothing went out.                           *)
LEMMA AnswerKeeps ==
  ASSUME IInv, NEW r \in Requests, NEW status, NEW body \in Seq(Nat),
         thread[r].pc \in {"begin", "urlopen", "whole"},
         Answer(r, status, body), Quiet,
         \/ Deserved(r, status) /\ body = <<OwnPiece>>
         \/ /\ status = upstream[r].status /\ status \in Relayed
            /\ body = Pieces(upstream[r].sent) /\ Intact(r)
  PROVE  IInv'
<1> USE DEF IInv, Quiet, Answer
<1>1. /\ thread'[r].pc = "head" /\ thread'[r].status = status
      /\ thread'[r].declared = Len(body) /\ thread'[r].out = body
      /\ thread'[r].taken = thread[r].taken
      /\ \A q \in Requests \ {r} : Same(q)
  BY DEF TypeInv, ThreadType, Same
<1>2. status \in Relayed \cup OwnStatus
  BY DEF Deserved
<1>3. TypeInv'
  <2>1. Len(body) \in Int /\ "head" \in Places /\ status \in Statuses
    BY <1>2 DEF Places, Before, Statuses
  <2>2. [thread[r] EXCEPT !.pc = "head", !.status = status,
                          !.declared = Len(body), !.out = body] \in ThreadType
    <3>1. thread[r] \in ThreadType
      BY DEF TypeInv
    <3> QED
      BY <2>1, <3>1 DEF ThreadType
  <2>3. thread' = [thread EXCEPT ![r] =
          [thread[r] EXCEPT !.pc = "head", !.status = status,
                            !.declared = Len(body), !.out = body]]
    BY DEF TypeInv
  <2> QED
    BY <2>2, <2>3 DEF TypeInv
<1>4. ReqInv(r)
  OBVIOUS
<1>5. BodyIsBounded(r)' /\ AskedInOrder(r)'
  BY <1>1, <1>4 DEF ReqInv, BodyIsBounded, AskedInOrder
<1>6. AnswerIsReady(r)'
  <2>1. CASE Deserved(r, status) /\ body = <<OwnPiece>>
    BY <1>1, <2>1 DEF AnswerIsReady, Deserved, BadRequest, BodyEnds
  <2>2. CASE /\ status = upstream[r].status /\ status \in Relayed
             /\ body = Pieces(upstream[r].sent) /\ Intact(r)
    <3>1. Len(body) = upstream[r].sent
      BY <2>2, PiecesAreSeq, Typed
    <3> QED
      BY <1>1, <2>2, <3>1 DEF AnswerIsReady, Measured, Intact
  <2> QED
    BY <2>1, <2>2
<1>7. ReplyIsSound(r)' /\ ReplyIsInStep(r)'
  <2>1. reply'[r] = reply[r] /\ upstream'[r] = upstream[r]
    OBVIOUS
  <2>2. reply[r].status = NoStatus /\ ~reply[r].closed
    BY <1>4 DEF ReqInv, ReplyIsInStep, Before
  <2>3. reply[r].declared = Undeclared /\ reply[r].got = << >>
    BY <1>4, <2>2 DEF ReqInv, ReplyIsSound, OwnReply, RelayedReply, Deserved,
       OwnStatus, Relayed, NoStatus
  <2> QED
    BY <1>1, <2>1, <2>2, <2>3 DEF ReplyIsSound, ReplyIsInStep, Before
<1>8. ReqInv(r)'
  BY <1>5, <1>6, <1>7 DEF ReqInv
<1> QED
  BY <1>1, <1>3, <1>8, OneAtATime

(* A thread moves on and sends nothing.                                    *)
LEMMA GotoKeeps ==
  ASSUME IInv, NEW r \in Requests, NEW at \in Before \ {"queued", "head"},
         Goto(r, at), Quiet, UNCHANGED reply,
         thread[r].pc \in Before \ {"head", "relay head"},
         at \in {"whole", "relay head"} => upstream[r].status \in Relayed,
         client[r] # "away" \/ server = "down"
  PROVE  IInv'
<1> USE DEF IInv, Quiet, Goto
<1>0. /\ at \in Places /\ thread[r] \in ThreadType
      /\ thread' = [thread EXCEPT ![r] = [thread[r] EXCEPT !.pc = at]]
      /\ thread'[r] = [thread[r] EXCEPT !.pc = at]
  BY DEF TypeInv, Places
<1>1. /\ thread'[r].pc = at /\ thread'[r].taken = thread[r].taken
      /\ \A q \in Requests \ {r} : Same(q)
  <2>1. thread'[r].pc = at /\ thread'[r].taken = thread[r].taken
    BY <1>0, ThreadMoves
  <2>2. \A q \in Requests \ {r} : Same(q)
    BY DEF TypeInv, Same
  <2> QED
    BY <2>1, <2>2
<1>2. TypeInv'
  <2>1. [thread[r] EXCEPT !.pc = at] \in ThreadType
    BY <1>0, ThreadMoves
  <2>2. thread' \in [Requests -> ThreadType]
    BY <1>0, <2>1 DEF TypeInv
  <2> QED
    BY <2>2 DEF TypeInv
<1>3. ReqInv(r)
  OBVIOUS
<1>4. /\ BodyIsBounded(r)' /\ AskedInOrder(r)' /\ AnswerIsReady(r)'
  BY <1>1, <1>3 DEF ReqInv, BodyIsBounded, AskedInOrder, AnswerIsReady, Before
<1>5. ReplyIsSound(r)'
  BY <1>3 DEF ReqInv, ReplyIsSound, OwnReply, RelayedReply, Deserved,
     BadRequest, BodyEnds, Measured, Intact
<1>6. ReplyIsInStep(r)'
  BY <1>1, <1>3 DEF ReqInv, ReplyIsInStep, Before
<1>7. ReqInv(r)'
  BY <1>4, <1>5, <1>6 DEF ReqInv
<1> QED
  BY <1>1, <1>2, <1>7, OneAtATime

-----------------------------------------------------------------------------
(* The client and the upstream.                                            *)
LEMMA ConnectKeeps ==
  ASSUME IInv, NEW r \in Requests, Connect(r) PROVE IInv'
<1> USE DEF IInv, Connect
<1>1. PICK k \in Kinds[r] : kind' = [kind EXCEPT ![r] = k]
  OBVIOUS
<1>2. TypeInv' /\ \A q \in Requests \ {r} : Same(q)
  <2>1. kind' \in [Requests -> AllKinds]
    BY <1>1 DEF TypeInv, AllKinds
  <2>2. client' \in [Requests -> {"away", "there", "stalled", "gone"}]
    BY DEF TypeInv
  <2> QED
    BY <1>1, <2>1, <2>2 DEF TypeInv, Same
<1>3. thread[r].pc = "queued"
  BY DEF ReqInv, AskedInOrder
<1>4. reply[r].status = NoStatus /\ reply[r].declared = Undeclared
        /\ reply[r].got = << >>
  BY <1>3, NothingSentYet DEF Before
<1>5. /\ BodyIsBounded(r)' /\ AskedInOrder(r)' /\ AnswerIsReady(r)'
      /\ ReplyIsInStep(r)' /\ ReplyIsSound(r)'
  BY <1>3, <1>4 DEF ReqInv, BodyIsBounded, AskedInOrder, AnswerIsReady,
     ReplyIsInStep, ReplyIsSound, Before
<1>6. ReqInv(r)'
  BY <1>5 DEF ReqInv
<1> QED
  BY <1>2, <1>6, OneAtATime

LEMMA UploadKeeps ==
  ASSUME IInv, NEW r \in Requests, Upload(r) PROVE IInv'
<1> USE DEF IInv, Upload
<1>1. TypeInv' /\ \A q \in Requests \ {r} : Same(q)
  BY DEF TypeInv, Same
<1>2. BadRequest(r) => BadRequest(r)'
  BY DEF BadRequest, BodyEnds, TypeInv
<1>3. /\ BodyIsBounded(r)' /\ AskedInOrder(r)' /\ ReplyIsInStep(r)'
  BY DEF ReqInv, BodyIsBounded, AskedInOrder, ReplyIsInStep
<1>4. AnswerIsReady(r)' /\ ReplyIsSound(r)'
  BY <1>2 DEF ReqInv, AnswerIsReady, ReplyIsSound, OwnReply, RelayedReply,
     Deserved, Measured, Intact
<1>5. ReqInv(r)'
  BY <1>3, <1>4 DEF ReqInv
<1> QED
  BY <1>1, <1>5, OneAtATime

LEMMA BehaveKeeps ==
  ASSUME IInv, NEW r \in Requests, Behave(r) PROVE IInv'
<1> USE DEF IInv, Behave
<1>1. TypeInv' /\ \A q \in Requests \ {r} : Same(q)
  <2>1. client' \in [Requests -> {"away", "there", "stalled", "gone"}]
    BY DEF TypeInv
  <2> QED
    BY <2>1 DEF TypeInv, Same
<1>2. BadRequest(r) => BadRequest(r)'
  BY DEF BadRequest, BodyEnds, TypeInv
<1>3. /\ BodyIsBounded(r)' /\ AskedInOrder(r)' /\ ReplyIsInStep(r)'
  BY DEF ReqInv, BodyIsBounded, AskedInOrder, ReplyIsInStep, TypeInv
<1>4. AnswerIsReady(r)' /\ ReplyIsSound(r)'
  BY <1>2 DEF ReqInv, AnswerIsReady, ReplyIsSound, OwnReply, RelayedReply,
     Deserved, Measured, Intact
<1>5. ReqInv(r)'
  BY <1>3, <1>4 DEF ReqInv
<1> QED
  BY <1>1, <1>5, OneAtATime

LEMMA UpstreamAnswersKeeps ==
  ASSUME IInv, NEW r \in Requests, UpstreamAnswers(r) PROVE IInv'
<1> USE DEF IInv, UpstreamAnswers
<1>1. PICK s \in Relayed, f \in {"length", "chunked", "eof"},
           n \in 0..MaxPieces :
        upstream' = [upstream EXCEPT ![r] =
          [Silent EXCEPT !.status = s, !.framing = f, !.size = n]]
  OBVIOUS
<1>2. /\ TypeInv' /\ \A q \in Requests \ {r} : Same(q)
      /\ upstream'[r].size = n /\ upstream'[r].sent = 0
      /\ upstream'[r].end = "open"
  <2> DEFINE answer == [Silent EXCEPT !.status = s, !.framing = f, !.size = n]
  <2>0. s \in Relayed \cup {NoStatus} /\ n \in Nat
    BY BoundsAssumption
  <2>1. /\ answer \in UpstreamType /\ answer.size = n /\ answer.sent = 0
        /\ answer.end = "open"
    BY <2>0 DEF Silent, UpstreamType
  <2>2. upstream' = [upstream EXCEPT ![r] = answer]
    BY <1>1
  <2> HIDE DEF answer
  <2>3. upstream' \in [Requests -> UpstreamType] /\ upstream'[r] = answer
    BY <2>1, <2>2 DEF TypeInv
  <2>4. \A q \in Requests \ {r} : Same(q)
    BY <2>2 DEF TypeInv, Same
  <2> QED
    BY <2>1, <2>3, <2>4 DEF TypeInv
<1>3. BodyIsBounded(r)'
  BY <1>2, BoundsAssumption DEF BodyIsBounded
<1>4. /\ AskedInOrder(r)' /\ AnswerIsReady(r)' /\ ReplyIsInStep(r)'
      /\ ReplyIsSound(r)'
  BY NothingSentYet DEF ReqInv, AskedInOrder, AnswerIsReady, ReplyIsInStep,
     ReplyIsSound, Before
<1>5. ReqInv(r)'
  BY <1>3, <1>4 DEF ReqInv
<1> QED
  BY <1>2, <1>5, OneAtATime

(* What the upstream may have done to its side of a request.               *)
Further(u, v) ==
  /\ v \in UpstreamType /\ v.status = u.status /\ v.size = u.size
  /\ u.sent <= v.sent /\ v.sent <= u.size
  /\ v.end = "finished" => v.sent = u.size

LEMMA FurtherForms ==
  ASSUME NEW u \in UpstreamType, u.sent <= u.size
  PROVE  /\ u.sent < u.size /\ u.end = "open"
              => Further(u, [u EXCEPT !.sent = u.sent + 1])
         /\ u.sent = u.size => Further(u, [u EXCEPT !.end = "finished"])
         /\ Further(u, [u EXCEPT !.end = "closed early"])
         /\ Further(u, [u EXCEPT !.end = "reset"])
<1>1. u.sent \in Nat /\ u.size \in Nat
  BY DEF UpstreamType
<1>2. u.sent < u.size /\ u.end = "open"
        => Further(u, [u EXCEPT !.sent = u.sent + 1])
  <2>0. u.sent + 1 \in Nat
    BY <1>1
  <2>1. [u EXCEPT !.sent = u.sent + 1] \in UpstreamType
    BY <2>0 DEF UpstreamType
  <2>2. /\ [u EXCEPT !.sent = u.sent + 1].sent = u.sent + 1
        /\ [u EXCEPT !.sent = u.sent + 1].size = u.size
        /\ [u EXCEPT !.sent = u.sent + 1].end = u.end
        /\ [u EXCEPT !.sent = u.sent + 1].status = u.status
    BY DEF UpstreamType
  <2> QED
    BY <1>1, <2>1, <2>2 DEF Further
<1>3. ASSUME NEW end \in {"finished", "closed early", "reset"},
             end = "finished" => u.sent = u.size
      PROVE  Further(u, [u EXCEPT !.end = end])
  <2>1. [u EXCEPT !.end = end] \in UpstreamType
    BY DEF UpstreamType
  <2>2. /\ [u EXCEPT !.end = end].sent = u.sent
        /\ [u EXCEPT !.end = end].size = u.size
        /\ [u EXCEPT !.end = end].end = end
        /\ [u EXCEPT !.end = end].status = u.status
    BY DEF UpstreamType
  <2> DEFINE v == [u EXCEPT !.end = end]
  <2>3. /\ v \in UpstreamType /\ v.sent = u.sent /\ v.size = u.size
        /\ v.end = end /\ v.status = u.status
    BY <2>1, <2>2
  <2> HIDE DEF v
  <2>4. u.sent <= v.sent
    BY <1>1, <2>3, NatBounds, Zenon
  <2>5. Further(u, v)
    BY <1>1, <1>3, <2>3, <2>4 DEF Further
  <2> QED
    BY <2>5 DEF v
<1> QED
  BY <1>2, <1>3

LEMMA SendingGoesFurther ==
  ASSUME IInv, NEW r \in Requests, UpstreamSends(r)
  PROVE  \E v : /\ Further(upstream[r], v)
                /\ upstream' = [upstream EXCEPT ![r] = v]
<1>1. upstream[r] \in UpstreamType /\ upstream[r].sent <= upstream[r].size
  BY Typed DEF IInv, ReqInv, BodyIsBounded
<1>2. upstream[r].end = "open"
  BY DEF UpstreamSends
<1>3. \/ /\ upstream[r].sent < upstream[r].size
         /\ upstream' = [upstream EXCEPT ![r] =
                           [upstream[r] EXCEPT !.sent = upstream[r].sent + 1]]
      \/ /\ upstream[r].sent = upstream[r].size
         /\ upstream' = [upstream EXCEPT ![r] =
                           [upstream[r] EXCEPT !.end = "finished"]]
      \/ upstream' = [upstream EXCEPT ![r] =
                        [upstream[r] EXCEPT !.end = "closed early"]]
      \/ upstream' = [upstream EXCEPT ![r] =
                        [upstream[r] EXCEPT !.end = "reset"]]
  BY DEF UpstreamSends
<1> QED
  BY <1>1, <1>2, <1>3, FurtherForms

LEMMA UpstreamSendsKeeps ==
  ASSUME IInv, NEW r \in Requests, UpstreamSends(r) PROVE IInv'
<1>0. /\ thread[r].pc \in {"urlopen", "whole", "relay head", "relay", "write"}
      /\ upstream[r].status # NoStatus
      /\ UNCHANGED <<server, reference, kind, client, upload, thread, reply>>
  BY DEF UpstreamSends, Asked
<1>1. PICK v : /\ Further(upstream[r], v)
               /\ upstream' = [upstream EXCEPT ![r] = v]
  BY SendingGoesFurther
<1>2. TypeInv' /\ \A q \in Requests \ {r} : Same(q)
  BY <1>0, <1>1 DEF IInv, TypeInv, Same, Further
<1>3. /\ upstream'[r] = v /\ ReqInv(r)
      /\ upstream[r].sent \in Nat /\ v.sent \in Nat /\ upstream[r].size \in Nat
      /\ thread[r].taken \in Nat
  <2>1. v.sent \in Nat /\ upstream'[r] = v
    BY <1>1, Typed DEF IInv, Further, UpstreamType
  <2> QED
    BY <2>1, Typed DEF IInv
<1>4. BodyIsBounded(r)' /\ AskedInOrder(r)' /\ AnswerIsReady(r)'
  BY <1>0, <1>1, <1>3 DEF Further, ReqInv, BodyIsBounded, AskedInOrder, AnswerIsReady
<1>5. ReplyIsInStep(r)'
  <2>1. thread[r].taken <= upstream[r].sent => thread[r].taken <= v.sent
    <3>1. upstream[r].sent <= v.sent
      BY <1>1 DEF Further
    <3> QED
      BY <1>3, <3>1
  <2> QED
    BY <1>0, <1>1, <1>3, <2>1 DEF Further, ReqInv, ReplyIsInStep
<1>6. ReplyIsSound(r)'
  <2>1. CASE thread[r].pc \in Before
    BY <1>0, <2>1, NothingSentYet DEF ReplyIsSound
  <2>2. CASE thread[r].pc \in {"relay", "write"}
    <3>1. /\ reply[r].status = upstream[r].status
          /\ reply[r].declared = Undeclared /\ upstream[r].status \in Relayed
      BY <1>3, <2>2 DEF ReqInv, ReplyIsInStep, AskedInOrder
    <3>2. RelayedReply(r)
      BY <1>3, <3>1 DEF ReqInv, ReplyIsSound, OwnReply, Deserved, OwnStatus,
         Relayed, NoStatus
    <3>3. PICK n \in 0 .. upstream[r].sent : reply[r].got = Pieces(n)
      BY <3>2 DEF RelayedReply
    <3>4. n \in 0 .. v.sent
      <4>1. upstream[r].sent <= v.sent
        BY <1>1 DEF Further
      <4> QED
        BY <1>3, <3>3, <4>1
    <3> QED
      BY <1>0, <1>1, <1>3, <3>1, <3>3, <3>4 DEF Further, ReplyIsSound, RelayedReply
  <2> QED
    BY <1>0, <2>1, <2>2 DEF Before
<1>7. ReqInv(r)'
  BY <1>4, <1>5, <1>6 DEF ReqInv
<1> QED
  BY <1>0, <1>2, <1>7, OneAtATime

-----------------------------------------------------------------------------
(* The thread, up to the point where it starts to write.                   *)
LEMMA OwnBody == <<OwnPiece>> \in Seq(Nat) /\ Len(<<OwnPiece>>) = 1
  BY DEF OwnPiece

LEMMA Connected ==
  ASSUME IInv, NEW r \in Requests, thread[r].pc # "queued"
  PROVE  client[r] # "away" \/ server = "down"
  BY DEF IInv, ReqInv, AskedInOrder

LEMMA AcceptKeeps ==
  ASSUME IInv, NEW r \in Requests, Accept(r) PROVE IInv'
<1>1. "begin" \in Before \ {"queued", "head"}
      /\ thread[r].pc \in Before \ {"head", "relay head"}
  BY DEF Accept, Before
<1> QED
  BY <1>1, GotoKeeps DEF Accept

LEMMA OwnAnswerKeeps ==
  ASSUME IInv, NEW r \in Requests, NEW status,
         thread[r].pc \in {"begin", "urlopen", "whole"},
         Deserved(r, status), SendJson(r, status), Quiet
  PROVE  IInv'
  BY OwnBody, AnswerKeeps DEF SendJson

LEMMA DoGetKeeps ==
  ASSUME IInv, NEW r \in Requests, DoGet(r) \/ DoPostElsewhere(r) PROVE IInv'
<1>1. Deserved(r, "200") /\ Deserved(r, "404")
  BY DEF Deserved, OwnStatus
<1>2. /\ thread[r].pc = "begin" /\ Quiet
      /\ SendJson(r, "200") \/ SendJson(r, "404")
  BY DEF DoGet, DoPostElsewhere
<1>3. CASE SendJson(r, "200")
  BY <1>1, <1>2, <1>3, OwnAnswerKeeps
<1>4. CASE SendJson(r, "404")
  BY <1>1, <1>2, <1>4, OwnAnswerKeeps
<1> QED
  BY <1>2, <1>3, <1>4

LEMMA DoPostKeeps ==
  ASSUME IInv, NEW r \in Requests, DoPost(r) PROVE IInv'
<1>1. thread[r].pc = "begin" /\ Quiet
  BY DEF DoPost
<1>2. CASE kind[r] \in {"unmeasured", "garbage"} \/ upload[r] # "whole"
  <2>1. SendJson(r, "400")
    BY <1>2 DEF DoPost
  <2>2. BadRequest(r)
    BY <1>2 DEF DoPost, BadRequest, IInv, TypeInv
  <2>3. Deserved(r, "400")
    BY <2>2 DEF Deserved, OwnStatus
  <2> QED
    BY <1>1, <2>1, <2>3, OwnAnswerKeeps
<1>3. CASE ~(kind[r] \in {"unmeasured", "garbage"} \/ upload[r] # "whole")
  <2>1. IF ~reference THEN SendJson(r, "503")
        ELSE IF kind[r] = "scalar" THEN End(r)
        ELSE Goto(r, "urlopen") /\ UNCHANGED reply
    BY <1>3 DEF DoPost
  <2>2. CASE ~reference
    <3>1. Deserved(r, "503")
      BY <2>2 DEF Deserved, OwnStatus
    <3> QED
      BY <1>1, <2>1, <2>2, <3>1, OwnAnswerKeeps
  <2>3. CASE reference /\ kind[r] = "scalar"
    BY <1>1, <2>1, <2>3, EndKeeps
  <2>4. CASE reference /\ kind[r] # "scalar"
    <3>1. "urlopen" \in Before \ {"queued", "head"}
          /\ thread[r].pc \in Before \ {"head", "relay head"}
      BY <1>1 DEF Before
    <3> QED
      BY <1>1, <2>1, <2>4, <3>1, Connected, GotoKeeps
  <2> QED
    BY <2>2, <2>3, <2>4
<1> QED
  BY <1>2, <1>3

LEMMA UrlopenFailsKeeps ==
  ASSUME IInv, NEW r \in Requests, UrlopenFails(r) PROVE IInv'
<1>1. Deserved(r, "502")
  BY DEF UrlopenFails, Deserved, OwnStatus
<1> QED
  BY <1>1, OwnAnswerKeeps DEF UrlopenFails

LEMMA UrlopenReturnsKeeps ==
  ASSUME IInv, NEW r \in Requests, UrlopenReturns(r) PROVE IInv'
<1>1. /\ thread[r].pc = "urlopen" /\ upstream[r].status # NoStatus /\ Quiet
      /\ thread[r].pc \in Before \ {"head", "relay head"}
      /\ "whole" \in Before \ {"queued", "head"}
      /\ "relay head" \in Before \ {"queued", "head"}
  BY DEF UrlopenReturns, Before
<1>2. upstream[r].status \in Relayed
  BY <1>1, Typed DEF IInv, UpstreamType
<1>3. \/ End(r)
      \/ Goto(r, "whole") /\ UNCHANGED reply
      \/ Goto(r, "relay head") /\ UNCHANGED reply
  BY DEF UrlopenReturns
<1>4. client[r] # "away" \/ server = "down"
  BY <1>1, Connected
<1>5. CASE End(r)
  BY <1>1, <1>5, EndKeeps
<1>6. CASE Goto(r, "whole") /\ UNCHANGED reply
  BY <1>1, <1>2, <1>4, <1>6, GotoKeeps
<1>7. CASE Goto(r, "relay head") /\ UNCHANGED reply
  BY <1>1, <1>2, <1>4, <1>7, GotoKeeps
<1> QED
  BY <1>3, <1>5, <1>6, <1>7

LEMMA ReadWholeKeeps ==
  ASSUME IInv, NEW r \in Requests, ReadWhole(r) PROVE IInv'
<1>1. thread[r].pc = "whole" /\ Quiet
  BY DEF ReadWhole
<1>2. CASE Intact(r)
  <2>1. Answer(r, upstream[r].status, Pieces(upstream[r].sent))
    BY <1>2 DEF ReadWhole
  <2>2. /\ Pieces(upstream[r].sent) \in Seq(Nat)
        /\ upstream[r].status \in Relayed
    BY <1>1, Typed, PiecesAreSeq DEF IInv, ReqInv, AskedInOrder
  <2> QED
    BY <1>1, <1>2, <2>1, <2>2, AnswerKeeps
<1>3. CASE ~Intact(r)
  <2>1. End(r)
    BY <1>3 DEF ReadWhole
  <2> QED
    BY <1>1, <2>1, EndKeeps
<1> QED
  BY <1>2, <1>3

-----------------------------------------------------------------------------
(* The thread, from its first write on.                                    *)
Resting(r) ==
  UNCHANGED <<server, reference>> /\ \A q \in Requests \ {r} : Same(q)

LEMMA SendHeadKeeps ==
  ASSUME IInv, NEW r \in Requests, SendHead(r) PROVE IInv'
<1>1. thread[r].pc \in {"head", "relay head"} /\ Quiet
  BY DEF SendHead, Write
<1>2. ReqInv(r) /\ TypeInv
  BY DEF IInv
<1>3. /\ reply[r].status = NoStatus /\ reply[r].declared = Undeclared
      /\ reply[r].got = << >> /\ ~reply[r].closed
  BY <1>1, NothingSentYet DEF Before
<1>4. Pieces(0) = << >>
  BY DEF Pieces
<1>5. CASE End(r)
  BY <1>1, <1>5, EndKeeps
<1>6. CASE /\ thread[r].pc = "head"
           /\ reply' = [reply EXCEPT ![r].status = thread[r].status,
                                     ![r].declared = thread[r].declared]
           /\ Goto(r, "body")
  <2>1. /\ "body" \in Places /\ thread[r] \in ThreadType
        /\ thread' = [thread EXCEPT ![r] = [thread[r] EXCEPT !.pc = "body"]]
    BY <1>6, Typed, <1>2 DEF Goto, Places
  <2>2. /\ thread'[r].pc = "body" /\ thread'[r].status = thread[r].status
        /\ thread'[r].declared = thread[r].declared
        /\ thread'[r].out = thread[r].out
        /\ thread' \in [Requests -> ThreadType]
    <3>1. thread'[r] = [thread[r] EXCEPT !.pc = "body"]
      BY <2>1, <1>2 DEF TypeInv
    <3>2. thread' \in [Requests -> ThreadType]
      BY <2>1, <1>2, ThreadMoves DEF TypeInv
    <3> QED
      BY <2>1, <3>1, <3>2, ThreadMoves
  <2>3. /\ reply'[r].status = thread[r].status
        /\ reply'[r].declared = thread[r].declared
        /\ reply'[r].got = << >> /\ ~reply'[r].closed
    BY <1>2, <1>3, <1>6 DEF TypeInv
  <2>4. TypeInv'
    <3>1. thread[r].status \in Statuses /\ thread[r].declared \in Int
      BY <2>1 DEF ThreadType
    <3>2. reply' \in [Requests -> [status : Statuses, declared : Int,
                                   got : Seq(Nat), closed : BOOLEAN]]
      BY <1>2, <1>6, <3>1 DEF TypeInv
    <3> QED
      BY <1>1, <1>2, <2>2, <3>2 DEF Quiet, TypeInv
  <2>5. Resting(r)
    BY <1>1, <1>2, <1>6, <2>1 DEF Resting, Same, Quiet, TypeInv
  <2>6. BodyIsBounded(r)' /\ AskedInOrder(r)'
    BY <1>1, <1>2, <1>6, <2>2 DEF Quiet, ReqInv, BodyIsBounded, AskedInOrder
  <2>7. AnswerIsReady(r)'
    BY <1>1, <1>2, <1>6, <2>2
       DEF Quiet, ReqInv, AnswerIsReady, Deserved, BadRequest, BodyEnds, Measured,
           Intact
  <2>8. ReplyIsSound(r)'
    <3>1. CASE /\ Deserved(r, thread[r].status) /\ thread[r].declared = 1
      BY <1>1, <2>3, <3>1
         DEF Quiet, ReplyIsSound, OwnReply, Deserved, BadRequest, BodyEnds
    <3>2. CASE /\ thread[r].status = upstream[r].status
               /\ upstream[r].status \in Relayed
               /\ Measured(r, thread[r].declared)
      <4>1. 0 \in 0 .. upstream[r].sent
        BY <1>2, Typed
      <4> QED
        BY <1>1, <1>4, <2>3, <3>2, <4>1
           DEF Quiet, ReplyIsSound, RelayedReply, Measured, Intact
    <3> QED
      BY <1>2, <1>6, <3>1, <3>2 DEF ReqInv, AnswerIsReady
  <2>9. ReplyIsInStep(r)'
    BY <2>2, <2>3 DEF ReplyIsInStep, Before
  <2>10. ReqInv(r)'
    BY <2>6, <2>7, <2>8, <2>9 DEF ReqInv
  <2> QED
    BY <2>4, <2>5, <2>10, OneAtATime DEF Resting
<1>7. CASE /\ thread[r].pc = "relay head"
           /\ reply' = [reply EXCEPT ![r].status = upstream[r].status]
           /\ Goto(r, "relay")
  <2>1. /\ "relay" \in Places /\ thread[r] \in ThreadType
        /\ thread' = [thread EXCEPT ![r] = [thread[r] EXCEPT !.pc = "relay"]]
    BY <1>7, Typed, <1>2 DEF Goto, Places
  <2>2. /\ thread'[r].pc = "relay" /\ thread'[r].taken = 0
        /\ thread' \in [Requests -> ThreadType]
    <3>1. thread'[r] = [thread[r] EXCEPT !.pc = "relay"]
      BY <2>1, <1>2 DEF TypeInv
    <3>2. thread' \in [Requests -> ThreadType]
      BY <2>1, <1>2, ThreadMoves DEF TypeInv
    <3>3. thread[r].taken = 0
      BY <1>2, <1>7 DEF ReqInv, ReplyIsInStep
    <3> QED
      BY <2>1, <3>1, <3>2, <3>3, ThreadMoves
  <2>3. upstream[r].status \in Relayed /\ 0 \in 0 .. upstream[r].sent
    <3>1. upstream[r].status \in Relayed
      BY <1>2, <1>7 DEF ReqInv, AskedInOrder
    <3> QED
      BY <1>2, <3>1, Typed, NatBounds, Zenon
  <2>4. /\ reply'[r].status = upstream[r].status
        /\ reply'[r].declared = Undeclared
        /\ reply'[r].got = << >> /\ ~reply'[r].closed
    BY <1>2, <1>3, <1>7 DEF TypeInv
  <2>5. TypeInv'
    <3>1. upstream[r].status \in Statuses
      BY <2>3 DEF Statuses
    <3>2. reply' \in [Requests -> [status : Statuses, declared : Int,
                                   got : Seq(Nat), closed : BOOLEAN]]
      BY <1>2, <1>7, <3>1 DEF TypeInv
    <3> QED
      BY <1>1, <1>2, <2>2, <3>2 DEF Quiet, TypeInv
  <2>6. Resting(r)
    BY <1>1, <1>2, <1>7, <2>1 DEF Resting, Same, Quiet, TypeInv
  <2>7. BodyIsBounded(r)' /\ AskedInOrder(r)' /\ AnswerIsReady(r)'
    BY <1>1, <1>2, <1>7, <2>2, <2>3
       DEF Quiet, ReqInv, BodyIsBounded, AskedInOrder, AnswerIsReady
  <2>8. ReplyIsSound(r)'
    BY <1>1, <1>4, <2>3, <2>4 DEF Quiet, ReplyIsSound, RelayedReply
  <2>9. ReplyIsInStep(r)'
    <3>1. thread'[r].taken <= upstream'[r].sent
      <4>1. upstream[r].sent \in Nat /\ upstream' = upstream
        BY <1>1, <1>2, Typed DEF Quiet
      <4> QED
        BY <2>2, <4>1, NatBounds, Zenon
    <3> QED
      BY <1>1, <1>4, <2>2, <2>4, <3>1 DEF Quiet, ReplyIsInStep, Before
  <2>10. ReqInv(r)'
    BY <2>7, <2>8, <2>9 DEF ReqInv
  <2> QED
    BY <2>5, <2>6, <2>10, OneAtATime DEF Resting
<1> QED
  BY <1>1, <1>5, <1>6, <1>7 DEF SendHead, Write

LEMMA SendBodyKeeps ==
  ASSUME IInv, NEW r \in Requests, SendBody(r) PROVE IInv'
<1>1. thread[r].pc = "body" /\ Quiet
  BY DEF SendBody, Write
<1>2. ReqInv(r) /\ TypeInv
  BY DEF IInv
<1>3. CASE End(r)
  BY <1>1, <1>3, EndKeeps
<1>4. CASE /\ reply' = [reply EXCEPT ![r].got = @ \o thread[r].out]
           /\ Goto(r, "return")
  <2>1. /\ reply[r].status = thread[r].status
        /\ reply[r].declared = thread[r].declared
        /\ reply[r].got = << >> /\ ~reply[r].closed
    BY <1>1, <1>2 DEF ReqInv, ReplyIsInStep
  <2>2. /\ thread[r].out \in Seq(Nat) /\ thread[r] \in ThreadType
        /\ reply[r].got \o thread[r].out = thread[r].out
    BY <1>2, <2>1, Typed, ConcatEmptySeq
  <2>3. /\ reply'[r].status = thread[r].status
        /\ reply'[r].declared = thread[r].declared
        /\ reply'[r].got = thread[r].out /\ ~reply'[r].closed
        /\ reply' \in [Requests -> [status : Statuses, declared : Int,
                                    got : Seq(Nat), closed : BOOLEAN]]
    BY <1>2, <1>4, <2>1, <2>2 DEF TypeInv
  <2>4. /\ "return" \in Places
        /\ thread' = [thread EXCEPT ![r] = [thread[r] EXCEPT !.pc = "return"]]
    BY <1>4 DEF Goto, Places
  <2>5. thread'[r].pc = "return" /\ thread' \in [Requests -> ThreadType]
    <3>1. thread'[r] = [thread[r] EXCEPT !.pc = "return"]
      BY <2>4, <1>2 DEF TypeInv
    <3>2. thread' \in [Requests -> ThreadType]
      BY <2>2, <2>4, <1>2, ThreadMoves DEF TypeInv
    <3> QED
      BY <2>2, <2>4, <3>1, <3>2, ThreadMoves
  <2>6. TypeInv' /\ Resting(r)
    <3>1. TypeInv'
      BY <1>1, <1>2, <2>3, <2>5 DEF Quiet, TypeInv
    <3>2. Resting(r)
      BY <1>1, <1>2, <1>4, <2>4 DEF Resting, Same, Quiet, TypeInv
    <3> QED
      BY <3>1, <3>2
  <2>7. BodyIsBounded(r)' /\ AskedInOrder(r)' /\ AnswerIsReady(r)'
    BY <1>1, <1>2, <2>5
       DEF Quiet, ReqInv, BodyIsBounded, AskedInOrder, AnswerIsReady
  <2>8. ReplyIsSound(r)'
    <3>1. CASE /\ Deserved(r, thread[r].status) /\ thread[r].declared = 1
               /\ thread[r].out = <<OwnPiece>>
      BY <1>1, <2>3, <3>1
         DEF Quiet, ReplyIsSound, OwnReply, Deserved, BadRequest, BodyEnds
    <3>2. CASE /\ thread[r].status = upstream[r].status
               /\ upstream[r].status \in Relayed
               /\ thread[r].out = Pieces(upstream[r].sent)
               /\ Measured(r, thread[r].declared)
      <4>1. upstream[r].sent \in 0 .. upstream[r].sent
        BY <1>2, Typed
      <4> QED
        BY <1>1, <2>3, <3>2, <4>1
           DEF Quiet, ReplyIsSound, RelayedReply, Measured, Intact
    <3> QED
      BY <1>1, <1>2, <3>1, <3>2 DEF ReqInv, AnswerIsReady
  <2>9. ReplyIsInStep(r)'
    BY <2>3, <2>5 DEF ReplyIsInStep, Before
  <2>10. ReqInv(r)'
    BY <2>7, <2>8, <2>9 DEF ReqInv
  <2> QED
    BY <2>6, <2>10, OneAtATime DEF Resting
<1> QED
  BY <1>1, <1>3, <1>4 DEF SendBody, Write

LEMMA ReturnKeeps ==
  ASSUME IInv, NEW r \in Requests, Return(r) \/ RelayFails(r) PROVE IInv'
  BY EndKeeps DEF Return, RelayFails

Taking(t, taken, out) ==
  [t EXCEPT !.pc = "write", !.taken = taken, !.out = out]

LEMMA ThreadTakes ==
  ASSUME NEW t \in ThreadType, NEW taken \in Nat, NEW out \in Seq(Nat)
  PROVE  /\ Taking(t, taken, out) \in ThreadType
         /\ Taking(t, taken, out).pc = "write"
         /\ Taking(t, taken, out).taken = taken
         /\ Taking(t, taken, out).out = out
<1>1. "write" \in Places
  BY DEF Places
<1> QED
  BY <1>1 DEF ThreadType, Taking

(* A read takes a part of what was sent and is left.                       *)
LEMMA ReadPieceKeeps ==
  ASSUME IInv, NEW r \in Requests, ReadPiece(r) PROVE IInv'
<1> DEFINE n == Min({Left(r), ReadSize})
           a == thread[r].taken
           total == a + n
           piece == Slice(a, n)
           more == Taking(thread[r], total, piece)
<1>1. /\ thread[r].pc = "relay" /\ Quiet
      /\ \/ End(r)
         \/ n # 0 /\ thread' = [thread EXCEPT ![r] = more] /\ reply' = reply
  BY DEF ReadPiece, Slice, Taking
<1>2. ReqInv(r) /\ TypeInv
  BY DEF IInv
<1>3. CASE End(r)
  BY <1>1, <1>3, EndKeeps
<1>4. CASE n # 0 /\ thread' = [thread EXCEPT ![r] = more] /\ reply' = reply
  <2>1. /\ a \in Nat /\ upstream[r].sent \in Nat /\ thread[r] \in ThreadType
        /\ a <= upstream[r].sent /\ reply[r].got = Pieces(a)
        /\ ~reply[r].closed /\ reply[r].status = upstream[r].status
        /\ reply[r].declared = Undeclared
    BY <1>1, <1>2, Typed DEF ReqInv, ReplyIsInStep
  <2>2. n \in Nat /\ n <= upstream[r].sent - a
    <3>1. Left(r) \in Nat /\ Left(r) = upstream[r].sent - a
      BY <2>1 DEF Left
    <3>2. ReadSize \in Nat
      BY BoundsAssumption
    <3>3. n \in {Left(r), ReadSize} /\ n <= Left(r)
      <4>1. Left(r) \in Int /\ ReadSize \in Int
        BY <3>1, <3>2
      <4> QED
        BY <4>1, MinOfTwo, Zenon
    <3> HIDE DEF n
    <3> QED
      BY <3>1, <3>2, <3>3
  <2> HIDE DEF n
  <2>3. /\ a + n \in Nat /\ a + n <= upstream[r].sent /\ n \in 1 .. a + n
        /\ (a + n) - n = a
    BY <1>4, <2>1, <2>2
  <2>4. /\ more \in ThreadType /\ more.pc = "write" /\ more.taken = a + n
        /\ more.out = Slice(a, n)
    <3>1. piece \in Seq(Nat)
      BY <2>1, <2>2, NextPieces
    <3>2. total \in Nat
      BY <2>3
    <3> HIDE DEF total, piece
    <3>3. thread[r] \in ThreadType
      BY <2>1
    <3>4. /\ Taking(thread[r], total, piece) \in ThreadType
          /\ Taking(thread[r], total, piece).pc = "write"
          /\ Taking(thread[r], total, piece).taken = total
          /\ Taking(thread[r], total, piece).out = piece
      BY <3>1, <3>2, <3>3, ThreadTakes
    <3> QED
      BY <3>4 DEF total, piece
  <2> HIDE DEF more
  <2>5. thread' \in [Requests -> ThreadType] /\ thread'[r] = more
    BY <1>2, <1>4, <2>4 DEF TypeInv
  <2>6. TypeInv'
    BY <1>1, <1>2, <1>4, <2>5 DEF Quiet, TypeInv
  <2>7. Resting(r)
    BY <1>1, <1>2, <1>4 DEF Resting, Same, Quiet, TypeInv
  <2>8. BodyIsBounded(r)' /\ AskedInOrder(r)' /\ AnswerIsReady(r)'
    BY <1>1, <1>2, <2>4, <2>5
       DEF Quiet, ReqInv, BodyIsBounded, AskedInOrder, AnswerIsReady
  <2>9. ReplyIsSound(r)'
    <3>1. ReplyIsSound(r)
      BY <1>2 DEF ReqInv
    <3> QED
      BY <1>1, <1>4, <3>1 DEF Quiet, ReplyIsSound, OwnReply, RelayedReply,
         Deserved, BadRequest, BodyEnds, Measured, Intact
  <2>10. ReplyIsInStep(r)'
    <3>1. \E m \in 1 .. thread'[r].taken :
             /\ reply'[r].got = Pieces(thread'[r].taken - m)
             /\ thread'[r].out = Slice(thread'[r].taken - m, m)
      BY <1>4, <2>1, <2>3, <2>4, <2>5
    <3>2. thread'[r].taken <= upstream'[r].sent
      BY <1>1, <2>3, <2>4, <2>5 DEF Quiet
    <3> QED
      BY <1>1, <1>4, <2>1, <2>4, <2>5, <3>1, <3>2
         DEF Quiet, ReplyIsInStep, Before
  <2>11. ReqInv(r)'
    BY <2>8, <2>9, <2>10 DEF ReqInv
  <2> QED
    BY <2>6, <2>7, <2>11, OneAtATime DEF Resting
<1> QED
  BY <1>1, <1>3, <1>4

LEMMA WritePieceKeeps ==
  ASSUME IInv, NEW r \in Requests, WritePiece(r) PROVE IInv'
<1> DEFINE a == thread[r].taken
<1>1. thread[r].pc = "write" /\ Quiet
  BY DEF WritePiece, Write
<1>2. ReqInv(r) /\ TypeInv
  BY DEF IInv
<1>3. CASE End(r)
  BY <1>1, <1>3, EndKeeps
<1>4. CASE /\ reply' = [reply EXCEPT ![r].got = @ \o thread[r].out]
           /\ Goto(r, "relay")
  <2>1. /\ a \in Nat /\ upstream[r].sent \in Nat /\ thread[r] \in ThreadType
        /\ a <= upstream[r].sent /\ ~reply[r].closed
        /\ reply[r].status = upstream[r].status
        /\ upstream[r].status \in Relayed
        /\ reply[r].declared = Undeclared
    BY <1>1, <1>2, Typed DEF ReqInv, ReplyIsInStep, AskedInOrder
  <2>2. PICK n \in 1 .. a : /\ reply[r].got = Pieces(a - n)
                            /\ thread[r].out = Slice(a - n, n)
    BY <1>1, <1>2 DEF ReqInv, ReplyIsInStep
  <2>3. /\ a - n \in Nat /\ n \in Nat /\ (a - n) + n = a
        /\ a \in 0 .. upstream[r].sent
    BY <2>1
  <2>4. reply[r].got \o thread[r].out = Pieces(a) /\ Pieces(a) \in Seq(Nat)
    <3>1. Pieces(a - n) \o Slice(a - n, n) = Pieces((a - n) + n)
      BY <2>3, NextPieces
    <3> QED
      BY <2>1, <2>2, <2>3, <3>1, PiecesAreSeq
  <2>5. /\ reply'[r].status = reply[r].status
        /\ reply'[r].declared = reply[r].declared
        /\ reply'[r].got = Pieces(a) /\ ~reply'[r].closed
        /\ reply' \in [Requests -> [status : Statuses, declared : Int,
                                    got : Seq(Nat), closed : BOOLEAN]]
    BY <1>2, <1>4, <2>1, <2>4 DEF TypeInv
  <2>6. /\ "relay" \in Places
        /\ thread' = [thread EXCEPT ![r] = [thread[r] EXCEPT !.pc = "relay"]]
    BY <1>4 DEF Goto, Places
  <2>7. /\ thread'[r].pc = "relay" /\ thread'[r].taken = a
        /\ thread' \in [Requests -> ThreadType]
    <3>1. thread'[r] = [thread[r] EXCEPT !.pc = "relay"]
      BY <2>6, <1>2 DEF TypeInv
    <3>2. thread' \in [Requests -> ThreadType]
      BY <2>1, <2>6, <1>2, ThreadMoves DEF TypeInv
    <3> QED
      BY <2>1, <2>6, <3>1, <3>2, ThreadMoves
  <2>8. TypeInv'
    BY <1>1, <1>2, <2>5, <2>7 DEF Quiet, TypeInv
  <2>9. Resting(r)
    BY <1>1, <1>2, <1>4, <2>6 DEF Resting, Same, Quiet, TypeInv
  <2>10. BodyIsBounded(r)' /\ AskedInOrder(r)' /\ AnswerIsReady(r)'
    BY <1>1, <1>2, <2>7
       DEF Quiet, ReqInv, BodyIsBounded, AskedInOrder, AnswerIsReady
  <2>11. ReplyIsSound(r)'
    BY <1>1, <2>1, <2>3, <2>5 DEF Quiet, ReplyIsSound, RelayedReply
  <2>12. ReplyIsInStep(r)'
    BY <1>1, <2>1, <2>5, <2>7 DEF Quiet, ReplyIsInStep, Before
  <2>13. ReqInv(r)'
    BY <2>10, <2>11, <2>12 DEF ReqInv
  <2> QED
    BY <2>8, <2>9, <2>13, OneAtATime DEF Resting
<1> QED
  BY <1>1, <1>3, <1>4 DEF WritePiece, Write

LEMMA InterruptKeeps == ASSUME IInv, Interrupt PROVE IInv'
<1> USE DEF Interrupt
<1>1. TypeInv'
  <2>1. "closed" \in Places /\ NoStatus \in Statuses
        /\ Undeclared \in Int /\ << >> \in Seq(Nat)
    BY DEF Places, Statuses, Undeclared
  <2>2. Ended \in ThreadType
    BY <2>1 DEF Ended, Idle, ThreadType
  <2>3. thread' \in [Requests -> ThreadType]
    BY <2>2
  <2>4. reply' \in [Requests -> [status : Statuses, declared : Int,
                                 got : Seq(Nat), closed : BOOLEAN]]
    BY DEF IInv, TypeInv
  <2> QED
    BY <2>3, <2>4 DEF IInv, TypeInv
<1>2. ASSUME NEW r \in Requests PROVE ReqInv(r)'
  <2>1. ReqInv(r) /\ TypeInv
    BY DEF IInv
  <2>2. thread'[r].pc = "closed"
    BY DEF Ended, Idle
  <2>3. /\ reply'[r].closed /\ reply'[r].status = reply[r].status
        /\ reply'[r].declared = reply[r].declared
        /\ reply'[r].got = reply[r].got
    BY <2>1 DEF TypeInv
  <2>4. BodyIsBounded(r)' /\ AskedInOrder(r)' /\ AnswerIsReady(r)'
    BY <2>1, <2>2 DEF ReqInv, BodyIsBounded, AskedInOrder, AnswerIsReady
  <2>5. ReplyIsSound(r)'
    BY <2>1, <2>3 DEF ReqInv, ReplyIsSound, OwnReply, RelayedReply, Deserved,
       BadRequest, BodyEnds, Measured, Intact
  <2>6. ReplyIsInStep(r)'
    BY <2>2, <2>3 DEF ReplyIsInStep, Before
  <2> QED
    BY <2>4, <2>5, <2>6 DEF ReqInv
<1> QED
  BY <1>1, <1>2 DEF IInv

-----------------------------------------------------------------------------
LEMMA InductiveInit == Init => IInv
<1> SUFFICES ASSUME Init PROVE IInv
  OBVIOUS
<1> USE DEF Init
<1>1. /\ "queued" \in Places /\ NoStatus \in Statuses
      /\ Undeclared \in Int /\ << >> \in Seq(Nat) /\ Replies!Undeclared = Undeclared
      /\ Replies!NoStatus = NoStatus
  BY DEF Places, Before, Statuses, Undeclared, NoStatus, Replies!Undeclared,
     Replies!NoStatus
<1>2. Idle \in ThreadType /\ Silent \in UpstreamType
  BY <1>1 DEF Idle, ThreadType, Silent, UpstreamType
<1>3. Replies!NoReply \in [status : Statuses, declared : Int, got : Seq(Nat),
                           closed : BOOLEAN]
  BY <1>1 DEF Replies!NoReply
<1>4. TypeInv
  <2>1. thread \in [Requests -> ThreadType]
    BY <1>2
  <2>2. upstream \in [Requests -> UpstreamType]
    BY <1>2
  <2>3. reply \in [Requests -> [status : Statuses, declared : Int,
                                got : Seq(Nat), closed : BOOLEAN]]
    BY <1>3
  <2>4. kind \in [Requests -> AllKinds]
    <3>1. "none" \in AllKinds
      BY DEF AllKinds
    <3> QED
      BY <3>1, Zenon
  <2>5. /\ client \in [Requests -> {"away", "there", "stalled", "gone"}]
        /\ upload \in [Requests -> {"nothing", "short", "whole", "cut"}]
    OBVIOUS
  <2> QED
    BY <2>1, <2>2, <2>3, <2>4, <2>5, Zenon DEF TypeInv
<1>5. ASSUME NEW r \in Requests PROVE ReqInv(r)
  <2>1. /\ thread[r].pc = "queued" /\ thread[r].taken = 0
        /\ reply[r].status = NoStatus /\ reply[r].declared = Undeclared
        /\ reply[r].got = << >> /\ ~reply[r].closed
        /\ upstream[r].size = 0 /\ upstream[r].sent = 0
        /\ upstream[r].end = "open"
    BY <1>1 DEF Idle, Silent, Replies!NoReply
  <2>2. BodyIsBounded(r)
    BY <2>1, BoundsAssumption DEF BodyIsBounded
  <2> QED
    BY <2>1, <2>2 DEF ReqInv, AnswerIsReady, ReplyIsSound, ReplyIsInStep,
       AskedInOrder, Before
<1> QED
  BY <1>4, <1>5 DEF IInv

LEMMA InductiveStep == IInv /\ [Next]_vars => IInv'
<1> SUFFICES ASSUME IInv, [Next]_vars PROVE IInv'
  OBVIOUS
<1>1. CASE Interrupt
  BY <1>1, InterruptKeeps
<1>2. ASSUME NEW r \in Requests,
             \/ Connect(r) \/ Upload(r) \/ Behave(r)
             \/ UpstreamAnswers(r) \/ UpstreamSends(r) \/ Accept(r)
      PROVE  IInv'
  BY <1>2, ConnectKeeps, UploadKeeps, BehaveKeeps, UpstreamAnswersKeeps,
     UpstreamSendsKeeps, AcceptKeeps
<1>3. ASSUME NEW r \in Requests, Thread(r) PROVE IInv'
  BY <1>3, DoGetKeeps, DoPostKeeps, UrlopenFailsKeeps, UrlopenReturnsKeeps,
     ReadWholeKeeps, SendHeadKeeps, SendBodyKeeps, ReturnKeeps,
     ReadPieceKeeps, WritePieceKeeps DEF Thread
<1>4. CASE UNCHANGED vars
  <2>1. TypeInv'
    BY <1>4 DEF IInv, TypeInv, vars
  <2>2. ASSUME NEW r \in Requests PROVE ReqInv(r)'
    <3>1. ReqInv(r)
      BY DEF IInv
    <3>2. BodyIsBounded(r)' /\ AskedInOrder(r)' /\ ReplyIsInStep(r)'
      BY <1>4, <3>1
         DEF vars, ReqInv, BodyIsBounded, AskedInOrder, ReplyIsInStep
    <3>3. AnswerIsReady(r)' /\ ReplyIsSound(r)'
      BY <1>4, <3>1 DEF vars, ReqInv, AnswerIsReady, ReplyIsSound, OwnReply,
         RelayedReply, Deserved, BadRequest, BodyEnds, Measured, Intact
    <3> QED
      BY <3>2, <3>3 DEF ReqInv
  <2> QED
    BY <2>1, <2>2 DEF IInv
<1> QED
  BY <1>1, <1>2, <1>3, <1>4 DEF Next

LEMMA InductiveHolds == Spec => []IInv
  BY InductiveInit, InductiveStep, PTL DEF Spec

-----------------------------------------------------------------------------
LEMMA ReplyKinds ==
  ASSUME IInv, NEW r \in Requests
  PROVE  /\ reply[r].status \in Relayed => RelayedReply(r)
         /\ reply[r].status \in OwnStatus => OwnReply(r)
         /\ \/ reply[r].status = NoStatus /\ reply[r].got = << >>
            \/ reply[r].status \in Relayed
            \/ reply[r].status \in OwnStatus
<1>1. ReplyIsSound(r)
  BY DEF IInv, ReqInv
<1> QED
  BY <1>1 DEF ReplyIsSound, OwnReply, RelayedReply, Deserved, OwnStatus,
     Relayed, NoStatus

(* What a client makes of a reply is true, for any number of connections,  *)
(* any sizes of bodies and of reads, and however clients and upstreams     *)
(* behave (proxy_reference, do_POST).                                      *)
THEOREM RepliesAreHonestHolds == Spec => []RepliesAreHonest
<1>1. ASSUME IInv, NEW r \in Requests
      PROVE  /\ (/\ reply[r].status \in Relayed
                 /\ reply[r].declared = Len(reply[r].got))
                   => \/ reply[r].got = Pieces(upstream[r].size)
                      \/ /\ upstream[r].framing = "eof"
                         /\ upstream[r].end = "closed early"
             /\ reply[r].status = "502" => upstream[r].status = NoStatus
             /\ reply[r].status = "503" => ~reference
             /\ reply[r].status = "400"
                  => \/ kind[r] \in {"garbage", "unmeasured"}
                     \/ upload[r] # "whole" /\ BodyEnds(r)
             /\ reply[r].status \in Relayed
                  => reply[r].status = upstream[r].status
             /\ Len(reply[r].got) > 1 => reply[r].status \in Relayed
  <2> USE <1>1
  <2>1. ASSUME reply[r].status \in Relayed,
               reply[r].declared = Len(reply[r].got)
        PROVE  \/ reply[r].got = Pieces(upstream[r].size)
               \/ /\ upstream[r].framing = "eof"
                  /\ upstream[r].end = "closed early"
    <3>1. RelayedReply(r) /\ upstream[r].sent \in Nat
      BY <2>1, ReplyKinds, Typed DEF IInv
    <3>2. PICK n \in 0 .. upstream[r].sent : reply[r].got = Pieces(n)
      BY <3>1 DEF RelayedReply
    <3>3. n \in Nat /\ Len(reply[r].got) = n
      BY <3>1, <3>2, PiecesAreSeq
    <3>4. reply[r].declared # Undeclared
      BY <2>1, <3>3 DEF Undeclared
    <3>5. n = upstream[r].sent /\ Intact(r)
      BY <2>1, <3>1, <3>3, <3>4 DEF RelayedReply, Measured
    <3>6. upstream[r].end = "finished" => upstream[r].sent = upstream[r].size
      BY DEF IInv, ReqInv, BodyIsBounded
    <3> QED
      BY <3>2, <3>5, <3>6 DEF Intact
  <2>2. /\ reply[r].status = "502" => upstream[r].status = NoStatus
        /\ reply[r].status = "503" => ~reference
        /\ reply[r].status = "400"
             => \/ kind[r] \in {"garbage", "unmeasured"}
                \/ upload[r] # "whole" /\ BodyEnds(r)
    BY ReplyKinds DEF OwnReply, Deserved, BadRequest, OwnStatus
  <2>3. reply[r].status \in Relayed => reply[r].status = upstream[r].status
    BY ReplyKinds DEF RelayedReply
  <2>4. Len(reply[r].got) > 1 => reply[r].status \in Relayed
    <3>1. Len(<< >>) = 0 /\ Len(<<OwnPiece>>) = 1
      OBVIOUS
    <3>2. reply[r].status \notin Relayed
            => reply[r].got \in {<< >>, <<OwnPiece>>}
      BY ReplyKinds DEF OwnReply
    <3>3. Len(reply[r].got) \in {0, 1}
            \/ reply[r].status \in Relayed
      BY <3>1, <3>2, Zenon
    <3>4. \A n \in {0, 1} : ~(n > 1)
      OBVIOUS
    <3> QED
      BY <3>3, <3>4
  <2> QED
    BY <2>1, <2>2, <2>3, <2>4
<1>2. IInv => RepliesAreHonest
  BY <1>1 DEF RepliesAreHonest
<1> QED
  BY <1>2, InductiveHolds, PTL

-----------------------------------------------------------------------------
(* A connection that ends, and a body that goes on, as HttpReplies has it. *)
LEMMA EndCloses ==
  ASSUME IInv, NEW r \in Requests, thread[r].pc # "closed", End(r)
  PROVE  Replies!Next
<1>1. ~reply[r].closed
  BY DEF IInv, ReqInv, ReplyIsInStep
<1>2. Replies!Close(r)
  BY <1>1 DEF End, Replies!Close
<1> QED
  BY <1>2 DEF Replies!Next

LEMMA SendHeadBegins ==
  ASSUME IInv, NEW r \in Requests, SendHead(r)
  PROVE  Replies!Next
<1>1. thread[r].pc \in {"head", "relay head"}
  BY DEF SendHead
<1>2. ReqInv(r) /\ TypeInv
  BY DEF IInv
<1>3. /\ reply[r].status = Replies!NoStatus /\ ~reply[r].closed
      /\ reply[r].declared = Undeclared
  BY <1>1, NothingSentYet DEF Before, NoStatus, Replies!NoStatus
<1>4. upstream[r].sent \in 0 .. MaxPieces /\ 1 \in 0 .. MaxPieces
  <2>1. /\ upstream[r].sent \in Nat /\ upstream[r].size \in Nat
        /\ upstream[r].sent <= upstream[r].size
        /\ upstream[r].size <= MaxPieces
    BY <1>2, Typed DEF ReqInv, BodyIsBounded
  <2> QED
    BY <2>1, BoundsAssumption
<1>5. CASE End(r)
  BY <1>1, <1>5, EndCloses
<1>6. CASE /\ thread[r].pc = "head"
           /\ reply' = [reply EXCEPT ![r].status = thread[r].status,
                                     ![r].declared = thread[r].declared]
  <2>1. /\ thread[r].status \in Relayed \cup OwnStatus
        /\ thread[r].declared \in 0 .. MaxPieces
    BY <1>2, <1>4, <1>6 DEF ReqInv, AnswerIsReady, Deserved, Measured
  <2>2. Replies!Begin(r)
    BY <1>3, <1>6, <2>1 DEF Replies!Begin
  <2> QED
    BY <2>2 DEF Replies!Next
<1>7. CASE /\ thread[r].pc = "relay head"
           /\ reply' = [reply EXCEPT ![r].status = upstream[r].status]
  <2>1. upstream[r].status \in Relayed
    BY <1>2, <1>7 DEF ReqInv, AskedInOrder
  <2>2. reply' = [reply EXCEPT ![r].status = upstream[r].status,
                               ![r].declared = Undeclared]
    BY <1>2, <1>3, <1>7 DEF TypeInv
  <2>3. Replies!Begin(r)
    BY <1>3, <2>1, <2>2 DEF Replies!Begin, Undeclared, Replies!Undeclared
  <2> QED
    BY <2>3 DEF Replies!Next
<1> QED
  BY <1>5, <1>6, <1>7 DEF SendHead, Write

LEMMA SendBodyContinues ==
  ASSUME IInv, NEW r \in Requests, SendBody(r)
  PROVE  Replies!Next \/ reply' = reply
<1>1. thread[r].pc = "body"
  BY DEF SendBody
<1>2. ReqInv(r) /\ TypeInv
  BY DEF IInv
<1>3. CASE End(r)
  BY <1>1, <1>3, EndCloses
<1>4. CASE reply' = [reply EXCEPT ![r].got = @ \o thread[r].out]
  <2>1. /\ reply[r].status = thread[r].status
        /\ reply[r].declared = thread[r].declared
        /\ reply[r].got = << >> /\ ~reply[r].closed
    BY <1>1, <1>2 DEF ReqInv, ReplyIsInStep
  <2>2. /\ thread[r].out \in Seq(Nat) /\ upstream[r].sent \in Nat
        /\ reply[r].got \o thread[r].out = thread[r].out
    BY <1>2, <2>1, Typed, ConcatEmptySeq
  <2>3. reply' = [reply EXCEPT ![r].got = thread[r].out]
    BY <1>4, <2>2
  <2>4. CASE thread[r].out = << >>
    BY <1>2, <2>1, <2>3, <2>4 DEF TypeInv
  <2>5. CASE thread[r].out # << >>
    <3>1. Len(thread[r].out) > Len(reply[r].got)
      BY <2>1, <2>2, <2>5
    <3>2. /\ thread[r].status # Replies!NoStatus
          /\ thread[r].out \in Replies!Bodies(thread[r].status)
          /\ Len(thread[r].out) <= thread[r].declared
      <4>1. CASE /\ Deserved(r, thread[r].status)
                 /\ thread[r].out = <<OwnPiece>> /\ thread[r].declared = 1
        BY <4>1, OwnBody, NatBounds
           DEF Deserved, OwnStatus, Relayed, Replies!NoStatus, Replies!Bodies,
               OwnPiece, Replies!OwnPiece
      <4>2. CASE /\ thread[r].status = upstream[r].status
                 /\ upstream[r].status \in Relayed
                 /\ thread[r].out = Pieces(upstream[r].sent)
                 /\ Measured(r, thread[r].declared)
        <5>1. upstream[r].sent \in 0 .. MaxPieces
          <6>1. /\ upstream[r].size \in Nat
                /\ upstream[r].sent <= upstream[r].size
                /\ upstream[r].size <= MaxPieces
            BY <1>2, Typed DEF ReqInv, BodyIsBounded
          <6> QED
            BY <2>2, <6>1, BoundsAssumption
        <5>2. thread[r].out \in Replies!Bodies(thread[r].status)
          BY <4>2, <5>1 DEF Replies!Bodies, Pieces
        <5>3. Len(thread[r].out) = thread[r].declared
          BY <2>2, <4>2, PiecesAreSeq DEF Measured
        <5>4. Len(thread[r].out) \in Nat
          BY <2>2
        <5>5. Len(thread[r].out) <= thread[r].declared
          BY <5>3, <5>4, NatBounds, Zenon
        <5>6. thread[r].status # Replies!NoStatus
          BY <4>2 DEF Relayed, Replies!NoStatus
        <5> QED
          BY <5>2, <5>5, <5>6
      <4> QED
        BY <1>1, <1>2, <4>1, <4>2 DEF ReqInv, AnswerIsReady
    <3>3. Replies!Continue(r)
      BY <2>1, <2>3, <3>1, <3>2 DEF Replies!Continue
    <3> QED
      BY <3>3 DEF Replies!Next
  <2> QED
    BY <2>4, <2>5
<1> QED
  BY <1>3, <1>4 DEF SendBody, Write

LEMMA WritePieceContinues ==
  ASSUME IInv, NEW r \in Requests, WritePiece(r)
  PROVE  Replies!Next
<1> DEFINE a == thread[r].taken
<1>1. thread[r].pc = "write"
  BY DEF WritePiece
<1>2. ReqInv(r) /\ TypeInv
  BY DEF IInv
<1>3. CASE End(r)
  BY <1>1, <1>3, EndCloses
<1>4. CASE reply' = [reply EXCEPT ![r].got = @ \o thread[r].out]
  <2>1. /\ a \in Nat /\ a <= upstream[r].sent /\ ~reply[r].closed
        /\ upstream[r].sent \in Nat /\ upstream[r].size \in Nat
        /\ upstream[r].sent <= upstream[r].size
        /\ upstream[r].size <= MaxPieces
        /\ reply[r].status = upstream[r].status
        /\ upstream[r].status \in Relayed
        /\ reply[r].declared = Undeclared
    BY <1>1, <1>2, Typed DEF ReqInv, ReplyIsInStep, AskedInOrder, BodyIsBounded
  <2>2. PICK n \in 1 .. a : /\ reply[r].got = Pieces(a - n)
                            /\ thread[r].out = Slice(a - n, n)
    BY <1>1, <1>2 DEF ReqInv, ReplyIsInStep
  <2>3. /\ a - n \in Nat /\ n \in Nat /\ (a - n) + n = a /\ a > a - n
        /\ a \in 0 .. MaxPieces
    BY <2>1, BoundsAssumption
  <2>4. reply[r].got \o thread[r].out = Pieces(a)
    <3>1. Pieces(a - n) \o Slice(a - n, n) = Pieces((a - n) + n)
      BY <2>3, NextPieces
    <3> QED
      BY <2>2, <2>3, <3>1
  <2>5. Len(Pieces(a)) > Len(reply[r].got)
    BY <2>1, <2>2, <2>3, PiecesAreSeq
  <2>6. Pieces(a) \in Replies!Bodies(reply[r].status)
    BY <2>1, <2>3 DEF Replies!Bodies, Pieces
  <2>7. reply[r].status # Replies!NoStatus
    BY <2>1 DEF Relayed, Replies!NoStatus
  <2>8. reply' = [reply EXCEPT ![r].got = Pieces(a)]
    BY <1>4, <2>4
  <2>9. reply[r].declared = Replies!Undeclared
    BY <2>1 DEF Undeclared, Replies!Undeclared
  <2>10. Replies!Continue(r)
    BY <2>1, <2>5, <2>6, <2>7, <2>8, <2>9 DEF Replies!Continue
  <2> QED
    BY <2>10 DEF Replies!Next
<1> QED
  BY <1>3, <1>4 DEF WritePiece, Write

LEMMA StepRefines == IInv /\ [Next]_vars => [Replies!Next]_reply
<1> SUFFICES ASSUME IInv, [Next]_vars
             PROVE  Replies!Next \/ reply' = reply
  OBVIOUS
<1>1. CASE Interrupt
  <2>1. Replies!CloseAll
    BY <1>1 DEF Interrupt, Replies!CloseAll
  <2> QED
    BY <2>1 DEF Replies!Next
<1>2. ASSUME NEW r \in Requests,
             \/ Connect(r) \/ Upload(r) \/ Behave(r)
             \/ UpstreamAnswers(r) \/ UpstreamSends(r) \/ Accept(r)
      PROVE  reply' = reply
  BY <1>2 DEF Connect, Upload, Behave, UpstreamAnswers, UpstreamSends, Accept
<1>3. ASSUME NEW r \in Requests,
             \/ DoGet(r) \/ DoPostElsewhere(r) \/ DoPost(r)
             \/ UrlopenFails(r) \/ UrlopenReturns(r) \/ ReadWhole(r)
             \/ Return(r) \/ ReadPiece(r) \/ RelayFails(r)
      PROVE  Replies!Next \/ reply' = reply
  <2>1. thread[r].pc # "closed"
    BY <1>3 DEF DoGet, DoPostElsewhere, DoPost, UrlopenFails, UrlopenReturns,
       ReadWhole, Return, ReadPiece, RelayFails
  <2>2. End(r) \/ reply' = reply
    <3>1. CASE DoGet(r) \/ DoPostElsewhere(r) \/ UrlopenFails(r)
      BY <3>1 DEF DoGet, DoPostElsewhere, UrlopenFails, SendJson, Answer
    <3>2. CASE DoPost(r)
      BY <3>2 DEF DoPost, SendJson, Answer
    <3>3. CASE UrlopenReturns(r) \/ ReadWhole(r)
      BY <3>3 DEF UrlopenReturns, ReadWhole, Answer
    <3>4. CASE Return(r) \/ ReadPiece(r) \/ RelayFails(r)
      BY <3>4 DEF Return, ReadPiece, RelayFails
    <3> QED
      BY <1>3, <3>1, <3>2, <3>3, <3>4
  <2> QED
    BY <2>1, <2>2, EndCloses
<1>4. ASSUME NEW r \in Requests, SendHead(r) \/ SendBody(r) \/ WritePiece(r)
      PROVE  Replies!Next \/ reply' = reply
  BY <1>4, SendHeadBegins, SendBodyContinues, WritePieceContinues
<1>5. CASE UNCHANGED vars
  BY <1>5 DEF vars
<1> QED
  BY <1>1, <1>2, <1>3, <1>4, <1>5 DEF Next, Thread

(* The server implements HttpReplies: whatever happens to the upstream,    *)
(* the client and the process, a connection carries one status and one     *)
(* body in order, and no more of it than was declared.                     *)
THEOREM RepliesImplementHolds == Spec => RepliesImplement
<1>1. Init => Replies!Init
  BY DEF Init, Replies!Init
<1> QED
  BY <1>1, StepRefines, InductiveHolds, PTL DEF Spec, RepliesImplement, Replies!Spec
=============================================================================
