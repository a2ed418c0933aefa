------------------------- MODULE BackendLinkProofs --------------------------
(***************************************************************************)
(* What the service's source of evidence promises, proved for any callers, *)
(* any capacity of the queues, any payload and any number of events,       *)
(* chunks, calls and faults: callers are told the truth, concurrent        *)
(* payloads are not mixed, every closing thread learns the same outcome,   *)
(* and nothing received is lost by a close that succeeds.                  *)
(***************************************************************************)
EXTENDS BackendLink, FiniteSetTheorems, SequenceTheorems, WellFoundedInduction, TLAPS

(***************************************************************************)
(* The inductive invariant of the Basic source                             *)
(***************************************************************************)
Outcomes == {Chunk(n) : n \in Nat}
              \union {ReaderFailure("disconnected"), ReaderFailure("input"), SourceClosed}

SourceTypeOK ==
    /\ port \in {"open", "lost", "closed"} /\ chunks \in Nat
    /\ thread \in {"none", "assigned", "run", "putting", "raised", "dead"}
    /\ holding \in Seq(Outcomes) /\ outcomes \in Seq(Outcomes) /\ stop \in BOOLEAN
    /\ cached \in {None, "disconnected", "input"}
    /\ closing \in [ClosingThreads -> {"idle", "absent", "lock", "port", "join", "wake",
                                       "done", "raised"}]
    /\ closeLock \in ClosingThreads \union {None} /\ closeFailed \in BOOLEAN
    /\ user \in {"loop", "starting", "get", "event", "nothing", "disconnected", "input",
                 "parked", "pending", "alive", "done", "fatal"}
    /\ kept \in Seq(Nat) /\ stopping \in BOOLEAN /\ settled \in BOOLEAN

SendTypeOK ==
    /\ sending \in [Callers -> {"idle", "writing", "sent", "failed"}]
    /\ accepted \in [Callers -> 0 .. PayloadSize]
    /\ holder \in Callers \union {None} /\ line \in Seq(Callers)

\* What the reader thread holds, it is about to put; the recorder's thread
\* starts a reader that is assigned.
HoldingOK ==
    /\ thread = "assigned" <=> user = "starting"
    /\ thread = "putting" => Len(holding) = 1
    /\ thread # "putting" => holding = << >>

\* No reader will touch the port again.
ReaderGone == port = "closed" /\ thread \in {"none", "dead"}

\* One thread closes; what it leaves is what every other closing thread reports.
CloserOK(k) ==
    /\ closing[k] \in {"port", "join", "wake"} <=> closeLock = k
    /\ closing[k] = "join" => port = "closed"
    /\ closing[k] \in {"port", "join"} => ~closeFailed
    /\ closing[k] = "wake" /\ ~closeFailed => ReaderGone
    /\ closing[k] = "raised" => closeFailed
    /\ closing[k] = "done" => ~closeFailed /\ stop /\ closeLock = None

CloseOK ==
    /\ closeLock # None => stop
    /\ \A k \in ClosingThreads : CloserOK(k)
    /\ ~stop => ~closeFailed
    /\ stop /\ closeLock = None /\ ~closeFailed => ReaderGone

\* The recorder's thread finishes only after the close has.
DrainOK ==
    /\ settled /\ user # "fatal" => stop /\ closeLock = None
    /\ user \in {"pending", "alive", "done"} => settled
    /\ user \in {"alive", "done"} /\ ~closeFailed => outcomes = << >>

\* The chunk the reader holds is the last it took.
HeldChunks == IF holding # << >> /\ holding[1].kind = "chunk" THEN 1 ELSE 0

ChunksOK ==
    /\ \A j \in 1 .. Len(kept) : kept[j] = j
    /\ Len(kept) + HeldChunks <= chunks
    /\ HeldChunks = 1 => holding[1].n = chunks
    /\ \A i \in 1 .. Len(outcomes) : outcomes[i].kind = "chunk" =>
          outcomes[i].n \in Len(kept) + 1 .. chunks - HeldChunks
    /\ \A n \in Len(kept) + 1 .. chunks - HeldChunks :
          \E i \in 1 .. Len(outcomes) : outcomes[i].kind = "chunk" /\ outcomes[i].n = n
    /\ \A i, j \in 1 .. Len(outcomes) :
          i < j /\ outcomes[i].kind = "chunk" /\ outcomes[j].kind = "chunk"
            => outcomes[i].n < outcomes[j].n

\* The bytes of s on the line.
BytesOf(s) == Cardinality({j \in DOMAIN line : line[j] = s})

SenderOK(s) ==
    /\ sending[s] = "writing" <=> holder = s
    /\ sending[s] = "idle" => accepted[s] = 0 /\ \A j \in DOMAIN line : line[j] # s
    /\ holder = s => /\ accepted[s] = BytesOf(s)
                     /\ \A i, j \in DOMAIN line : i < j /\ line[i] = s => line[j] = s
    /\ sending[s] = "sent" => BytesOf(s) = PayloadSize
    /\ accepted[s] <= BytesOf(s)

Contiguous ==
    \A i, j, k \in DOMAIN line :
      i < j /\ j < k /\ line[i] = line[k] => line[j] = line[i]

SendsOK == Contiguous /\ \A s \in Callers : SenderOK(s)

SourceIInv ==
    /\ SourceTypeOK /\ SendTypeOK /\ HoldingOK /\ CloseOK /\ DrainOK /\ ChunksOK
    /\ SendsOK

(***************************************************************************)
(* The inductive invariant of the Enhanced link                            *)
(***************************************************************************)
Messages == {Hello, Malformed} \union {Evidence(n) : n \in Nat}
              \union {Response(c, v) : c \in Callers, v \in Verdicts}

Answers == {None} \union {Failure(x) : x \in Errors \union {"cancelled"}}
             \union {Response(c, v) : c \in Callers, v \in Verdicts}

ValuesOK ==
    /\ inbox \in Seq(Callers) /\ executed \subseteq Callers \X Verdicts
    /\ sent \in Nat /\ wire \in Seq(Messages) /\ batch \in Seq(Messages)
    /\ {cancelled, hostClosing, hostClosed, closeError, recClosing, sourceClosed} \subseteq BOOLEAN
    /\ events \in Seq(Nat) /\ awaiting \in Seq(Nat) /\ normalized \in Seq(Nat)
    /\ taken \in Seq(Nat) /\ drained \in Seq(Nat)
    /\ answer \in [Callers -> Answers]
    /\ writing \in [Callers -> {"none", "started", "delivered"}]
    /\ result \in [Callers -> {None, "ok", "failed", "unknown", "unsent"}]
    /\ got \in [Callers -> Callers \union {None}]
    /\ closer \in [Closers -> {"idle", "terminate", "drain", "inflight", "waiting",
                               "returned"}]
    /\ waitFor \subseteq Callers \union {"reader"}
    /\ consumer \in {"loop", "submit", "inloop", "refused", "disconnected", "input",
                     "parked", "faulting", "fatal", "done"}
    /\ cleanup \in BOOLEAN \union {None}

\* The reader task: what it holds, and the port it reads from.
ReaderOK ==
    /\ reader = "putting" => Len(awaiting) = 1
    /\ reader \in {"idle", "reading", "dispatching"} => awaiting = << >>
    /\ reader \notin {"dispatching", "putting"} => batch = << >>
    /\ reader \in {"reading", "dispatching", "putting"} => resource = "open"
    /\ reader \in {"closing", "done"} => resource \in {"closing", "closed", "failed"}
    /\ reader = "idle" => resource \in {"none", "closed", "failed"}

\* Before the host is installed nobody uses it; a failed open is final.
OpenOK ==
    /\ opener = "connecting" => resource = "none" /\ reader = "idle"
    /\ opener \notin {"connecting", "stopping", "failed"} => reader # "idle"
    /\ opener \in {"stopping", "failed"} =>
         /\ reader \in {"idle", "done"} /\ resource \in {"closed", "failed"}
         /\ cleanup = (resource = "closed")
    /\ opener # "running" => /\ \A c \in Callers : call[c] = "idle"
                             /\ consumer = "loop"
    /\ opener \notin {"running", "abandoned"} =>
         /\ \A k \in Closers : closer[k] = "idle"
         /\ hostClosing <=> opener = "failed"
         /\ hostClosed <=> opener = "failed"

\* The close: one thread performs it, and the loop is stopped when it returns.
Active(k) == closer[k] \in {"terminate", "drain", "inflight"}
Drained == hostClosed \/ \E k \in Closers : closer[k] = "inflight"

HostOK ==
    /\ hostClosed <=> loop = "stopped"
    /\ hostClosed => hostClosing
    /\ \A k \in Closers : Active(k) => hostClosing /\ ~hostClosed
    /\ \A k, l \in Closers : Active(k) /\ Active(l) => k = l
    /\ hostClosing /\ ~hostClosed => \E k \in Closers : Active(k)
    /\ hostClosing => \A c \in Callers : call[c] \in InLoop => c \in waitFor
    /\ hostClosing /\ consumer = "inloop" => "reader" \in waitFor
    /\ hostClosed => /\ \A c \in Callers : call[c] \notin InLoop
                     /\ consumer # "inloop"

DrainedOK ==
    /\ ~Drained => drained = << >> /\ ~closeError
    /\ Drained => reader \in {"idle", "done"} /\ resource \in {"closed", "failed"}
    /\ Drained /\ opener # "failed" /\ ~closeError =>
         events = << >> /\ awaiting = << >> /\ resource = "closed"
    /\ sourceClosed /\ consumer # "fatal" => hostClosed
    /\ consumer = "done" => hostClosed /\ drained = << >>
    /\ ~closeError => taken \o drained \o events \o awaiting = normalized

\* One request at a time; the first error answers it.
Holding == {"writing", "waiting", "failing"}

RequestOK(c) ==
    /\ pending = c <=> call[c] \in Holding
    /\ call[c] \in {"idle", "queued"} => writing[c] = "none" /\ answer[c] = None
    /\ call[c] = "waiting" => writing[c] = "none"
    /\ writer = c => call[c] = "writing" /\ writing[c] # "none"
    /\ call[c] = "failing" => terminal # None
    /\ result[c] # None <=> call[c] = "returned"
    /\ result[c] = "unsent" => writing[c] = "none"
    /\ terminal = None /\ (writing[c] # "none" \/ call[c] = "writing") => writer = c

RequestsOK ==
    /\ \A c \in Callers : RequestOK(c)
    /\ terminal # None => writer = None /\ (pending # None => answer[pending] # None)
    /\ cancelled => terminal # None

\* What the helper was sent, and what it has answered.
Fresh(c) ==
    /\ \A j \in 1 .. Len(inbox) : inbox[j] # c
    /\ \A v \in Verdicts : <<c, v>> \notin executed

IsResponse(m) == m.kind = "response"

AnswerOK(c) ==
    /\ writing[c] = "started" => Fresh(c)
    /\ call[c] \in {"idle", "queued"} \/ result[c] = "unsent" => Fresh(c)
    /\ answer[c] # None /\ IsResponse(answer[c]) =>
         answer[c].cmd = c /\ <<c, answer[c].verdict>> \in executed
    /\ got[c] # None => got[c] = c
    /\ result[c] = "ok" => <<c, "ok">> \in executed

\* Every response in q is to a command that was executed.
Answered(q) ==
    \A j \in 1 .. Len(q) : IsResponse(q[j]) => <<q[j].cmd, q[j].verdict>> \in executed

AnswersOK == Answered(wire) /\ Answered(batch) /\ \A c \in Callers : AnswerOK(c)

\* While the connection lasts, at most one command is on its way to the helper
\* and back, and it is the pending one, not answered yet.
Under(c) == pending = c /\ answer[c] = None

NoneIn(q) == \A j \in 1 .. Len(q) : ~IsResponse(q[j])
OneIn(q) ==
    /\ \A i, j \in 1 .. Len(q) : IsResponse(q[i]) /\ IsResponse(q[j]) => i = j
    /\ \A j \in 1 .. Len(q) : IsResponse(q[j]) => Under(q[j].cmd)

Transit ==
    /\ \A c \in Callers : writing[c] = "started" =>
         Under(c) /\ inbox = << >> /\ NoneIn(wire) /\ NoneIn(batch)
    /\ inbox # << >> =>
         Len(inbox) = 1 /\ Under(inbox[1]) /\ NoneIn(wire) /\ NoneIn(batch)
    /\ NoneIn(wire) \/ NoneIn(batch)
    /\ OneIn(wire) /\ OneIn(batch)

TransitOK == terminal = None => Transit

LinkIInv ==
    /\ LinkTypeOK /\ ValuesOK /\ ReaderOK /\ OpenOK /\ HostOK /\ DrainedOK
    /\ RequestsOK /\ AnswersOK /\ TransitOK

IInv == mode \in {"basic", "enhanced"} /\ SourceIInv /\ LinkIInv

(***************************************************************************)
(* The Basic source                                                        *)
(***************************************************************************)
\* What an outcome is, by its kind.
LEMMA OutcomeFacts ==
  /\ \A n \in Nat : Chunk(n) \in Outcomes /\ Chunk(n).kind = "chunk" /\ Chunk(n).n = n
  /\ \A e \in {"disconnected", "input"} :
        /\ ReaderFailure(e) \in Outcomes
        /\ ReaderFailure(e).kind = "failure" /\ ReaderFailure(e).error = e
  /\ SourceClosed \in Outcomes /\ SourceClosed.kind = "closed"
  /\ \A o \in Outcomes : /\ o.kind \in {"chunk", "failure", "closed"}
                         /\ o.kind = "chunk" => o.n \in Nat
                         /\ o.kind = "failure" => o.error \in {"disconnected", "input"}
<1> QED
  BY DEF Outcomes, Chunk, ReaderFailure, SourceClosed

\* None is none of the values it stands beside.
LEMMA NoneFacts ==
  /\ None \notin Callers /\ None \notin ClosingThreads /\ None \notin Closers
  /\ None \notin Errors /\ None \notin {"disconnected", "input", "ok", "failed", "unknown",
                                        "unsent", "pending"}
<1> QED
  BY NoneAssumption DEF ClosingThreads, Closers, Errors

\* What is known of the sequences the steps make.
LEMMA OneFacts ==
  ASSUME NEW S, NEW x \in S
  PROVE  <<x>> \in Seq(S) /\ Len(<<x>>) = 1 /\ <<x>>[1] = x
<1> QED
  OBVIOUS

LEMMA AppendFacts ==
  ASSUME NEW S, NEW q \in Seq(S), NEW x \in S
  PROVE  /\ Append(q, x) \in Seq(S) /\ Append(q, x) = q \o <<x>>
         /\ Len(Append(q, x)) = Len(q) + 1 /\ Append(q, x)[Len(q) + 1] = x
         /\ \A i \in 1 .. Len(q) : Append(q, x)[i] = q[i]
<1> QED
  OBVIOUS

LEMMA TailFacts ==
  ASSUME NEW S, NEW q \in Seq(S), q # << >>
  PROVE  /\ Tail(q) \in Seq(S) /\ Head(q) = q[1] /\ q[1] \in S
         /\ Len(q) > 0 /\ Len(Tail(q)) = Len(q) - 1
         /\ \A i \in 1 .. Len(Tail(q)) : i + 1 \in 1 .. Len(q) /\ Tail(q)[i] = q[i + 1]
         /\ \A i \in 1 .. Len(q) : i # 1 => i - 1 \in 1 .. Len(Tail(q)) /\ Tail(q)[i - 1] = q[i]
<1>1. /\ Tail(q) \in Seq(S) /\ Head(q) = q[1] /\ q[1] \in S
      /\ Len(q) \in Nat /\ Len(q) > 0 /\ Len(Tail(q)) = Len(q) - 1
      /\ \A i \in 1 .. Len(Tail(q)) : Tail(q)[i] = q[i + 1]
  OBVIOUS
<1>2. ASSUME NEW i \in 1 .. Len(q), i # 1
      PROVE  i - 1 \in 1 .. Len(Tail(q)) /\ Tail(q)[i - 1] = q[i]
  <2>1. i - 1 \in 1 .. Len(Tail(q)) /\ (i - 1) + 1 = i
    BY <1>1, <1>2
  <2>2. Tail(q)[i - 1] = q[(i - 1) + 1]
    BY <1>1, <2>1
  <2> QED
    BY <2>1, <2>2
<1>3. ASSUME NEW i \in 1 .. Len(Tail(q))
      PROVE  i + 1 \in 1 .. Len(q)
  BY <1>1, <1>3
<1> QED
  BY <1>1, <1>2, <1>3

LEMMA ConcatFacts ==
  \A p, q, r \in Seq(Nat) : (p \o q) \o r = p \o (q \o r)
<1> QED
  BY ConcatAssociative

SourceSteps == <<source, closes, recording>>

\* The senders leave the reader, the recorder and the close alone.
LEMMA SendsAside ==
  ASSUME SourceIInv, UNCHANGED SourceSteps, SendTypeOK', SendsOK'
  PROVE  SourceIInv'
<1>1. UNCHANGED <<port, chunks, thread, holding, outcomes, stop, cached, closing, closeLock,
                  closeFailed, user, kept, stopping, settled>>
  BY DEF SourceSteps, source, closes, recording
<1>2. SourceTypeOK'
  BY <1>1 DEF SourceIInv, SourceTypeOK
<1>3. HoldingOK' /\ DrainOK'
  BY <1>1 DEF SourceIInv, HoldingOK, DrainOK
<1>4. CloseOK'
  BY <1>1 DEF SourceIInv, CloseOK, CloserOK, ReaderGone
<1>5. ChunksOK'
  BY <1>1 DEF SourceIInv, ChunksOK, HeldChunks
<1> QED
  BY <1>2, <1>3, <1>4, <1>5 DEF SourceIInv

\* Everybody else leaves the senders alone.
LEMMA SendsApart ==
  ASSUME SourceIInv, UNCHANGED sends,
         SourceTypeOK', HoldingOK', CloseOK', DrainOK', ChunksOK'
  PROVE  SourceIInv'
<1>1. UNCHANGED <<sending, accepted, holder, line>>
  BY DEF sends
<1>2. SendTypeOK'
  BY <1>1 DEF SourceIInv, SendTypeOK
<1>3. SendsOK'
  BY <1>1 DEF SourceIInv, SendsOK, SenderOK, Contiguous, BytesOf
<1> QED
  BY <1>2, <1>3 DEF SourceIInv

\* The reader takes a chunk, a fault or the end of the port.
LEMMA ThreadReadsKeeps ==
  ASSUME SourceIInv, ThreadReads
  PROVE  SourceIInv'
<1>1. UNCHANGED sends /\ UNCHANGED <<port, outcomes, stop, cached, closing, closeLock,
                  closeFailed, user, kept, stopping, settled>>
  BY DEF ThreadReads, source, closes, recording
<1>2. thread = "run" /\ holding = << >> /\ chunks \in Nat
  BY DEF SourceIInv, SourceTypeOK, HoldingOK, ThreadReads
<1>3. \/ stop /\ thread' = "dead" /\ holding' = << >> /\ chunks' = chunks
      \/ /\ port = "open" /\ thread' = "putting" /\ holding' = <<Chunk(chunks + 1)>>
         /\ chunks' = chunks + 1
      \/ /\ port = "open" /\ thread' = "putting" /\ holding' = <<ReaderFailure("input")>>
         /\ chunks' = chunks
      \/ thread' = "raised" /\ ~stop /\ holding' = << >> /\ chunks' = chunks
  BY <1>2 DEF ThreadReads
<1>4. SourceTypeOK'
  <2>1. holding' \in Seq(Outcomes)
    <3>1. << >> \in Seq(Outcomes) /\ chunks + 1 \in Nat
      BY <1>2
    <3>2. <<Chunk(chunks + 1)>> \in Seq(Outcomes) /\ <<ReaderFailure("input")>> \in Seq(Outcomes)
      BY <3>1, OutcomeFacts, OneFacts
    <3> QED
      BY <1>3, <3>1, <3>2
  <2>2. chunks' \in Nat /\ thread' \in {"dead", "putting", "raised"}
    BY <1>2, <1>3
  <2> QED
    BY <1>1, <2>1, <2>2 DEF SourceIInv, SourceTypeOK
<1>5. HoldingOK'
  BY <1>1, <1>2, <1>3 DEF SourceIInv, HoldingOK
<1>6. CloseOK'
  BY <1>1, <1>2, <1>3 DEF SourceIInv, CloseOK, CloserOK, ReaderGone
<1>7. DrainOK'
  BY <1>1, <1>2, <1>3 DEF SourceIInv, DrainOK
<1>8. ChunksOK'
  BY <1>1, <1>2, <1>3, OutcomeFacts DEF SourceIInv, SourceTypeOK, ChunksOK, HeldChunks
<1> QED
  BY <1>1, <1>4, <1>5, <1>6, <1>7, <1>8, SendsApart

\* A read that failed is a disconnect, or the end.
LEMMA ReadRaisesKeeps ==
  ASSUME SourceIInv, ReadRaises
  PROVE  SourceIInv'
<1>1. UNCHANGED sends /\ UNCHANGED <<port, chunks, outcomes, stop, cached, closing, closeLock,
                  closeFailed, user, kept, stopping, settled>>
  BY DEF ReadRaises, source, closes, recording
<1>2. thread = "raised" /\ holding = << >>
  BY DEF SourceIInv, HoldingOK, ReadRaises
<1>3. \/ thread' = "dead" /\ holding' = << >>
      \/ ~stop /\ thread' = "putting" /\ holding' = <<ReaderFailure("disconnected")>>
  BY <1>2 DEF ReadRaises
<1>4. SourceTypeOK'
  <2>1. << >> \in Seq(Outcomes) /\ <<ReaderFailure("disconnected")>> \in Seq(Outcomes)
    BY OutcomeFacts, OneFacts
  <2>2. holding' \in Seq(Outcomes)
    BY <1>3, <2>1
  <2> QED
    BY <1>1, <1>3, <2>2 DEF SourceIInv, SourceTypeOK
<1>5. HoldingOK'
  BY <1>1, <1>2, <1>3 DEF SourceIInv, HoldingOK
<1>6. CloseOK'
  BY <1>1, <1>2, <1>3 DEF SourceIInv, CloseOK, CloserOK, ReaderGone
<1>7. DrainOK'
  BY <1>1, <1>2, <1>3 DEF SourceIInv, DrainOK
<1>8. ChunksOK'
  BY <1>1, <1>2, <1>3, OutcomeFacts DEF SourceIInv, SourceTypeOK, ChunksOK, HeldChunks
<1> QED
  BY <1>1, <1>4, <1>5, <1>6, <1>7, <1>8, SendsApart

\* What the reader holds becomes the last of the queue.
LEMMA ThreadPutsKeeps ==
  ASSUME SourceIInv, ThreadPuts
  PROVE  SourceIInv'
<1>1. UNCHANGED sends /\ UNCHANGED <<port, chunks, stop, cached, closing, closeLock, closeFailed,
                  user, kept, stopping, settled>>
  BY DEF ThreadPuts, source, closes, recording
<1>2. /\ thread = "putting" /\ Len(holding) = 1 /\ holding \in Seq(Outcomes)
      /\ holding[1] \in Outcomes /\ outcomes \in Seq(Outcomes)
  <2>1. thread = "putting" /\ Len(holding) = 1 /\ holding \in Seq(Outcomes) /\ outcomes \in Seq(Outcomes)
    BY DEF SourceIInv, SourceTypeOK, HoldingOK, ThreadPuts
  <2> QED
    BY <2>1
<1>3. /\ thread' \in {"dead", "run"} /\ holding' = << >>
      /\ outcomes' = Append(outcomes, holding[1])
  <2>1. outcomes' = outcomes \o holding
    BY DEF ThreadPuts
  <2>2. holding = <<holding[1]>>
    BY <1>2
  <2>3. outcomes \o <<holding[1]>> = Append(outcomes, holding[1])
    BY <1>2, AppendFacts
  <2> QED
    BY <2>1, <2>2, <2>3 DEF ThreadPuts
<1>4. SourceTypeOK'
  BY <1>1, <1>2, <1>3 DEF SourceIInv, SourceTypeOK
<1>5. HoldingOK'
  BY <1>1, <1>2, <1>3 DEF SourceIInv, HoldingOK
<1>6. CloseOK'
  BY <1>1, <1>2, <1>3 DEF SourceIInv, CloseOK, CloserOK, ReaderGone
<1>7. DrainOK'
  <2>1. stop /\ closeLock = None /\ ~closeFailed => thread \in {"none", "dead"}
    BY DEF SourceIInv, CloseOK, CloserOK, ReaderGone
  <2> QED
    BY <1>1, <1>2, <1>3, <2>1 DEF SourceIInv, DrainOK
<1>8. ChunksOK'
  <2> DEFINE o == holding[1]
  <2>1. /\ Len(outcomes') = Len(outcomes) + 1 /\ Len(outcomes) \in Nat
        /\ outcomes'[Len(outcomes) + 1] = o
        /\ \A i \in 1 .. Len(outcomes) : outcomes'[i] = outcomes[i]
    BY <1>2, <1>3
  <2>2. HeldChunks' = 0 /\ (HeldChunks = IF o.kind = "chunk" THEN 1 ELSE 0)
    BY <1>2, <1>3 DEF HeldChunks
  <2>3. kept \in Seq(Nat) /\ chunks \in Nat /\ Len(kept) \in Nat
    BY DEF SourceIInv, SourceTypeOK
  <2>4. o.kind = "chunk" => o.n = chunks /\ Len(kept) + 1 <= chunks
    BY <2>2, <2>3 DEF SourceIInv, ChunksOK
  <2>5. \A i \in 1 .. Len(outcomes) : outcomes[i].kind = "chunk" =>
            outcomes[i].n \in Len(kept) + 1 .. chunks - HeldChunks
    BY DEF SourceIInv, ChunksOK
  <2> HIDE DEF o
  <2>6. \A i \in 1 .. Len(outcomes') : outcomes'[i].kind = "chunk" =>
            outcomes'[i].n \in Len(kept) + 1 .. chunks
    BY <2>1, <2>2, <2>3, <2>4, <2>5
  <2>7. ASSUME NEW n \in Len(kept) + 1 .. chunks
        PROVE  \E i \in 1 .. Len(outcomes') : outcomes'[i].kind = "chunk" /\ outcomes'[i].n = n
    <3>1. CASE n \in Len(kept) + 1 .. chunks - HeldChunks
      <4>1. PICK i \in 1 .. Len(outcomes) : outcomes[i].kind = "chunk" /\ outcomes[i].n = n
        BY <3>1 DEF SourceIInv, ChunksOK
      <4> QED
        BY <2>1, <4>1
    <3>2. CASE n = chunks /\ HeldChunks = 1
      BY <2>1, <2>2, <2>4, <3>2
    <3> QED
      BY <2>2, <2>3, <3>1, <3>2
  <2>8. \A i, j \in 1 .. Len(outcomes') :
            i < j /\ outcomes'[i].kind = "chunk" /\ outcomes'[j].kind = "chunk"
              => outcomes'[i].n < outcomes'[j].n
    <3>1. \A i, j \in 1 .. Len(outcomes) :
              i < j /\ outcomes[i].kind = "chunk" /\ outcomes[j].kind = "chunk"
                => outcomes[i].n < outcomes[j].n
      BY DEF SourceIInv, ChunksOK
    <3>2. ASSUME NEW i \in 1 .. Len(outcomes), outcomes[i].kind = "chunk", o.kind = "chunk"
          PROVE  outcomes[i].n < o.n
      BY <2>2, <2>3, <2>4, <2>5, <3>2
    <3> QED
      BY <2>1, <3>1, <3>2
  <2> QED
    BY <1>1, <2>2, <2>3, <2>4, <2>6, <2>7, <2>8 DEF SourceIInv, ChunksOK
<1> QED
  BY <1>1, <1>4, <1>5, <1>6, <1>7, <1>8, SendsApart

\* The port goes away.
LEMMA PortLostKeeps ==
  ASSUME SourceIInv, PortLost
  PROVE  SourceIInv'
<1>1. UNCHANGED sends /\ UNCHANGED <<chunks, thread, holding, outcomes, stop, cached, closing,
                  closeLock, closeFailed, user, kept, stopping, settled>>
  BY DEF PortLost, source, closes, recording
<1>2. port = "open" /\ port' = "lost"
  BY DEF PortLost
<1>3. SourceTypeOK'
  BY <1>1, <1>2 DEF SourceIInv, SourceTypeOK
<1>4. HoldingOK'
  BY <1>1, <1>2 DEF SourceIInv, HoldingOK
<1>5. CloseOK'
  BY <1>1, <1>2 DEF SourceIInv, CloseOK, CloserOK, ReaderGone
<1>6. DrainOK'
  BY <1>1, <1>2 DEF SourceIInv, DrainOK
<1>7. ChunksOK'
  BY <1>1, <1>2 DEF SourceIInv, ChunksOK, HeldChunks
<1> QED
  BY <1>1, <1>3, <1>4, <1>5, <1>6, <1>7, SendsApart

\* The recorder asks for the next event, and starts the reader on its first call.
LEMMA NextEventKeeps ==
  ASSUME SourceIInv, NextEvent
  PROVE  SourceIInv'
<1>1. UNCHANGED sends /\ UNCHANGED <<port, chunks, holding, outcomes, stop, closing, closeLock,
                  closeFailed, kept, stopping, settled>>
  BY DEF NextEvent, source, closes, recording
<1>2. user = "loop"
  BY DEF NextEvent
<1>3. \/ cached # None /\ user' = cached /\ thread' = thread /\ cached' = cached
      \/ /\ thread = "none" /\ stop /\ cached' = "disconnected" /\ thread' = thread
         /\ user' \in {"disconnected", "get"}
      \/ /\ thread = "none" /\ ~stop /\ thread' = "assigned" /\ user' = "starting"
         /\ cached' = cached
      \/ user' = "get" /\ thread' = thread /\ cached' = cached
  BY DEF NextEvent
<1>4. cached # None => cached \in {"disconnected", "input"}
  BY DEF SourceIInv, SourceTypeOK
<1>5. SourceTypeOK'
  BY <1>1, <1>2, <1>3, <1>4 DEF SourceIInv, SourceTypeOK
<1>6. HoldingOK'
  BY <1>1, <1>2, <1>3, <1>4 DEF SourceIInv, HoldingOK
<1>7. CloseOK'
  <2>1. CASE thread' = thread
    BY <1>1, <2>1 DEF SourceIInv, CloseOK, CloserOK, ReaderGone
  <2>2. CASE thread = "none" /\ ~stop
    BY <1>1, <2>2, NoneFacts DEF SourceIInv, CloseOK, CloserOK, ReaderGone
  <2> QED
    BY <1>3, <2>1, <2>2
<1>8. DrainOK'
  BY <1>1, <1>2, <1>3, <1>4 DEF SourceIInv, DrainOK
<1>9. ChunksOK'
  BY <1>1, <1>2, <1>3, <1>4 DEF SourceIInv, ChunksOK, HeldChunks
<1> QED
  BY <1>1, <1>5, <1>6, <1>7, <1>8, <1>9, SendsApart

\* The reader thread runs.
LEMMA StartReaderKeeps ==
  ASSUME SourceIInv, StartReader
  PROVE  SourceIInv'
<1>1. UNCHANGED sends /\ UNCHANGED <<port, chunks, holding, outcomes, stop, cached, closing,
                  closeLock, closeFailed, kept, stopping, settled>>
  BY DEF StartReader, source, closes, recording
<1>2. user = "starting" /\ user' = "get" /\ thread' = "run" /\ thread = "assigned"
  BY DEF StartReader, SourceIInv, HoldingOK
<1>3. SourceTypeOK'
  BY <1>1, <1>2 DEF SourceIInv, SourceTypeOK
<1>4. HoldingOK'
  BY <1>1, <1>2 DEF SourceIInv, HoldingOK
<1>5. CloseOK'
  BY <1>1, <1>2 DEF SourceIInv, CloseOK, CloserOK, ReaderGone
<1>6. DrainOK'
  BY <1>1, <1>2 DEF SourceIInv, DrainOK
<1>7. ChunksOK'
  BY <1>1, <1>2 DEF SourceIInv, ChunksOK, HeldChunks
<1> QED
  BY <1>1, <1>3, <1>4, <1>5, <1>6, <1>7, SendsApart

\* The recorder takes the oldest outcome; a chunk it keeps is the next one.
LEMMA GetOutcomeKeeps ==
  ASSUME SourceIInv, GetOutcome
  PROVE  SourceIInv'
<1>1. UNCHANGED sends /\ UNCHANGED <<port, chunks, thread, holding, stop, closing, closeLock,
                  closeFailed, stopping, settled>>
  BY DEF GetOutcome, source, closes, recording
<1>2. user = "get" /\ outcomes \in Seq(Outcomes) /\ kept \in Seq(Nat) /\ chunks \in Nat
  BY DEF SourceIInv, SourceTypeOK, GetOutcome
<1>3. \/ /\ outcomes' = outcomes /\ kept' = kept
         /\ user' \in {"disconnected", "nothing"} /\ cached' \in {cached, "disconnected"}
      \/ /\ outcomes # << >> /\ outcomes' = Tail(outcomes)
         /\ outcomes[1].kind # "chunk" /\ kept' = kept
         /\ user' \in {"disconnected", "input"} /\ cached' = user'
      \/ /\ outcomes # << >> /\ outcomes' = Tail(outcomes)
         /\ outcomes[1].kind = "chunk" /\ kept' = Append(kept, outcomes[1].n)
         /\ user' = "event" /\ cached' = cached
  <2>1. CASE outcomes = << >>
    BY <2>1 DEF GetOutcome
  <2>2. CASE outcomes # << >>
    <3>1. outcomes[1] \in Outcomes /\ Head(outcomes) = outcomes[1]
      BY <1>2, <2>2
    <3> DEFINE out == outcomes[1]
    <3>2. /\ outcomes' = Tail(outcomes)
          /\ cached' = CASE out.kind = "failure" -> out.error
                         [] out.kind = "closed" /\ cached = None -> "disconnected"
                         [] OTHER -> cached
          /\ user' = IF out.kind = "chunk" THEN "event" ELSE cached'
          /\ kept' = IF out.kind = "chunk" THEN Append(kept, out.n) ELSE kept
      BY <2>2, <3>1 DEF GetOutcome
    <3>3. /\ out.kind \in {"chunk", "failure", "closed"}
          /\ out.kind = "failure" => out.error \in {"disconnected", "input"}
      BY <3>1, OutcomeFacts
    <3>4. cached \in {None, "disconnected", "input"}
      BY DEF SourceIInv, SourceTypeOK
    <3> HIDE DEF out
    <3>5. CASE out.kind = "chunk"
      BY <2>2, <3>2, <3>5 DEF out
    <3>6. CASE out.kind = "failure"
      BY <2>2, <3>2, <3>3, <3>6 DEF out
    <3>7. CASE out.kind = "closed"
      BY <2>2, <3>2, <3>4, <3>7 DEF out
    <3> QED
      BY <3>3, <3>5, <3>6, <3>7
  <2> QED
    BY <2>1, <2>2
<1>4. outcomes # << >> => Tail(outcomes) \in Seq(Outcomes) /\ outcomes[1] \in Outcomes
  BY <1>2, TailFacts
<1>5. SourceTypeOK'
  <2>1. outcomes' \in Seq(Outcomes)
    BY <1>2, <1>3, <1>4
  <2>2. kept' \in Seq(Nat)
    <3>1. outcomes # << >> /\ outcomes[1].kind = "chunk" => outcomes[1].n \in Nat
      BY <1>4, OutcomeFacts
    <3>2. ASSUME outcomes # << >>, outcomes[1].kind = "chunk"
          PROVE  Append(kept, outcomes[1].n) \in Seq(Nat)
      BY <1>2, <3>1, <3>2, AppendFacts
    <3> QED
      BY <1>2, <1>3, <3>2
  <2>3. /\ user' \in {"disconnected", "nothing", "input", "event"}
        /\ cached' \in {cached, "disconnected", "input"}
    BY <1>3
  <2> QED
    BY <1>1, <2>1, <2>2, <2>3 DEF SourceIInv, SourceTypeOK
<1>6. HoldingOK'
  <2>1. user' # "starting"
    BY <1>3
  <2> QED
    BY <1>1, <1>2, <2>1 DEF SourceIInv, HoldingOK
<1>7. CloseOK'
  BY <1>1, <1>2, <1>3, <1>4 DEF SourceIInv, CloseOK, CloserOK, ReaderGone
<1>8. DrainOK'
  <2>1. user' \notin {"pending", "alive", "done", "fatal"}
    BY <1>3
  <2> QED
    BY <1>1, <1>2, <2>1 DEF SourceIInv, DrainOK
<1>9. ChunksOK'
  <2>1. HeldChunks' = HeldChunks /\ HeldChunks \in {0, 1}
    BY <1>1 DEF HeldChunks
  <2>2. CASE outcomes' = outcomes /\ kept' = kept
    BY <1>1, <2>1, <2>2 DEF SourceIInv, ChunksOK
  <2>3. CASE outcomes # << >> /\ outcomes' = Tail(outcomes)
    <3>1. /\ Len(outcomes') = Len(outcomes) - 1 /\ Len(outcomes) \in Nat /\ Len(outcomes) > 0
          /\ \A i \in 1 .. Len(outcomes') :
                i + 1 \in 1 .. Len(outcomes) /\ outcomes'[i] = outcomes[i + 1]
          /\ \A i \in 1 .. Len(outcomes) :
                i # 1 => i - 1 \in 1 .. Len(outcomes') /\ outcomes'[i - 1] = outcomes[i]
      BY <1>2, <2>3, TailFacts
    <3>2. /\ Len(kept) + HeldChunks <= chunks /\ Len(kept) \in Nat
          /\ HeldChunks = 1 => holding[1].n = chunks
      BY <1>2 DEF SourceIInv, ChunksOK
    <3>3. \A i \in 1 .. Len(outcomes) : outcomes[i].kind = "chunk" =>
             outcomes[i].n \in Len(kept) + 1 .. chunks - HeldChunks
      BY DEF SourceIInv, ChunksOK
    <3>4. \A n \in Len(kept) + 1 .. chunks - HeldChunks :
             \E i \in 1 .. Len(outcomes) : outcomes[i].kind = "chunk" /\ outcomes[i].n = n
      BY DEF SourceIInv, ChunksOK
    <3>5. \A i, j \in 1 .. Len(outcomes) :
             i < j /\ outcomes[i].kind = "chunk" /\ outcomes[j].kind = "chunk"
               => outcomes[i].n < outcomes[j].n
      BY DEF SourceIInv, ChunksOK
    <3>6. \A i, j \in 1 .. Len(outcomes') :
             i < j /\ outcomes'[i].kind = "chunk" /\ outcomes'[j].kind = "chunk"
               => outcomes'[i].n < outcomes'[j].n
      <4>1. ASSUME NEW i \in 1 .. Len(outcomes'), NEW j \in 1 .. Len(outcomes'), i < j
            PROVE  i + 1 < j + 1 /\ i + 1 \in 1 .. Len(outcomes) /\ j + 1 \in 1 .. Len(outcomes)
        BY <3>1, <4>1
      <4> QED
        BY <3>1, <3>5, <4>1
    <3>7. CASE outcomes[1].kind # "chunk" /\ kept' = kept
      <4>1. \A i \in 1 .. Len(outcomes') : outcomes'[i].kind = "chunk" =>
               outcomes'[i].n \in Len(kept) + 1 .. chunks - HeldChunks
        BY <3>1, <3>3
      <4>2. ASSUME NEW n \in Len(kept) + 1 .. chunks - HeldChunks
            PROVE  \E i \in 1 .. Len(outcomes') : outcomes'[i].kind = "chunk" /\ outcomes'[i].n = n
        <5>1. PICK i \in 1 .. Len(outcomes) : outcomes[i].kind = "chunk" /\ outcomes[i].n = n
          BY <3>4
        <5>2. i # 1 /\ i - 1 \in 1 .. Len(outcomes') /\ outcomes'[i - 1] = outcomes[i]
          BY <3>1, <3>7, <5>1
        <5> QED
          BY <5>1, <5>2
      <4> QED
        BY <1>1, <2>1, <3>2, <3>6, <3>7, <4>1, <4>2 DEF SourceIInv, ChunksOK
    <3>8. CASE outcomes[1].kind = "chunk" /\ kept' = Append(kept, outcomes[1].n)
      <4>1. outcomes[1].n \in Len(kept) + 1 .. chunks - HeldChunks
        BY <3>1, <3>3, <3>8
      <4>2. outcomes[1].n = Len(kept) + 1
        <5>1. PICK i \in 1 .. Len(outcomes) :
                 outcomes[i].kind = "chunk" /\ outcomes[i].n = Len(kept) + 1
          <6>1. Len(kept) + 1 \in Len(kept) + 1 .. chunks - HeldChunks
            BY <1>2, <2>1, <3>2, <4>1
          <6> QED
            BY <3>4, <6>1
        <5>2. CASE i = 1
          BY <5>1, <5>2
        <5>3. CASE i > 1
          BY <3>1, <3>2, <3>5, <3>8, <4>1, <5>1, <5>3
        <5> QED
          BY <5>1, <5>2, <5>3
      <4>3. /\ Len(kept') = Len(kept) + 1 /\ kept'[Len(kept) + 1] = Len(kept) + 1
            /\ \A j \in 1 .. Len(kept) : kept'[j] = kept[j]
        BY <1>2, <3>8, <4>2
      <4>4. \A j \in 1 .. Len(kept') : kept'[j] = j
        BY <3>2, <4>3 DEF SourceIInv, ChunksOK
      <4>5. ASSUME NEW i \in 1 .. Len(outcomes'), outcomes'[i].kind = "chunk"
            PROVE  outcomes'[i].n \in Len(kept') + 1 .. chunks - HeldChunks
        <5>1. i + 1 \in 1 .. Len(outcomes) /\ outcomes'[i] = outcomes[i + 1] /\ 1 < i + 1
          BY <3>1
        <5>2. outcomes[i + 1].n \in Len(kept) + 1 .. chunks - HeldChunks
          BY <3>3, <4>5, <5>1
        <5>3. Len(kept) + 1 < outcomes[i + 1].n
          BY <3>1, <3>5, <3>8, <4>2, <4>5, <5>1
        <5> QED
          BY <1>2, <3>2, <4>3, <5>1, <5>2, <5>3
      <4>6. ASSUME NEW n \in Len(kept') + 1 .. chunks - HeldChunks
            PROVE  \E i \in 1 .. Len(outcomes') : outcomes'[i].kind = "chunk" /\ outcomes'[i].n = n
        <5>1. n \in Len(kept) + 1 .. chunks - HeldChunks /\ n # Len(kept) + 1
          BY <1>2, <2>1, <3>2, <4>3
        <5>2. PICK i \in 1 .. Len(outcomes) : outcomes[i].kind = "chunk" /\ outcomes[i].n = n
          BY <3>4, <5>1
        <5>3. i # 1 /\ i - 1 \in 1 .. Len(outcomes') /\ outcomes'[i - 1] = outcomes[i]
          BY <3>1, <4>2, <5>1, <5>2
        <5> QED
          BY <5>2, <5>3
      <4>7. Len(kept') + HeldChunks <= chunks
        BY <1>2, <2>1, <3>2, <4>1, <4>2, <4>3
      <4> QED
        BY <1>1, <2>1, <3>2, <3>6, <4>4, <4>5, <4>6, <4>7 DEF SourceIInv, ChunksOK
    <3> QED
      BY <1>3, <2>3, <3>7, <3>8
  <2> QED
    BY <1>3, <2>2, <2>3
<1> QED
  BY <1>1, <1>5, <1>6, <1>7, <1>8, <1>9, SendsApart

\* The store takes the event, or faults.
LEMMA RecordsKeeps ==
  ASSUME SourceIInv, Records
  PROVE  SourceIInv'
<1>1. UNCHANGED sends /\ UNCHANGED <<port, chunks, thread, holding, outcomes, stop, cached,
                  closing, closeLock, closeFailed, kept, stopping, settled>>
  BY DEF Records, source, closes, recording
<1>2. user = "event" /\ user' \in {"loop", "fatal"}
  BY DEF Records
<1>3. SourceTypeOK'
  BY <1>1, <1>2 DEF SourceIInv, SourceTypeOK
<1>4. HoldingOK'
  BY <1>1, <1>2 DEF SourceIInv, HoldingOK
<1>5. CloseOK'
  BY <1>1, <1>2 DEF SourceIInv, CloseOK, CloserOK, ReaderGone
<1>6. DrainOK'
  BY <1>1, <1>2 DEF SourceIInv, DrainOK
<1>7. ChunksOK'
  BY <1>1, <1>2 DEF SourceIInv, ChunksOK, HeldChunks
<1> QED
  BY <1>1, <1>3, <1>4, <1>5, <1>6, <1>7, SendsApart

\* Nothing came, or the source is over.
LEMMA SettlesKeeps ==
  ASSUME SourceIInv, Settles
  PROVE  SourceIInv'
<1>1. UNCHANGED sends /\ UNCHANGED <<port, chunks, thread, holding, outcomes, stop, cached,
                  closing, closeLock, closeFailed, kept, stopping, settled>>
  BY DEF Settles, source, closes, recording
<1>2. /\ user \in {"nothing", "disconnected", "input", "parked"}
      /\ \/ user' \in {"loop", "parked", "fatal"}
         \/ settled /\ user' = "pending"
  BY DEF Settles
<1>3. SourceTypeOK'
  BY <1>1, <1>2 DEF SourceIInv, SourceTypeOK
<1>4. HoldingOK'
  BY <1>1, <1>2 DEF SourceIInv, HoldingOK
<1>5. CloseOK'
  BY <1>1, <1>2 DEF SourceIInv, CloseOK, CloserOK, ReaderGone
<1>6. DrainOK'
  BY <1>1, <1>2 DEF SourceIInv, DrainOK
<1>7. ChunksOK'
  BY <1>1, <1>2 DEF SourceIInv, ChunksOK, HeldChunks
<1> QED
  BY <1>1, <1>3, <1>4, <1>5, <1>6, <1>7, SendsApart

\* The last look at the queue, then at the reader.
LEMMA HasPendingKeeps ==
  ASSUME SourceIInv, HasPending
  PROVE  SourceIInv'
<1>1. UNCHANGED sends /\ UNCHANGED <<port, chunks, thread, holding, outcomes, stop, cached,
                  closing, closeLock, closeFailed, kept, stopping, settled>>
  BY DEF HasPending, source, closes, recording
<1>2. \/ user = "pending" /\ user' = "loop"
      \/ user = "pending" /\ user' = "alive" /\ outcomes = << >>
      \/ user = "alive" /\ user' \in {"loop", "done"}
  BY DEF HasPending
<1>3. SourceTypeOK'
  BY <1>1, <1>2 DEF SourceIInv, SourceTypeOK
<1>4. HoldingOK'
  BY <1>1, <1>2 DEF SourceIInv, HoldingOK
<1>5. CloseOK'
  BY <1>1, <1>2 DEF SourceIInv, CloseOK, CloserOK, ReaderGone
<1>6. DrainOK'
  BY <1>1, <1>2 DEF SourceIInv, DrainOK
<1>7. ChunksOK'
  BY <1>1, <1>2 DEF SourceIInv, ChunksOK, HeldChunks
<1> QED
  BY <1>1, <1>3, <1>4, <1>5, <1>6, <1>7, SendsApart

\* A thread asks for the close.
LEMMA CloseSourceKeeps ==
  ASSUME SourceIInv, NEW k \in ClosingThreads, CloseSource(k)
  PROVE  SourceIInv'
<1>1. UNCHANGED sends /\ UNCHANGED <<port, chunks, thread, holding, outcomes, stop, cached,
                  closeLock, closeFailed, user, kept>>
  BY DEF CloseSource, source, closes, recording
<1>2. /\ closing[k] = "idle" /\ stopping' \in BOOLEAN
      /\ \/ /\ user = "fatal" /\ closing' = [closing EXCEPT ![k] = "absent"] /\ settled'
         \/ closing' = [closing EXCEPT ![k] = "lock"] /\ settled' = settled
  BY DEF CloseSource, SourceIInv, SourceTypeOK
<1>3. /\ closing \in [ClosingThreads -> {"idle", "absent", "lock", "port", "join", "wake",
                                         "done", "raised"}]
      /\ closing' \in [ClosingThreads -> {"idle", "absent", "lock", "port", "join", "wake",
                                          "done", "raised"}]
  BY <1>2 DEF SourceIInv, SourceTypeOK
<1>4. /\ closing'[k] \in {"absent", "lock"} /\ DOMAIN closing' = ClosingThreads
      /\ \A l \in ClosingThreads \ {k} : closing'[l] = closing[l]
  BY <1>2, <1>3
<1>5. SourceTypeOK'
  <2>1. settled' \in BOOLEAN
    BY <1>2 DEF SourceIInv, SourceTypeOK, CloseSource
  <2> QED
    BY <1>1, <1>2, <1>3, <1>4, <2>1 DEF SourceIInv, SourceTypeOK
<1>6. HoldingOK'
  BY <1>1, <1>2, <1>3, <1>4 DEF SourceIInv, HoldingOK
<1>7. CloseOK'
  BY <1>1, <1>2, <1>3, <1>4 DEF SourceIInv, CloseOK, CloserOK, ReaderGone
<1>8. DrainOK'
  BY <1>1, <1>2, <1>3, <1>4 DEF SourceIInv, DrainOK
<1>9. ChunksOK'
  BY <1>1, <1>2, <1>3, <1>4 DEF SourceIInv, ChunksOK, HeldChunks
<1> QED
  BY <1>1, <1>5, <1>6, <1>7, <1>8, <1>9, SendsApart

\* The first closes, a later one repeats its outcome.
LEMMA CloseLockedKeeps ==
  ASSUME SourceIInv, NEW k \in ClosingThreads, CloseLocked(k)
  PROVE  SourceIInv'
<1>1. UNCHANGED sends /\ UNCHANGED <<port, chunks, thread, holding, outcomes, cached,
                  closeFailed, user, kept, stopping>>
  BY DEF CloseLocked, source, closes, recording
<1>2. /\ closing[k] = "lock" /\ closeLock = None
      /\ \/ /\ stop /\ stop' = stop /\ closeLock' = None
            /\ closing' = [closing EXCEPT ![k] = IF closeFailed THEN "raised" ELSE "done"]
            /\ settled' = (settled \/ k = "shutdown")
         \/ /\ ~stop /\ stop' = TRUE /\ closeLock' = k
            /\ closing' = [closing EXCEPT ![k] = "port"] /\ settled' = settled
  BY DEF CloseLocked
<1>3. closing \in [ClosingThreads -> {"idle", "absent", "lock", "port", "join", "wake",
                                      "done", "raised"}] /\ None # k
  BY NoneFacts DEF SourceIInv, SourceTypeOK
<1>4. /\ closing'[k] = IF ~stop THEN "port" ELSE IF closeFailed THEN "raised" ELSE "done"
      /\ DOMAIN closing' = ClosingThreads
      /\ \A l \in ClosingThreads \ {k} : closing'[l] = closing[l]
  BY <1>2, <1>3
<1>5. SourceTypeOK'
  <2>1. settled' \in BOOLEAN /\ stop' \in BOOLEAN
    BY <1>2 DEF SourceIInv, SourceTypeOK
  <2>2. closing' \in [ClosingThreads -> {"idle", "absent", "lock", "port", "join", "wake",
                                      "done", "raised"}]
    BY <1>2, <1>3
  <2>3. closeLock' \in ClosingThreads \union {None}
    BY <1>2
  <2> QED
    BY <1>1, <2>1, <2>2, <2>3 DEF SourceIInv, SourceTypeOK
<1>6. HoldingOK'
  BY <1>1, <1>2, <1>3, <1>4 DEF SourceIInv, HoldingOK
<1>7. CloseOK'
  <2>1. ASSUME NEW l \in ClosingThreads
        PROVE  CloserOK(l)'
    <3>1. CloserOK(l) /\ None # l
      BY NoneFacts DEF SourceIInv, CloseOK
    <3>2. CASE l = k
      BY <1>1, <1>2, <1>3, <1>4, <3>2 DEF CloserOK, SourceIInv, CloseOK
    <3>3. CASE l # k
      <4>1. closing'[l] = closing[l] /\ closing[l] \notin {"port", "join", "wake"}
        BY <1>2, <1>4, <3>1, <3>3 DEF CloserOK
      <4>2. stop' \/ ~stop
        BY <1>2
      <4> QED
        BY <1>1, <1>2, <3>1, <3>3, <4>1 DEF CloserOK
    <3> QED
      BY <3>2, <3>3
  <2>2. /\ closeLock' # None => stop'
        /\ ~stop' => ~closeFailed'
        /\ stop' /\ closeLock' = None /\ ~closeFailed' => ReaderGone'
    BY <1>1, <1>2, <1>3 DEF SourceIInv, CloseOK, ReaderGone
  <2> QED
    BY <2>1, <2>2 DEF CloseOK
<1>8. DrainOK'
  <2>1. CASE stop
    BY <1>1, <1>2, <2>1 DEF SourceIInv, DrainOK
  <2>2. CASE ~stop
    BY <1>1, <1>2, <2>2 DEF SourceIInv, DrainOK
  <2> QED
    BY <2>1, <2>2
<1>9. ChunksOK'
  BY <1>1, <1>2, <1>3, <1>4 DEF SourceIInv, ChunksOK, HeldChunks
<1> QED
  BY <1>1, <1>5, <1>6, <1>7, <1>8, <1>9, SendsApart

\* The port is closed, or its close fails.
LEMMA ClosePortKeeps ==
  ASSUME SourceIInv, NEW k \in ClosingThreads, ClosePort(k)
  PROVE  SourceIInv'
<1>1. UNCHANGED sends /\ UNCHANGED <<chunks, thread, holding, outcomes, stop, cached, closeLock,
                  user, kept, stopping, settled>>
  BY DEF ClosePort, source, closes, recording
<1>2. /\ closing[k] = "port"
      /\ \/ /\ port' = "closed" /\ closeFailed' = closeFailed
            /\ closing' = [closing EXCEPT ![k] = IF thread = "none" THEN "wake" ELSE "join"]
         \/ /\ port' = port /\ closeFailed'
            /\ closing' = [closing EXCEPT ![k] = "wake"]
  BY DEF ClosePort
<1>3. /\ closing \in [ClosingThreads -> {"idle", "absent", "lock", "port", "join", "wake",
                                         "done", "raised"}]
      /\ closeLock = k /\ stop /\ k # None
  BY <1>2, NoneFacts DEF SourceIInv, SourceTypeOK, CloseOK, CloserOK
<1>4. /\ closing'[k] \in {"wake", "join"} /\ (closing'[k] = "join" => port' = "closed" /\ ~closeFailed')
      /\ (closing'[k] = "wake" /\ ~closeFailed' => ReaderGone')
      /\ DOMAIN closing' = ClosingThreads
      /\ \A l \in ClosingThreads \ {k} : closing'[l] = closing[l]
  BY <1>1, <1>2, <1>3 DEF SourceIInv, CloseOK, CloserOK, ReaderGone
<1>5. closeFailed' \in BOOLEAN
  BY <1>2 DEF SourceIInv, SourceTypeOK, ClosePort
<1>6. SourceTypeOK'
  BY <1>1, <1>2, <1>3, <1>4, <1>5 DEF SourceIInv, SourceTypeOK
<1>7. HoldingOK'
  BY <1>1, <1>2, <1>3, <1>4, <1>5 DEF SourceIInv, HoldingOK
<1>8. CloseOK'
  BY <1>1, <1>2, <1>3, <1>4, <1>5 DEF SourceIInv, CloseOK, CloserOK
<1>9. DrainOK'
  BY <1>1, <1>2, <1>3, <1>4, <1>5 DEF SourceIInv, DrainOK
<1>10. ChunksOK'
  BY <1>1, <1>2, <1>3, <1>4, <1>5 DEF SourceIInv, ChunksOK, HeldChunks
<1> QED
  BY <1>1, <1>6, <1>7, <1>8, <1>9, <1>10, SendsApart

\* The reader has ended, or the join fails.
LEMMA JoinReaderKeeps ==
  ASSUME SourceIInv, NEW k \in ClosingThreads, JoinReader(k)
  PROVE  SourceIInv'
<1>1. UNCHANGED sends /\ UNCHANGED <<port, chunks, thread, holding, outcomes, stop, cached,
                  closeLock, user, kept, stopping, settled>>
  BY DEF JoinReader, source, closes, recording
<1>2. /\ closing[k] = "join" /\ closing' = [closing EXCEPT ![k] = "wake"]
      /\ \/ thread = "dead" /\ closeFailed' = closeFailed
         \/ closeFailed'
  BY DEF JoinReader
<1>3. /\ closing \in [ClosingThreads -> {"idle", "absent", "lock", "port", "join", "wake",
                                         "done", "raised"}]
      /\ closeLock = k /\ stop /\ k # None /\ port = "closed"
  BY <1>2, NoneFacts DEF SourceIInv, SourceTypeOK, CloseOK, CloserOK
<1>4. /\ closing'[k] = "wake" /\ (~closeFailed' => ReaderGone')
      /\ DOMAIN closing' = ClosingThreads
      /\ \A l \in ClosingThreads \ {k} : closing'[l] = closing[l]
  BY <1>1, <1>2, <1>3 DEF ReaderGone
<1>5. closeFailed' \in BOOLEAN
  BY <1>2 DEF SourceIInv, SourceTypeOK, JoinReader
<1>6. SourceTypeOK'
  BY <1>1, <1>2, <1>3, <1>4, <1>5 DEF SourceIInv, SourceTypeOK
<1>7. HoldingOK'
  BY <1>1, <1>2, <1>3, <1>4, <1>5 DEF SourceIInv, HoldingOK
<1>8. CloseOK'
  BY <1>1, <1>2, <1>3, <1>4, <1>5 DEF SourceIInv, CloseOK, CloserOK, ReaderGone
<1>9. DrainOK'
  BY <1>1, <1>2, <1>3, <1>4, <1>5 DEF SourceIInv, DrainOK
<1>10. ChunksOK'
  BY <1>1, <1>2, <1>3, <1>4, <1>5 DEF SourceIInv, ChunksOK, HeldChunks
<1> QED
  BY <1>1, <1>6, <1>7, <1>8, <1>9, <1>10, SendsApart

\* The recorder's thread is woken, and the close returns.
LEMMA CloseEndsKeeps ==
  ASSUME SourceIInv, NEW k \in ClosingThreads, CloseEnds(k)
  PROVE  SourceIInv'
<1>1. UNCHANGED sends /\ UNCHANGED <<port, chunks, thread, holding, stop, cached, closeFailed,
                  user, kept, stopping>>
  BY DEF CloseEnds, source, closes, recording
<1>2. /\ closing[k] = "wake" /\ closeLock' = None /\ settled' = (settled \/ k = "shutdown")
      /\ closing' = [closing EXCEPT ![k] = IF closeFailed THEN "raised" ELSE "done"]
      /\ outcomes' = outcomes \/ outcomes' = Append(outcomes, SourceClosed)
  BY DEF CloseEnds
<1>3. /\ closing \in [ClosingThreads -> {"idle", "absent", "lock", "port", "join", "wake",
                                         "done", "raised"}]
      /\ closeLock = k /\ stop /\ k # None
  BY <1>2, NoneFacts DEF SourceIInv, SourceTypeOK, CloseOK, CloserOK
<1>4. /\ closing'[k] = (IF closeFailed THEN "raised" ELSE "done")
      /\ DOMAIN closing' = ClosingThreads
      /\ \A l \in ClosingThreads \ {k} : closing'[l] = closing[l]
  BY <1>2, <1>3
<1>5. settled' \in BOOLEAN /\ outcomes \in Seq(Outcomes)
  BY <1>2 DEF SourceIInv, SourceTypeOK
<1>6. SourceTypeOK'
  <2>1. closing' \in [ClosingThreads -> {"idle", "absent", "lock", "port", "join", "wake",
                                      "done", "raised"}]
    BY <1>2, <1>3
  <2>2. outcomes' \in Seq(Outcomes)
    BY <1>2, <1>5, OutcomeFacts, AppendFacts
  <2> QED
    BY <1>1, <1>2, <1>5, <2>1, <2>2 DEF SourceIInv, SourceTypeOK
<1>7. HoldingOK'
  BY <1>1, <1>2, <1>3, <1>4, <1>5 DEF SourceIInv, HoldingOK
<1>8. CloseOK'
  <2>1. ASSUME NEW l \in ClosingThreads
        PROVE  CloserOK(l)'
    <3>1. CloserOK(l) /\ None # l
      BY NoneFacts DEF SourceIInv, CloseOK
    <3>2. CASE l = k
      BY <1>1, <1>2, <1>3, <1>4, <3>2 DEF CloserOK
    <3>3. CASE l # k
      <4>1. closing'[l] = closing[l] /\ closing[l] \notin {"port", "join", "wake"}
        BY <1>3, <1>4, <3>1, <3>3 DEF CloserOK
      <4> QED
        BY <1>1, <1>2, <1>3, <3>1, <4>1 DEF CloserOK
    <3> QED
      BY <3>2, <3>3
  <2>2. CloserOK(k)
    BY DEF SourceIInv, CloseOK
  <2> QED
    BY <1>1, <1>2, <1>3, <2>1, <2>2 DEF SourceIInv, CloseOK, CloserOK, ReaderGone
<1>9. DrainOK'
  <2>1. user \notin {"pending", "alive", "done"}
    BY <1>2, <1>3 DEF SourceIInv, DrainOK
  <2> QED
    BY <1>1, <1>2, <1>3, <1>4, <1>5, <2>1 DEF SourceIInv, DrainOK
<1>10. ChunksOK'
  <2>1. HeldChunks' = HeldChunks
    BY <1>1 DEF HeldChunks
  <2>2. CASE outcomes' = outcomes
    BY <1>1, <2>1, <2>2 DEF SourceIInv, ChunksOK
  <2>3. CASE outcomes' = Append(outcomes, SourceClosed)
    <3>1. /\ Len(outcomes') = Len(outcomes) + 1 /\ Len(outcomes) \in Nat
          /\ outcomes'[Len(outcomes) + 1].kind # "chunk"
          /\ \A i \in 1 .. Len(outcomes) : outcomes'[i] = outcomes[i]
      BY <1>5, <2>3, OutcomeFacts
    <3>2. \A i \in 1 .. Len(outcomes') : outcomes'[i].kind = "chunk" =>
            i \in 1 .. Len(outcomes) /\ outcomes[i] = outcomes'[i]
      BY <3>1
    <3>3. 1 .. Len(outcomes) \subseteq 1 .. Len(outcomes')
      BY <3>1
    <3>4. \A i \in 1 .. Len(outcomes') : outcomes'[i].kind = "chunk" =>
            outcomes'[i].n \in Len(kept) + 1 .. chunks - HeldChunks
      BY <3>2 DEF SourceIInv, ChunksOK
    <3>5. \A n \in Len(kept) + 1 .. chunks - HeldChunks :
            \E i \in 1 .. Len(outcomes') : outcomes'[i].kind = "chunk" /\ outcomes'[i].n = n
      BY <3>1, <3>3 DEF SourceIInv, ChunksOK
    <3>6. \A i, j \in 1 .. Len(outcomes') :
            i < j /\ outcomes'[i].kind = "chunk" /\ outcomes'[j].kind = "chunk"
              => outcomes'[i].n < outcomes'[j].n
      BY <3>2 DEF SourceIInv, ChunksOK
    <3> QED
      BY <1>1, <2>1, <3>4, <3>5, <3>6 DEF SourceIInv, ChunksOK
  <2> QED
    BY <1>2, <2>2, <2>3
<1> QED
  BY <1>1, <1>6, <1>7, <1>8, <1>9, <1>10, SendsApart

\* Bytes of one caller at the end of the line are its own.
LEMMA BytesAdded ==
  ASSUME SendTypeOK, NEW c \in Callers, NEW n \in Nat,
         line' = line \o [j \in 1 .. n |-> c]
  PROVE  /\ line' \in Seq(Callers) /\ Len(line') = Len(line) + n /\ Len(line) \in Nat
         /\ DOMAIN line = 1 .. Len(line) /\ DOMAIN line' = 1 .. Len(line')
         /\ \A j \in 1 .. Len(line) : line'[j] = line[j]
         /\ \A j \in Len(line) + 1 .. Len(line') : line'[j] = c
         /\ BytesOf(c)' = BytesOf(c) + n /\ BytesOf(c) \in Nat
         /\ \A s \in Callers \ {c} : BytesOf(s)' = BytesOf(s)
<1> DEFINE more == [j \in 1 .. n |-> c]
<1>1. line \in Seq(Callers) /\ more \in Seq(Callers) /\ Len(more) = n
      /\ \A j \in 1 .. n : more[j] = c
  BY DEF SendTypeOK
<1> HIDE DEF more
<1>2. line' = line \o more
  BY DEF more
<1>3. /\ line' \in Seq(Callers) /\ Len(line') = Len(line) + n /\ Len(line) \in Nat
      /\ DOMAIN line = 1 .. Len(line) /\ DOMAIN line' = 1 .. Len(line')
      /\ \A j \in 1 .. Len(line) : line'[j] = line[j]
  BY <1>1, <1>2
<1>4. ASSUME NEW j \in Len(line) + 1 .. Len(line')
      PROVE  line'[j] = c
  <2>1. j - Len(line) \in 1 .. n /\ j \in 1 .. Len(line) + Len(more) /\ j > Len(line)
    BY <1>1, <1>3, <1>4
  <2>2. line'[j] = more[j - Len(line)]
    BY <1>1, <1>2, <1>3, <2>1
  <2> QED
    BY <1>1, <2>1, <2>2
<1> DEFINE P(s) == {j \in DOMAIN line : line[j] = s}
<1>5. ASSUME NEW s \in Callers
      PROVE  IsFiniteSet(P(s)) /\ Cardinality(P(s)) \in Nat
  <2>1. P(s) \in SUBSET (1 .. Len(line)) /\ IsFiniteSet(1 .. Len(line))
    BY <1>3, FS_Interval
  <2> QED
    BY <2>1, FS_Subset, FS_CardinalityType
<1>6. BytesOf(c)' = BytesOf(c) + n /\ BytesOf(c) \in Nat
  <2> DEFINE N == Len(line) + 1 .. Len(line) + n
  <2>1. IsFiniteSet(N) /\ Cardinality(N) = n
    BY <1>3, FS_Interval
  <2>2. {j \in DOMAIN line' : line'[j] = c} = P(c) \cup N
    BY <1>3, <1>4
  <2>3. P(c) \cap N = {}
    BY <1>3
  <2> HIDE DEF N
  <2>4. Cardinality(P(c) \cup N) = Cardinality(P(c)) + n
    <3>1. Cardinality(P(c) \cup N) =
            Cardinality(P(c)) + Cardinality(N) - Cardinality(P(c) \cap N)
      BY <1>5, <2>1, FS_Union
    <3>2. Cardinality(P(c) \cap N) = 0 /\ Cardinality(P(c)) \in Nat
      BY <1>5, <2>3, FS_EmptySet
    <3> HIDE DEF P
    <3> QED
      BY <2>1, <3>1, <3>2
  <2> QED
    BY <1>5, <2>2, <2>4 DEF BytesOf
<1>7. ASSUME NEW s \in Callers \ {c}
      PROVE  BytesOf(s)' = BytesOf(s)
  <2>1. {j \in DOMAIN line' : line'[j] = s} = {j \in DOMAIN line : line[j] = s}
    BY <1>3, <1>4
  <2> QED
    BY <2>1 DEF BytesOf
<1> QED
  BY <1>3, <1>4, <1>6, <1>7

\* What the holder of the write lock adds keeps payloads apart.
LEMMA HolderAdds ==
  ASSUME SendTypeOK, Contiguous, NEW c \in Callers, SenderOK(c), holder = c,
         NEW n \in Nat, line' = line \o [j \in 1 .. n |-> c]
  PROVE  /\ Contiguous'
         /\ \A i, j \in DOMAIN line' : i < j /\ line'[i] = c => line'[j] = c
<1>1. /\ Len(line') = Len(line) + n /\ Len(line) \in Nat
      /\ DOMAIN line = 1 .. Len(line) /\ DOMAIN line' = 1 .. Len(line')
      /\ \A j \in 1 .. Len(line) : line'[j] = line[j]
      /\ \A j \in Len(line) + 1 .. Len(line') : line'[j] = c
  BY BytesAdded
<1>2. \A j \in DOMAIN line' : j \in 1 .. Len(line) \/ j \in Len(line) + 1 .. Len(line')
  BY <1>1
<1>3. ASSUME NEW i \in DOMAIN line', NEW j \in DOMAIN line', i < j, line'[i] = c
      PROVE  line'[j] = c
  <2>1. CASE j \in 1 .. Len(line)
    <3>1. i \in 1 .. Len(line)
      BY <1>1, <1>3, <2>1
    <3> QED
      BY <1>1, <1>3, <2>1, <3>1 DEF SenderOK
  <2> QED
    BY <1>1, <1>2, <2>1
<1>4. ASSUME NEW i \in DOMAIN line', NEW j \in DOMAIN line', NEW k \in DOMAIN line',
             i < j, j < k, line'[i] = line'[k]
      PROVE  line'[j] = line'[i]
  <2>1. CASE k \in 1 .. Len(line)
    <3>1. i \in 1 .. Len(line) /\ j \in 1 .. Len(line)
      BY <1>1, <1>4, <2>1
    <3> QED
      BY <1>1, <1>4, <2>1, <3>1 DEF Contiguous
  <2>2. CASE line'[i] = c
    BY <1>3, <1>4, <2>2
  <2> QED
    BY <1>1, <1>2, <1>4, <2>1, <2>2
<1> QED
  BY <1>3, <1>4 DEF Contiguous

\* A sender takes the write lock.
LEMMA SendBeginsKeeps ==
  ASSUME SourceIInv, NEW s \in Callers, SendBegins(s)
  PROVE  SourceIInv'
<1>1. UNCHANGED SourceSteps /\ UNCHANGED <<accepted, line>>
  BY DEF SendBegins, SourceSteps
<1>2. /\ sending[s] = "idle" /\ holder = None /\ holder' = s
      /\ sending' = [sending EXCEPT ![s] = "writing"]
  BY DEF SendBegins
<1>3. SendTypeOK /\ \A c \in Callers : None # c /\ SenderOK(c)
  BY NoneFacts DEF SourceIInv, SendsOK
<1>4. SendTypeOK'
  BY <1>1, <1>2, <1>3 DEF SendTypeOK
<1>5. \A c \in Callers : BytesOf(c)' = BytesOf(c)
  BY <1>1 DEF BytesOf
<1>6. ASSUME NEW c \in Callers
      PROVE  SenderOK(c)'
  <2>1. CASE c = s
    <3>1. sending'[c] = "writing"
      BY <1>2, <1>3, <2>1 DEF SendTypeOK
    <3>2. {j \in DOMAIN line : line[j] = s} = {}
      BY <1>2, <1>3 DEF SenderOK
    <3>3. BytesOf(c) = 0
      BY <2>1, <3>2, FS_EmptySet DEF BytesOf
    <3> QED
      BY <1>1, <1>2, <1>3, <1>5, <2>1, <3>1, <3>3 DEF SenderOK
  <2>2. CASE c # s
    <3>1. sending'[c] = sending[c] /\ holder' # c /\ holder # c
      BY <1>2, <1>3, <2>2 DEF SendTypeOK
    <3> QED
      BY <1>1, <1>3, <1>5, <3>1 DEF SenderOK
  <2> QED
    BY <2>1, <2>2
<1>7. Contiguous'
  BY <1>1 DEF Contiguous, SourceIInv, SendsOK
<1> QED
  BY <1>1, <1>4, <1>6, <1>7, SendsAside DEF SendsOK

\* The others do not notice what the holder writes, nor that it lets go.
LEMMA OthersKeep ==
  ASSUME SendTypeOK, NEW c \in Callers, NEW s \in Callers, c # s, SenderOK(c), holder = s,
         holder' \in {s, None}, NEW n \in Nat,
         line' = line \o [j \in 1 .. n |-> s],
         sending'[c] = sending[c], accepted'[c] = accepted[c]
  PROVE  SenderOK(c)'
<1>1. holder' # c /\ holder # c
  BY NoneFacts
<1>2. BytesOf(c)' = BytesOf(c)
  BY BytesAdded
<1>3. ASSUME \A j \in DOMAIN line : line[j] # c
      PROVE  \A j \in DOMAIN line' : line'[j] # c
  <2>1. /\ DOMAIN line = 1 .. Len(line) /\ DOMAIN line' = 1 .. Len(line') /\ Len(line) \in Nat
        /\ Len(line') = Len(line) + n
        /\ \A j \in 1 .. Len(line) : line'[j] = line[j]
        /\ \A j \in Len(line) + 1 .. Len(line') : line'[j] = s
    BY BytesAdded
  <2>2. \A j \in DOMAIN line' : j \in 1 .. Len(line) \/ j \in Len(line) + 1 .. Len(line')
    BY <2>1
  <2> QED
    BY <1>3, <2>1, <2>2
<1> QED
  BY <1>1, <1>2, <1>3 DEF SenderOK

\* A short write.
LEMMA WriteSomeKeeps ==
  ASSUME SourceIInv, NEW s \in Callers, WriteSome(s)
  PROVE  SourceIInv'
<1>1. UNCHANGED SourceSteps
  BY DEF WriteSome, SourceSteps
<1>2. SendTypeOK /\ Contiguous /\ \A c \in Callers : None # c /\ SenderOK(c)
  BY NoneFacts DEF SourceIInv, SendsOK
<1>3. holder = s /\ sending[s] = "writing" /\ accepted[s] \in 0 .. PayloadSize
      /\ PayloadSize \in Nat
  BY <1>2, PayloadAssumption DEF WriteSome, SenderOK, SendTypeOK
<1>4. PICK n \in 1 .. PayloadSize - accepted[s] :
        /\ line' = line \o [j \in 1 .. n |-> s]
        /\ accepted' = [accepted EXCEPT ![s] = @ + n]
        /\ IF accepted[s] + n = PayloadSize
           THEN sending' = [sending EXCEPT ![s] = "sent"] /\ holder' = None
           ELSE sending' = sending /\ holder' = holder
  BY DEF WriteSome
<1>5. n \in Nat /\ accepted[s] + n \in 0 .. PayloadSize
  BY <1>3, <1>4
<1>6. /\ line' \in Seq(Callers) /\ BytesOf(s)' = BytesOf(s) + n /\ BytesOf(s) \in Nat
  BY <1>2, <1>4, <1>5, BytesAdded
<1>7. /\ Contiguous'
      /\ \A i, j \in DOMAIN line' : i < j /\ line'[i] = s => line'[j] = s
  BY <1>2, <1>3, <1>4, <1>5, HolderAdds
<1>8. SendTypeOK'
  <2>1. accepted' \in [Callers -> 0 .. PayloadSize]
    BY <1>2, <1>4, <1>5 DEF SendTypeOK
  <2>2. sending' \in [Callers -> {"idle", "writing", "sent", "failed"}]
        /\ holder' \in Callers \union {None}
    BY <1>2, <1>4 DEF SendTypeOK
  <2> QED
    BY <1>6, <2>1, <2>2 DEF SendTypeOK
<1>9. ASSUME NEW c \in Callers
      PROVE  SenderOK(c)'
  <2>1. CASE c = s
    <3>1. accepted'[s] = accepted[s] + n /\ accepted[s] = BytesOf(s)
      BY <1>2, <1>3, <1>4 DEF SendTypeOK, SenderOK
    <3>2. CASE accepted[s] + n = PayloadSize
      <4>1. sending'[s] = "sent" /\ holder' = None
        BY <1>2, <1>4, <3>2 DEF SendTypeOK
      <4> QED
        BY <1>2, <1>3, <1>6, <2>1, <3>1, <3>2, <4>1 DEF SenderOK
    <3>3. CASE accepted[s] + n # PayloadSize
      <4>1. sending'[s] = "writing" /\ holder' = s
        BY <1>3, <1>4, <3>3
      <4> QED
        BY <1>3, <1>6, <1>7, <2>1, <3>1, <4>1 DEF SenderOK
    <3> QED
      BY <3>2, <3>3
  <2>2. CASE c # s
    <3>1. sending'[c] = sending[c] /\ accepted'[c] = accepted[c] /\ holder' \in {s, None}
      BY <1>2, <1>3, <1>4, <2>2 DEF SendTypeOK
    <3> QED
      BY <1>2, <1>3, <1>4, <1>5, <2>2, <3>1, OthersKeep
  <2> QED
    BY <2>1, <2>2
<1> QED
  BY <1>1, <1>7, <1>8, <1>9, SendsAside DEF SendsOK

\* A write that fails, whatever went out before.
LEMMA WriteRaisesKeeps ==
  ASSUME SourceIInv, NEW s \in Callers, WriteRaises(s)
  PROVE  SourceIInv'
<1>1. UNCHANGED SourceSteps /\ UNCHANGED accepted
  BY DEF WriteRaises, SourceSteps
<1>2. SendTypeOK /\ Contiguous /\ \A c \in Callers : None # c /\ SenderOK(c)
  BY NoneFacts DEF SourceIInv, SendsOK
<1>3. /\ holder = s /\ holder' = None /\ sending[s] = "writing"
      /\ sending' = [sending EXCEPT ![s] = "failed"]
      /\ accepted[s] \in 0 .. PayloadSize /\ PayloadSize \in Nat /\ line \in Seq(Callers)
  BY <1>2, PayloadAssumption DEF WriteRaises, SenderOK, SendTypeOK
<1>4. PICK n \in Nat : line' = line \o [j \in 1 .. n |-> s]
  <2>1. CASE port = "open"
    <3>1. PICK n \in 0 .. PayloadSize - accepted[s] : line' = line \o [j \in 1 .. n |-> s]
      BY <2>1 DEF WriteRaises
    <3>2. n \in Nat
      BY <1>3, <3>1
    <3> QED
      BY <3>1, <3>2, Zenon
  <2>2. CASE port # "open"
    <3>1. line' = line
      BY <2>2 DEF WriteRaises
    <3>2. [j \in 1 .. 0 |-> s] = << >>
      OBVIOUS
    <3>3. line \o << >> = line
      BY <1>3
    <3> QED
      BY <3>1, <3>2, <3>3
  <2> QED
    BY <2>1, <2>2
<1>5. /\ line' \in Seq(Callers) /\ BytesOf(s)' = BytesOf(s) + n /\ BytesOf(s) \in Nat
  BY <1>2, <1>4, BytesAdded
<1>6. Contiguous'
  BY <1>2, <1>3, <1>4, HolderAdds
<1>7. SendTypeOK'
  BY <1>1, <1>2, <1>3, <1>5 DEF SendTypeOK
<1>8. ASSUME NEW c \in Callers
      PROVE  SenderOK(c)'
  <2>1. CASE c = s
    <3>1. sending'[s] = "failed" /\ accepted'[s] = BytesOf(s)
      BY <1>1, <1>2, <1>3 DEF SendTypeOK, SenderOK
    <3> QED
      BY <1>2, <1>3, <1>5, <2>1, <3>1 DEF SenderOK
  <2>2. CASE c # s
    <3>1. sending'[c] = sending[c] /\ accepted'[c] = accepted[c]
      BY <1>1, <1>2, <1>3, <2>2 DEF SendTypeOK
    <3> QED
      BY <1>2, <1>3, <1>4, <2>2, <3>1, OthersKeep
  <2> QED
    BY <2>1, <2>2
<1> QED
  BY <1>1, <1>6, <1>7, <1>8, SendsAside DEF SendsOK

\* Opening a connection.
LEMMA SourceStarts ==
  BasicInit => SourceIInv
<1> SUFFICES ASSUME BasicInit PROVE SourceIInv
  OBVIOUS
<1>1. port = "open" /\ chunks = 0
  BY DEF BasicInit, OpenConnection
<1>2. /\ sending = [s \in Callers |-> "idle"]
      /\ accepted = [s \in Callers |-> 0] /\ holder = None /\ line = <<>>
  BY DEF BasicInit, NewConnection
<1>3. SourceTypeOK
  <2>1. << >> \in Seq(Outcomes) /\ << >> \in Seq(Nat)
    OBVIOUS
  <2>2. closing \in [ClosingThreads -> {"idle"}]
    BY DEF BasicInit
  <2> QED
    BY <1>1, <2>1, <2>2 DEF BasicInit, SourceTypeOK
<1>4. SendTypeOK
  BY <1>2, PayloadAssumption DEF SendTypeOK
<1>5. HoldingOK /\ DrainOK
  BY DEF BasicInit, HoldingOK, DrainOK
<1>6. CloseOK
  BY NoneFacts DEF BasicInit, CloseOK, CloserOK, ReaderGone
<1>7. ChunksOK
  BY <1>1 DEF BasicInit, ChunksOK, HeldChunks
<1>8. SendsOK
  <2>1. DOMAIN line = {} /\ \A s \in Callers : None # s
    BY <1>2, NoneFacts
  <2>2. \A s \in Callers : {j \in DOMAIN line : line[j] = s} = {}
    BY <2>1
  <2>3. \A s \in Callers : BytesOf(s) = 0
    BY <2>2, FS_EmptySet DEF BytesOf
  <2> QED
    BY <1>2, <2>1, <2>3 DEF SendsOK, SenderOK, Contiguous
<1> QED
  BY <1>3, <1>4, <1>5, <1>6, <1>7, <1>8 DEF SourceIInv

\* Every step of the Basic source.
LEMMA SourceKeeps ==
  ASSUME SourceIInv, BasicNext
  PROVE  SourceIInv'
<1>1. CASE ThreadStep
  BY <1>1, ThreadReadsKeeps, ReadRaisesKeeps, ThreadPutsKeeps DEF ThreadStep
<1>2. CASE PortLost
  BY <1>2, PortLostKeeps
<1>3. CASE UserStep
  BY <1>3, NextEventKeeps, StartReaderKeeps, GetOutcomeKeeps, RecordsKeeps, SettlesKeeps,
     HasPendingKeeps DEF UserStep
<1>4. ASSUME NEW k \in ClosingThreads, CloseSource(k) \/ CloseStep(k)
      PROVE  SourceIInv'
  BY <1>4, CloseSourceKeeps, CloseLockedKeeps, ClosePortKeeps, JoinReaderKeeps, CloseEndsKeeps
     DEF CloseStep
<1>5. ASSUME NEW s \in Callers, SendStep(s)
      PROVE  SourceIInv'
  BY <1>5, SendBeginsKeeps, WriteSomeKeeps, WriteRaisesKeeps DEF SendStep
<1> QED
  BY <1>1, <1>2, <1>3, <1>4, <1>5 DEF BasicNext

\* The steps of the other backend are none of this one.
LEMMA SourceRests ==
  ASSUME SourceIInv, UNCHANGED basicVars
  PROVE  SourceIInv'
<1>1. UNCHANGED SourceSteps /\ UNCHANGED <<sending, accepted, holder, line>>
  BY DEF basicVars, SourceSteps, sends
<1>2. SendTypeOK'
  BY <1>1 DEF SourceIInv, SendTypeOK
<1>3. SendsOK'
  BY <1>1 DEF SourceIInv, SendsOK, SenderOK, Contiguous, BytesOf
<1> QED
  BY <1>1, <1>2, <1>3, SendsAside

(***************************************************************************)
(* The Enhanced link                                                       *)
(***************************************************************************)
\* A part of the invariant whose variables do not change.
LEMMA Untouched ==
  /\ LinkTypeOK /\ UNCHANGED <<reader, resource, waiter, terminal, events, awaiting, pending,
          writer, call, opener, loop>>
        => LinkTypeOK'
  /\ ValuesOK /\ UNCHANGED <<inbox, executed, sent, wire, batch, cancelled, hostClosing,
          hostClosed, closeError, recClosing, sourceClosed, events, awaiting, normalized, taken,
          drained, answer, writing, result, got, closer, waitFor, consumer, cleanup>>
        => ValuesOK'
  /\ ReaderOK /\ UNCHANGED <<reader, awaiting, batch, resource>>
        => ReaderOK'
  /\ OpenOK /\ UNCHANGED <<opener, resource, reader, cleanup, call, consumer, closer,
          hostClosing, hostClosed>>
        => OpenOK'
  /\ HostOK /\ UNCHANGED <<hostClosed, loop, closer, hostClosing, call, waitFor, consumer>>
        => HostOK'
  /\ DrainedOK /\ UNCHANGED <<hostClosed, closer, drained, closeError, reader, resource,
          opener, events, awaiting, sourceClosed, consumer, taken, normalized>>
        => DrainedOK'
  /\ RequestsOK /\ UNCHANGED <<pending, call, writing, answer, writer, terminal, result,
          cancelled>>
        => RequestsOK'
  /\ AnswersOK /\ UNCHANGED <<writing, inbox, executed, call, result, answer, got, wire,
          batch>>
        => AnswersOK'
  /\ TransitOK /\ UNCHANGED <<terminal, writing, pending, answer, inbox, wire, batch>>
        => TransitOK'
<1>1. ASSUME LinkTypeOK, UNCHANGED <<reader, resource, waiter, terminal, events, awaiting, pending, writer,
                   call, opener, loop>>
      PROVE  LinkTypeOK'
  BY <1>1 DEF LinkTypeOK
<1>2. ASSUME ValuesOK, UNCHANGED <<inbox, executed, sent, wire, batch, cancelled, hostClosing, hostClosed,
                   closeError, recClosing, sourceClosed, events, awaiting, normalized, taken, drained,
                   answer, writing, result, got, closer, waitFor, consumer, cleanup>>
      PROVE  ValuesOK'
  BY <1>2 DEF ValuesOK
<1>3. ASSUME ReaderOK, UNCHANGED <<reader, awaiting, batch, resource>>
      PROVE  ReaderOK'
  BY <1>3 DEF ReaderOK
<1>4. ASSUME OpenOK, UNCHANGED <<opener, resource, reader, cleanup, call, consumer, closer, hostClosing,
                   hostClosed>>
      PROVE  OpenOK'
  BY <1>4 DEF OpenOK
<1>5. ASSUME HostOK, UNCHANGED <<hostClosed, loop, closer, hostClosing, call, waitFor, consumer>>
      PROVE  HostOK'
  BY <1>5 DEF HostOK, Active
<1>6. ASSUME DrainedOK, UNCHANGED <<hostClosed, closer, drained, closeError, reader, resource, opener,
                   events, awaiting, sourceClosed, consumer, taken, normalized>>
      PROVE  DrainedOK'
  BY <1>6 DEF DrainedOK, Drained, Active
<1>7. ASSUME RequestsOK, UNCHANGED <<pending, call, writing, answer, writer, terminal, result, cancelled>>
      PROVE  RequestsOK'
  BY <1>7 DEF RequestsOK, RequestOK, Holding
<1>8. ASSUME AnswersOK, UNCHANGED <<writing, inbox, executed, call, result, answer, got, wire, batch>>
      PROVE  AnswersOK'
  BY <1>8 DEF AnswersOK, AnswerOK, Answered, Fresh
<1>9. ASSUME TransitOK, UNCHANGED <<terminal, writing, pending, answer, inbox, wire, batch>>
      PROVE  TransitOK'
  BY <1>9 DEF TransitOK, Transit, Under, NoneIn, OneIn
<1> QED
  BY <1>1, <1>2, <1>3, <1>4, <1>5, <1>6, <1>7, <1>8, <1>9

\* What a message is, by its kind.
LEMMA MessageFacts ==
  /\ Hello \in Messages /\ ~IsResponse(Hello) /\ Malformed \in Messages /\ ~IsResponse(Malformed)
  /\ \A n \in Nat : Evidence(n) \in Messages /\ ~IsResponse(Evidence(n))
  /\ \A c \in Callers, v \in Verdicts :
        /\ Response(c, v) \in Messages /\ Response(c, v) \in Answers
        /\ IsResponse(Response(c, v))
        /\ Response(c, v).cmd = c /\ Response(c, v).verdict = v /\ Response(c, v) # None
  /\ \A m \in Messages : IsResponse(m) => m \in Answers /\ m # None /\ m.cmd \in Callers
                                          /\ m.verdict \in Verdicts
  /\ \A m \in Messages : m.kind = "event" => m.n \in Nat
  /\ \A x \in Errors \union {"cancelled"} :
        Failure(x) \in Answers /\ Failure(x) # None /\ ~IsResponse(Failure(x))
<1>1. Hello \in Messages /\ ~IsResponse(Hello) /\ Malformed \in Messages /\ ~IsResponse(Malformed)
  BY DEF Messages, IsResponse, Hello, Malformed
<1>2. \A n \in Nat : Evidence(n) \in Messages /\ ~IsResponse(Evidence(n)) /\ Evidence(n).n = n
  BY DEF Messages, IsResponse, Evidence
<1>3. \A c \in Callers, v \in Verdicts :
        /\ Response(c, v) \in Messages /\ Response(c, v) \in Answers
        /\ IsResponse(Response(c, v))
        /\ Response(c, v).cmd = c /\ Response(c, v).verdict = v /\ Response(c, v) # None
  <2>1. \A c \in Callers, v \in Verdicts :
          Response(c, v).kind = "response" /\ Response(c, v).cmd = c /\ Response(c, v).verdict = v
    BY DEF Response
  <2>2. ASSUME NEW c \in Callers, NEW v \in Verdicts
        PROVE  Response(c, v) \in {Response(d, w) : d \in Callers, w \in Verdicts}
    OBVIOUS
  <2>3. ASSUME NEW c \in Callers, NEW v \in Verdicts
        PROVE  Response(c, v) \in Messages /\ Response(c, v) \in Answers
    <3> DEFINE R == {Response(d, w) : d \in Callers, w \in Verdicts}
    <3>1. Response(c, v) \in R
      BY <2>2
    <3>2. R \subseteq Messages /\ R \subseteq Answers
      BY DEF Messages, Answers
    <3> QED
      BY <3>1, <3>2
  <2> QED
    BY <2>1, <2>3, AnswersAssumption DEF IsResponse
<1>4. \A x \in Errors \union {"cancelled"} :
        Failure(x) \in Answers /\ Failure(x) # None /\ ~IsResponse(Failure(x))
  <2>1. ASSUME NEW x \in Errors \union {"cancelled"}
        PROVE  Failure(x) \in Answers /\ Failure(x) # None
    BY AnswersAssumption DEF Answers
  <2> QED
    BY <2>1 DEF Failure, IsResponse
<1>5. ASSUME NEW m \in Messages
      PROVE  /\ IsResponse(m) => m \in Answers /\ m # None /\ m.cmd \in Callers
                                 /\ m.verdict \in Verdicts
             /\ m.kind = "event" => m.n \in Nat
  <2>1. CASE m \in {Hello, Malformed}
    BY <2>1 DEF Hello, Malformed, IsResponse
  <2>2. CASE m \in {Evidence(n) : n \in Nat}
    BY <2>2, <1>2
  <2>3. CASE m \in {Response(c, v) : c \in Callers, v \in Verdicts}
    <3>1. PICK c \in Callers, v \in Verdicts : m = Response(c, v)
      BY <2>3
    <3>2. m.kind = "response"
      BY <3>1 DEF Response
    <3> QED
      BY <1>3, <3>1, <3>2
  <2> QED
    BY <2>1, <2>2, <2>3 DEF Messages
<1> QED
  BY <1>1, <1>2, <1>3, <1>4, <1>5

\* The responses in a sequence that grows or shrinks.
LEMMA AppendResponses ==
  ASSUME NEW q \in Seq(Messages), NEW m \in Messages
  PROVE  /\ Append(q, m) \in Seq(Messages)
         /\ ~IsResponse(m) => /\ Answered(q) => Answered(Append(q, m))
                              /\ NoneIn(q) => NoneIn(Append(q, m))
                              /\ OneIn(q) => OneIn(Append(q, m))
         /\ NoneIn(q) /\ (IsResponse(m) => Under(m.cmd)) => OneIn(Append(q, m))
         /\ Answered(q) /\ (IsResponse(m) => <<m.cmd, m.verdict>> \in executed)
              => Answered(Append(q, m))
<1>1. /\ Append(q, m) \in Seq(Messages) /\ Len(Append(q, m)) = Len(q) + 1
      /\ Append(q, m)[Len(q) + 1] = m /\ \A i \in 1 .. Len(q) : Append(q, m)[i] = q[i]
      /\ Len(q) \in Nat
  BY AppendFacts
<1>2. \A i \in 1 .. Len(Append(q, m)) : i \in 1 .. Len(q) \/ i = Len(q) + 1
  BY <1>1
<1> HIDE DEF IsResponse
<1> QED
  BY <1>1, <1>2 DEF Answered, NoneIn, OneIn

LEMMA TailResponses ==
  ASSUME NEW q \in Seq(Messages), q # << >>
  PROVE  /\ Tail(q) \in Seq(Messages) /\ q[1] \in Messages
         /\ Answered(q) => /\ Answered(Tail(q))
                           /\ IsResponse(q[1]) => <<q[1].cmd, q[1].verdict>> \in executed
         /\ NoneIn(q) => NoneIn(Tail(q)) /\ ~IsResponse(q[1])
         /\ OneIn(q) => /\ OneIn(Tail(q))
                        /\ IsResponse(q[1]) => NoneIn(Tail(q)) /\ Under(q[1].cmd)
<1>1. /\ Tail(q) \in Seq(Messages) /\ q[1] \in Messages /\ Len(q) \in Nat /\ Len(q) > 0
      /\ \A i \in 1 .. Len(Tail(q)) : i + 1 \in 1 .. Len(q) /\ Tail(q)[i] = q[i + 1]
  BY TailFacts
<1>2. 1 \in 1 .. Len(q) /\ \A i \in 1 .. Len(Tail(q)) : i + 1 # 1
  BY <1>1
<1>3. ASSUME NEW i \in 1 .. Len(Tail(q)), NEW j \in 1 .. Len(Tail(q)), i + 1 = j + 1
      PROVE  i = j
  BY <1>3
<1>4. Answered(q) => /\ Answered(Tail(q))
                     /\ IsResponse(q[1]) => <<q[1].cmd, q[1].verdict>> \in executed
  BY <1>1, <1>2 DEF Answered
<1>5. NoneIn(q) => NoneIn(Tail(q)) /\ ~IsResponse(q[1])
  BY <1>1, <1>2 DEF NoneIn
<1>6. ASSUME OneIn(q)
      PROVE  /\ OneIn(Tail(q))
             /\ IsResponse(q[1]) => NoneIn(Tail(q)) /\ Under(q[1].cmd)
  BY <1>1, <1>2, <1>3, <1>6 DEF OneIn, NoneIn
<1> QED
  BY <1>1, <1>4, <1>5, <1>6

LEMMA EmptyResponses ==
  << >> \in Seq(Messages) /\ NoneIn(<< >>) /\ OneIn(<< >>) /\ Answered(<< >>)
<1> QED
  BY DEF NoneIn, OneIn, Answered

\* No response, no response with a doubtful command.
LEMMA NoneIsOne ==
  ASSUME NEW q, NoneIn(q)
  PROVE  OneIn(q)
<1> QED
  BY DEF NoneIn, OneIn

\* A frame of the helper that is not a response.
LEMMA FrameSent ==
  ASSUME LinkIInv, NEW m \in Messages, ~IsResponse(m), wire' = Append(wire, m),
         sent' \in Nat,
         UNCHANGED <<reader, resource, waiter, terminal, events, awaiting, pending, writer,
                   call, opener, loop, inbox, executed, batch, cancelled, hostClosing, hostClosed,
                   closeError, recClosing, sourceClosed, normalized, taken, drained, answer, writing,
                   result, got, closer, waitFor, consumer, cleanup>>
  PROVE  LinkIInv'
<1>1. wire \in Seq(Messages) /\ wire' \in Seq(Messages)
  BY AppendResponses DEF LinkIInv, ValuesOK
<1>2. ReaderOK' /\ OpenOK' /\ HostOK' /\ DrainedOK' /\ RequestsOK' /\ LinkTypeOK'
  BY Untouched DEF LinkIInv
<1>3. ValuesOK'
  BY <1>1 DEF LinkIInv, ValuesOK
<1>4. Answered(wire) => Answered(wire)'
  BY <1>1, AppendResponses DEF Answered
<1>5. AnswersOK'
  BY <1>4 DEF LinkIInv, AnswersOK, AnswerOK, Answered, Fresh
<1>6. (NoneIn(wire) => NoneIn(wire)') /\ (OneIn(wire) => OneIn(wire)')
  BY <1>1, AppendResponses DEF NoneIn, OneIn, Under
<1>7. (NoneIn(batch) => NoneIn(batch)') /\ (OneIn(batch) => OneIn(batch)')
  BY DEF NoneIn, OneIn, Under
<1>8. TransitOK'
  BY <1>6, <1>7 DEF LinkIInv, TransitOK, Transit, Under
<1> QED
  BY <1>2, <1>3, <1>5, <1>8 DEF LinkIInv

LEMMA HelperGreetsKeeps ==
  ASSUME LinkIInv, HelperStep, HelperGreets
  PROVE  LinkIInv'
<1>1. wire' = Append(wire, Hello) /\ Hello \in Messages /\ ~IsResponse(Hello) /\ sent' = sent
      /\ sent \in Nat
  BY MessageFacts DEF HelperGreets, LinkIInv, ValuesOK
<1>2. UNCHANGED <<reader, resource, waiter, terminal, events, awaiting, pending, writer,
                 call, opener, loop, inbox, executed, batch, cancelled, hostClosing, hostClosed,
                 closeError, recClosing, sourceClosed, normalized, taken, drained, answer, writing,
                 result, got, closer, waitFor, consumer, cleanup>>
  BY DEF HelperStep, HelperGreets, helper, reading, hello, evidence, request, host,
     recorder, OffRequest, OffOpen, OffClose, OffConsume
<1> QED
  BY <1>1, <1>2, FrameSent

LEMMA HelperObservesKeeps ==
  ASSUME LinkIInv, HelperStep, HelperObserves
  PROVE  LinkIInv'
<1>1. sent \in Nat /\ sent' = sent + 1 /\ wire' = Append(wire, Evidence(sent + 1))
  BY DEF HelperObserves, HelperSays, LinkIInv, ValuesOK
<1>2. UNCHANGED <<reader, resource, waiter, terminal, events, awaiting, pending, writer,
                 call, opener, loop, inbox, executed, batch, cancelled, hostClosing, hostClosed,
                 closeError, recClosing, sourceClosed, normalized, taken, drained, answer, writing,
                 result, got, closer, waitFor, consumer, cleanup>>
  BY DEF HelperStep, HelperObserves, HelperSays, helper, reading, hello, evidence, request,
     host, recorder, OffRequest, OffOpen, OffClose, OffConsume
<1>3. Evidence(sent + 1) \in Messages /\ ~IsResponse(Evidence(sent + 1)) /\ sent' \in Nat
  BY <1>1, MessageFacts
<1> QED
  BY <1>1, <1>2, <1>3, FrameSent

LEMMA HelperMisbehavesKeeps ==
  ASSUME LinkIInv, HelperStep, HelperMisbehaves
  PROVE  LinkIInv'
<1>1. UNCHANGED <<reader, resource, waiter, terminal, events, awaiting, pending, writer,
                 call, opener, loop, inbox, executed, batch, cancelled, hostClosing, hostClosed,
                 closeError, recClosing, sourceClosed, normalized, taken, drained, answer, writing,
                 result, got, closer, waitFor, consumer, cleanup>>
  BY DEF HelperStep, HelperMisbehaves, HelperSays, helper, reading, hello, evidence,
     request, host, recorder, OffRequest, OffOpen, OffClose, OffConsume
<1>2. sent' = sent /\ sent \in Nat
  BY DEF HelperMisbehaves, LinkIInv, ValuesOK
<1>3. wire' = Append(wire, Hello) \/ wire' = Append(wire, Malformed) \/ wire' = wire
  BY DEF HelperMisbehaves, HelperSays
<1>4. CASE wire' = Append(wire, Hello)
  BY <1>1, <1>2, <1>4, FrameSent, MessageFacts
<1>5. CASE wire' = Append(wire, Malformed)
  BY <1>1, <1>2, <1>5, FrameSent, MessageFacts
<1>6. CASE wire' = wire
  BY <1>1, <1>2, <1>6, Untouched DEF LinkIInv
<1> QED
  BY <1>3, <1>4, <1>5, <1>6

\* The helper answers the oldest command, however late.
LEMMA HelperAnswersKeeps ==
  ASSUME LinkIInv, HelperStep, HelperAnswers
  PROVE  LinkIInv'
<1>1. UNCHANGED <<reader, resource, waiter, terminal, events, awaiting, pending, writer,
                 call, opener, loop, sent, batch, cancelled, hostClosing, hostClosed, closeError,
                 recClosing, sourceClosed, normalized, taken, drained, answer, writing, result, got,
                 closer, waitFor, consumer, cleanup>>
  BY DEF HelperStep, HelperAnswers, HelperSays, helper, reading, hello, evidence, request,
     host, recorder, OffRequest, OffOpen, OffClose, OffConsume
<1>2. inbox # << >> /\ inbox' = Tail(inbox) /\ inbox \in Seq(Callers) /\ wire \in Seq(Messages)
      /\ executed \subseteq Callers \X Verdicts
  BY DEF HelperAnswers, LinkIInv, ValuesOK
<1>3. PICK v \in Verdicts : /\ wire' = Append(wire, Response(Head(inbox), v))
                            /\ executed' = executed \union {<<Head(inbox), v>>}
  BY DEF HelperAnswers, HelperSays
<1>4. /\ inbox' \in Seq(Callers) /\ Head(inbox) = inbox[1] /\ inbox[1] \in Callers
      /\ Len(inbox) \in Nat /\ Len(inbox) > 0 /\ Len(inbox') = Len(inbox) - 1
      /\ \A j \in 1 .. Len(inbox') : j + 1 \in 1 .. Len(inbox) /\ inbox'[j] = inbox[j + 1]
  BY <1>2, TailFacts
<1>5. /\ Response(inbox[1], v) \in Messages /\ Response(inbox[1], v).cmd = inbox[1]
      /\ Response(inbox[1], v).verdict = v
  BY <1>4, MessageFacts
<1>6. wire' = Append(wire, Response(inbox[1], v)) /\ executed' = executed \union {<<inbox[1], v>>}
  BY <1>3, <1>4
<1>7. LinkTypeOK' /\ ReaderOK' /\ OpenOK' /\ HostOK' /\ DrainedOK' /\ RequestsOK'
  BY <1>1, Untouched DEF LinkIInv
<1>8. ValuesOK'
  <2>1. wire' \in Seq(Messages)
    BY <1>2, <1>5, <1>6, AppendResponses
  <2> QED
    BY <1>1, <1>2, <1>4, <1>6, <2>1 DEF LinkIInv, ValuesOK
<1>9. AnswersOK'
  <2>1. \A c \in Callers : Fresh(c) => Fresh(c)'
    <3>1. ASSUME NEW c \in Callers, Fresh(c)
          PROVE  Fresh(c)'
      <4>1. inbox[1] # c /\ \A j \in 1 .. Len(inbox') : inbox'[j] # c
        BY <1>4, <3>1 DEF Fresh
      <4> QED
        BY <1>6, <3>1, <4>1 DEF Fresh
    <3> QED
      BY <3>1
  <2>2. executed \subseteq executed'
    BY <1>6
  <2>3. ASSUME NEW c \in Callers
        PROVE  AnswerOK(c)'
    BY <1>1, <2>1, <2>2 DEF LinkIInv, AnswersOK, AnswerOK
  <2>4. Answered(batch)'
    BY <1>1, <2>2 DEF LinkIInv, AnswersOK, Answered
  <2>5. Answered(wire)'
    <3> DEFINE m == Response(inbox[1], v)
    <3>1. /\ Len(wire') = Len(wire) + 1 /\ Len(wire) \in Nat /\ wire'[Len(wire) + 1] = m
          /\ \A i \in 1 .. Len(wire) : wire'[i] = wire[i]
      BY <1>2, <1>5, <1>6, AppendFacts
    <3>2. <<m.cmd, m.verdict>> \in executed'
      BY <1>5, <1>6
    <3> HIDE DEF m
    <3>3. \A i \in 1 .. Len(wire') : i \in 1 .. Len(wire) \/ i = Len(wire) + 1
      BY <3>1
    <3>4. \A i \in 1 .. Len(wire) :
            IsResponse(wire[i]) => <<wire[i].cmd, wire[i].verdict>> \in executed'
      BY <2>2 DEF LinkIInv, AnswersOK, Answered
    <3> QED
      BY <3>1, <3>2, <3>3, <3>4 DEF Answered
  <2> QED
    BY <2>3, <2>4, <2>5 DEF AnswersOK
<1>10. TransitOK'
  <2> SUFFICES ASSUME terminal' = None PROVE Transit'
    BY DEF TransitOK
  <2>1. Transit /\ Len(inbox) = 1 /\ Under(inbox[1]) /\ NoneIn(wire) /\ NoneIn(batch)
    BY <1>1, <1>2 DEF LinkIInv, TransitOK, Transit
  <2>2. inbox' = << >>
    BY <1>4, <2>1
  <2>3. OneIn(Append(wire, Response(inbox[1], v)))
    BY <1>2, <1>5, <2>1, AppendResponses
  <2>4. OneIn(wire)'
    BY <1>1, <1>6, <2>3 DEF OneIn, Under
  <2>5. NoneIn(batch)' /\ OneIn(batch)'
    BY <1>1, <2>1 DEF NoneIn, OneIn
  <2>6. \A c \in Callers : writing[c] # "started"
    BY <1>2, <2>1 DEF Transit
  <2> QED
    BY <1>1, <2>2, <2>4, <2>5, <2>6 DEF Transit
<1> QED
  BY <1>7, <1>8, <1>9, <1>10 DEF LinkIInv

\* The first error: whoever waits is told, and no write is awaited any more.
Ends(e) == SetTerminal(e, TRUE) \/ SetTerminal(e, FALSE)

EndTold ==
    /\ terminal' \in Errors /\ terminal' # None /\ writer' = None
    /\ waiter' \in Errors \union {None, "pending", "ok"}
    /\ answer' \in [Callers -> Answers]
    /\ \A c \in Callers :
         answer'[c] = answer[c] \/ (pending = c /\ answer'[c] # None /\ ~IsResponse(answer'[c]))
    /\ pending # None => answer'[pending] # None

LEMMA EndTells ==
  ASSUME LinkIInv, NEW e \in Errors, Ends(e)
  PROVE  EndTold
<1>1. /\ terminal \in Errors \union {None} /\ waiter \in Errors \union {None, "pending", "ok"}
      /\ answer \in [Callers -> Answers] /\ pending \in Callers \union {None}
      /\ terminal # None => writer = None /\ (pending # None => answer[pending] # None)
  BY DEF LinkIInv, LinkTypeOK, ValuesOK, RequestsOK
<1>2. e # None
  BY NoneFacts
<1>3. CASE terminal # None
  <2>1. UNCHANGED <<terminal, waiter, answer, writer>>
    BY <1>3 DEF Ends, SetTerminal
  <2> QED
    BY <1>1, <1>3, <2>1 DEF EndTold
<1>4. CASE terminal = None
  <2>1. /\ terminal' = e /\ writer' = None
        /\ waiter' = IF waiter = "pending" THEN e ELSE waiter
    BY <1>4 DEF Ends, SetTerminal
  <2>2. PICK x \in Errors \union {"cancelled"} :
           answer' = IF pending # None /\ answer[pending] = None
                     THEN [answer EXCEPT ![pending] = Failure(x)] ELSE answer
    BY <1>4 DEF Ends, SetTerminal
  <2>3. Failure(x) \in Answers /\ Failure(x) # None /\ ~IsResponse(Failure(x))
    BY MessageFacts
  <2>4. CASE pending # None /\ answer[pending] = None
    <3>1. /\ answer' = [answer EXCEPT ![pending] = Failure(x)] /\ pending \in Callers
      BY <1>1, <2>2, <2>4
    <3>2. /\ answer' \in [Callers -> Answers] /\ answer'[pending] = Failure(x)
          /\ \A c \in Callers : c # pending => answer'[c] = answer[c]
      BY <1>1, <2>3, <3>1
    <3> QED
      BY <1>1, <1>2, <2>1, <2>3, <3>1, <3>2 DEF EndTold
  <2>5. CASE ~(pending # None /\ answer[pending] = None)
    <3>1. answer' = answer
      BY <2>2, <2>5
    <3> QED
      BY <1>1, <1>2, <2>1, <2>5, <3>1 DEF EndTold
  <2> QED
    BY <2>4, <2>5
<1> QED
  BY <1>3, <1>4

\* What is known of the requests after the end.
LEMMA AfterEnd ==
  ASSUME LinkIInv, EndTold, UNCHANGED <<pending, result, got, inbox, executed>>,
         \A c \in Callers :
            \/ call'[c] = call[c]
            \/ call[c] \in Holding /\ call'[c] = "failing",
         \A c \in Callers : writing'[c] = writing[c] \/ writing'[c] = "none",
         Answered(wire)', Answered(batch)'
  PROVE  RequestsOK' /\ AnswersOK' /\ TransitOK'
<1>1. terminal' # None /\ writer' = None
  BY DEF EndTold
<1>2. ASSUME NEW c \in Callers
      PROVE  RequestOK(c)' /\ AnswerOK(c)'
  <2>1. RequestOK(c) /\ AnswerOK(c) /\ c # None
    BY NoneFacts DEF LinkIInv, RequestsOK, AnswersOK
  <2>2. Fresh(c)' <=> Fresh(c)
    BY DEF Fresh
  <2>3. answer'[c] = answer[c] \/ (pending = c /\ answer'[c] # None /\ ~IsResponse(answer'[c]))
    BY DEF EndTold
  <2>4. /\ call'[c] = call[c] \/ (call[c] \in Holding /\ call'[c] = "failing")
        /\ writing'[c] = writing[c] \/ writing'[c] = "none"
    OBVIOUS
  <2>5. RequestOK(c)'
    BY <1>1, <2>1, <2>3, <2>4 DEF RequestOK, Holding
  <2>6. AnswerOK(c)'
    BY <1>1, <2>1, <2>2, <2>3, <2>4 DEF AnswerOK, Holding
  <2> QED
    BY <2>5, <2>6
<1>3. pending' # None => answer'[pending'] # None
  BY DEF EndTold
<1> QED
  BY <1>1, <1>2, <1>3 DEF RequestsOK, AnswersOK, TransitOK

\* Every non-empty set of places in a sequence has a first.
LEMMA FirstPlace ==
  ASSUME NEW n \in Nat, NEW S \in SUBSET (1 .. n), S # {}
  PROVE  Min(S) \in S
<1>1. IsWellFoundedOn(OpToRel(<, Nat), Nat)
  BY NatLessThanWellFounded, Zenon
<1>2. S \subseteq Nat
  OBVIOUS
<1>3. PICK x \in S : \A y \in S : ~(<<y, x>> \in OpToRel(<, Nat))
  BY <1>1, <1>2, WFMin, Zenon
<1>4. \A y \in S : <<y, x>> \in Nat \X Nat
  BY <1>2
<1>5. \A y \in S : ~(y < x)
  BY <1>3, <1>4 DEF OpToRel
<1>6. \A y \in S : x <= y
  BY <1>2, <1>5
<1> QED
  BY <1>6 DEF Min

\* The parser returns the frames before the first malformed one.
LEMMA FeedIsPrefix ==
  ASSUME NEW q \in Seq(Messages)
  PROVE  /\ Feed(q) \in Seq(Messages) /\ Len(Feed(q)) <= Len(q)
         /\ \A j \in 1 .. Len(Feed(q)) : Feed(q)[j] = q[j]
<1> DEFINE I == {i \in 1 .. Len(q) : q[i] = Malformed}
<1>1. Len(q) \in Nat /\ I \in SUBSET (1 .. Len(q))
  OBVIOUS
<1>2. CASE I = {}
  <2>1. Feed(q) = q
    BY <1>2 DEF Feed, SelectInSeq
  <2> QED
    BY <2>1
<1>3. CASE I # {}
  <2>1. Min(I) \in 1 .. Len(q)
    BY <1>1, <1>3, FirstPlace
  <2> DEFINE bad == Min(I)
  <2>2. SelectInSeq(q, LAMBDA m : m = Malformed) = bad
    BY <1>3 DEF SelectInSeq
  <2> HIDE DEF bad, I
  <2>3. bad # 0 /\ bad \in 1 .. Len(q)
    BY <2>1 DEF bad
  <2>4. Feed(q) = SubSeq(q, 1, bad - 1)
    BY <2>2, <2>3 DEF Feed
  <2>5. /\ Len(SubSeq(q, 1, bad - 1)) = bad - 1 /\ SubSeq(q, 1, bad - 1) \in Seq(Messages)
        /\ \A j \in 1 .. bad - 1 : SubSeq(q, 1, bad - 1)[j] = q[j]
    BY <1>1, <2>3
  <2> QED
    BY <1>1, <2>3, <2>4, <2>5
<1> QED
  BY <1>2, <1>3

\* What is read from the pipe, and what stays in it.
LEMMA ReadSplits ==
  ASSUME wire \in Seq(Messages), NEW n \in 1 .. Len(wire)
  PROVE  LET M == Feed(SubSeq(wire, 1, n))
             W == SubSeq(wire, n + 1, Len(wire))
         IN  /\ M \in Seq(Messages) /\ W \in Seq(Messages)
             /\ Answered(wire) => Answered(M) /\ Answered(W)
             /\ NoneIn(wire) => NoneIn(M) /\ NoneIn(W)
             /\ OneIn(wire) => OneIn(M) /\ OneIn(W) /\ (NoneIn(M) \/ NoneIn(W))
<1> DEFINE C == SubSeq(wire, 1, n)
           M == Feed(C)
           W == SubSeq(wire, n + 1, Len(wire))
<1>1. Len(wire) \in Nat /\ n \in Nat /\ n <= Len(wire)
  OBVIOUS
<1>2. C \in Seq(Messages) /\ Len(C) = n /\ \A j \in 1 .. n : C[j] = wire[j]
  BY <1>1
<1>3. M \in Seq(Messages) /\ Len(M) <= n /\ \A j \in 1 .. Len(M) : M[j] = C[j]
  BY <1>2, FeedIsPrefix
<1>4. \A j \in 1 .. Len(M) : j \in 1 .. Len(wire) /\ j <= n /\ M[j] = wire[j]
  <2>1. ASSUME NEW j \in 1 .. Len(M)
        PROVE  j \in 1 .. n /\ j \in 1 .. Len(wire)
    <3>1. Len(M) \in Nat
      BY <1>3
    <3> HIDE DEF M
    <3> QED
      BY <1>1, <1>3, <2>1, <3>1
  <2> QED
    BY <1>2, <1>3, <2>1
<1>5. W \in Seq(Messages) /\ Len(W) = Len(wire) - n
      /\ \A j \in 1 .. Len(wire) - n : W[j] = wire[n + j]
  BY <1>1
<1>6. \A j \in 1 .. Len(W) : n + j \in 1 .. Len(wire) /\ n + j > n /\ W[j] = wire[n + j]
  BY <1>1, <1>5
<1> HIDE DEF C, M, W
<1>7. Answered(wire) => Answered(M) /\ Answered(W)
  BY <1>4, <1>6 DEF Answered
<1>8. NoneIn(wire) => NoneIn(M) /\ NoneIn(W)
  BY <1>4, <1>6 DEF NoneIn
<1>9. ASSUME OneIn(wire)
      PROVE  OneIn(M) /\ OneIn(W) /\ (NoneIn(M) \/ NoneIn(W))
  <2>1. OneIn(M)
    BY <1>4, <1>9 DEF OneIn
  <2>2. OneIn(W)
    <3>1. ASSUME NEW i \in 1 .. Len(W), NEW j \in 1 .. Len(W), n + i = n + j
          PROVE  i = j
      BY <1>1, <3>1
    <3>2. \A i, j \in 1 .. Len(W) : IsResponse(W[i]) /\ IsResponse(W[j]) => i = j
      BY <1>6, <1>9, <3>1 DEF OneIn
    <3>3. \A j \in 1 .. Len(W) : IsResponse(W[j]) => Under(W[j].cmd)
      BY <1>6, <1>9 DEF OneIn
    <3> QED
      BY <3>2, <3>3 DEF OneIn
  <2>3. ASSUME NEW i \in 1 .. Len(M), NEW j \in 1 .. Len(W), IsResponse(M[i]), IsResponse(W[j])
        PROVE  FALSE
    <3>1. i = n + j
      BY <1>4, <1>6, <1>9, <2>3 DEF OneIn
    <3> QED
      BY <1>1, <1>4, <1>6, <3>1
  <2> QED
    BY <2>1, <2>2, <2>3 DEF NoneIn
<1> QED
  BY <1>3, <1>5, <1>7, <1>8, <1>9 DEF C, M, W

\* The reader gives up: the connection ends here if it has not ended before.
LEMMA ReaderGivesUp ==
  ASSUME LinkIInv, EndTold, reader \in {"reading", "dispatching"},
         reader' = "closing", batch' = << >>, resource' = "closing",
         wire' \in Seq(Messages), Answered(wire)',
         UNCHANGED <<events, awaiting, pending, call, opener, loop, inbox, executed, sent,
                   cancelled, hostClosing, hostClosed, closeError, recClosing, sourceClosed,
                   normalized, taken, drained, writing, result, got, closer, waitFor, consumer,
                   cleanup>>
  PROVE  LinkIInv'
<1>1. awaiting = << >> /\ resource = "open"
  BY DEF LinkIInv, ReaderOK
<1>2. LinkTypeOK'
  BY DEF LinkIInv, LinkTypeOK, EndTold
<1>3. ValuesOK'
  BY EmptyResponses DEF LinkIInv, ValuesOK, EndTold
<1>4. ReaderOK' /\ OpenOK'
  BY <1>1 DEF LinkIInv, ReaderOK, OpenOK
<1>5. HostOK'
  BY Untouched DEF LinkIInv
<1>6. DrainedOK'
  BY <1>1 DEF LinkIInv, DrainedOK, Drained
<1>7. Answered(batch)'
  BY EmptyResponses DEF Answered
<1>8. RequestsOK' /\ AnswersOK' /\ TransitOK'
  BY <1>7, AfterEnd
<1> QED
  BY <1>2, <1>3, <1>4, <1>5, <1>6, <1>8 DEF LinkIInv

\* The reader takes a chunk: a whole batch, or the end.
LEMMA ReadChunkKeeps ==
  ASSUME LinkIInv, ReadChunk
  PROVE  LinkIInv'
<1>1. UNCHANGED <<events, awaiting, pending, call, opener, loop, inbox, executed, sent,
                 cancelled, hostClosing, hostClosed, closeError, recClosing, sourceClosed,
                 normalized, taken, drained, writing, result, got, closer, waitFor, consumer,
                 cleanup>>
  BY DEF ReadChunk, helper, reading, hello, evidence, request, host, recorder, OffRequest,
     OffOpen, OffClose, OffConsume
<1>2. /\ reader = "reading" /\ wire \in Seq(Messages) /\ batch = << >> /\ resource = "open"
      /\ awaiting = << >>
  BY DEF ReadChunk, LinkIInv, ValuesOK, ReaderOK
<1>3. PICK n \in 1 .. Len(wire) :
        /\ wire' = SubSeq(wire, n + 1, Len(wire))
        /\ \/ /\ EndReader /\ SetTerminal("input", FALSE)
           \/ /\ reader' = "dispatching" /\ batch' = Feed(SubSeq(wire, 1, n))
              /\ waiter' \in {waiter, "ok"}
              /\ UNCHANGED <<resource, terminal, answer, writer>>
  <2>1. PICK n \in 1 .. Len(wire) :
          LET messages == Feed(SubSeq(wire, 1, n))
              failed == Len(messages) < n
              early == ~info /\ ~failed /\ ValidInitial(messages)
          IN  /\ wire' = SubSeq(wire, n + 1, Len(wire))
              /\ IF messages = <<>>
                 THEN EndReader /\ SetTerminal("input", FALSE)
                 ELSE /\ reader' = "dispatching" /\ batch' = messages
                      /\ waiter' = IF early /\ waiter = "pending" THEN "ok" ELSE waiter
                      /\ UNCHANGED <<resource, terminal, answer, writer>>
    BY DEF ReadChunk
  <2> HIDE DEF Feed, ValidInitial, EndReader, SetTerminal
  <2> QED
    BY <2>1
<1>4. /\ wire' \in Seq(Messages)
      /\ Answered(wire) => Answered(Feed(SubSeq(wire, 1, n))) /\ Answered(wire')
      /\ NoneIn(wire) => NoneIn(Feed(SubSeq(wire, 1, n))) /\ NoneIn(wire')
      /\ OneIn(wire) => /\ OneIn(Feed(SubSeq(wire, 1, n))) /\ OneIn(wire')
                        /\ NoneIn(Feed(SubSeq(wire, 1, n))) \/ NoneIn(wire')
      /\ Feed(SubSeq(wire, 1, n)) \in Seq(Messages)
  BY <1>2, <1>3, ReadSplits
<1>5. CASE EndReader /\ SetTerminal("input", FALSE)
  <2>1. EndTold
    BY <1>5, EndTells DEF Ends, Errors
  <2>2. reader' = "closing" /\ batch' = << >> /\ resource' = "closing"
    BY <1>2, <1>5 DEF EndReader, CloseResource
  <2>3. Answered(wire)'
    BY <1>1, <1>4 DEF LinkIInv, AnswersOK, Answered
  <2> QED
    BY <1>1, <1>2, <1>4, <2>1, <2>2, <2>3, ReaderGivesUp
<1>6. CASE /\ reader' = "dispatching" /\ batch' = Feed(SubSeq(wire, 1, n))
           /\ waiter' \in {waiter, "ok"}
           /\ UNCHANGED <<resource, terminal, answer, writer>>
  <2>1. LinkTypeOK'
    BY <1>1, <1>6 DEF LinkIInv, LinkTypeOK
  <2>2. ValuesOK'
    BY <1>1, <1>4, <1>6 DEF LinkIInv, ValuesOK
  <2>3. ReaderOK' /\ OpenOK'
    BY <1>1, <1>2, <1>6 DEF LinkIInv, ReaderOK, OpenOK
  <2>4. HostOK' /\ RequestsOK'
    BY <1>1, <1>6, Untouched DEF LinkIInv
  <2>5. DrainedOK'
    BY <1>1, <1>2, <1>6 DEF LinkIInv, DrainedOK, Drained
  <2>6. AnswersOK'
    <3>1. Answered(wire)' /\ Answered(batch)'
      BY <1>1, <1>4, <1>6 DEF LinkIInv, AnswersOK, Answered
    <3> QED
      BY <1>1, <1>6, <3>1 DEF LinkIInv, AnswersOK, AnswerOK, Fresh
  <2>7. TransitOK'
    <3> SUFFICES ASSUME terminal' = None PROVE Transit'
      BY DEF TransitOK
    <3>1. Transit
      BY <1>6 DEF LinkIInv, TransitOK
    <3>2. OneIn(wire') /\ OneIn(batch') /\ (NoneIn(wire') \/ NoneIn(batch'))
      BY <1>4, <1>6, <3>1 DEF Transit
    <3>3. OneIn(wire)' /\ OneIn(batch)'
      BY <1>1, <1>6, <3>2 DEF OneIn, Under
    <3>4. NoneIn(wire)' <=> NoneIn(wire')
      BY DEF NoneIn
    <3>5. NoneIn(batch)' <=> NoneIn(batch')
      BY DEF NoneIn
    <3>6. NoneIn(wire) => NoneIn(wire)' /\ NoneIn(batch)'
      BY <1>4, <1>6, <3>4, <3>5
    <3>7. \A c \in Callers : Under(c)' <=> Under(c)
      BY <1>1, <1>6 DEF Under
    <3>8. inbox \in Seq(Callers)
      BY DEF LinkIInv, ValuesOK
    <3>9. inbox # << >> => Len(inbox) = 1 /\ Under(inbox[1])' /\ NoneIn(wire)' /\ NoneIn(batch)'
      <4>1. inbox # << >> => inbox[1] \in Callers /\ Len(inbox) = 1 /\ Under(inbox[1]) /\ NoneIn(wire)
        BY <3>1, <3>8 DEF Transit
      <4> QED
        BY <1>1, <1>6, <3>6, <4>1 DEF Under
    <3>10. \A c \in Callers : writing[c] = "started" =>
              Under(c)' /\ inbox = << >> /\ NoneIn(wire)' /\ NoneIn(batch)'
      BY <3>1, <3>6, <3>7 DEF Transit
    <3> QED
      BY <1>1, <1>6, <3>2, <3>3, <3>4, <3>5, <3>9, <3>10 DEF Transit
  <2> QED
    BY <2>1, <2>2, <2>3, <2>4, <2>5, <2>6, <2>7 DEF LinkIInv
<1> QED
  BY <1>3, <1>5, <1>6

\* The stream is over.
LEMMA ReadEofKeeps ==
  ASSUME LinkIInv, ReadEof
  PROVE  LinkIInv'
<1>1. UNCHANGED <<events, awaiting, pending, call, opener, loop, inbox, executed, sent,
                 wire, cancelled, hostClosing, hostClosed, closeError, recClosing, sourceClosed,
                 normalized, taken, drained, writing, result, got, closer, waitFor, consumer,
                 cleanup>>
  BY DEF ReadEof, helper, reading, hello, evidence, request, host, recorder, OffRequest,
     OffOpen, OffClose, OffConsume
<1>2. reader = "reading" /\ wire \in Seq(Messages) /\ Answered(wire)
  BY DEF ReadEof, LinkIInv, ValuesOK, AnswersOK
<1>3. EndTold
  <2>1. Ends("disconnected")
    BY DEF ReadEof, Ends
  <2> QED
    BY <2>1, EndTells DEF Errors
<1>4. reader' = "closing" /\ batch' = << >> /\ resource' = "closing"
  BY <1>2 DEF ReadEof, EndReader, CloseResource, LinkIInv, ReaderOK
<1>5. wire' \in Seq(Messages) /\ Answered(wire)'
  BY <1>1, <1>2 DEF Answered
<1>6. LinkIInv'
  BY <1>1, <1>2, <1>3, <1>4, <1>5, ReaderGivesUp
<1> QED
  BY <1>6

\* A message of the batch is dealt with; a response among the rest is still known.
LEMMA BatchMoves ==
  ASSUME LinkIInv, batch # << >>, batch' = Tail(batch),
         UNCHANGED <<writing, inbox, executed, call, result, answer, got, wire, terminal,
                   pending>>
  PROVE  AnswersOK' /\ TransitOK' /\ batch' \in Seq(Messages)
<1>1. batch \in Seq(Messages)
  BY DEF LinkIInv, ValuesOK
<1>2. /\ batch' \in Seq(Messages)
      /\ Answered(batch) => Answered(Tail(batch))
      /\ NoneIn(batch) => NoneIn(Tail(batch))
      /\ OneIn(batch) => OneIn(Tail(batch))
  BY <1>1, TailResponses
<1>3. (Answered(Tail(batch)) => Answered(batch)') /\ (NoneIn(Tail(batch)) => NoneIn(batch)')
      /\ (OneIn(Tail(batch)) => OneIn(batch)')
  BY DEF Answered, NoneIn, OneIn, Under
<1>4. AnswersOK'
  BY <1>2, <1>3 DEF LinkIInv, AnswersOK, AnswerOK, Answered, Fresh
<1>5. (NoneIn(wire) => NoneIn(wire)') /\ (OneIn(wire) => OneIn(wire)')
  BY DEF NoneIn, OneIn, Under
<1>6. TransitOK'
  BY <1>2, <1>3, <1>5 DEF LinkIInv, TransitOK, Transit, Under
<1> QED
  BY <1>2, <1>4, <1>6

\* The first message has to be the hello.
LEMMA DispatchHelloKeeps ==
  ASSUME LinkIInv, DispatchHello
  PROVE  LinkIInv'
<1>1. UNCHANGED <<events, awaiting, pending, call, opener, loop, inbox, executed, sent,
                 wire, cancelled, hostClosing, hostClosed, closeError, recClosing, sourceClosed,
                 normalized, taken, drained, writing, result, got, closer, waitFor, consumer,
                 cleanup>>
  BY DEF DispatchHello, helper, reading, hello, evidence, request, host, recorder,
     OffRequest, OffOpen, OffClose, OffConsume
<1>2. /\ reader = "dispatching" /\ batch # << >> /\ resource = "open"
      /\ wire \in Seq(Messages) /\ Answered(wire)
  BY DEF DispatchHello, LinkIInv, ValuesOK, AnswersOK, ReaderOK
<1>3. CASE batch[1] = Hello
  <2>1. batch' = Tail(batch) /\ UNCHANGED <<reader, resource, terminal, waiter, answer, writer>>
    BY <1>3 DEF DispatchHello
  <2>2. AnswersOK' /\ TransitOK' /\ batch' \in Seq(Messages)
    BY <1>1, <1>2, <2>1, BatchMoves
  <2>3. LinkTypeOK' /\ OpenOK' /\ HostOK' /\ DrainedOK' /\ RequestsOK'
    BY <1>1, <2>1, Untouched DEF LinkIInv
  <2>4. ValuesOK' /\ ReaderOK'
    BY <1>1, <1>2, <2>1, <2>2 DEF LinkIInv, ValuesOK, ReaderOK
  <2> QED
    BY <2>2, <2>3, <2>4 DEF LinkIInv
<1>4. CASE batch[1] # Hello
  <2>1. Ends("input") /\ EndReader
    BY <1>4 DEF DispatchHello, Ends
  <2>2. EndTold
    BY <2>1, EndTells DEF Errors
  <2>3. reader' = "closing" /\ batch' = << >> /\ resource' = "closing"
    BY <1>2, <2>1 DEF EndReader, CloseResource
  <2>4. wire' \in Seq(Messages) /\ Answered(wire)'
    BY <1>1, <1>2 DEF Answered
  <2> QED
    BY <1>1, <1>2, <2>2, <2>3, <2>4, ReaderGivesUp
<1> QED
  BY <1>3, <1>4

\* An event is queued, or waits for the queue.
LEMMA DispatchEventKeeps ==
  ASSUME LinkIInv, DispatchEvent
  PROVE  LinkIInv'
<1>1. UNCHANGED <<resource, waiter, terminal, pending, writer, call, opener, loop, inbox,
                 executed, sent, wire, cancelled, hostClosing, hostClosed, closeError, recClosing,
                 sourceClosed, taken, drained, answer, writing, result, got, closer, waitFor,
                 consumer, cleanup>>
  BY DEF DispatchEvent, helper, reading, hello, evidence, request, host, recorder,
     OffRequest, OffOpen, OffClose, OffConsume
<1>2. /\ reader = "dispatching" /\ batch # << >> /\ batch \in Seq(Messages) /\ awaiting = << >>
      /\ batch' = Tail(batch) /\ batch[1].kind = "event" /\ resource = "open"
  BY DEF DispatchEvent, LinkIInv, ValuesOK, ReaderOK
<1>3. batch[1].n \in Nat
  BY <1>2, TailFacts, MessageFacts
<1>4. /\ events \in Seq(Nat) /\ normalized \in Seq(Nat) /\ taken \in Seq(Nat) /\ drained \in Seq(Nat)
      /\ normalized' = Append(normalized, batch[1].n)
  BY DEF DispatchEvent, LinkIInv, ValuesOK
<1>5. \/ /\ Len(events) < QueueCapacity /\ events' = Append(events, batch[1].n)
         /\ awaiting' = awaiting /\ reader' = reader
      \/ awaiting' = <<batch[1].n>> /\ reader' = "putting" /\ events' = events
  BY DEF DispatchEvent
<1>6. /\ events' \in Seq(Nat) /\ awaiting' \in Seq(Nat) /\ normalized' \in Seq(Nat)
      /\ Len(awaiting') <= 1 /\ Len(events') <= QueueCapacity
      /\ reader' = "putting" => Len(awaiting') = 1
      /\ reader' = "dispatching" => awaiting' = << >>
  <2> DEFINE n == batch[1].n
  <2>1. n \in Nat /\ normalized' = Append(normalized, n)
        /\ \/ Len(events) < QueueCapacity /\ events' = Append(events, n) /\ awaiting' = << >>
              /\ reader' = "dispatching"
           \/ awaiting' = <<n>> /\ reader' = "putting" /\ events' = events
    BY <1>2, <1>3, <1>4, <1>5
  <2>2. Len(events) <= QueueCapacity /\ QueueCapacity \in Nat
    BY CapacityAssumption DEF LinkIInv, LinkTypeOK
  <2> HIDE DEF n
  <2>3. /\ normalized' \in Seq(Nat) /\ << >> \in Seq(Nat) /\ <<n>> \in Seq(Nat)
        /\ Append(events, n) \in Seq(Nat) /\ Len(Append(events, n)) = Len(events) + 1
        /\ Len(events) \in Nat /\ Len(<<n>>) = 1 /\ Len(<< >>) = 0
    BY <1>4, <2>1, AppendFacts, OneFacts
  <2>4. CASE Len(events) < QueueCapacity /\ events' = Append(events, n)
             /\ awaiting' = << >> /\ reader' = "dispatching"
    <3>1. Len(events') <= QueueCapacity
      BY <2>2, <2>3, <2>4
    <3> QED
      BY <2>3, <2>4, <3>1
  <2>5. CASE awaiting' = <<n>> /\ reader' = "putting" /\ events' = events
    BY <1>4, <2>2, <2>3, <2>5
  <2> QED
    BY <2>1, <2>4, <2>5
<1>7. taken \o drained \o events' \o awaiting' =
        Append(taken \o drained \o events \o awaiting, batch[1].n)
  <2> DEFINE n == batch[1].n
             T == taken \o drained
  <2>1. T \in Seq(Nat) /\ n \in Nat
    BY <1>3, <1>4
  <2>2. \/ events' = Append(events, n) /\ awaiting' = << >>
        \/ awaiting' = <<n>> /\ events' = events
    BY <1>2, <1>5
  <2> HIDE DEF n, T
  <2>3. awaiting = << >> /\ events \in Seq(Nat)
    BY <1>2, <1>4
  <2>4. T \o Append(events, n) \o << >> = Append(T \o events \o << >>, n)
    BY <2>1, <2>3
  <2>5. T \o events \o <<n>> = Append(T \o events \o << >>, n)
    BY <2>1, <2>3
  <2>6. T \o events' \o awaiting' = Append(T \o events \o awaiting, n)
    BY <2>2, <2>3, <2>4, <2>5
  <2> QED
    BY <2>6 DEF n, T
<1>8. reader' \in {"dispatching", "putting"}
  BY <1>2, <1>5
<1>9. HostOK' /\ RequestsOK'
  BY <1>1, Untouched DEF LinkIInv
<1>10. LinkTypeOK'
  BY <1>1, <1>6, <1>8 DEF LinkIInv, LinkTypeOK
<1>11. ValuesOK'
  <2>1. batch' \in Seq(Messages)
    BY <1>2, TailFacts
  <2> QED
    BY <1>1, <1>6, <2>1 DEF LinkIInv, ValuesOK
<1>12. ReaderOK'
  BY <1>1, <1>2, <1>6, <1>8 DEF LinkIInv, ReaderOK
<1>13. OpenOK'
  BY <1>1, <1>2, <1>8 DEF LinkIInv, OpenOK
<1>14. DrainedOK'
  <2>1. ~Drained /\ ~Drained'
    BY <1>1, <1>2 DEF LinkIInv, DrainedOK, Drained
  <2>2. ~closeError' => taken' \o drained' \o events' \o awaiting' = normalized'
    BY <1>1, <1>4, <1>7 DEF LinkIInv, DrainedOK
  <2> QED
    BY <1>1, <2>1, <2>2 DEF LinkIInv, DrainedOK
<1>15. AnswersOK'
  BY <1>1, <1>2, BatchMoves
<1>16. TransitOK'
  BY <1>1, <1>2, BatchMoves
<1> QED
  BY <1>9, <1>10, <1>11, <1>12, <1>13, <1>14, <1>15, <1>16 DEF LinkIInv

\* The queue has room again.
LEMMA PutAdmittedKeeps ==
  ASSUME LinkIInv, PutAdmitted
  PROVE  LinkIInv'
<1>1. UNCHANGED <<resource, waiter, terminal, pending, writer, call, opener, loop, inbox,
                 executed, sent, wire, batch, cancelled, hostClosing, hostClosed, closeError,
                 recClosing, sourceClosed, normalized, taken, drained, answer, writing, result, got,
                 closer, waitFor, consumer, cleanup>>
  BY DEF PutAdmitted, helper, reading, hello, evidence, request, host, recorder, OffRequest,
     OffOpen, OffClose, OffConsume
<1>2. /\ reader = "putting" /\ reader' = "dispatching" /\ Len(awaiting) = 1
      /\ events' = events \o awaiting /\ awaiting' = << >> /\ Len(events) < QueueCapacity
      /\ resource = "open"
  BY DEF PutAdmitted, LinkIInv, ReaderOK
<1>3. /\ events \in Seq(Nat) /\ awaiting \in Seq(Nat) /\ taken \in Seq(Nat) /\ drained \in Seq(Nat)
      /\ Len(events) <= QueueCapacity /\ QueueCapacity \in Nat
  BY CapacityAssumption DEF LinkIInv, ValuesOK, LinkTypeOK
<1>4. /\ events' \in Seq(Nat) /\ awaiting' \in Seq(Nat)
      /\ Len(events') <= QueueCapacity /\ Len(awaiting') <= 1
  <2>1. Len(events \o awaiting) = Len(events) + 1 /\ events \o awaiting \in Seq(Nat)
        /\ Len(events) \in Nat
    <3>1. /\ events \o awaiting \in Seq(Nat)
          /\ Len(events \o awaiting) = Len(events) + Len(awaiting)
      BY <1>3, ConcatProperties, Zenon
    <3>2. Len(awaiting) = 1 /\ Len(events) \in Nat
      BY <1>2, <1>3
    <3> QED
      BY <3>1, <3>2
  <2>2. << >> \in Seq(Nat) /\ Len(<< >>) = 0
    OBVIOUS
  <2> QED
    BY <1>2, <1>3, <2>1, <2>2
<1>5. taken \o drained \o events' \o awaiting' = taken \o drained \o events \o awaiting
  <2> DEFINE T == taken \o drained
  <2>1. T \in Seq(Nat)
    BY <1>3
  <2> HIDE DEF T
  <2>2. T \o (events \o awaiting) \o << >> = T \o events \o awaiting
    <3>1. events \in Seq(Nat) /\ awaiting \in Seq(Nat)
      BY <1>3
    <3>2. T \o (events \o awaiting) \in Seq(Nat)
      BY <2>1, <3>1
    <3>3. T \o (events \o awaiting) \o << >> = T \o (events \o awaiting)
      BY <3>2, ConcatEmptySeq, Zenon
    <3>4. T \o events \o awaiting = T \o (events \o awaiting)
      BY <2>1, <3>1, ConcatFacts
    <3> QED
      BY <3>3, <3>4
  <2> QED
    BY <1>2, <2>2 DEF T
<1>6. HostOK' /\ RequestsOK' /\ AnswersOK' /\ TransitOK'
  BY <1>1, Untouched DEF LinkIInv
<1>7. LinkTypeOK'
  BY <1>1, <1>2, <1>4 DEF LinkIInv, LinkTypeOK
<1>8. ValuesOK'
  BY <1>1, <1>4 DEF LinkIInv, ValuesOK
<1>9. ReaderOK'
  BY <1>1, <1>2 DEF LinkIInv, ReaderOK
<1>10. OpenOK'
  BY <1>1, <1>2 DEF LinkIInv, OpenOK
<1>11. DrainedOK'
  <2>1. ~Drained /\ ~Drained'
    BY <1>1, <1>2 DEF LinkIInv, DrainedOK, Drained
  <2>2. ~closeError' => taken' \o drained' \o events' \o awaiting' = normalized'
    BY <1>1, <1>5 DEF LinkIInv, DrainedOK
  <2> QED
    BY <1>1, <2>1, <2>2 DEF LinkIInv, DrainedOK
<1> QED
  BY <1>6, <1>7, <1>8, <1>9, <1>10, <1>11 DEF LinkIInv

\* The batch is dropped with the error that ends the connection.
LEMMA BatchDropped ==
  ASSUME LinkIInv, EndTold, reader = "dispatching", batch' = << >>,
         UNCHANGED <<reader, resource, events, awaiting, pending, call, opener, loop, inbox,
                   executed, sent, wire, cancelled, hostClosing, hostClosed, closeError, recClosing,
                   sourceClosed, normalized, taken, drained, writing, result, got, closer, waitFor,
                   consumer, cleanup>>
  PROVE  LinkIInv'
<1>1. LinkTypeOK'
  BY DEF LinkIInv, LinkTypeOK, EndTold
<1>2. ValuesOK'
  BY EmptyResponses DEF LinkIInv, ValuesOK, EndTold
<1>3. ReaderOK'
  BY DEF LinkIInv, ReaderOK
<1>4. OpenOK' /\ HostOK' /\ DrainedOK'
  BY Untouched DEF LinkIInv
<1>5. Answered(wire)' /\ Answered(batch)'
  BY EmptyResponses DEF LinkIInv, AnswersOK, Answered
<1>6. RequestsOK' /\ AnswersOK' /\ TransitOK'
  BY <1>5, AfterEnd
<1> QED
  BY <1>1, <1>2, <1>3, <1>4, <1>6 DEF LinkIInv

\* A message that changes nothing but the batch.
LEMMA BatchPassed ==
  ASSUME LinkIInv, reader = "dispatching", batch # << >>, batch' = Tail(batch),
         UNCHANGED <<reader, resource, waiter, terminal, events, awaiting, pending, writer,
                   call, opener, loop, inbox, executed, sent, wire, cancelled, hostClosing, hostClosed,
                   closeError, recClosing, sourceClosed, normalized, taken, drained, answer, writing,
                   result, got, closer, waitFor, consumer, cleanup>>
  PROVE  LinkIInv'
<1>1. AnswersOK' /\ TransitOK' /\ batch' \in Seq(Messages)
  BY BatchMoves
<1>2. LinkTypeOK' /\ OpenOK' /\ HostOK' /\ DrainedOK' /\ RequestsOK'
  BY Untouched DEF LinkIInv
<1>3. ValuesOK' /\ ReaderOK'
  BY <1>1 DEF LinkIInv, ValuesOK, ReaderOK
<1> QED
  BY <1>1, <1>2, <1>3 DEF LinkIInv

\* A response answers the pending request, or is one too many.
LEMMA DispatchResponseKeeps ==
  ASSUME LinkIInv, DispatchResponse
  PROVE  LinkIInv'
<1>1. UNCHANGED <<reader, resource, events, awaiting, pending, call, opener, loop, inbox,
                 executed, sent, wire, cancelled, hostClosing, hostClosed, closeError, recClosing,
                 sourceClosed, normalized, taken, drained, writing, result, got, closer, waitFor,
                 consumer, cleanup>>
  BY DEF DispatchResponse, helper, reading, hello, evidence, request, host, recorder,
     OffRequest, OffOpen, OffClose, OffConsume
<1>2. /\ reader = "dispatching" /\ batch # << >> /\ IsResponse(batch[1])
      /\ \/ batch' = Tail(batch) /\ UNCHANGED <<terminal, waiter, answer, writer>>
         \/ batch' = << >> /\ Ends("input")
         \/ /\ pending # None /\ answer[pending] = None /\ batch' = Tail(batch)
            /\ answer' = [answer EXCEPT ![pending] = batch[1]]
            /\ UNCHANGED <<terminal, waiter, writer>>
  BY DEF DispatchResponse, IsResponse, Ends
<1>3. CASE batch' = Tail(batch) /\ UNCHANGED <<terminal, waiter, answer, writer>>
  BY <1>1, <1>2, <1>3, BatchPassed
<1>4. CASE batch' = << >> /\ Ends("input")
  <2>1. EndTold
    BY <1>4, EndTells DEF Errors
  <2> QED
    BY <1>1, <1>2, <1>4, <2>1, BatchDropped
<1>5. CASE /\ pending # None /\ answer[pending] = None /\ batch' = Tail(batch)
           /\ answer' = [answer EXCEPT ![pending] = batch[1]]
           /\ UNCHANGED <<terminal, waiter, writer>>
  <2>1. /\ batch \in Seq(Messages) /\ batch[1] \in Messages /\ pending \in Callers
        /\ answer \in [Callers -> Answers] /\ batch' \in Seq(Messages)
    <3>1. batch \in Seq(Messages) /\ pending \in Callers /\ answer \in [Callers -> Answers]
      BY <1>5 DEF LinkIInv, ValuesOK, LinkTypeOK
    <3> QED
      BY <1>2, <1>5, <3>1, TailResponses
  <2>2. terminal = None
    BY <1>5 DEF LinkIInv, RequestsOK
  <2>3. Transit
    BY <2>2 DEF LinkIInv, TransitOK
  <2>4. /\ NoneIn(Tail(batch)) /\ Under(batch[1].cmd) /\ Answered(Tail(batch))
        /\ <<batch[1].cmd, batch[1].verdict>> \in executed
    BY <1>2, <2>1, <2>3, TailResponses DEF Transit, LinkIInv, AnswersOK
  <2>5. batch[1].cmd = pending /\ batch[1] \in Answers /\ batch[1] # None
    BY <1>2, <2>1, <2>4, MessageFacts DEF Under
  <2>6. /\ answer' \in [Callers -> Answers] /\ answer'[pending] = batch[1]
        /\ \A c \in Callers : c # pending => answer'[c] = answer[c]
    BY <1>5, <2>1, <2>5
  <2>7. NoneIn(wire) /\ inbox = << >> /\ \A c \in Callers : writing[c] # "started"
    <3>1. ~NoneIn(batch)
      BY <1>2, <2>1, TailResponses
    <3> QED
      BY <2>3, <3>1 DEF Transit
  <2>8. LinkTypeOK' /\ OpenOK' /\ HostOK' /\ DrainedOK'
    BY <1>1, <1>5, Untouched DEF LinkIInv
  <2>9. ValuesOK' /\ ReaderOK'
    BY <1>1, <1>2, <1>5, <2>1, <2>6 DEF LinkIInv, ValuesOK, ReaderOK
  <2>10. ASSUME NEW c \in Callers
         PROVE  RequestOK(c)' /\ AnswerOK(c)'
    <3>1. RequestOK(c) /\ AnswerOK(c)
      BY DEF LinkIInv, RequestsOK, AnswersOK
    <3>2. Fresh(c)' <=> Fresh(c)
      BY <1>1 DEF Fresh
    <3>3. CASE c = pending
      <4>1. call[c] \in Holding
        BY <3>1, <3>3 DEF RequestOK
      <4> QED
        BY <1>1, <1>5, <2>4, <2>5, <2>6, <3>1, <3>2, <3>3, <4>1
           DEF RequestOK, AnswerOK, Holding
    <3>4. CASE c # pending
      BY <1>1, <1>5, <2>6, <3>1, <3>2, <3>4 DEF RequestOK, AnswerOK
    <3> QED
      BY <3>3, <3>4
  <2>11. RequestsOK'
    BY <1>1, <1>5, <2>2, <2>10 DEF LinkIInv, RequestsOK
  <2>12. Answered(wire)' /\ Answered(batch)'
    BY <1>1, <1>5, <2>4 DEF LinkIInv, AnswersOK, Answered
  <2>13. AnswersOK'
    BY <2>10, <2>12 DEF AnswersOK
  <2>14. NoneIn(wire)' /\ NoneIn(batch)'
    BY <1>1, <1>5, <2>4, <2>7 DEF NoneIn
  <2>15. OneIn(wire)' /\ OneIn(batch)'
    BY <2>14 DEF NoneIn, OneIn
  <2>16. TransitOK'
    BY <1>1, <2>7, <2>14, <2>15 DEF TransitOK, Transit
  <2> QED
    BY <2>8, <2>9, <2>11, <2>13, <2>16 DEF LinkIInv
<1> QED
  BY <1>2, <1>3, <1>4, <1>5

\* A second hello.
LEMMA DispatchUnexpectedKeeps ==
  ASSUME LinkIInv, DispatchUnexpected
  PROVE  LinkIInv'
<1>1. UNCHANGED <<reader, resource, events, awaiting, pending, call, opener, loop, inbox,
                 executed, sent, wire, cancelled, hostClosing, hostClosed, closeError, recClosing,
                 sourceClosed, normalized, taken, drained, writing, result, got, closer, waitFor,
                 consumer, cleanup>>
  BY DEF DispatchUnexpected, helper, reading, hello, evidence, request, host, recorder,
     OffRequest, OffOpen, OffClose, OffConsume
<1>2. /\ reader = "dispatching" /\ batch' = << >>
      /\ Ends("input") \/ UNCHANGED <<terminal, waiter, answer, writer>>
  BY DEF DispatchUnexpected, Ends
<1>3. CASE Ends("input")
  <2>1. EndTold
    BY <1>3, EndTells DEF Errors
  <2> QED
    BY <1>1, <1>2, <2>1, BatchDropped
<1>4. CASE UNCHANGED <<terminal, waiter, answer, writer>>
  <2>1. LinkTypeOK' /\ OpenOK' /\ HostOK' /\ DrainedOK' /\ RequestsOK'
    BY <1>1, <1>4, Untouched DEF LinkIInv
  <2>2. ValuesOK' /\ ReaderOK'
    BY <1>1, <1>2, <1>4, EmptyResponses DEF LinkIInv, ValuesOK, ReaderOK
  <2>3. AnswersOK'
    BY <1>1, <1>2, <1>4, EmptyResponses DEF LinkIInv, AnswersOK, AnswerOK, Answered, Fresh
  <2>4. NoneIn(batch)' /\ OneIn(batch)'
    BY <1>2 DEF NoneIn, OneIn
  <2>5. (NoneIn(wire) => NoneIn(wire)') /\ (OneIn(wire) => OneIn(wire)')
    BY <1>1, <1>4 DEF NoneIn, OneIn, Under
  <2>6. TransitOK'
    BY <1>1, <1>4, <2>4, <2>5 DEF LinkIInv, TransitOK, Transit, Under
  <2> QED
    BY <2>1, <2>2, <2>3, <2>6 DEF LinkIInv
<1> QED
  BY <1>2, <1>3, <1>4

\* The end of the batch: read on, or give up.
LEMMA DispatchEndsKeeps ==
  ASSUME LinkIInv, DispatchEnds
  PROVE  LinkIInv'
<1>1. UNCHANGED <<events, awaiting, pending, call, opener, loop, inbox, executed, sent,
                 wire, cancelled, hostClosing, hostClosed, closeError, recClosing, sourceClosed,
                 normalized, taken, drained, writing, result, got, closer, waitFor, consumer,
                 cleanup>>
  BY DEF DispatchEnds, helper, reading, hello, evidence, request, host, recorder,
     OffRequest, OffOpen, OffClose, OffConsume
<1>2. /\ reader = "dispatching" /\ batch = << >> /\ resource = "open" /\ awaiting = << >>
      /\ wire \in Seq(Messages) /\ Answered(wire)
  BY DEF DispatchEnds, LinkIInv, ValuesOK, AnswersOK, ReaderOK
<1>3. \/ EndReader /\ EndTold
      \/ /\ reader' = "reading" /\ waiter' \in {waiter, "ok"}
         /\ UNCHANGED <<batch, resource, terminal, answer, writer>>
  <2>1. CASE parserFailed
    <3>1. Ends("input") /\ EndReader
      BY <2>1 DEF DispatchEnds, Ends
    <3> QED
      BY <3>1, EndTells DEF Errors
  <2>2. CASE ~parserFailed /\ terminal # None
    <3>1. EndReader /\ UNCHANGED <<terminal, waiter, answer, writer>>
      BY <2>2 DEF DispatchEnds
    <3>2. EndTold
      BY <2>2, <3>1 DEF EndTold, LinkIInv, LinkTypeOK, ValuesOK, RequestsOK
    <3> QED
      BY <3>1, <3>2
  <2>3. CASE ~parserFailed /\ terminal = None
    BY <2>3 DEF DispatchEnds
  <2> QED
    BY <2>1, <2>2, <2>3
<1>4. CASE EndReader /\ EndTold
  <2>1. reader' = "closing" /\ batch' = << >> /\ resource' = "closing"
    BY <1>2, <1>4 DEF EndReader, CloseResource
  <2>2. wire' \in Seq(Messages) /\ Answered(wire)'
    BY <1>1, <1>2 DEF Answered
  <2> QED
    BY <1>1, <1>2, <1>4, <2>1, <2>2, ReaderGivesUp
<1>5. CASE /\ reader' = "reading" /\ waiter' \in {waiter, "ok"}
           /\ UNCHANGED <<batch, resource, terminal, answer, writer>>
  <2>1. HostOK' /\ RequestsOK' /\ AnswersOK' /\ TransitOK' /\ ValuesOK'
    BY <1>1, <1>5, Untouched DEF LinkIInv
  <2>2. LinkTypeOK' /\ ReaderOK' /\ OpenOK'
    BY <1>1, <1>2, <1>5 DEF LinkIInv, LinkTypeOK, ReaderOK, OpenOK
  <2>3. DrainedOK'
    BY <1>1, <1>2, <1>5 DEF LinkIInv, DrainedOK, Drained
  <2> QED
    BY <2>1, <2>2, <2>3 DEF LinkIInv
<1> QED
  BY <1>3, <1>4, <1>5

\* A cancelled reader leaves its await.
LEMMA ReaderCancelledKeeps ==
  ASSUME LinkIInv, ReaderCancelled
  PROVE  LinkIInv'
<1>1. UNCHANGED <<waiter, terminal, events, awaiting, pending, writer, call, opener, loop,
                 inbox, executed, sent, wire, hostClosing, hostClosed, closeError, recClosing,
                 sourceClosed, normalized, taken, drained, answer, writing, result, got, closer,
                 waitFor, consumer, cleanup>>
  BY DEF ReaderCancelled, helper, reading, hello, evidence, request, host, recorder,
     OffRequest, OffOpen, OffClose, OffConsume
<1>2. /\ cancelled' = FALSE
      /\ \/ /\ reader \in {"reading", "putting"} /\ resource = "open"
            /\ reader' = "closing" /\ batch' = << >> /\ resource' = "closing"
         \/ /\ reader = "closing" /\ reader' = "done" /\ batch' = batch /\ resource' = resource
  BY DEF ReaderCancelled, EndReader, CloseResource, LinkIInv, ReaderOK
<1>3. HostOK'
  BY <1>1, Untouched DEF LinkIInv
<1>4. LinkTypeOK'
  BY <1>1, <1>2 DEF LinkIInv, LinkTypeOK
<1>5. ValuesOK'
  BY <1>1, <1>2, EmptyResponses DEF LinkIInv, ValuesOK
<1>6. ReaderOK'
  BY <1>1, <1>2 DEF LinkIInv, ReaderOK
<1>7. OpenOK'
  BY <1>1, <1>2 DEF LinkIInv, OpenOK
<1>8. DrainedOK'
  BY <1>1, <1>2 DEF LinkIInv, DrainedOK, Drained, Active
<1>9. RequestsOK'
  <2>1. ~cancelled'
    BY <1>2
  <2> QED
    BY <1>1, <2>1 DEF LinkIInv, RequestsOK, RequestOK, Holding
<1>10. AnswersOK'
  <2>1. batch' = batch \/ batch' = << >>
    BY <1>2
  <2>2. Answered(batch)' /\ Answered(wire)'
    BY <1>1, <2>1, EmptyResponses DEF LinkIInv, AnswersOK, Answered
  <2> QED
    BY <1>1, <2>2 DEF LinkIInv, AnswersOK, AnswerOK, Fresh
<1>11. TransitOK'
  <2>1. CASE batch' = batch
    BY <1>1, <2>1, Untouched DEF LinkIInv
  <2>2. CASE batch' = << >>
    <3>1. NoneIn(batch)' /\ OneIn(batch)'
      BY <2>2 DEF NoneIn, OneIn
    <3>2. (NoneIn(wire) => NoneIn(wire)') /\ (OneIn(wire) => OneIn(wire)')
      BY <1>1 DEF NoneIn, OneIn, Under
    <3> QED
      BY <1>1, <3>1, <3>2 DEF LinkIInv, TransitOK, Transit, Under
  <2> QED
    BY <1>2, <2>1, <2>2
<1> QED
  BY <1>3, <1>4, <1>5, <1>6, <1>7, <1>8, <1>9, <1>10, <1>11 DEF LinkIInv

\* The reader ends when the port has been closed.
LEMMA ReaderEndsKeeps ==
  ASSUME LinkIInv, ReaderEnds
  PROVE  LinkIInv'
<1>1. UNCHANGED <<resource, waiter, terminal, events, awaiting, pending, writer, call,
                 opener, loop, inbox, executed, sent, wire, batch, hostClosing, hostClosed,
                 closeError, recClosing, sourceClosed, normalized, taken, drained, answer, writing,
                 result, got, closer, waitFor, consumer, cleanup>>
  BY DEF ReaderEnds, helper, reading, hello, evidence, request, host, recorder, OffRequest,
     OffOpen, OffClose, OffConsume
<1>2. /\ reader = "closing" /\ resource \in {"closed", "failed"} /\ reader' = "done"
      /\ ~cancelled' /\ cancelled' \in BOOLEAN
  BY DEF ReaderEnds
<1>3. HostOK' /\ AnswersOK' /\ TransitOK'
  BY <1>1, Untouched DEF LinkIInv
<1>4. LinkTypeOK'
  BY <1>1, <1>2 DEF LinkIInv, LinkTypeOK
<1>5. ValuesOK'
  BY <1>1, <1>2 DEF LinkIInv, ValuesOK
<1>6. ReaderOK'
  BY <1>1, <1>2 DEF LinkIInv, ReaderOK
<1>7. OpenOK'
  BY <1>1, <1>2 DEF LinkIInv, OpenOK
<1>8. DrainedOK'
  BY <1>1, <1>2 DEF LinkIInv, DrainedOK, Drained, Active
<1>9. RequestsOK'
  BY <1>1, <1>2 DEF LinkIInv, RequestsOK, RequestOK, Holding
<1> QED
  BY <1>3, <1>4, <1>5, <1>6, <1>7, <1>8, <1>9 DEF LinkIInv

\* The port is seen closed, or its close fails.
LEMMA ResourceClosesKeeps ==
  ASSUME LinkIInv, ResourceCloses
  PROVE  LinkIInv'
<1>1. UNCHANGED <<reader, waiter, terminal, events, awaiting, pending, writer, call,
                 opener, loop, inbox, executed, sent, wire, batch, cancelled, hostClosing,
                 hostClosed, closeError, recClosing, sourceClosed, normalized, taken, drained,
                 answer, writing, result, got, closer, waitFor, consumer, cleanup>>
  BY DEF ResourceCloses, helper, reading, hello, evidence, request, host, recorder,
     OffRequest, OffOpen, OffClose, OffConsume
<1>2. resource = "closing" /\ resource' \in {"closed", "failed"}
  BY DEF ResourceCloses
<1>3. ValuesOK' /\ HostOK' /\ RequestsOK' /\ AnswersOK' /\ TransitOK'
  BY <1>1, Untouched DEF LinkIInv
<1>4. LinkTypeOK'
  BY <1>1, <1>2 DEF LinkIInv, LinkTypeOK
<1>5. ReaderOK'
  BY <1>1, <1>2 DEF LinkIInv, ReaderOK
<1>6. OpenOK'
  BY <1>1, <1>2 DEF LinkIInv, OpenOK
<1>7. DrainedOK'
  BY <1>1, <1>2 DEF LinkIInv, DrainedOK, Drained, Active
<1> QED
  BY <1>3, <1>4, <1>5, <1>6, <1>7 DEF LinkIInv

\* A request that is over returns; nothing of it is on its way any more.
LEMMA ReturnKeeps ==
  ASSUME LinkIInv, NEW c \in Callers, NEW r \in {"ok", "failed", "unknown"}, Return(c, r),
         call[c] \in Holding, writer # c, terminal # None \/ answer[c] # None,
         r = "ok" => <<c, "ok">> \in executed,
         got' \in [Callers -> Callers \union {None}],
         \A d \in Callers : got'[d] = got[d] \/ got'[d] = d,
         UNCHANGED <<reader, resource, waiter, terminal, events, awaiting, writer, opener,
                   loop, inbox, executed, sent, wire, batch, cancelled, hostClosing, hostClosed,
                   closeError, recClosing, sourceClosed, normalized, taken, drained, answer, writing,
                   closer, waitFor, consumer, cleanup>>
  PROVE  LinkIInv'
<1>1. /\ pending = c /\ c # None /\ r # None /\ r # "unsent"
      /\ call \in [Callers -> InLoop \union {"idle", "returned"}]
      /\ result \in [Callers -> {None, "ok", "failed", "unknown", "unsent"}]
  BY NoneFacts DEF LinkIInv, LinkTypeOK, ValuesOK, RequestsOK, RequestOK
<1>2. /\ pending' = None /\ call' = [call EXCEPT ![c] = "returned"]
      /\ result' = [result EXCEPT ![c] = r]
  BY <1>1 DEF Return
<1>3. /\ call' \in [Callers -> InLoop \union {"idle", "returned"}] /\ call'[c] = "returned"
      /\ result' \in [Callers -> {None, "ok", "failed", "unknown", "unsent"}] /\ result'[c] = r
      /\ \A d \in Callers : d # c => call'[d] = call[d] /\ result'[d] = result[d]
  BY <1>1, <1>2
<1>4. LinkTypeOK' /\ ValuesOK'
  BY <1>2, <1>3 DEF LinkIInv, LinkTypeOK, ValuesOK
<1>5. ReaderOK' /\ DrainedOK'
  BY Untouched DEF LinkIInv
<1>6. OpenOK'
  <2>1. opener = "running"
    BY DEF LinkIInv, OpenOK, Holding
  <2> QED
    BY <2>1 DEF LinkIInv, OpenOK
<1>7. HostOK'
  <2>1. \A d \in Callers : call'[d] \in InLoop => call[d] \in InLoop
    BY <1>3 DEF InLoop
  <2> QED
    BY <2>1 DEF LinkIInv, HostOK, Active
<1>8. ASSUME NEW d \in Callers
      PROVE  RequestOK(d)' /\ AnswerOK(d)'
  <2>1. RequestOK(d) /\ AnswerOK(d) /\ d # None
    BY NoneFacts DEF LinkIInv, RequestsOK, AnswersOK
  <2>2. Fresh(d)' <=> Fresh(d)
    BY DEF Fresh
  <2>3. CASE d = c
    BY <1>1, <1>2, <1>3, <2>1, <2>2, <2>3 DEF RequestOK, AnswerOK, Holding
  <2>4. CASE d # c
    BY <1>1, <1>2, <1>3, <2>1, <2>2, <2>4 DEF RequestOK, AnswerOK
  <2> QED
    BY <2>3, <2>4
<1>9. RequestsOK'
  BY <1>2, <1>8 DEF LinkIInv, RequestsOK
<1>10. AnswersOK'
  BY <1>8 DEF LinkIInv, AnswersOK, Answered
<1>11. TransitOK'
  <2> SUFFICES ASSUME terminal' = None PROVE Transit'
    BY DEF TransitOK
  <2>1. Transit /\ \A d : ~Under(d)
    BY <1>1 DEF LinkIInv, TransitOK, Under
  <2>2. NoneIn(wire) /\ NoneIn(batch) /\ inbox = << >> /\ \A d \in Callers : writing[d] # "started"
    BY <2>1 DEF Transit, OneIn, NoneIn
  <2>3. NoneIn(wire)' /\ NoneIn(batch)'
    BY <2>2 DEF NoneIn
  <2>4. OneIn(wire)' /\ OneIn(batch)'
    BY <2>3 DEF NoneIn, OneIn
  <2> QED
    BY <2>2, <2>3, <2>4 DEF Transit
<1> QED
  BY <1>4, <1>5, <1>6, <1>7, <1>9, <1>10, <1>11 DEF LinkIInv

\* Its own timeout or write failure.
LEMMA RequestFailsKeeps ==
  ASSUME LinkIInv, NEW c \in Callers, RequestFails(c)
  PROVE  LinkIInv'
<1>1. UNCHANGED <<reader, resource, waiter, terminal, events, awaiting, writer, opener,
                 loop, inbox, executed, sent, wire, batch, cancelled, hostClosing, hostClosed,
                 closeError, recClosing, sourceClosed, normalized, taken, drained, answer, writing,
                 closer, waitFor, consumer, cleanup>>
  BY DEF RequestFails, Return, helper, reading, hello, evidence, request, host, recorder,
     OffRequest, OffOpen, OffClose, OffConsume
<1>2. /\ Return(c, "unknown") /\ call[c] = "failing" /\ terminal # None /\ writer # c
      /\ got' = got /\ got \in [Callers -> Callers \union {None}] /\ call[c] \in Holding
  BY DEF RequestFails, Undetermined, LinkIInv, RequestsOK, RequestOK, Holding, ValuesOK
<1>3. \A d \in Callers : got'[d] = got[d] \/ got'[d] = d
  BY <1>2
<1>4. /\ "unknown" \in {"ok", "failed", "unknown"} /\ got' \in [Callers -> Callers \union {None}]
      /\ terminal # None \/ answer[c] # None
  BY <1>2
<1> HIDE DEF Return
<1> QED
  BY <1>1, <1>2, <1>3, <1>4, ReturnKeeps

\* Another task ended the connection.
LEMMA RequestInterruptedKeeps ==
  ASSUME LinkIInv, NEW c \in Callers, RequestInterrupted(c)
  PROVE  LinkIInv'
<1>1. UNCHANGED <<reader, resource, waiter, terminal, events, awaiting, writer, opener,
                 loop, inbox, executed, sent, wire, batch, cancelled, hostClosing, hostClosed,
                 closeError, recClosing, sourceClosed, normalized, taken, drained, answer, writing,
                 closer, waitFor, consumer, cleanup>>
  BY DEF RequestInterrupted, Return, helper, reading, hello, evidence, request, host,
     recorder, OffRequest, OffOpen, OffClose, OffConsume
<1>2. /\ Return(c, "unknown") /\ got' = got /\ got \in [Callers -> Callers \union {None}]
  BY DEF RequestInterrupted, Undetermined, LinkIInv, ValuesOK
<1>3. /\ call[c] \in Holding /\ writer # c
      /\ terminal # None \/ answer[c] # None
  <2>1. CASE call[c] = "writing" /\ writer # c
    BY <2>1 DEF LinkIInv, RequestsOK, RequestOK, Holding
  <2>2. CASE call[c] = "waiting" /\ answer[c] # None
    BY <2>2 DEF LinkIInv, RequestsOK, RequestOK, Holding
  <2> QED
    BY <2>1, <2>2 DEF RequestInterrupted
<1>4. /\ "unknown" \in {"ok", "failed", "unknown"}
      /\ \A d \in Callers : got'[d] = got[d] \/ got'[d] = d
  BY <1>2
<1> QED
  BY <1>1, <1>2, <1>3, <1>4, ReturnKeeps

\* The helper answered.
LEMMA RequestAnsweredKeeps ==
  ASSUME LinkIInv, NEW c \in Callers, RequestAnswered(c)
  PROVE  LinkIInv'
<1>1. UNCHANGED <<reader, resource, waiter, terminal, events, awaiting, writer, opener,
                 loop, inbox, executed, sent, wire, batch, cancelled, hostClosing, hostClosed,
                 closeError, recClosing, sourceClosed, normalized, taken, drained, answer, writing,
                 closer, waitFor, consumer, cleanup>>
  BY DEF RequestAnswered, Return, helper, reading, hello, evidence, request, host, recorder,
     OffRequest, OffOpen, OffClose, OffConsume
<1>2. /\ call[c] = "waiting" /\ answer[c] # None /\ IsResponse(answer[c])
      /\ got' = [got EXCEPT ![c] = answer[c].cmd] /\ Return(c, Judged(answer[c]))
      /\ got \in [Callers -> Callers \union {None}]
  BY DEF RequestAnswered, IsResponse, LinkIInv, ValuesOK
<1>3. answer[c].cmd = c /\ <<c, answer[c].verdict>> \in executed
  BY <1>2 DEF LinkIInv, AnswersOK, AnswerOK
<1>4. /\ Judged(answer[c]) \in {"ok", "failed", "unknown"}
      /\ Judged(answer[c]) = "ok" => <<c, "ok">> \in executed
  BY <1>3 DEF Judged
<1>5. /\ got' \in [Callers -> Callers \union {None}]
      /\ \A d \in Callers : got'[d] = got[d] \/ got'[d] = d
  BY <1>2, <1>3
<1>6. call[c] \in Holding /\ writer # c
  BY <1>2 DEF LinkIInv, RequestsOK, RequestOK, Holding
<1> HIDE DEF Judged
<1> QED
  BY <1>1, <1>2, <1>4, <1>5, <1>6, ReturnKeeps

\* A call that ends before anything of it is sent, or waits for its turn.
LEMMA CallMoves ==
  ASSUME LinkIInv, NEW c \in Callers, call[c] \in {"idle", "queued"},
         \/ Return(c, "unsent")
         \/ /\ call[c] = "idle" /\ call' = [call EXCEPT ![c] = "queued"]
            /\ ~hostClosing /\ UNCHANGED <<result, pending>>,
         opener = "running",
         UNCHANGED <<reader, resource, waiter, terminal, events, awaiting, writer, opener,
                   loop, inbox, executed, sent, wire, batch, cancelled, hostClosing, hostClosed,
                   closeError, recClosing, sourceClosed, normalized, taken, drained, answer, writing,
                   got, closer, waitFor, consumer, cleanup>>
  PROVE  LinkIInv'
<1>1. /\ pending # c /\ c # None
      /\ call \in [Callers -> InLoop \union {"idle", "returned"}]
      /\ result \in [Callers -> {None, "ok", "failed", "unknown", "unsent"}]
      /\ writing[c] = "none" /\ answer[c] = None /\ Fresh(c) /\ result[c] = None
  <2>1. RequestOK(c) /\ AnswerOK(c) /\ c # None
    BY NoneFacts DEF LinkIInv, RequestsOK, AnswersOK
  <2>2. /\ call \in [Callers -> InLoop \union {"idle", "returned"}]
        /\ result \in [Callers -> {None, "ok", "failed", "unknown", "unsent"}]
    BY DEF LinkIInv, LinkTypeOK, ValuesOK
  <2>3. pending # c /\ writing[c] = "none" /\ answer[c] = None /\ result[c] = None
    BY <2>1 DEF RequestOK, Holding
  <2>4. Fresh(c)
    BY <2>1 DEF AnswerOK
  <2> QED
    BY <2>1, <2>2, <2>3, <2>4
<1>2. PICK s \in {"returned", "queued"}, r \in {"unsent", None} :
        /\ pending' = pending /\ call' = [call EXCEPT ![c] = s]
        /\ result' = [result EXCEPT ![c] = r]
        /\ s = "returned" <=> r = "unsent"
        /\ s = "queued" => ~hostClosing
  <2>1. CASE Return(c, "unsent")
    BY <1>1, <2>1 DEF Return
  <2>2. CASE /\ call[c] = "idle" /\ call' = [call EXCEPT ![c] = "queued"]
             /\ ~hostClosing /\ UNCHANGED <<result, pending>>
    <3>1. result' = [result EXCEPT ![c] = None]
      BY <1>1, <2>2
    <3>2. None # "unsent"
      BY NoneFacts
    <3> QED
      BY <2>2, <3>1, <3>2
  <2> QED
    BY <2>1, <2>2
<1>3. /\ call' \in [Callers -> InLoop \union {"idle", "returned"}] /\ call'[c] = s
      /\ result' \in [Callers -> {None, "ok", "failed", "unknown", "unsent"}] /\ result'[c] = r
      /\ \A d \in Callers : d # c => call'[d] = call[d] /\ result'[d] = result[d]
  BY <1>1, <1>2 DEF InLoop
<1>4. LinkTypeOK' /\ ValuesOK'
  BY <1>2, <1>3 DEF LinkIInv, LinkTypeOK, ValuesOK
<1>5. ReaderOK' /\ DrainedOK'
  BY Untouched DEF LinkIInv
<1>6. OpenOK'
  BY DEF LinkIInv, OpenOK
<1>7. HostOK'
  <2>1. \A d \in Callers : call'[d] \in InLoop => call[d] \in InLoop \/ ~hostClosing
    BY <1>2, <1>3 DEF InLoop
  <2>2. hostClosed => hostClosing
    BY DEF LinkIInv, HostOK
  <2> QED
    BY <2>1, <2>2 DEF LinkIInv, HostOK, Active
<1>8. ASSUME NEW d \in Callers
      PROVE  RequestOK(d)' /\ AnswerOK(d)'
  <2>1. RequestOK(d) /\ AnswerOK(d) /\ d # None /\ None # "unsent" /\ None # "ok"
    BY NoneFacts DEF LinkIInv, RequestsOK, AnswersOK
  <2>2. Fresh(d)' <=> Fresh(d)
    BY DEF Fresh
  <2>3. CASE d = c
    <3>1. writer # c
      BY <1>1, <2>1, <2>3 DEF RequestOK
    <3> QED
      BY <1>1, <1>2, <1>3, <2>1, <2>2, <2>3, <3>1 DEF RequestOK, AnswerOK, Holding
  <2>4. CASE d # c
    BY <1>2, <1>3, <2>1, <2>2, <2>4 DEF RequestOK, AnswerOK
  <2> QED
    BY <2>3, <2>4
<1>9. RequestsOK'
  BY <1>2, <1>8 DEF LinkIInv, RequestsOK
<1>10. AnswersOK'
  BY <1>8 DEF LinkIInv, AnswersOK, Answered
<1>11. TransitOK'
  BY <1>2, Untouched DEF LinkIInv
<1> QED
  BY <1>4, <1>5, <1>6, <1>7, <1>9, <1>10, <1>11 DEF LinkIInv

\* A thread submits its operation.
LEMMA SubmitKeeps ==
  ASSUME LinkIInv, NEW c \in Callers, Submit(c)
  PROVE  LinkIInv'
<1>1. UNCHANGED <<reader, resource, waiter, terminal, events, awaiting, writer, opener,
                 loop, inbox, executed, sent, wire, batch, cancelled, hostClosing, hostClosed,
                 closeError, recClosing, sourceClosed, normalized, taken, drained, answer, writing,
                 got, closer, waitFor, consumer, cleanup>>
  BY DEF Submit, helper, reading, hello, evidence, request, host, recorder, OffRequest,
     OffOpen, OffClose, OffConsume
<1>2. call[c] = "idle" /\ opener = "running"
  BY DEF Submit, Calls, Ready
<1>3. \/ Return(c, "unsent")
      \/ /\ call' = [call EXCEPT ![c] = "queued"]
         /\ ~hostClosing /\ UNCHANGED <<result, pending>>
  BY DEF Submit
<1> QED
  BY <1>1, <1>2, <1>3, CallMoves

\* A request takes its turn and starts to write.
LEMMA RequestBeginsKeeps ==
  ASSUME LinkIInv, NEW c \in Callers, RequestBegins(c)
  PROVE  LinkIInv'
<1>1. UNCHANGED <<reader, resource, waiter, terminal, events, awaiting, opener, loop,
                 inbox, executed, sent, wire, batch, cancelled, hostClosing, hostClosed, closeError,
                 recClosing, sourceClosed, normalized, taken, drained, answer, got, closer, waitFor,
                 consumer, cleanup>>
  BY DEF RequestBegins, Return, helper, reading, hello, evidence, request, host, recorder,
     OffRequest, OffOpen, OffClose, OffConsume
<1>2. call[c] = "queued" /\ opener = "running" /\ \A d \in Callers : call[d] \notin Holding
  BY DEF RequestBegins, LockHeld, InLoop, Holding, LinkIInv, OpenOK
<1>3. CASE terminal # None
  <2>1. Return(c, "unsent") /\ UNCHANGED <<writer, writing>>
    BY <1>3 DEF RequestBegins
  <2> QED
    BY <1>1, <1>2, <2>1, CallMoves
<1>4. CASE terminal = None
  <2>1. /\ pending' = c /\ writer' = c /\ writing' = [writing EXCEPT ![c] = "started"]
        /\ call' = [call EXCEPT ![c] = "writing"] /\ result' = result
    BY <1>4 DEF RequestBegins
  <2>2. /\ \A d \in Callers : RequestOK(d) /\ AnswerOK(d) /\ d # None
        /\ call \in [Callers -> InLoop \union {"idle", "returned"}]
        /\ writing \in [Callers -> {"none", "started", "delivered"}]
        /\ pending \in Callers \union {None}
    BY NoneFacts DEF LinkIInv, LinkTypeOK, ValuesOK, RequestsOK, AnswersOK
  <2>3. /\ call' \in [Callers -> InLoop \union {"idle", "returned"}] /\ call'[c] = "writing"
        /\ writing' \in [Callers -> {"none", "started", "delivered"}] /\ writing'[c] = "started"
        /\ \A d \in Callers : d # c => call'[d] = call[d] /\ writing'[d] = writing[d]
    BY <2>1, <2>2 DEF InLoop
  <2>4. /\ pending = None /\ answer[c] = None /\ Fresh(c)
        /\ \A d \in Callers : writing[d] = "none"
    <3>1. ASSUME NEW d \in Callers
          PROVE  pending # d /\ writing[d] = "none"
      <4>1. RequestOK(d) /\ call[d] \notin Holding
        BY <1>2, <2>2
      <4> QED
        BY <1>4, <4>1 DEF RequestOK, Holding
    <3>2. RequestOK(c) /\ AnswerOK(c)
      BY <2>2
    <3>3. answer[c] = None /\ Fresh(c)
      BY <1>2, <3>2 DEF RequestOK, AnswerOK
    <3> QED
      BY <2>2, <3>1, <3>3
  <2>5. LinkTypeOK' /\ ValuesOK'
    BY <1>1, <2>1, <2>3 DEF LinkIInv, LinkTypeOK, ValuesOK
  <2>6. ReaderOK' /\ DrainedOK'
    BY <1>1, Untouched DEF LinkIInv
  <2>7. OpenOK'
    BY <1>1, <1>2 DEF LinkIInv, OpenOK
  <2>8. HostOK'
    <3>1. \A d \in Callers : call'[d] \in InLoop => call[d] \in InLoop
      BY <1>2, <2>3 DEF InLoop
    <3> QED
      BY <1>1, <3>1 DEF LinkIInv, HostOK, Active
  <2>9. ASSUME NEW d \in Callers
        PROVE  RequestOK(d)' /\ AnswerOK(d)'
    <3>1. Fresh(d)' <=> Fresh(d)
      BY <1>1 DEF Fresh
    <3>2. RequestOK(d) /\ AnswerOK(d)
      BY <2>2
    <3>3. CASE d = c
      <4>1. result[c] = None
        BY <1>2, <3>2, <3>3 DEF RequestOK
      <4>2. RequestOK(c)'
        BY <1>1, <1>4, <2>1, <2>3, <2>4, <4>1, NoneFacts DEF RequestOK, Holding
      <4>3. AnswerOK(c)'
        BY <1>1, <2>1, <2>3, <2>4, <3>1, <3>2, <3>3, <4>1 DEF AnswerOK
      <4> QED
        BY <3>3, <4>2, <4>3
    <3>4. CASE d # c
      BY <1>1, <1>2, <1>4, <2>1, <2>2, <2>3, <2>4, <3>1, <3>2, <3>4
         DEF RequestOK, AnswerOK, Holding
    <3> QED
      BY <3>3, <3>4
  <2>10. RequestsOK'
    BY <1>1, <1>4, <2>9 DEF LinkIInv, RequestsOK
  <2>11. AnswersOK'
    BY <1>1, <2>9 DEF LinkIInv, AnswersOK, Answered
  <2>12. Transit /\ \A d \in Callers : ~Under(d)
    <3>1. Transit
      BY <1>4 DEF LinkIInv, TransitOK
    <3>2. \A d \in Callers : pending # d
      BY <2>2, <2>4
    <3> QED
      BY <3>1, <3>2 DEF Under
  <2>13. NoneIn(wire) /\ NoneIn(batch) /\ inbox = << >>
    <3>1. wire \in Seq(Messages) /\ batch \in Seq(Messages) /\ inbox \in Seq(Callers)
      BY DEF LinkIInv, ValuesOK
    <3>2. ASSUME NEW q \in Seq(Messages), OneIn(q)
          PROVE  NoneIn(q)
      <4>1. \A j \in 1 .. Len(q) : q[j] \in Messages
        BY <3>2
      <4>2. \A j \in 1 .. Len(q) : IsResponse(q[j]) => q[j].cmd \in Callers
        BY <4>1, MessageFacts
      <4> QED
        BY <2>12, <3>2, <4>2 DEF OneIn, NoneIn
    <3>3. inbox = << >>
      <4>1. inbox # << >> => inbox[1] \in Callers
        BY <3>1, TailFacts
      <4> QED
        BY <2>12, <4>1 DEF Transit
    <3> QED
      BY <2>12, <3>1, <3>2, <3>3 DEF Transit
  <2>14. NoneIn(wire)' /\ NoneIn(batch)'
    BY <1>1, <2>13 DEF NoneIn
  <2>15. OneIn(wire)' /\ OneIn(batch)'
    BY <2>14 DEF NoneIn, OneIn
  <2>16. \A d \in Callers : writing'[d] = "started" => Under(d)'
    BY <1>1, <2>1, <2>3, <2>4 DEF Under
  <2>17. TransitOK'
    BY <1>1, <2>13, <2>14, <2>15, <2>16 DEF TransitOK, Transit
  <2> QED
    BY <2>5, <2>6, <2>7, <2>8, <2>10, <2>11, <2>17 DEF LinkIInv
<1> QED
  BY <1>3, <1>4

\* The frame is in the pipe.
LEMMA FrameDeliveredKeeps ==
  ASSUME LinkIInv, NEW c \in Callers, FrameDelivered(c)
  PROVE  LinkIInv'
<1>1. UNCHANGED <<reader, resource, waiter, terminal, events, awaiting, pending, writer,
                 call, opener, loop, executed, sent, wire, batch, cancelled, hostClosing, hostClosed,
                 closeError, recClosing, sourceClosed, normalized, taken, drained, answer, result,
                 got, closer, waitFor, consumer, cleanup>>
  BY DEF FrameDelivered, helper, reading, hello, evidence, request, host, recorder,
     OffRequest, OffOpen, OffClose, OffConsume
<1>2. /\ writing[c] = "started" /\ writing' = [writing EXCEPT ![c] = "delivered"]
      /\ inbox' = inbox \/ inbox' = Append(inbox, c)
  BY DEF FrameDelivered
<1>3. /\ writing' \in [Callers -> {"none", "started", "delivered"}] /\ writing'[c] = "delivered"
      /\ \A d \in Callers : d # c => writing'[d] = writing[d]
  BY <1>2 DEF LinkIInv, ValuesOK
<1>4. inbox \in Seq(Callers) /\ inbox' \in Seq(Callers)
  <2>1. inbox \in Seq(Callers)
    BY DEF LinkIInv, ValuesOK
  <2>2. Append(inbox, c) \in Seq(Callers)
    BY <2>1, AppendFacts
  <2> QED
    BY <1>2, <2>1, <2>2
<1>5. LinkTypeOK' /\ ReaderOK' /\ OpenOK' /\ HostOK' /\ DrainedOK'
  BY <1>1, Untouched DEF LinkIInv
<1>6. ValuesOK'
  BY <1>1, <1>3, <1>4 DEF LinkIInv, ValuesOK
<1>7. ASSUME NEW d \in Callers
      PROVE  RequestOK(d)' /\ AnswerOK(d)'
  <2>1. RequestOK(d) /\ AnswerOK(d)
    BY DEF LinkIInv, RequestsOK, AnswersOK
  <2>2. CASE d = c
    <3>1. RequestOK(c)'
      BY <1>1, <1>2, <1>3, <2>1, <2>2 DEF RequestOK, Holding
    <3>2. call[c] \notin {"idle", "queued"} /\ result[c] # "unsent"
      BY <1>2, <2>1, <2>2 DEF RequestOK
    <3>3. AnswerOK(c)'
      BY <1>1, <1>3, <2>1, <2>2, <3>2 DEF AnswerOK
    <3> QED
      BY <2>2, <3>1, <3>3
  <2>3. CASE d # c
    <3>1. RequestOK(d)'
      BY <1>1, <1>3, <2>1, <2>3 DEF RequestOK
    <3>2. Fresh(d) => Fresh(d)'
      <4>1. ASSUME inbox' = Append(inbox, c), Fresh(d)
            PROVE  \A j \in 1 .. Len(inbox') : inbox'[j] # d
        <5>1. /\ Len(inbox') = Len(inbox) + 1 /\ inbox'[Len(inbox) + 1] = c /\ Len(inbox) \in Nat
              /\ \A i \in 1 .. Len(inbox) : inbox'[i] = inbox[i]
          BY <1>4, <4>1, AppendFacts
        <5> QED
          BY <2>3, <4>1, <5>1 DEF Fresh
      <4> QED
        BY <1>1, <1>2, <4>1 DEF Fresh
    <3>3. AnswerOK(d)'
      BY <1>1, <1>3, <2>1, <2>3, <3>2 DEF AnswerOK
    <3> QED
      BY <3>1, <3>3
  <2> QED
    BY <2>2, <2>3
<1>8. RequestsOK'
  BY <1>1, <1>7 DEF LinkIInv, RequestsOK
<1>9. AnswersOK'
  BY <1>1, <1>7 DEF LinkIInv, AnswersOK, Answered
<1>10. TransitOK'
  <2> SUFFICES ASSUME terminal' = None PROVE Transit'
    BY DEF TransitOK
  <2>1. Transit
    BY <1>1 DEF LinkIInv, TransitOK
  <2>2. Under(c) /\ inbox = << >> /\ NoneIn(wire) /\ NoneIn(batch)
    BY <1>2, <2>1 DEF Transit
  <2>3. NoneIn(wire)' /\ NoneIn(batch)' /\ Under(c)'
    BY <1>1, <2>2 DEF NoneIn, Under
  <2>4. OneIn(wire)' /\ OneIn(batch)'
    BY <2>3 DEF NoneIn, OneIn
  <2>5. \A d \in Callers : writing'[d] # "started"
    BY <1>2, <1>3, <2>1, <2>2 DEF Transit, Under
  <2>6. inbox' # << >> => Len(inbox') = 1 /\ inbox'[1] = c
    <3>1. Len(inbox) = 0
      BY <2>2
    <3> QED
      BY <1>2, <1>4, <2>2, <3>1, AppendFacts
  <2>7. inbox' # << >> => Under(inbox[1])'
    BY <2>3, <2>6 DEF Under
  <2> QED
    BY <2>3, <2>4, <2>5, <2>6, <2>7 DEF Transit
<1> QED
  BY <1>5, <1>6, <1>8, <1>9, <1>10 DEF LinkIInv

\* A write that nobody waits for comes to its end.
LEMMA WriteForgotten ==
  ASSUME LinkIInv, NEW c \in Callers, writing[c] # "none", writer # c,
         writing' = [writing EXCEPT ![c] = "none"],
         UNCHANGED <<reader, resource, waiter, terminal, events, awaiting, pending, writer,
                   call, opener, loop, inbox, executed, sent, wire, batch, cancelled, hostClosing,
                   hostClosed, closeError, recClosing, sourceClosed, normalized, taken, drained,
                   answer, result, got, closer, waitFor, consumer, cleanup>>
  PROVE  LinkIInv'
<1>1. /\ writing' \in [Callers -> {"none", "started", "delivered"}] /\ writing'[c] = "none"
      /\ \A d \in Callers : d # c => writing'[d] = writing[d]
  BY DEF LinkIInv, ValuesOK
<1>2. LinkTypeOK' /\ ReaderOK' /\ OpenOK' /\ HostOK' /\ DrainedOK'
  BY Untouched DEF LinkIInv
<1>3. ValuesOK'
  BY <1>1 DEF LinkIInv, ValuesOK
<1>4. ASSUME NEW d \in Callers
      PROVE  RequestOK(d)' /\ AnswerOK(d)'
  <2>1. RequestOK(d) /\ AnswerOK(d) /\ RequestOK(c)
    BY DEF LinkIInv, RequestsOK, AnswersOK
  <2>2. Fresh(d)' <=> Fresh(d)
    BY DEF Fresh
  <2>3. CASE d = c
    BY <1>1, <2>1, <2>2, <2>3 DEF RequestOK, AnswerOK
  <2>4. CASE d # c
    BY <1>1, <2>1, <2>2, <2>4 DEF RequestOK, AnswerOK
  <2> QED
    BY <2>3, <2>4
<1>5. RequestsOK'
  BY <1>4 DEF LinkIInv, RequestsOK
<1>6. AnswersOK'
  BY <1>4 DEF LinkIInv, AnswersOK, Answered
<1>7. terminal' # None
  <2>1. RequestOK(c)
    BY DEF LinkIInv, RequestsOK
  <2> QED
    BY <2>1 DEF RequestOK
<1> QED
  BY <1>2, <1>3, <1>5, <1>6, <1>7 DEF LinkIInv, TransitOK

\* The write returns, and its request waits for the answer.
LEMMA WriteReturnsKeeps ==
  ASSUME LinkIInv, NEW c \in Callers, WriteReturns(c)
  PROVE  LinkIInv'
<1>1. UNCHANGED <<reader, resource, waiter, terminal, events, awaiting, pending, opener,
                 loop, inbox, executed, sent, wire, batch, cancelled, hostClosing, hostClosed,
                 closeError, recClosing, sourceClosed, normalized, taken, drained, answer, result,
                 got, closer, waitFor, consumer, cleanup>>
  BY DEF WriteReturns, helper, reading, hello, evidence, request, host, recorder,
     OffRequest, OffOpen, OffClose, OffConsume
<1>2. writing[c] = "delivered" /\ writing' = [writing EXCEPT ![c] = "none"]
  BY DEF WriteReturns
<1>3. CASE writer # c
  <2>1. UNCHANGED <<writer, call>>
    BY <1>3 DEF WriteReturns
  <2> QED
    BY <1>1, <1>2, <1>3, <2>1, WriteForgotten
<1>4. CASE writer = c
  <2>1. writer' = None /\ call' = [call EXCEPT ![c] = "waiting"]
    BY <1>4 DEF WriteReturns
  <2>2. /\ \A d \in Callers : RequestOK(d) /\ AnswerOK(d) /\ d # None
        /\ call \in [Callers -> InLoop \union {"idle", "returned"}]
        /\ writing \in [Callers -> {"none", "started", "delivered"}]
    BY NoneFacts DEF LinkIInv, LinkTypeOK, ValuesOK, RequestsOK, AnswersOK
  <2>3. call[c] = "writing"
    BY <1>4, <2>2 DEF RequestOK
  <2>4. /\ call' \in [Callers -> InLoop \union {"idle", "returned"}] /\ call'[c] = "waiting"
        /\ writing' \in [Callers -> {"none", "started", "delivered"}] /\ writing'[c] = "none"
        /\ \A d \in Callers : d # c => call'[d] = call[d] /\ writing'[d] = writing[d]
    BY <1>2, <2>1, <2>2 DEF InLoop
  <2>5. LinkTypeOK' /\ ValuesOK'
    BY <1>1, <2>1, <2>4 DEF LinkIInv, LinkTypeOK, ValuesOK
  <2>6. ReaderOK' /\ DrainedOK'
    BY <1>1, Untouched DEF LinkIInv
  <2>7. OpenOK'
    BY <1>1, <2>3 DEF LinkIInv, OpenOK
  <2>8. HostOK'
    <3>1. \A d \in Callers : call'[d] \in InLoop => call[d] \in InLoop
      BY <2>3, <2>4 DEF InLoop
    <3> QED
      BY <1>1, <3>1 DEF LinkIInv, HostOK, Active
  <2>9. ASSUME NEW d \in Callers
        PROVE  RequestOK(d)' /\ AnswerOK(d)'
    <3>1. Fresh(d)' <=> Fresh(d)
      BY <1>1 DEF Fresh
    <3>2. RequestOK(d) /\ AnswerOK(d) /\ d # None
      BY <2>2
    <3>3. CASE d = c
      <4>1. RequestOK(c)'
        BY <1>1, <2>1, <2>3, <2>4, <3>2, <3>3 DEF RequestOK, Holding
      <4>2. AnswerOK(c)'
        BY <1>1, <2>3, <2>4, <3>1, <3>2, <3>3 DEF AnswerOK
      <4> QED
        BY <3>3, <4>1, <4>2
    <3>4. CASE d # c
      BY <1>1, <1>4, <2>1, <2>4, <3>1, <3>2, <3>4 DEF RequestOK, AnswerOK
    <3> QED
      BY <3>3, <3>4
  <2>10. RequestsOK'
    BY <1>1, <2>1, <2>9 DEF LinkIInv, RequestsOK
  <2>11. AnswersOK'
    BY <1>1, <2>9 DEF LinkIInv, AnswersOK, Answered
  <2>12. TransitOK'
    <3>1. \A d \in Callers : writing'[d] = "started" => writing[d] = "started"
      BY <2>4
    <3> QED
      BY <1>1, <3>1 DEF LinkIInv, TransitOK, Transit, Under, NoneIn, OneIn
  <2> QED
    BY <2>5, <2>6, <2>7, <2>8, <2>10, <2>11, <2>12 DEF LinkIInv
<1> QED
  BY <1>3, <1>4

\* A request that gives up ends the connection.
LEMMA RequestGivesUp ==
  ASSUME LinkIInv, NEW c \in Callers, call[c] \in Holding, EndTold, cancelled' \in BOOLEAN,
         call' = [call EXCEPT ![c] = "failing"],
         writing' \in [Callers -> {"none", "started", "delivered"}],
         \A d \in Callers : writing'[d] = writing[d] \/ writing'[d] = "none",
         UNCHANGED <<reader, resource, events, awaiting, pending, opener, loop, inbox,
                   executed, sent, wire, batch, hostClosing, hostClosed, closeError, recClosing,
                   sourceClosed, normalized, taken, drained, result, got, closer, waitFor, consumer,
                   cleanup>>
  PROVE  LinkIInv'
<1>1. /\ call' \in [Callers -> InLoop \union {"idle", "returned"}] /\ call'[c] = "failing"
      /\ \A d \in Callers : d # c => call'[d] = call[d]
  BY DEF LinkIInv, LinkTypeOK, InLoop
<1>2. LinkTypeOK'
  BY <1>1 DEF LinkIInv, LinkTypeOK, EndTold
<1>3. ValuesOK'
  BY DEF LinkIInv, ValuesOK, EndTold
<1>4. ReaderOK' /\ DrainedOK'
  BY Untouched DEF LinkIInv
<1>5. OpenOK'
  BY DEF LinkIInv, OpenOK, Holding
<1>6. HostOK'
  <2>1. \A d \in Callers : call'[d] \in InLoop => call[d] \in InLoop
    BY <1>1 DEF InLoop, Holding
  <2> QED
    BY <2>1 DEF LinkIInv, HostOK, Active
<1>7. Answered(wire)' /\ Answered(batch)'
  BY DEF LinkIInv, AnswersOK, Answered
<1>8. \A d \in Callers : call'[d] = call[d] \/ (call[d] \in Holding /\ call'[d] = "failing")
  BY <1>1
<1>9. RequestsOK' /\ AnswersOK' /\ TransitOK'
  BY <1>7, <1>8, AfterEnd
<1> QED
  BY <1>2, <1>3, <1>4, <1>5, <1>6, <1>9 DEF LinkIInv

\* The write raises.
LEMMA WriteFailsKeeps ==
  ASSUME LinkIInv, NEW c \in Callers, WriteFails(c)
  PROVE  LinkIInv'
<1>1. UNCHANGED <<reader, resource, events, awaiting, pending, opener, loop, inbox,
                 executed, sent, wire, batch, hostClosing, hostClosed, closeError, recClosing,
                 sourceClosed, normalized, taken, drained, result, got, closer, waitFor, consumer,
                 cleanup>>
  BY DEF WriteFails, helper, reading, hello, evidence, request, host, recorder, OffRequest,
     OffOpen, OffClose, OffConsume
<1>2. writing[c] # "none" /\ writing' = [writing EXCEPT ![c] = "none"]
  BY DEF WriteFails
<1>3. CASE writer # c
  <2>1. UNCHANGED <<terminal, waiter, answer, writer, cancelled, call>>
    BY <1>3 DEF WriteFails
  <2> QED
    BY <1>1, <1>2, <1>3, <2>1, WriteForgotten
<1>4. CASE writer = c
  <2>1. /\ Ends("disconnected") /\ cancelled' \in BOOLEAN
        /\ call' = [call EXCEPT ![c] = "failing"]
    BY <1>4 DEF WriteFails, Terminate, Ends
  <2>2. EndTold
    BY <2>1, EndTells DEF Errors
  <2>3. call[c] \in Holding
    BY <1>4 DEF LinkIInv, RequestsOK, RequestOK, Holding
  <2>4. /\ writing' \in [Callers -> {"none", "started", "delivered"}]
        /\ \A d \in Callers : writing'[d] = writing[d] \/ writing'[d] = "none"
    BY <1>2 DEF LinkIInv, ValuesOK
  <2> QED
    BY <1>1, <2>1, <2>2, <2>3, <2>4, RequestGivesUp
<1> QED
  BY <1>3, <1>4

\* No answer in time.
LEMMA RequestTimesOutKeeps ==
  ASSUME LinkIInv, NEW c \in Callers, RequestTimesOut(c)
  PROVE  LinkIInv'
<1>1. UNCHANGED <<reader, resource, events, awaiting, pending, opener, loop, inbox,
                 executed, sent, wire, batch, hostClosing, hostClosed, closeError, recClosing,
                 sourceClosed, normalized, taken, drained, writing, result, got, closer, waitFor,
                 consumer, cleanup>>
  BY DEF RequestTimesOut, helper, reading, hello, evidence, request, host, recorder,
     OffRequest, OffOpen, OffClose, OffConsume
<1>2. /\ Ends("disconnected") /\ cancelled' \in BOOLEAN /\ call[c] \in Holding
      /\ call' = [call EXCEPT ![c] = "failing"]
  BY DEF RequestTimesOut, Terminate, Ends, Holding
<1>3. EndTold
  BY <1>2, EndTells DEF Errors
<1>4. /\ writing' \in [Callers -> {"none", "started", "delivered"}]
      /\ \A d \in Callers : writing'[d] = writing[d] \/ writing'[d] = "none"
  BY <1>1 DEF LinkIInv, ValuesOK
<1> QED
  BY <1>1, <1>2, <1>3, <1>4, RequestGivesUp

\* The serial opener fails, having closed what it opened or not.
LEMMA ConnectFailsKeeps ==
  ASSUME LinkIInv, ConnectFails
  PROVE  LinkIInv'
<1>1. UNCHANGED <<reader, waiter, terminal, events, awaiting, pending, writer, call, loop,
                 inbox, executed, sent, wire, batch, cancelled, hostClosing, hostClosed, closeError,
                 recClosing, sourceClosed, normalized, taken, drained, answer, writing, result, got,
                 closer, waitFor, consumer>>
  BY DEF ConnectFails, helper, reading, hello, evidence, request, host, recorder,
     OffRequest, OffOpen, OffClose, OffConsume
<1>2. /\ opener = "connecting" /\ opener' = "stopping" /\ cleanup' \in BOOLEAN
      /\ resource' \in {"closed", "failed"} /\ cleanup' = (resource' = "closed")
  BY DEF ConnectFails
<1>3. /\ reader = "idle" /\ ~hostClosing /\ ~hostClosed /\ consumer = "loop"
      /\ (\A k \in Closers : closer[k] = "idle") /\ (\A c \in Callers : call[c] = "idle")
  BY <1>2 DEF LinkIInv, OpenOK
<1>4. HostOK' /\ RequestsOK' /\ AnswersOK' /\ TransitOK'
  BY <1>1, Untouched DEF LinkIInv
<1>5. LinkTypeOK' /\ ValuesOK'
  BY <1>1, <1>2 DEF LinkIInv, LinkTypeOK, ValuesOK
<1>6. ReaderOK'
  BY <1>1, <1>2, <1>3 DEF LinkIInv, ReaderOK
<1>7. OpenOK'
  BY <1>1, <1>2, <1>3 DEF OpenOK
<1>8. DrainedOK'
  BY <1>1, <1>2, <1>3 DEF LinkIInv, DrainedOK, Drained
<1> QED
  BY <1>4, <1>5, <1>6, <1>7, <1>8 DEF LinkIInv

\* The port is open and the reader attached.
LEMMA ConnectsKeeps ==
  ASSUME LinkIInv, Connects
  PROVE  LinkIInv'
<1>1. UNCHANGED <<terminal, events, awaiting, pending, writer, call, loop, inbox,
                 executed, sent, wire, batch, cancelled, hostClosing, hostClosed, closeError,
                 recClosing, sourceClosed, normalized, taken, drained, answer, writing, result, got,
                 closer, waitFor, consumer, cleanup>>
  BY DEF Connects, helper, reading, hello, evidence, request, host, recorder, OffRequest,
     OffOpen, OffClose, OffConsume
<1>2. /\ opener = "connecting" /\ opener' = "hello" /\ resource' = "open"
      /\ reader' = "reading" /\ waiter' = "pending"
  BY DEF Connects
<1>3. /\ reader = "idle" /\ ~hostClosing /\ ~hostClosed /\ consumer = "loop"
      /\ (\A k \in Closers : closer[k] = "idle") /\ (\A c \in Callers : call[c] = "idle")
  BY <1>2 DEF LinkIInv, OpenOK
<1>4. ValuesOK' /\ HostOK' /\ RequestsOK' /\ AnswersOK' /\ TransitOK'
  BY <1>1, Untouched DEF LinkIInv
<1>5. LinkTypeOK'
  BY <1>1, <1>2 DEF LinkIInv, LinkTypeOK
<1>6. ReaderOK'
  BY <1>1, <1>2, <1>3 DEF LinkIInv, ReaderOK
<1>7. OpenOK'
  BY <1>1, <1>2, <1>3 DEF OpenOK
<1>8. DrainedOK'
  BY <1>1, <1>2, <1>3 DEF LinkIInv, DrainedOK, Drained
<1> QED
  BY <1>4, <1>5, <1>6, <1>7, <1>8 DEF LinkIInv

\* The opening goes on, or is over.
LEMMA OpenMoves ==
  ASSUME LinkIInv,
         \/ opener = "hello" /\ opener' = "segment"
         \/ opener = "segment" /\ opener' \in {"running", "raised", "abandoned"},
         UNCHANGED <<reader, resource, waiter, terminal, events, awaiting, pending, writer,
                   call, loop, inbox, executed, sent, wire, batch, cancelled, hostClosing, hostClosed,
                   closeError, recClosing, sourceClosed, normalized, taken, drained, answer, writing,
                   result, got, closer, waitFor, consumer, cleanup>>
  PROVE  LinkIInv'
<1>1. ValuesOK' /\ ReaderOK' /\ HostOK' /\ RequestsOK' /\ AnswersOK' /\ TransitOK'
  BY Untouched DEF LinkIInv
<1>2. LinkTypeOK'
  BY DEF LinkIInv, LinkTypeOK
<1>3. OpenOK'
  BY DEF LinkIInv, OpenOK
<1>4. DrainedOK'
  BY DEF LinkIInv, DrainedOK, Drained
<1> QED
  BY <1>1, <1>2, <1>3, <1>4 DEF LinkIInv

\* No hello: the connection is given up.
LEMMA OpenGivesUp ==
  ASSUME LinkIInv, opener = "hello", opener' = "cleanup", Ends("disconnected"),
         cancelled' \in BOOLEAN,
         UNCHANGED <<reader, resource, events, awaiting, pending, call, loop, inbox,
                   executed, sent, wire, batch, hostClosing, hostClosed, closeError, recClosing,
                   sourceClosed, normalized, taken, drained, writing, result, got, closer, waitFor,
                   consumer, cleanup>>
  PROVE  LinkIInv'
<1>1. EndTold
  BY EndTells DEF Errors
<1>2. Answered(wire)' /\ Answered(batch)'
  BY DEF LinkIInv, AnswersOK, Answered
<1>3. RequestsOK' /\ AnswersOK' /\ TransitOK'
  BY <1>1, <1>2, AfterEnd
<1>4. ReaderOK' /\ HostOK'
  BY Untouched DEF LinkIInv
<1>5. LinkTypeOK'
  BY <1>1 DEF LinkIInv, LinkTypeOK, EndTold
<1>6. ValuesOK'
  BY <1>1 DEF LinkIInv, ValuesOK, EndTold
<1>7. OpenOK'
  BY DEF LinkIInv, OpenOK
<1>8. DrainedOK'
  BY DEF LinkIInv, DrainedOK, Drained
<1> QED
  BY <1>3, <1>4, <1>5, <1>6, <1>7, <1>8 DEF LinkIInv

LEMMA HelloSettlesKeeps ==
  ASSUME LinkIInv, HelloSettles
  PROVE  LinkIInv'
<1>1. UNCHANGED <<reader, resource, events, awaiting, pending, call, loop, inbox,
                 executed, sent, wire, batch, hostClosing, hostClosed, closeError, recClosing,
                 sourceClosed, normalized, taken, drained, writing, result, got, closer, waitFor,
                 consumer, cleanup>>
  BY DEF HelloSettles, helper, reading, hello, evidence, request, host, recorder,
     OffRequest, OffOpen, OffClose, OffConsume
<1>2. /\ opener = "hello"
      /\ \/ opener' = "segment" /\ UNCHANGED <<terminal, waiter, answer, writer, cancelled>>
         \/ opener' = "cleanup" /\ Ends("disconnected") /\ cancelled' \in BOOLEAN
  BY DEF HelloSettles, Terminate, Ends
<1>3. CASE opener' = "segment" /\ UNCHANGED <<terminal, waiter, answer, writer, cancelled>>
  BY <1>1, <1>2, <1>3, OpenMoves
<1>4. CASE opener' = "cleanup" /\ Ends("disconnected") /\ cancelled' \in BOOLEAN
  BY <1>1, <1>2, <1>4, OpenGivesUp
<1> QED
  BY <1>2, <1>3, <1>4

LEMMA HelloTimesOutKeeps ==
  ASSUME LinkIInv, HelloTimesOut
  PROVE  LinkIInv'
<1>1. UNCHANGED <<reader, resource, events, awaiting, pending, call, loop, inbox,
                 executed, sent, wire, batch, hostClosing, hostClosed, closeError, recClosing,
                 sourceClosed, normalized, taken, drained, writing, result, got, closer, waitFor,
                 consumer, cleanup>>
  BY DEF HelloTimesOut, helper, reading, hello, evidence, request, host, recorder,
     OffRequest, OffOpen, OffClose, OffConsume
<1>2. opener = "hello" /\ opener' = "cleanup" /\ Ends("disconnected") /\ cancelled' \in BOOLEAN
  BY DEF HelloTimesOut, Terminate, Ends
<1> QED
  BY <1>1, <1>2, OpenGivesUp

\* The failed open has closed the port, or knows that it has not.
LEMMA CleanupEndsKeeps ==
  ASSUME LinkIInv, CleanupEnds
  PROVE  LinkIInv'
<1>1. UNCHANGED <<reader, resource, waiter, terminal, events, awaiting, pending, writer,
                 call, loop, inbox, executed, sent, wire, batch, cancelled, hostClosing, hostClosed,
                 closeError, recClosing, sourceClosed, normalized, taken, drained, answer, writing,
                 result, got, closer, waitFor, consumer>>
  BY DEF CleanupEnds, helper, reading, hello, evidence, request, host, recorder, OffRequest,
     OffOpen, OffClose, OffConsume
<1>2. /\ opener = "cleanup" /\ opener' = "stopping" /\ cleanup' = (resource = "closed")
      /\ reader \in {"idle", "done"} /\ resource \in {"closed", "failed"}
  BY DEF CleanupEnds, Terminated
<1>3. ReaderOK' /\ HostOK' /\ RequestsOK' /\ AnswersOK' /\ TransitOK'
  BY <1>1, Untouched DEF LinkIInv
<1>4. LinkTypeOK' /\ ValuesOK'
  BY <1>1, <1>2 DEF LinkIInv, LinkTypeOK, ValuesOK
<1>5. OpenOK'
  BY <1>1, <1>2 DEF LinkIInv, OpenOK
<1>6. DrainedOK'
  BY <1>1, <1>2 DEF LinkIInv, DrainedOK, Drained
<1> QED
  BY <1>3, <1>4, <1>5, <1>6 DEF LinkIInv

\* The loop of the failed open is stopped.
LEMMA StopFailedOpenKeeps ==
  ASSUME LinkIInv, StopFailedOpen
  PROVE  LinkIInv'
<1>1. UNCHANGED <<reader, resource, waiter, terminal, events, awaiting, pending, writer,
                 call, inbox, executed, sent, wire, batch, cancelled, closeError, recClosing,
                 sourceClosed, normalized, taken, drained, answer, writing, result, got, closer,
                 waitFor, consumer, cleanup>>
  BY DEF StopFailedOpen, helper, reading, hello, evidence, request, host, recorder,
     OffRequest, OffOpen, OffClose, OffConsume
<1>2. /\ opener = "stopping" /\ opener' = "failed"
      /\ loop' = "stopped" /\ hostClosing' /\ hostClosed'
      /\ hostClosing' = TRUE /\ hostClosed' = TRUE
  BY DEF StopFailedOpen
<1>3. /\ reader \in {"idle", "done"} /\ resource \in {"closed", "failed"} /\ consumer = "loop"
      /\ ~hostClosed
      /\ (\A k \in Closers : closer[k] = "idle") /\ (\A c \in Callers : call[c] = "idle")
  BY <1>2 DEF LinkIInv, OpenOK
<1>4. ReaderOK' /\ RequestsOK' /\ AnswersOK' /\ TransitOK'
  BY <1>1, Untouched DEF LinkIInv
<1>5. LinkTypeOK' /\ ValuesOK'
  BY <1>1, <1>2 DEF LinkIInv, LinkTypeOK, ValuesOK
<1>6. OpenOK'
  BY <1>1, <1>2, <1>3 DEF LinkIInv, OpenOK
<1>7. HostOK'
  BY <1>1, <1>2, <1>3 DEF HostOK, Active, InLoop
<1>8. DrainedOK'
  BY <1>1, <1>2, <1>3 DEF LinkIInv, DrainedOK, Drained
<1> QED
  BY <1>4, <1>5, <1>6, <1>7, <1>8 DEF LinkIInv

\* The first timestamp, or none in time.
LEMMA SegmentSettlesKeeps ==
  ASSUME LinkIInv, SegmentSettles
  PROVE  LinkIInv'
<1>1. UNCHANGED <<reader, resource, waiter, terminal, events, awaiting, pending, writer,
                 call, loop, inbox, executed, sent, wire, batch, cancelled, hostClosing, hostClosed,
                 closeError, recClosing, sourceClosed, normalized, taken, drained, answer, writing,
                 result, got, closer, waitFor, consumer, cleanup>>
  BY DEF SegmentSettles, helper, reading, hello, evidence, request, host, recorder,
     OffRequest, OffOpen, OffClose, OffConsume
<1>2. opener = "segment" /\ opener' \in {"running", "raised", "abandoned"}
  BY DEF SegmentSettles
<1> QED
  BY <1>1, <1>2, OpenMoves

\* A close begins: it performs the close, waits for the one that does, or returns.
LEMMA CloseBeginsKeeps ==
  ASSUME LinkIInv, NEW k \in Closers, CloseBegins(k)
  PROVE  LinkIInv'
<1>1. UNCHANGED <<reader, resource, waiter, terminal, events, awaiting, pending, writer,
                 call, opener, loop, inbox, executed, sent, wire, batch, cancelled, hostClosed,
                 closeError, normalized, taken, drained, answer, writing, result, got, consumer,
                 cleanup>>
  BY DEF CloseBegins, helper, reading, hello, evidence, request, host, recorder, OffRequest,
     OffOpen, OffClose, OffConsume
<1>2. /\ closer[k] = "idle" /\ opener \in {"running", "abandoned"}
      /\ recClosing' \in BOOLEAN /\ sourceClosed' \in BOOLEAN
      /\ sourceClosed' => sourceClosed \/ consumer = "fatal"
  BY DEF CloseBegins, CloseCalled, LinkIInv, OpenOK, ValuesOK
<1>3. PICK s \in {"returned", "waiting", "terminate"} :
        /\ closer' = [closer EXCEPT ![k] = s]
        /\ s # "terminate" => UNCHANGED <<hostClosing, waitFor>>
        /\ s = "terminate" =>
             /\ ~hostClosed /\ ~hostClosing /\ hostClosing' /\ hostClosing' = TRUE
             /\ waitFor' = {c \in Callers : call[c] \in InLoop}
                             \union (IF consumer = "inloop" THEN {"reader"} ELSE {})
  BY DEF CloseBegins
<1>4. /\ closer' \in [Closers -> {"idle", "terminate", "drain", "inflight", "waiting",
                                  "returned"}]
      /\ closer'[k] = s /\ \A l \in Closers : l # k => closer'[l] = closer[l]
  BY <1>3 DEF LinkIInv, ValuesOK
<1>5. /\ waitFor' \subseteq Callers \union {"reader"} /\ hostClosing' \in BOOLEAN
  BY <1>3 DEF LinkIInv, ValuesOK
<1>6. LinkTypeOK' /\ ReaderOK' /\ RequestsOK' /\ AnswersOK' /\ TransitOK'
  BY <1>1, Untouched DEF LinkIInv
<1>7. ValuesOK'
  BY <1>1, <1>2, <1>4, <1>5 DEF LinkIInv, ValuesOK
<1>8. OpenOK'
  BY <1>1, <1>2 DEF LinkIInv, OpenOK
<1>9. HostOK'
  <2>1. CASE s # "terminate"
    <3>1. \A l \in Closers : Active(l)' <=> Active(l)
      BY <1>2, <1>4, <2>1 DEF Active
    <3> QED
      BY <1>1, <1>3, <2>1, <3>1 DEF LinkIInv, HostOK
  <2>2. CASE s = "terminate"
    <3>1. \A l \in Closers : ~Active(l)
      BY <1>3, <2>2 DEF LinkIInv, HostOK
    <3>2. \A l \in Closers : Active(l)' <=> l = k
      BY <1>4, <2>2, <3>1 DEF Active
    <3>3. /\ \A c \in Callers : call[c] \in InLoop => c \in waitFor'
          /\ consumer = "inloop" => "reader" \in waitFor'
      BY <1>3, <2>2
    <3> QED
      BY <1>1, <1>3, <2>2, <3>2, <3>3 DEF LinkIInv, HostOK
  <2> QED
    BY <2>1, <2>2
<1>10. DrainedOK'
  <2>1. Drained' <=> Drained
    BY <1>1, <1>2, <1>4 DEF Drained
  <2> QED
    BY <1>1, <1>2, <2>1 DEF LinkIInv, DrainedOK
<1> QED
  BY <1>6, <1>7, <1>8, <1>9, <1>10 DEF LinkIInv

\* A thread that closes came after the opening.
LEMMA CloserCame ==
  ASSUME LinkIInv, NEW k \in Closers, closer[k] # "idle"
  PROVE  opener \in {"running", "abandoned"}
<1> QED
  BY DEF LinkIInv, OpenOK, LinkTypeOK

\* The thread that performs the close has not drained yet.
LEMMA NotDrainedYet ==
  ASSUME LinkIInv, NEW k \in Closers, closer[k] \in {"terminate", "drain"}
  PROVE  ~Drained /\ drained = << >> /\ ~closeError /\ ~hostClosed /\ hostClosing
<1>1. Active(k) /\ HostOK /\ DrainedOK
  BY DEF Active, LinkIInv
<1>2. hostClosing /\ ~hostClosed
  BY <1>1 DEF HostOK
<1>3. \A l \in Closers : closer[l] # "inflight"
  BY <1>1 DEF HostOK, Active
<1>4. ~Drained
  BY <1>2, <1>3 DEF Drained
<1> QED
  BY <1>1, <1>2, <1>4 DEF DrainedOK

\* The adapter is told to end.
LEMMA CloseTerminatesKeeps ==
  ASSUME LinkIInv, NEW k \in Closers, CloseTerminates(k)
  PROVE  LinkIInv'
<1>1. UNCHANGED <<reader, resource, events, awaiting, pending, call, opener, loop, inbox,
                 executed, sent, wire, batch, hostClosing, hostClosed, closeError, recClosing,
                 sourceClosed, normalized, taken, drained, writing, result, got, waitFor, consumer,
                 cleanup>>
  BY DEF CloseTerminates, helper, reading, hello, evidence, request, host, recorder,
     OffRequest, OffOpen, OffClose, OffConsume
<1>2. /\ closer[k] = "terminate" /\ closer' = [closer EXCEPT ![k] = "drain"]
      /\ Ends("disconnected") /\ cancelled' \in BOOLEAN
  BY DEF CloseTerminates, Terminate, Ends
<1>3. EndTold
  BY <1>2, EndTells DEF Errors
<1>4. /\ closer' \in [Closers -> {"idle", "terminate", "drain", "inflight", "waiting",
                                  "returned"}]
      /\ closer'[k] = "drain" /\ \A l \in Closers : l # k => closer'[l] = closer[l]
  BY <1>2 DEF LinkIInv, ValuesOK
<1>5. opener \in {"running", "abandoned"}
  BY <1>2, CloserCame
<1>6. Answered(wire)' /\ Answered(batch)'
  BY <1>1 DEF LinkIInv, AnswersOK, Answered
<1>7. RequestsOK' /\ AnswersOK' /\ TransitOK'
  BY <1>1, <1>3, <1>6, AfterEnd
<1>8. LinkTypeOK'
  BY <1>1, <1>3 DEF LinkIInv, LinkTypeOK, EndTold
<1>9. ValuesOK'
  BY <1>1, <1>2, <1>3, <1>4 DEF LinkIInv, ValuesOK, EndTold
<1>10. ReaderOK'
  BY <1>1, Untouched DEF LinkIInv
<1>11. OpenOK'
  BY <1>1, <1>5 DEF LinkIInv, OpenOK
<1>12. HostOK'
  <2>1. \A l \in Closers : Active(l)' <=> Active(l)
    BY <1>2, <1>4 DEF Active
  <2> QED
    BY <1>1, <2>1 DEF LinkIInv, HostOK
<1>13. DrainedOK'
  <2>1. Drained' <=> Drained
    BY <1>1, <1>2, <1>4 DEF Drained
  <2> QED
    BY <1>1, <2>1 DEF LinkIInv, DrainedOK
<1> QED
  BY <1>7, <1>8, <1>9, <1>10, <1>11, <1>12, <1>13 DEF LinkIInv

\* What was queued and what awaited admission is drained, or the close has failed.
LEMMA CloseDrainsKeeps ==
  ASSUME LinkIInv, NEW k \in Closers, CloseDrains(k)
  PROVE  LinkIInv'
<1>1. UNCHANGED <<reader, resource, waiter, terminal, pending, writer, call, opener, loop,
                 inbox, executed, sent, wire, batch, cancelled, hostClosing, hostClosed, recClosing,
                 sourceClosed, normalized, taken, answer, writing, result, got, waitFor, consumer,
                 cleanup>>
  BY DEF CloseDrains, helper, reading, hello, evidence, request, host, recorder, OffRequest,
     OffOpen, OffClose, OffConsume
<1>2. /\ closer[k] = "drain" /\ closer' = [closer EXCEPT ![k] = "inflight"]
      /\ reader \in {"idle", "done"} /\ resource \in {"closed", "failed"}
  BY DEF CloseDrains, Terminated
<1>3. /\ closer' \in [Closers -> {"idle", "terminate", "drain", "inflight", "waiting",
                                  "returned"}]
      /\ closer'[k] = "inflight" /\ \A l \in Closers : l # k => closer'[l] = closer[l]
  BY <1>2 DEF LinkIInv, ValuesOK
<1>4. opener \in {"running", "abandoned"}
  BY <1>2, CloserCame
<1>5. drained = << >> /\ ~closeError /\ ~hostClosed
  BY <1>2, NotDrainedYet
<1>6. /\ events \in Seq(Nat) /\ awaiting \in Seq(Nat) /\ taken \in Seq(Nat)
      /\ taken \o << >> \o events \o awaiting = normalized
  BY <1>5 DEF LinkIInv, ValuesOK, DrainedOK
<1>7. \/ /\ closeError' /\ closeError' = TRUE /\ UNCHANGED <<drained, events, awaiting>>
      \/ /\ resource = "closed" /\ drained' = events \o awaiting
         /\ events' = << >> /\ awaiting' = << >> /\ closeError' = closeError
  BY <1>2 DEF CloseDrains
<1>8. ~closeError' => taken' \o drained' \o events' \o awaiting' = normalized'
  <2> SUFFICES ASSUME ~closeError'
               PROVE  taken \o (events \o awaiting) \o << >> \o << >> = normalized
    BY <1>1, <1>7
  <2>1. taken \o << >> = taken
    BY <1>6, ConcatEmptySeq, Zenon
  <2>2. normalized = (taken \o events) \o awaiting
    BY <1>6, <2>1
  <2>3. normalized = taken \o (events \o awaiting)
    BY <1>6, <2>2, ConcatFacts
  <2>4. taken \o (events \o awaiting) \in Seq(Nat)
    BY <1>6
  <2>5. taken \o (events \o awaiting) \o << >> = taken \o (events \o awaiting)
    BY <2>4, ConcatEmptySeq, Zenon
  <2> QED
    BY <2>3, <2>5
<1>9. RequestsOK' /\ AnswersOK' /\ TransitOK'
  BY <1>1, Untouched DEF LinkIInv
<1>10. LinkTypeOK'
  <2>1. Len(<< >>) = 0 /\ QueueCapacity \in Nat
    BY CapacityAssumption
  <2> QED
    BY <1>1, <1>7, <2>1 DEF LinkIInv, LinkTypeOK
<1>11. ValuesOK'
  <2>1. events \o awaiting \in Seq(Nat) /\ << >> \in Seq(Nat)
    BY <1>6
  <2> QED
    BY <1>1, <1>3, <1>7, <2>1 DEF LinkIInv, ValuesOK
<1>12. ReaderOK'
  BY <1>1, <1>2, <1>7 DEF LinkIInv, ReaderOK
<1>13. OpenOK'
  BY <1>1, <1>4 DEF LinkIInv, OpenOK
<1>14. HostOK'
  <2>1. \A l \in Closers : Active(l)' <=> Active(l)
    BY <1>2, <1>3 DEF Active
  <2> QED
    BY <1>1, <2>1 DEF LinkIInv, HostOK
<1>15. DrainedOK'
  <2>1. Drained'
    BY <1>3 DEF Drained
  <2>2. ~closeError' => events' = << >> /\ awaiting' = << >> /\ resource' = "closed"
    BY <1>1, <1>7
  <2>3. sourceClosed' /\ consumer' # "fatal" => hostClosed'
    BY <1>1 DEF LinkIInv, DrainedOK
  <2>4. consumer' # "done"
    BY <1>1, <1>5 DEF LinkIInv, DrainedOK
  <2> QED
    BY <1>1, <1>2, <1>8, <2>1, <2>2, <2>3, <2>4 DEF DrainedOK
<1> QED
  BY <1>9, <1>10, <1>11, <1>12, <1>13, <1>14, <1>15 DEF LinkIInv

\* The loop is stopped when the operations in flight have left it.
LEMMA CloseStopsKeeps ==
  ASSUME LinkIInv, NEW k \in Closers, CloseStops(k)
  PROVE  LinkIInv'
<1>1. UNCHANGED <<reader, resource, waiter, terminal, events, awaiting, pending, writer,
                 call, opener, inbox, executed, sent, wire, batch, cancelled, hostClosing,
                 closeError, recClosing, normalized, taken, drained, answer, writing, result, got,
                 waitFor, consumer, cleanup>>
  BY DEF CloseStops, helper, reading, hello, evidence, request, host, recorder, OffRequest,
     OffOpen, OffClose, OffConsume
<1>2. /\ closer[k] = "inflight" /\ closer' = [closer EXCEPT ![k] = "returned"]
      /\ loop' = "stopped" /\ hostClosed' /\ hostClosed' = TRUE /\ sourceClosed' \in BOOLEAN
      /\ \A c \in waitFor : IF c = "reader" THEN consumer # "inloop" ELSE call[c] \notin InLoop
  BY DEF CloseStops, LinkIInv, ValuesOK
<1>3. /\ closer' \in [Closers -> {"idle", "terminate", "drain", "inflight", "waiting",
                                  "returned"}]
      /\ closer'[k] = "returned" /\ \A l \in Closers : l # k => closer'[l] = closer[l]
  BY <1>2 DEF LinkIInv, ValuesOK
<1>4. opener \in {"running", "abandoned"}
  BY <1>2, CloserCame
<1>5. Active(k) /\ hostClosing /\ \A l \in Closers : Active(l) => l = k
  BY <1>2 DEF LinkIInv, HostOK, Active
<1>6. (\A c \in Callers : call[c] \notin InLoop) /\ consumer # "inloop"
  BY <1>2, <1>5, AnswersAssumption DEF LinkIInv, HostOK
<1>7. ReaderOK' /\ RequestsOK' /\ AnswersOK' /\ TransitOK'
  BY <1>1, Untouched DEF LinkIInv
<1>8. LinkTypeOK'
  BY <1>1, <1>2 DEF LinkIInv, LinkTypeOK
<1>9. ValuesOK'
  BY <1>1, <1>2, <1>3 DEF LinkIInv, ValuesOK
<1>10. OpenOK'
  BY <1>1, <1>4 DEF LinkIInv, OpenOK
<1>11. HostOK'
  <2>1. \A l \in Closers : ~Active(l)'
    BY <1>3, <1>5 DEF Active
  <2> QED
    BY <1>1, <1>2, <1>5, <1>6, <2>1 DEF HostOK
<1>12. DrainedOK'
  <2>1. Drained /\ Drained'
    BY <1>2 DEF Drained
  <2> QED
    BY <1>1, <1>2, <2>1 DEF LinkIInv, DrainedOK
<1> QED
  BY <1>7, <1>8, <1>9, <1>10, <1>11, <1>12 DEF LinkIInv

\* A thread that waited for the close returns.
LEMMA CloseObservedKeeps ==
  ASSUME LinkIInv, NEW k \in Closers, CloseObserved(k)
  PROVE  LinkIInv'
<1>1. UNCHANGED <<reader, resource, waiter, terminal, events, awaiting, pending, writer,
                 call, opener, loop, inbox, executed, sent, wire, batch, cancelled, hostClosing,
                 hostClosed, closeError, recClosing, normalized, taken, drained, answer, writing,
                 result, got, waitFor, consumer, cleanup>>
  BY DEF CloseObserved, helper, reading, hello, evidence, request, host, recorder,
     OffRequest, OffOpen, OffClose, OffConsume
<1>2. /\ closer[k] = "waiting" /\ closer' = [closer EXCEPT ![k] = "returned"] /\ hostClosed
      /\ sourceClosed' \in BOOLEAN
  BY DEF CloseObserved, LinkIInv, ValuesOK
<1>3. /\ closer' \in [Closers -> {"idle", "terminate", "drain", "inflight", "waiting",
                                  "returned"}]
      /\ closer'[k] = "returned" /\ \A l \in Closers : l # k => closer'[l] = closer[l]
  BY <1>2 DEF LinkIInv, ValuesOK
<1>4. opener \in {"running", "abandoned"}
  BY <1>2, CloserCame
<1>5. LinkTypeOK' /\ ReaderOK' /\ RequestsOK' /\ AnswersOK' /\ TransitOK'
  BY <1>1, Untouched DEF LinkIInv
<1>6. ValuesOK'
  BY <1>1, <1>2, <1>3 DEF LinkIInv, ValuesOK
<1>7. OpenOK'
  BY <1>1, <1>4 DEF LinkIInv, OpenOK
<1>8. HostOK'
  <2>1. \A l \in Closers : Active(l)' <=> Active(l)
    BY <1>2, <1>3 DEF Active
  <2> QED
    BY <1>1, <2>1 DEF LinkIInv, HostOK
<1>9. DrainedOK'
  <2>1. Drained' <=> Drained
    BY <1>1, <1>2, <1>3 DEF Drained
  <2> QED
    BY <1>1, <1>2, <2>1 DEF LinkIInv, DrainedOK
<1> QED
  BY <1>5, <1>6, <1>7, <1>8, <1>9 DEF LinkIInv

\* The recorder's thread goes on without taking an event.
LEMMA ConsumerMoves ==
  ASSUME LinkIInv, opener = "running", consumer # "fatal",
         consumer' \in {"loop", "submit", "inloop", "refused", "disconnected", "input",
                        "parked", "faulting", "fatal", "done"},
         consumer' = "inloop" => ~hostClosing,
         consumer' = "done" => drained = << >> /\ sourceClosed,
         UNCHANGED <<reader, resource, waiter, terminal, events, awaiting, pending, writer,
                   call, opener, loop, inbox, executed, sent, wire, batch, cancelled, hostClosing,
                   hostClosed, closeError, recClosing, sourceClosed, normalized, taken, drained,
                   answer, writing, result, got, closer, waitFor, cleanup>>
  PROVE  LinkIInv'
<1>1. LinkTypeOK' /\ ReaderOK' /\ RequestsOK' /\ AnswersOK' /\ TransitOK'
  BY Untouched DEF LinkIInv
<1>2. ValuesOK'
  BY DEF LinkIInv, ValuesOK
<1>3. OpenOK'
  BY DEF LinkIInv, OpenOK
<1>4. HostOK'
  BY DEF LinkIInv, HostOK, Active
<1>5. DrainedOK'
  BY DEF LinkIInv, DrainedOK, Drained
<1> QED
  BY <1>1, <1>2, <1>3, <1>4, <1>5 DEF LinkIInv

\* The first of a sequence, appended to another.
LEMMA TakeFacts ==
  ASSUME NEW t \in Seq(Nat), NEW q \in Seq(Nat), q # << >>
  PROVE  /\ Append(t, Head(q)) \in Seq(Nat) /\ Tail(q) \in Seq(Nat)
         /\ Append(t, Head(q)) \o Tail(q) = t \o q
<1>1. /\ Head(q) \in Nat /\ Tail(q) \in Seq(Nat) /\ <<Head(q)>> \in Seq(Nat)
      /\ Append(t, Head(q)) \in Seq(Nat) /\ Append(t, Head(q)) = t \o <<Head(q)>>
  OBVIOUS
<1>2. <<Head(q)>> \o Tail(q) = q
  OBVIOUS
<1>3. (t \o <<Head(q)>>) \o Tail(q) = t \o (<<Head(q)>> \o Tail(q))
  BY <1>1, ConcatFacts
<1> QED
  BY <1>1, <1>2, <1>3

\* The recorder's thread takes what was drained, or submits its read.
LEMMA ReadEventKeeps ==
  ASSUME LinkIInv, ReadEvent
  PROVE  LinkIInv'
<1>1. UNCHANGED <<reader, resource, waiter, terminal, events, awaiting, pending, writer,
                 call, opener, loop, inbox, executed, sent, wire, batch, cancelled, hostClosing,
                 hostClosed, closeError, recClosing, sourceClosed, normalized, answer, writing,
                 result, got, closer, waitFor, cleanup>>
  BY DEF ReadEvent, helper, reading, hello, evidence, request, host, recorder, OffRequest,
     OffOpen, OffClose, OffConsume
<1>2. consumer = "loop" /\ opener = "running"
  BY DEF ReadEvent, Ready
<1>3. CASE drained # << >>
  <2>1. taken' = Append(taken, Head(drained)) /\ drained' = Tail(drained) /\ consumer' = consumer
    BY <1>3 DEF ReadEvent
  <2>2. taken \in Seq(Nat) /\ drained \in Seq(Nat)
    BY DEF LinkIInv, ValuesOK
  <2>3. taken' \in Seq(Nat) /\ drained' \in Seq(Nat) /\ taken' \o drained' = taken \o drained
    BY <1>3, <2>1, <2>2, TakeFacts
  <2>4. /\ LinkTypeOK' /\ ReaderOK' /\ OpenOK' /\ HostOK' /\ RequestsOK' /\ AnswersOK'
        /\ TransitOK'
    BY <1>1, <2>1, Untouched DEF LinkIInv
  <2>5. ValuesOK'
    BY <1>1, <2>1, <2>3 DEF LinkIInv, ValuesOK
  <2>6. DrainedOK'
    <3>1. Drained' /\ Drained
      BY <1>1, <1>3 DEF LinkIInv, DrainedOK, Drained
    <3>2. ~closeError' => taken' \o drained' \o events' \o awaiting' = normalized'
      BY <1>1, <2>3 DEF LinkIInv, DrainedOK
    <3>3. consumer' # "done"
      BY <1>2, <2>1
    <3> QED
      BY <1>1, <2>1, <3>1, <3>2, <3>3 DEF LinkIInv, DrainedOK
  <2> QED
    BY <2>4, <2>5, <2>6 DEF LinkIInv
<1>4. CASE drained = << >>
  <2>1. consumer' \in {"disconnected", "submit"} /\ UNCHANGED <<taken, drained>>
    BY <1>4 DEF ReadEvent
  <2> QED
    BY <1>1, <1>2, <2>1, ConsumerMoves
<1> QED
  BY <1>3, <1>4

\* A thread that reads came after the opening.
LEMMA ConsumerCame ==
  ASSUME LinkIInv, consumer # "loop"
  PROVE  opener = "running"
<1> QED
  BY DEF LinkIInv, OpenOK

LEMMA SubmitReadKeeps ==
  ASSUME LinkIInv, SubmitRead
  PROVE  LinkIInv'
<1>1. UNCHANGED <<reader, resource, waiter, terminal, events, awaiting, pending, writer,
                 call, opener, loop, inbox, executed, sent, wire, batch, cancelled, hostClosing,
                 hostClosed, closeError, recClosing, sourceClosed, normalized, taken, drained,
                 answer, writing, result, got, closer, waitFor, cleanup>>
  BY DEF SubmitRead, helper, reading, hello, evidence, request, host, recorder, OffRequest,
     OffOpen, OffClose, OffConsume
<1>2. /\ consumer = "submit" /\ consumer' \in {"refused", "inloop"}
      /\ consumer' = "inloop" => ~hostClosing
  BY DEF SubmitRead
<1>3. opener = "running"
  BY <1>2, ConsumerCame
<1> QED
  BY <1>1, <1>2, <1>3, ConsumerMoves

\* The thread takes the first event of the queue, or learns how the connection ended.
LEMMA ReceiveEventKeeps ==
  ASSUME LinkIInv, ReceiveEvent
  PROVE  LinkIInv'
<1>1. UNCHANGED <<reader, resource, waiter, terminal, awaiting, pending, writer, call,
                 opener, loop, inbox, executed, sent, wire, batch, cancelled, hostClosing,
                 hostClosed, closeError, recClosing, sourceClosed, normalized, drained, answer,
                 writing, result, got, closer, waitFor, cleanup>>
  BY DEF ReceiveEvent, helper, reading, hello, evidence, request, host, recorder,
     OffRequest, OffOpen, OffClose, OffConsume
<1>2. /\ consumer = "inloop"
      /\ \/ /\ events # << >> /\ consumer' = "loop"
            /\ taken' = Append(taken, Head(events)) /\ events' = Tail(events)
         \/ /\ consumer' \in {"disconnected", "input", "loop"}
            /\ UNCHANGED <<taken, events>>
  BY DEF ReceiveEvent, LinkIInv, LinkTypeOK, Errors
<1>3. opener = "running" /\ ~hostClosed
  BY <1>2, ConsumerCame DEF LinkIInv, HostOK
<1>4. CASE /\ events # << >> /\ consumer' = "loop"
           /\ taken' = Append(taken, Head(events)) /\ events' = Tail(events)
  <2>1. /\ taken \in Seq(Nat) /\ events \in Seq(Nat) /\ awaiting \in Seq(Nat)
        /\ Len(events) <= QueueCapacity /\ QueueCapacity \in Nat
    BY CapacityAssumption DEF LinkIInv, ValuesOK, LinkTypeOK
  <2>2. /\ taken' \in Seq(Nat) /\ events' \in Seq(Nat)
        /\ taken' \o events' = taken \o events
    BY <1>4, <2>1, TakeFacts
  <2>3. Len(events') <= QueueCapacity
    <3>1. Len(events') = Len(events) - 1 /\ Len(events) \in Nat
      BY <1>4, <2>1
    <3> QED
      BY <2>1, <3>1
  <2>4. ReaderOK' /\ RequestsOK' /\ AnswersOK' /\ TransitOK'
    BY <1>1, Untouched DEF LinkIInv
  <2>5. LinkTypeOK'
    BY <1>1, <2>3 DEF LinkIInv, LinkTypeOK
  <2>6. ValuesOK'
    BY <1>1, <1>4, <2>2 DEF LinkIInv, ValuesOK
  <2>7. OpenOK'
    BY <1>1, <1>3 DEF LinkIInv, OpenOK
  <2>8. HostOK'
    BY <1>1, <1>4 DEF LinkIInv, HostOK, Active
  <2>9. DrainedOK'
    <3>1. Drained' <=> Drained
      BY <1>1 DEF Drained
    <3>2. ~closeError => ~Drained /\ drained = << >>
      BY <1>3, <1>4 DEF LinkIInv, DrainedOK
    <3>3. ~closeError' => taken' \o drained' \o events' \o awaiting' = normalized'
      <4> SUFFICES ASSUME ~closeError
                   PROVE  taken' \o << >> \o events' \o awaiting = normalized
        BY <1>1, <3>2
      <4>1. taken \o << >> = taken /\ taken' \o << >> = taken'
        BY <2>1, <2>2, ConcatEmptySeq, Zenon
      <4>2. taken \o << >> \o events \o awaiting = normalized
        BY <3>2 DEF LinkIInv, DrainedOK
      <4> QED
        BY <2>2, <4>1, <4>2
    <3>4. Drained => reader' \in {"idle", "done"} /\ resource' \in {"closed", "failed"}
      BY <1>1 DEF LinkIInv, DrainedOK
    <3>5. Drained' /\ ~closeError' => FALSE
      BY <1>1, <3>1, <3>2
    <3>6. ~Drained' => drained' = << >> /\ ~closeError'
      BY <1>1, <3>1 DEF LinkIInv, DrainedOK
    <3>7. sourceClosed' /\ consumer' # "fatal" => hostClosed'
      BY <1>1, <1>2 DEF LinkIInv, DrainedOK
    <3> QED
      BY <1>4, <3>1, <3>3, <3>4, <3>5, <3>6, <3>7 DEF DrainedOK
  <2> QED
    BY <2>4, <2>5, <2>6, <2>7, <2>8, <2>9 DEF LinkIInv
<1>5. CASE consumer' \in {"disconnected", "input", "loop"} /\ UNCHANGED <<taken, events>>
  BY <1>1, <1>2, <1>3, <1>5, ConsumerMoves
<1> QED
  BY <1>2, <1>4, <1>5

\* The read raised: the thread drains, parks or records the fault.
LEMMA ReadRaisedKeeps ==
  ASSUME LinkIInv, ReadRaised
  PROVE  LinkIInv'
<1>1. UNCHANGED <<reader, resource, waiter, terminal, events, awaiting, pending, writer,
                 call, opener, loop, inbox, executed, sent, wire, batch, cancelled, hostClosing,
                 hostClosed, closeError, recClosing, sourceClosed, normalized, taken, drained,
                 answer, writing, result, got, closer, waitFor, cleanup>>
  BY DEF ReadRaised, helper, reading, hello, evidence, request, host, recorder, OffRequest,
     OffOpen, OffClose, OffConsume
<1>2. /\ consumer \in {"disconnected", "input", "refused"}
      /\ consumer' \in {"loop", "done", "parked", "faulting"}
      /\ consumer' = "done" => drained = << >> /\ sourceClosed
  BY DEF ReadRaised
<1>3. opener = "running"
  BY <1>2, ConsumerCame
<1> QED
  BY <1>1, <1>2, <1>3, ConsumerMoves

LEMMA UnparkKeeps ==
  ASSUME LinkIInv, Unpark
  PROVE  LinkIInv'
<1>1. UNCHANGED <<reader, resource, waiter, terminal, events, awaiting, pending, writer,
                 call, opener, loop, inbox, executed, sent, wire, batch, cancelled, hostClosing,
                 hostClosed, closeError, recClosing, sourceClosed, normalized, taken, drained,
                 answer, writing, result, got, closer, waitFor, cleanup>>
  BY DEF Unpark, helper, reading, hello, evidence, request, host, recorder, OffRequest,
     OffOpen, OffClose, OffConsume
<1>2. consumer = "parked" /\ consumer' = "loop"
  BY DEF Unpark
<1>3. opener = "running"
  BY <1>2, ConsumerCame
<1> QED
  BY <1>1, <1>2, <1>3, ConsumerMoves

LEMMA RecordFatalKeeps ==
  ASSUME LinkIInv, RecordFatal
  PROVE  LinkIInv'
<1>1. UNCHANGED <<reader, resource, waiter, terminal, events, awaiting, pending, writer,
                 call, opener, loop, inbox, executed, sent, wire, batch, cancelled, hostClosing,
                 hostClosed, closeError, recClosing, sourceClosed, normalized, taken, drained,
                 answer, writing, result, got, closer, waitFor, cleanup>>
  BY DEF RecordFatal, helper, reading, hello, evidence, request, host, recorder, OffRequest,
     OffOpen, OffClose, OffConsume
<1>2. consumer = "faulting" /\ consumer' = "fatal"
  BY DEF RecordFatal
<1>3. opener = "running"
  BY <1>2, ConsumerCame
<1> QED
  BY <1>1, <1>2, <1>3, ConsumerMoves

(***************************************************************************)
(* Both backends                                                           *)
(***************************************************************************)
\* A new adapter and a new host.
LEMMA LinkStarts ==
  ASSUME LinkInit
  PROVE  LinkIInv
<1>1. /\ reader = "idle" /\ batch = << >> /\ ~cancelled /\ cancelled = FALSE /\ waiter = None
      /\ events = << >> /\ awaiting = << >> /\ normalized = << >> /\ terminal = None
      /\ resource = "none" /\ pending = None /\ writer = None
      /\ \A c \in Callers : answer[c] = None /\ writing[c] = "none"
      /\ answer \in [Callers -> {None}] /\ writing \in [Callers -> {"none"}]
  BY DEF LinkInit, NewAdapter
<1>2. /\ inbox = << >> /\ executed = {} /\ sent = 0 /\ wire = << >> /\ drained = << >> /\ taken = << >>
      /\ opener = "connecting" /\ cleanup = None /\ loop = "running" /\ ~hostClosing /\ ~hostClosed
      /\ ~closeError /\ consumer = "loop" /\ ~recClosing /\ ~sourceClosed /\ waitFor = {}
      /\ {hostClosing, hostClosed, closeError, recClosing, sourceClosed} \subseteq BOOLEAN
  BY DEF LinkInit
<1>3. /\ \A c \in Callers : call[c] = "idle" /\ result[c] = None /\ got[c] = None
      /\ call \in [Callers -> {"idle"}] /\ result \in [Callers -> {None}]
      /\ got \in [Callers -> {None}]
      /\ \A k \in Closers : closer[k] = "idle"
      /\ closer \in [Closers -> {"idle"}]
  BY DEF LinkInit
<1>4. LinkTypeOK
  <2>1. Len(<< >>) = 0 /\ QueueCapacity \in Nat
    BY CapacityAssumption
  <2>2. call \in [Callers -> InLoop \union {"idle", "returned"}]
    BY <1>3
  <2> QED
    BY <1>1, <1>2, <2>1, <2>2 DEF LinkTypeOK
<1>5. ValuesOK
  <2>1. << >> \in Seq(Callers) /\ << >> \in Seq(Messages) /\ << >> \in Seq(Nat)
    OBVIOUS
  <2>2. answer \in [Callers -> Answers]
    BY <1>1 DEF Answers
  <2>3. /\ writing \in [Callers -> {"none", "started", "delivered"}]
        /\ result \in [Callers -> {None, "ok", "failed", "unknown", "unsent"}]
        /\ got \in [Callers -> Callers \union {None}]
        /\ closer \in [Closers -> {"idle", "terminate", "drain", "inflight", "waiting",
                                   "returned"}]
    BY <1>1, <1>3
  <2> QED
    BY <1>1, <1>2, <2>1, <2>2, <2>3 DEF ValuesOK
<1>6. ReaderOK /\ OpenOK
  BY <1>1, <1>2, <1>3 DEF ReaderOK, OpenOK
<1>7. HostOK
  BY <1>2, <1>3 DEF HostOK, Active, InLoop
<1>8. DrainedOK
  <2>1. << >> \o << >> \o << >> \o << >> = << >>
    OBVIOUS
  <2> QED
    BY <1>1, <1>2, <1>3, <2>1 DEF DrainedOK, Drained
<1>9. RequestsOK
  BY <1>1, <1>3, NoneFacts DEF RequestsOK, RequestOK, Holding
<1>10. AnswersOK
  <2>1. \A c \in Callers : Fresh(c)
    BY <1>2 DEF Fresh
  <2>2. \A c \in Callers : AnswerOK(c)
    BY <1>1, <1>3, <2>1, NoneFacts DEF AnswerOK
  <2> QED
    BY <1>1, <1>2, <2>2, EmptyResponses DEF AnswersOK
<1>11. TransitOK
  BY <1>1, <1>2, EmptyResponses DEF TransitOK, Transit
<1> QED
  BY <1>4, <1>5, <1>6, <1>7, <1>8, <1>9, <1>10, <1>11 DEF LinkIInv

\* Every step of the Enhanced link.
LEMMA LinkKeeps ==
  ASSUME LinkIInv, LinkNext
  PROVE  LinkIInv'
<1>1. CASE HelperStep
  BY <1>1, HelperGreetsKeeps, HelperObservesKeeps, HelperAnswersKeeps, HelperMisbehavesKeeps
     DEF HelperStep
<1>2. CASE ReaderStep
  BY <1>2, ReadChunkKeeps, ReadEofKeeps, DispatchHelloKeeps, DispatchEventKeeps,
     PutAdmittedKeeps, DispatchResponseKeeps, DispatchUnexpectedKeeps, DispatchEndsKeeps,
     ReaderCancelledKeeps, ReaderEndsKeeps DEF ReaderStep
<1>3. CASE ResourceCloses
  BY <1>3, ResourceClosesKeeps
<1>4. CASE OpenerStep
  BY <1>4, ConnectFailsKeeps, ConnectsKeeps, HelloSettlesKeeps, HelloTimesOutKeeps,
     CleanupEndsKeeps, StopFailedOpenKeeps, SegmentSettlesKeeps DEF OpenerStep
<1>5. CASE ConsumerStep
  BY <1>5, ReadEventKeeps, SubmitReadKeeps, ReceiveEventKeeps, ReadRaisedKeeps, UnparkKeeps,
     RecordFatalKeeps DEF ConsumerStep
<1>6. ASSUME NEW c \in Callers, Submit(c) \/ RequestStep(c) \/ WriteStep(c)
      PROVE  LinkIInv'
  <2>1. CASE Submit(c)
    BY <2>1, SubmitKeeps
  <2>2. CASE RequestStep(c)
    BY <2>2, RequestBeginsKeeps, RequestTimesOutKeeps, RequestFailsKeeps,
       RequestInterruptedKeeps, RequestAnsweredKeeps DEF RequestStep
  <2>3. CASE WriteStep(c)
    BY <2>3, FrameDeliveredKeeps, WriteReturnsKeeps, WriteFailsKeeps DEF WriteStep
  <2> QED
    BY <1>6, <2>1, <2>2, <2>3
<1>7. ASSUME NEW k \in Closers, CloseBegins(k) \/ CloserStep(k)
      PROVE  LinkIInv'
  BY <1>7, CloseBeginsKeeps, CloseTerminatesKeeps, CloseDrainsKeeps, CloseStopsKeeps,
     CloseObservedKeeps DEF CloserStep
<1> QED
  BY <1>1, <1>2, <1>3, <1>4, <1>5, <1>6, <1>7 DEF LinkNext

\* The steps of the other backend are none of this one.
LEMMA LinkRests ==
  ASSUME LinkIInv, UNCHANGED linkVars
  PROVE  LinkIInv'
<1>1. UNCHANGED <<reader, resource, waiter, terminal, events, awaiting, pending, writer,
                 call, opener, loop, inbox, executed, sent, wire, batch, cancelled, hostClosing,
                 hostClosed, closeError, recClosing, sourceClosed, normalized, taken, drained,
                 answer, writing, result, got, closer, waitFor, consumer, cleanup>>
  BY DEF linkVars, helper, reading, hello, evidence, request, host, recorder
<1> QED
  BY <1>1, Untouched DEF LinkIInv

LEMMA InitIInv == Init => IInv
<1> QED
  BY LinkStarts, SourceStarts DEF Init, IInv

LEMMA NextIInv == IInv /\ [Next]_vars => IInv'
<1> SUFFICES ASSUME IInv, [Next]_vars PROVE IInv'
  OBVIOUS
<1>1. CASE mode = "enhanced" /\ LinkNext /\ UNCHANGED <<mode, basicVars>>
  BY <1>1, LinkKeeps, SourceRests DEF IInv
<1>2. CASE mode = "basic" /\ BasicNext /\ UNCHANGED <<mode, linkVars>>
  BY <1>2, SourceKeeps, LinkRests DEF IInv
<1>3. CASE UNCHANGED vars
  BY <1>3, SourceRests, LinkRests DEF IInv, vars
<1> QED
  BY <1>1, <1>2, <1>3 DEF Next

\* The invariant holds in every state of the service's sources.
LEMMA IInvHolds == Spec => []IInv
<1> QED
  BY InitIInv, NextIInv, PTL DEF Spec

(***************************************************************************)
(* What follows of the Basic source                                        *)
(***************************************************************************)
\* The chunks that are queued and the one the reader holds.
LEMMA ChunksAreHeld ==
  ASSUME SourceIInv
  PROVE  HoldsChunks(outcomes \o holding, Len(kept) + 1, chunks)
<1> DEFINE q == outcomes \o holding
           places == {i \in DOMAIN q : q[i].kind = "chunk"}
<1>1. /\ outcomes \in Seq(Outcomes) /\ holding \in Seq(Outcomes) /\ kept \in Seq(Nat)
      /\ chunks \in Nat /\ ChunksOK /\ HeldChunks \in 0 .. 1
  BY DEF SourceIInv, SourceTypeOK, HeldChunks
<1>2. Len(holding) \in 0 .. 1
  <2>1. Len(holding) = 1 \/ holding = << >>
    BY DEF SourceIInv, HoldingOK
  <2> QED
    BY <2>1
<1>3. /\ q \in Seq(Outcomes) /\ Len(q) = Len(outcomes) + Len(holding)
      /\ Len(outcomes) \in Nat /\ DOMAIN q = 1 .. Len(q) /\ Len(kept) \in Nat
      /\ \A i \in 1 .. Len(outcomes) : q[i] = outcomes[i]
      /\ Len(holding) = 1 => q[Len(outcomes) + 1] = holding[1]
  BY <1>1
<1> HIDE DEF q
<1>4. HeldChunks = 1 <=> Len(holding) = 1 /\ holding[1].kind = "chunk"
  <2>1. Len(holding) = 1 \/ holding = << >>
    BY DEF SourceIInv, HoldingOK
  <2>2. Len(<< >>) = 0
    OBVIOUS
  <2> QED
    BY <2>1, <2>2 DEF HeldChunks
<1>5. ASSUME NEW i \in places
      PROVE  \/ /\ i \in 1 .. Len(outcomes) /\ outcomes[i].kind = "chunk"
                /\ q[i].n = outcomes[i].n
                /\ outcomes[i].n \in Len(kept) + 1 .. chunks - HeldChunks
             \/ i = Len(outcomes) + 1 /\ HeldChunks = 1 /\ q[i].n = chunks
  <2>1. CASE i \in 1 .. Len(outcomes)
    BY <1>1, <1>3, <2>1 DEF ChunksOK
  <2>2. CASE i \notin 1 .. Len(outcomes)
    <3>1. i \in 1 .. Len(outcomes) + Len(holding)
      BY <1>3
    <3>2. i = Len(outcomes) + 1 /\ Len(holding) = 1
      <4> DEFINE a == Len(outcomes)
                 b == Len(holding)
      <4>1. a \in Nat /\ b \in {0, 1} /\ i \in 1 .. a + b /\ i \notin 1 .. a
        BY <1>2, <1>3, <2>2, <3>1
      <4> HIDE DEF a, b
      <4>2. i = a + 1 /\ b = 1
        BY <4>1
      <4> QED
        BY <4>2 DEF a, b
    <3>3. q[i].kind = "chunk"
      OBVIOUS
    <3> QED
      BY <1>1, <1>3, <1>4, <3>2, <3>3 DEF ChunksOK
  <2> QED
    BY <2>1, <2>2
<1>6. ASSUME NEW i \in places
      PROVE  q[i].n \in Len(kept) + 1 .. chunks
  <2>1. Len(kept) + HeldChunks <= chunks
    BY <1>1 DEF ChunksOK
  <2>2. CASE q[i].n \in Len(kept) + 1 .. chunks - HeldChunks
    BY <1>1, <1>3, <2>1, <2>2
  <2>3. CASE HeldChunks = 1 /\ q[i].n = chunks
    BY <1>1, <1>3, <2>1, <2>3
  <2> QED
    BY <1>5, <2>2, <2>3
<1>7. ASSUME NEW n \in Len(kept) + 1 .. chunks
      PROVE  \E i \in places : q[i].n = n
  <2>1. CASE n <= chunks - HeldChunks
    <3>1. n \in Len(kept) + 1 .. chunks - HeldChunks
      BY <1>1, <1>3, <2>1
    <3>2. PICK i \in 1 .. Len(outcomes) : outcomes[i].kind = "chunk" /\ outcomes[i].n = n
      BY <1>1, <3>1 DEF ChunksOK
    <3>3. i \in places
      BY <1>2, <1>3, <3>2
    <3> QED
      BY <1>3, <3>2, <3>3
  <2>2. CASE ~(n <= chunks - HeldChunks)
    <3>1. n = chunks /\ HeldChunks = 1
      BY <1>1, <1>3, <2>2
    <3>2. /\ Len(holding) = 1 /\ q[Len(outcomes) + 1] = holding[1]
          /\ holding[1].kind = "chunk" /\ holding[1].n = chunks
      BY <1>1, <1>3, <1>4, <3>1 DEF ChunksOK
    <3>3. Len(outcomes) + 1 \in places
      BY <1>3, <3>2
    <3> QED
      BY <3>1, <3>2, <3>3
  <2> QED
    BY <2>1, <2>2
<1>8. ASSUME NEW i \in places, NEW j \in places, i < j
      PROVE  q[i].n < q[j].n
  <2>1. CASE j \in 1 .. Len(outcomes)
    <3>1. i \in 1 .. Len(outcomes) /\ j # Len(outcomes) + 1 /\ i # Len(outcomes) + 1
      BY <1>3, <1>8, <2>1
    <3>2. /\ outcomes[i].kind = "chunk" /\ q[i].n = outcomes[i].n
          /\ outcomes[j].kind = "chunk" /\ q[j].n = outcomes[j].n
      BY <1>5, <3>1
    <3> QED
      BY <1>1, <1>8, <2>1, <3>1, <3>2 DEF ChunksOK
  <2>2. CASE j \notin 1 .. Len(outcomes)
    <3>1. j = Len(outcomes) + 1 /\ HeldChunks = 1 /\ q[j].n = chunks
      BY <1>5, <2>2
    <3>2. q[i].n \in Len(kept) + 1 .. chunks - HeldChunks
      <4>1. i # Len(outcomes) + 1
        BY <1>3, <1>8, <3>1
      <4> QED
        BY <1>5, <4>1
    <3> QED
      BY <1>1, <1>3, <3>1, <3>2
  <2> QED
    BY <2>1, <2>2
<1>9. {q[i].n : i \in places} = Len(kept) + 1 .. chunks
  <2> HIDE DEF places
  <2> QED
    BY <1>6, <1>7
<1>10. \A i, j \in places : i < j => q[i].n < q[j].n
  BY <1>8
<1> QED
  BY <1>9, <1>10 DEF q, HoldsChunks

LEMMA ChunksAreKept ==
  ASSUME SourceIInv
  PROVE  NoChunkLost
<1>1. /\ kept \in Seq(Nat) /\ Len(kept) \in Nat /\ chunks \in Nat /\ ChunksOK
      /\ HeldChunks \in 0 .. 1
  BY DEF SourceIInv, SourceTypeOK, HeldChunks
<1>2. Len(kept) <= chunks /\ kept = [j \in 1 .. Len(kept) |-> j]
  BY <1>1 DEF ChunksOK
<1>3. ASSUME user = "done", ~closeFailed
      PROVE  Len(kept) = chunks
  <2>1. outcomes = << >> /\ ReaderGone
    BY <1>3 DEF SourceIInv, DrainOK, CloseOK
  <2>2. HeldChunks = 0
    BY <2>1 DEF SourceIInv, HoldingOK, ReaderGone, HeldChunks
  <2>3. Len(outcomes) = 0
    BY <2>1
  <2>4. chunks \notin Len(kept) + 1 .. chunks
    BY <1>1, <2>2, <2>3 DEF ChunksOK
  <2>5. \A a, b \in Nat : a <= b /\ b \notin a + 1 .. b => a = b
    OBVIOUS
  <2> QED
    BY <1>1, <1>2, <2>4, <2>5, Zenon
<1> QED
  BY <1>2, <1>3, ChunksAreHeld DEF NoChunkLost

LEMMA CloseIsOne ==
  ASSUME SourceIInv
  PROVE  CloseIsFinal
<1> QED
  BY DEF SourceIInv, CloseOK, CloserOK, ReaderGone, CloseIsFinal

LEMMA PayloadsStayWhole ==
  ASSUME SourceIInv
  PROVE  PayloadsWhole
<1>1. Contiguous /\ \A s \in Callers : SenderOK(s)
  BY DEF SourceIInv, SendsOK
<1>2. \A s \in Callers : accepted[s] <= BytesOf(s) /\ (sending[s] = "sent" => BytesOf(s) = PayloadSize)
  BY <1>1 DEF SenderOK
<1> QED
  BY <1>1, <1>2 DEF PayloadsWhole, Contiguous, BytesOf

(***************************************************************************)
(* What follows of the Enhanced link                                       *)
(***************************************************************************)
LEMMA ResultsHold ==
  ASSUME LinkIInv
  PROVE  OwnAnswer /\ ResultTrue
<1>1. \A c \in Callers : AnswerOK(c) /\ RequestOK(c)
  BY DEF LinkIInv, AnswersOK, RequestsOK
<1>2. OwnAnswer
  BY <1>1 DEF AnswerOK, OwnAnswer
<1>3. DOMAIN inbox = 1 .. Len(inbox)
  BY DEF LinkIInv, ValuesOK
<1>4. ASSUME NEW c \in Callers, result[c] = "unsent"
      PROVE  /\ writing[c] = "none" /\ \A j \in DOMAIN inbox : inbox[j] # c
             /\ \A v \in Verdicts : <<c, v>> \notin executed
  <2>1. writing[c] = "none" /\ Fresh(c)
    BY <1>1, <1>4 DEF AnswerOK, RequestOK
  <2> QED
    BY <1>3, <2>1 DEF Fresh
<1>5. ASSUME NEW c \in Callers, result[c] = "ok"
      PROVE  <<c, "ok">> \in executed
  BY <1>1, <1>5 DEF AnswerOK
<1> QED
  BY <1>2, <1>4, <1>5 DEF ResultTrue

LEMMA OpensHold ==
  ASSUME LinkIInv
  PROVE  FailedOpenIsTruthful /\ ClosedIsQuiet
<1>1. FailedOpenIsTruthful
  BY DEF LinkIInv, OpenOK, FailedOpenIsTruthful
<1>2. ASSUME loop = "stopped"
      PROVE  /\ reader \in {"idle", "done"} /\ consumer # "inloop"
             /\ \A c \in Callers : call[c] \notin InLoop
             /\ resource = "closed" \/ closeError \/ cleanup = FALSE
  <2>1. hostClosed
    BY <1>2 DEF LinkIInv, HostOK
  <2>2. consumer # "inloop" /\ \A c \in Callers : call[c] \notin InLoop
    BY <2>1 DEF LinkIInv, HostOK
  <2>3. Drained
    BY <2>1 DEF Drained
  <2>4. reader \in {"idle", "done"} /\ (opener # "failed" /\ ~closeError => resource = "closed")
    BY <2>3 DEF LinkIInv, DrainedOK
  <2>5. opener = "failed" => cleanup = (resource = "closed")
    BY DEF LinkIInv, OpenOK
  <2> QED
    BY <2>2, <2>4, <2>5
<1> QED
  BY <1>1, <1>2 DEF ClosedIsQuiet

LEMMA EventsHold ==
  ASSUME LinkIInv
  PROVE  NoEventLost
<1> SUFFICES ASSUME ~closeError
             PROVE  /\ taken \o drained \o events \o awaiting = normalized
                    /\ consumer = "done" => taken = normalized
  BY DEF NoEventLost
<1>1. taken \o drained \o events \o awaiting = normalized /\ taken \in Seq(Nat)
  BY DEF LinkIInv, DrainedOK, ValuesOK
<1>2. ASSUME consumer = "done"
      PROVE  taken = normalized
  <2>1. hostClosed /\ drained = << >> /\ opener = "running"
    BY <1>2, ConsumerCame DEF LinkIInv, DrainedOK
  <2>2. Drained
    BY <2>1 DEF Drained
  <2>3. events = << >> /\ awaiting = << >>
    BY <2>1, <2>2 DEF LinkIInv, DrainedOK
  <2>4. taken \o << >> = taken
    BY <1>1, ConcatEmptySeq, Zenon
  <2> QED
    BY <1>1, <2>1, <2>3, <2>4
<1> QED
  BY <1>1, <1>2

\* Callers are told the truth: a command reported as done was accepted whole, one
\* reported as not sent never reached the helper, and nobody is given another's
\* answer (request, _uart_send_result); a failed open knows whether the port is
\* closed, nothing is left on a loop that has stopped (EnhancedAsyncHost.close),
\* every closing thread of the Basic backend reports the one outcome, and payloads
\* go out unmixed (BasicSerialBackend.close, send_uart).
THEOREM ReportsStayTrue == Spec => []ReportsAreTrue
<1>1. IInv => ReportsAreTrue
  BY ResultsHold, OpensHold, CloseIsOne, PayloadsStayWhole DEF IInv, LinkIInv, ReportsAreTrue
<1> QED
  BY <1>1, IInvHolds, PTL

\* What was received is handed over once and in order, and all of it after a close
\* that succeeds, whatever the queue held (close_and_drain_events, read_event,
\* _read_serial, has_pending_events).
THEOREM NothingIsLost == Spec => []NothingReceivedLost
<1>1. IInv => NothingReceivedLost
  BY ChunksAreKept, EventsHold DEF IInv, NothingReceivedLost
<1> QED
  BY <1>1, IInvHolds, PTL

=============================================================================
