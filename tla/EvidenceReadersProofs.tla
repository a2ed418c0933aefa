----------------------- MODULE EvidenceReadersProofs ------------------------
(***************************************************************************)
(* Proofs about EvidenceReaders: the Monitor reader sees exactly the UART  *)
(* records admitted while its operation runs and is never refused its      *)
(* evidence (ReaderIsExact), and a tail client reads on without a hole and *)
(* is told that its cursor expired only when it has (TailIsExact).         *)
(*                                                                         *)
(* The readers follow links from session to session without the lock, and  *)
(* what they rely on is the order in which the recorder linked sessions.   *)
(* ChainInv says so: links lead forward, never past a session that is or   *)
(* will be linked, and a session its predecessor does not link - the       *)
(* orphan of a rollover that did not come to its end - holds only the      *)
(* rollover's own bookkeeping.  PlaceInv then says where the Monitor       *)
(* reader stands on that chain and what it has seen of it, ReachInv that   *)
(* what it has still to read stays linked and held by retention as long as *)
(* its operation runs, and TailInv where a tail client stands.             *)
(***************************************************************************)
EXTENDS EvidenceReaders, SessionJournalProofs, SequenceTheorems

-----------------------------------------------------------------------------
(***************************************************************************)
(* The chain of sessions.                                                  *)
(***************************************************************************)
\* A session its predecessor does not link (yet).
Orphan(J, x) == J[x].pred # None /\ J[J[x].pred].succ # x

PredsIn(J) ==
    \A s \in DOMAIN J : J[s].pred # None => J[s].pred \in DOMAIN J /\ J[s].pred < s
LinksIn(J) ==
    \A s \in DOMAIN J : J[s].succ # None =>
        /\ Len(J[J[s].succ].log) > 0
        /\ \A x \in DOMAIN J : s < x /\ x < J[s].succ => Orphan(J, x)
QuietIn(J) ==
    \A s \in DOMAIN J : Orphan(J, s) => \A n \in 1..Len(J[s].log) : J[s].log[n].t # "uart_rx"
\* The ranges an operation's owner claims lie in no later session.
BehindIn(J, s) ==
    \A op \in DOMAIN J[s].ops : \A x \in RangeSessions(J[s].ops[op]) : x <= s
ChainIn(J) ==
    PredsIn(J) /\ LinksIn(J) /\ QuietIn(J) /\ \A s \in DOMAIN J : BehindIn(J, s)

(* The session the recorder appends to is the last that is linked.         *)
TipIn(J, t) ==
    /\ ~Orphan(J, t)
    /\ \A x \in DOMAIN J : x > t => Orphan(J, x)
    /\ \A x \in DOMAIN J : J[x].succ # None => J[x].succ <= t

TipFirm == Recording /\ ActiveIn(ses, Tip) => handle <= Tip /\ TipIn(ses, Tip)
HandleFirm == handle # None => ~Orphan(ses, handle)
SuccessorCarries ==
    job # None /\ job.step = "continue" =>
        \A op \in DOMAIN ses[job.succ].ops :
            RangeSessions(ses[job.succ].ops[op])
              = RangeSessions(ses[job.pred].ops[op]) \union {job.succ}

ChainInv == ChainIn(ses) /\ TipFirm /\ HandleFirm /\ SuccessorCarries

(* Sessions are numbered.                                                  *)
LEMMA Numbered ==
    ASSUME NEW J \in Seq(SessionT), NEW s \in DOMAIN J
    PROVE  /\ s \in Nat /\ s # None /\ J[s] \in SessionT /\ Len(J[s].log) \in Nat
           /\ J[s].succ \in Nat \union {None} /\ J[s].pred \in Nat \union {None}
  BY LogTyped, SessionFields, NoneAssumption DEF NameT

(* A step that moves no link leaves orphans orphans.                       *)
LinksKept(J, K) ==
    /\ DOMAIN K = DOMAIN J
    /\ \A s \in DOMAIN J : K[s].pred = J[s].pred /\ K[s].succ = J[s].succ

LEMMA OrphansKept ==
    ASSUME NEW J, NEW K, LinksKept(J, K), PredsIn(J)
    PROVE  /\ \A x \in DOMAIN J : Orphan(K, x) <=> Orphan(J, x)
           /\ PredsIn(K)
  BY DEF LinksKept, PredsIn, Orphan

(* Records that are added to no orphan, or are not UART records.           *)
LEMMA ChainKept ==
    ASSUME NEW J \in Seq(SessionT), NEW K \in Seq(SessionT), LinksKept(J, K), ChainIn(J),
           SessionsIn(J),
           \A s \in DOMAIN J :
               /\ Len(J[s].log) <= Len(K[s].log)
               /\ \A n \in 1..Len(K[s].log) :
                     \/ n \in 1..Len(J[s].log) /\ K[s].log[n] = J[s].log[n]
                     \/ K[s].log[n].t = "uart_rx" => ~Orphan(J, s),
           \A s \in DOMAIN K : BehindIn(K, s)
    PROVE  ChainIn(K)
<1>1. PredsIn(J) /\ LinksIn(J) /\ QuietIn(J)
  BY DEF ChainIn
<1>2. /\ \A x \in DOMAIN J : Orphan(K, x) <=> Orphan(J, x)
      /\ PredsIn(K) /\ DOMAIN K = DOMAIN J
  BY <1>1, OrphansKept DEF LinksKept
<1>3. LinksIn(K)
  <2>1. SUFFICES ASSUME NEW s \in DOMAIN K, K[s].succ # None
                 PROVE  /\ Len(K[K[s].succ].log) > 0
                        /\ \A x \in DOMAIN K : s < x /\ x < K[s].succ => Orphan(K, x)
    BY DEF LinksIn
  <2>2. K[s].succ = J[s].succ /\ J[s].succ \in DOMAIN J
    BY <2>1, <1>2 DEF LinksKept, SessionsIn
  <2>3. Len(J[J[s].succ].log) > 0 /\ \A x \in DOMAIN J : s < x /\ x < J[s].succ => Orphan(J, x)
    BY <2>1, <2>2, <1>1, <1>2 DEF LinksIn
  <2>4. Len(J[J[s].succ].log) \in Nat /\ Len(K[J[s].succ].log) \in Nat
    BY <2>2, <1>2, Numbered
  <2> QED
    BY <2>2, <2>3, <2>4, <1>2
<1>4. QuietIn(K)
  BY <1>1, <1>2 DEF QuietIn
<1> QED
  BY <1>2, <1>3, <1>4 DEF ChainIn

(* Ending sessions keeps the chain.                                        *)
LEMMA TerminatedChain ==
    ASSUME NEW J \in Seq(SessionT), NEW K \in Seq(SessionT), NEW T, Terminated(J, K, T),
           ChainIn(J), SessionsIn(J)
    PROVE  ChainIn(K) /\ LinksKept(J, K)
<1>1. /\ DOMAIN K = DOMAIN J
      /\ \A s \in DOMAIN J :
            /\ K[s].log = J[s].log /\ K[s].pred = J[s].pred /\ K[s].succ = J[s].succ
            /\ s \in T => DOMAIN K[s].ops = {}
            /\ s \notin T => K[s] = J[s]
  BY TerminatedFacts
<1>2. LinksKept(J, K)
  BY <1>1 DEF LinksKept
<1>3. ASSUME NEW s \in DOMAIN K PROVE BehindIn(K, s)
  BY <1>1 DEF ChainIn, BehindIn
<1>4. \A s \in DOMAIN J :
         /\ Len(J[s].log) <= Len(K[s].log)
         /\ \A n \in 1..Len(K[s].log) : n \in 1..Len(J[s].log) /\ K[s].log[n] = J[s].log[n]
  BY <1>1, Numbered
<1>5. ChainIn(K)
  BY <1>2, <1>3, <1>4, ChainKept
<1> QED
  BY <1>2, <1>5

(* Deleting files keeps it.                                                *)
LEMMA DeletedChain ==
    ASSUME NEW J \in Seq(SessionT), NEW K \in Seq(SessionT), NEW D, Deleted(J, K, D),
           ChainIn(J), SessionsIn(J)
    PROVE  ChainIn(K) /\ LinksKept(J, K)
<1>1. /\ DOMAIN K = DOMAIN J
      /\ \A s \in DOMAIN J :
            /\ K[s].log = J[s].log /\ K[s].pred = J[s].pred /\ K[s].succ = J[s].succ
            /\ K[s].ops = J[s].ops
  BY DEF Deleted
<1>2. LinksKept(J, K)
  BY <1>1 DEF LinksKept
<1>3. ASSUME NEW s \in DOMAIN K PROVE BehindIn(K, s)
  BY <1>1 DEF ChainIn, BehindIn
<1>4. \A s \in DOMAIN J :
         /\ Len(J[s].log) <= Len(K[s].log)
         /\ \A n \in 1..Len(K[s].log) : n \in 1..Len(J[s].log) /\ K[s].log[n] = J[s].log[n]
  BY <1>1, Numbered
<1>5. ChainIn(K)
  BY <1>2, <1>3, <1>4, ChainKept
<1> QED
  BY <1>2, <1>5

(* One record more keeps it, unless it is a UART record of an orphan.      *)
LEMMA GrownChain ==
    ASSUME NEW J \in Seq(SessionT), NEW K \in Seq(SessionT), NEW g, NEW e, GrownBy(J, K, g, e),
           ChainIn(J), SessionsIn(J), e.t = "uart_rx" => ~Orphan(J, g), BehindIn(K, g)
    PROVE  ChainIn(K) /\ LinksKept(J, K)
<1>1. /\ DOMAIN K = DOMAIN J /\ g \in DOMAIN J
      /\ \A s \in DOMAIN J :
            /\ K[s].pred = J[s].pred /\ K[s].succ = J[s].succ
            /\ s # g => K[s] = J[s]
            /\ \A n \in DOMAIN K[s].log :
                  (n \in DOMAIN J[s].log /\ K[s].log[n] = J[s].log[n])
                  \/ (s = g /\ n = Len(J[g].log) + 1 /\ K[s].log[n] = e)
      /\ Len(J[g].log) \in Nat /\ Len(K[g].log) = Len(J[g].log) + 1
  BY GrownFacts
<1>2. LinksKept(J, K)
  BY <1>1 DEF LinksKept
<1>3. ASSUME NEW s \in DOMAIN K PROVE BehindIn(K, s)
  BY <1>1 DEF ChainIn, BehindIn
<1>4. ASSUME NEW s \in DOMAIN J
      PROVE  /\ Len(J[s].log) <= Len(K[s].log)
             /\ \A n \in 1..Len(K[s].log) :
                   \/ n \in 1..Len(J[s].log) /\ K[s].log[n] = J[s].log[n]
                   \/ K[s].log[n].t = "uart_rx" => ~Orphan(J, s)
  <2>1. /\ DOMAIN K[s].log = 1..Len(K[s].log) /\ DOMAIN J[s].log = 1..Len(J[s].log)
        /\ Len(J[s].log) \in Nat
    BY <1>1, LogTyped
  <2>2. Len(J[s].log) <= Len(K[s].log)
    BY <1>1, <2>1
  <2>3. ASSUME NEW n \in 1..Len(K[s].log)
        PROVE  \/ n \in 1..Len(J[s].log) /\ K[s].log[n] = J[s].log[n]
               \/ K[s].log[n].t = "uart_rx" => ~Orphan(J, s)
    BY <1>1, <2>1
  <2> QED
    BY <2>2, <2>3
<1>5. ChainIn(K)
  BY <1>2, <1>3, <1>4, ChainKept
<1> QED
  BY <1>2, <1>5

(* A new session has its predecessor's name and nothing else.              *)
LEMMA CreatedBare ==
    ASSUME NEW J \in Seq(SessionT), NEW K, NEW p, Created(J, K, p)
    PROVE  /\ K[Len(J) + 1].pred = p /\ K[Len(J) + 1].succ = None
           /\ Len(K[Len(J) + 1].log) = 0 /\ DOMAIN K[Len(J) + 1].ops = {}
<1>1. K[Len(J) + 1] = NewSession(p)
  BY DEF Created
<1>2. /\ NewSession(p).pred = p /\ NewSession(p).succ = None
      /\ NewSession(p).log = <<>> /\ NewSession(p).ops = Empty
  BY DEF NewSession
<1> QED
  BY <1>1, <1>2, EmptyMaps

(* A new session: the first of a run, or the successor of a session that   *)
(* is not linked yet.                                                      *)
LEMMA CreatedChain ==
    ASSUME NEW J \in Seq(SessionT), NEW K \in Seq(SessionT), NEW p \in NameT, Created(J, K, p),
           ChainIn(J), SessionsIn(J), p # None => p \in DOMAIN J
    PROVE  /\ ChainIn(K)
           /\ \A x \in DOMAIN J : Orphan(K, x) <=> Orphan(J, x)
           /\ \A x \in DOMAIN K : K[x].succ # None => x \in DOMAIN J /\ K[x].succ \in DOMAIN J
<1> DEFINE g == Len(J) + 1
<1>0. /\ K[g].pred = p /\ K[g].succ = None /\ Len(K[g].log) = 0 /\ DOMAIN K[g].ops = {}
  BY CreatedBare
<1>1. /\ DOMAIN K = DOMAIN J \union {g} /\ g \notin DOMAIN J
      /\ DOMAIN J = 1..Len(J) /\ Len(J) \in Nat
      /\ \A s \in DOMAIN J : K[s] = J[s] /\ s # g
      /\ K[g].pred = p /\ K[g].succ = None /\ Len(K[g].log) = 0 /\ DOMAIN K[g].ops = {}
  BY <1>0 DEF Created
<1>2. PredsIn(J) /\ LinksIn(J) /\ QuietIn(J)
  BY DEF ChainIn
<1>3. ASSUME NEW x \in DOMAIN J PROVE Orphan(K, x) <=> Orphan(J, x)
  <2>1. J[x].pred # None => J[x].pred \in DOMAIN J
    BY <1>2 DEF PredsIn
  <2> QED
    BY <2>1, <1>1 DEF Orphan
<1>4. ASSUME NEW x \in DOMAIN K, K[x].succ # None
      PROVE  x \in DOMAIN J /\ K[x].succ \in DOMAIN J
  BY <1>1, <1>4 DEF SessionsIn
<1>5. PredsIn(K)
  BY <1>1, <1>2 DEF PredsIn
<1>6. LinksIn(K)
  <2>1. SUFFICES ASSUME NEW s \in DOMAIN K, K[s].succ # None
                 PROVE  /\ Len(K[K[s].succ].log) > 0
                        /\ \A x \in DOMAIN K : s < x /\ x < K[s].succ => Orphan(K, x)
    BY DEF LinksIn
  <2>2. s \in DOMAIN J /\ K[s].succ = J[s].succ /\ J[s].succ \in DOMAIN J
    BY <2>1, <1>1, <1>4
  <2>3. Len(J[J[s].succ].log) > 0 /\ \A x \in DOMAIN J : s < x /\ x < J[s].succ => Orphan(J, x)
    BY <2>1, <2>2, <1>2 DEF LinksIn
  <2>4. \A x \in DOMAIN K : x < J[s].succ => x \in DOMAIN J
    BY <2>2, <1>1
  <2> QED
    BY <2>2, <2>3, <2>4, <1>1, <1>3
<1>7. QuietIn(K)
  BY <1>1, <1>2, <1>3 DEF QuietIn
<1>8. ASSUME NEW s \in DOMAIN K PROVE BehindIn(K, s)
  BY <1>1 DEF ChainIn, BehindIn
<1> QED
  BY <1>3, <1>4, <1>5, <1>6, <1>7, <1>8 DEF ChainIn

(* The predecessor that ends the chain is linked to its successor.         *)
LEMMA LinkedChain ==
    ASSUME NEW J \in Seq(SessionT), NEW K \in Seq(SessionT), NEW p, NEW q, LinkedTo(J, K, p, q),
           ChainIn(J), SessionsIn(J), ActiveIn(J, p), J[q].pred = p, Len(J[q].log) > 0,
           TipIn(J, p)
    PROVE  /\ ChainIn(K) /\ TipIn(K, q) /\ p < q
           /\ \A x \in DOMAIN J : Orphan(K, x) <=> Orphan(J, x) /\ x # q
<1>1. /\ DOMAIN K = DOMAIN J /\ p \in DOMAIN J /\ q \in DOMAIN J /\ p # q
      /\ \A s \in DOMAIN J : s # p => K[s] = J[s]
      /\ K[p].log = J[p].log /\ K[p].pred = J[p].pred /\ K[p].succ = q /\ DOMAIN K[p].ops = {}
  BY EmptyMaps DEF LinkedTo
<1>2. PredsIn(J) /\ LinksIn(J) /\ QuietIn(J)
  BY DEF ChainIn
<1>3. p \in Nat /\ q \in Nat /\ p # None /\ DOMAIN J \subseteq Nat /\ p < q
  BY <1>1, <1>2, Numbered DEF PredsIn
<1>4. J[p].succ = None
  BY <1>1 DEF SessionsIn, ActiveIn
<1>5. ASSUME NEW x \in DOMAIN J PROVE Orphan(K, x) <=> Orphan(J, x) /\ x # q
  <2>1. K[x].pred = J[x].pred /\ (J[x].pred # None => J[x].pred \in DOMAIN J)
    BY <1>1, <1>2 DEF PredsIn
  <2>2. CASE J[x].pred = p
    <3>1. K[J[x].pred].succ = q /\ J[J[x].pred].succ = None /\ x # None
      BY <2>2, <1>1, <1>4, Numbered
    <3> QED
      BY <2>1, <2>2, <3>1, <1>3 DEF Orphan
  <2>3. CASE J[x].pred # p
    <3>1. x # q
      BY <2>3
    <3>2. J[x].pred # None => K[J[x].pred] = J[J[x].pred]
      BY <2>1, <2>3, <1>1
    <3> QED
      BY <2>1, <3>1, <3>2 DEF Orphan
  <2> QED
    BY <2>2, <2>3
<1>6. PredsIn(K)
  BY <1>1, <1>2 DEF PredsIn
<1>7. ASSUME NEW s \in DOMAIN J, K[s].succ # None
      PROVE  s = p \/ (K[s].succ = J[s].succ /\ J[s].succ <= p)
  BY <1>1, <1>7 DEF TipIn
<1>8. ASSUME NEW s \in DOMAIN J
      PROVE  Len(K[s].log) = Len(J[s].log) /\ (s < q \/ s >= q)
  BY <1>1, <1>3
<1>9. LinksIn(K)
  <2>1. SUFFICES ASSUME NEW s \in DOMAIN K, K[s].succ # None
                 PROVE  /\ Len(K[K[s].succ].log) > 0
                        /\ \A x \in DOMAIN K : s < x /\ x < K[s].succ => Orphan(K, x)
    BY DEF LinksIn
  <2>2. CASE s = p
    <3>1. K[s].succ = q /\ Len(K[q].log) > 0
      BY <2>2, <1>1
    <3>2. \A x \in DOMAIN J : p < x /\ x < q => Orphan(J, x) /\ x # q
      BY <1>3 DEF TipIn
    <3> QED
      BY <2>2, <3>1, <3>2, <1>1, <1>5
  <2>3. CASE s # p
    <3>1. /\ K[s].succ = J[s].succ /\ J[s].succ <= p /\ s \in DOMAIN J
          /\ J[s].succ # None /\ J[s].succ \in DOMAIN J
      BY <2>1, <2>3, <1>1, <1>7 DEF SessionsIn
    <3>2. Len(J[J[s].succ].log) > 0 /\ \A x \in DOMAIN J : s < x /\ x < J[s].succ => Orphan(J, x)
      BY <3>1, <1>2 DEF LinksIn
    <3>3. \A x \in DOMAIN J : x < J[s].succ => x # q
      BY <3>1, <1>3
    <3> QED
      BY <3>1, <3>2, <3>3, <1>1, <1>5, <1>8
  <2> QED
    BY <2>2, <2>3
<1>10. QuietIn(K)
  BY <1>1, <1>2, <1>5 DEF QuietIn
<1>11. ASSUME NEW s \in DOMAIN K PROVE BehindIn(K, s)
  BY <1>1 DEF ChainIn, BehindIn
<1>12. ChainIn(K)
  BY <1>6, <1>9, <1>10, <1>11 DEF ChainIn
<1>13. TipIn(K, q)
  <2>1. ~Orphan(K, q)
    BY <1>1, <1>5
  <2>2. \A x \in DOMAIN K : x > q => Orphan(K, x)
    BY <1>1, <1>3, <1>5 DEF TipIn
  <2>3. \A x \in DOMAIN K : K[x].succ # None => K[x].succ <= q
    <3>1. SUFFICES ASSUME NEW x \in DOMAIN K, K[x].succ # None PROVE K[x].succ <= q
      OBVIOUS
    <3>2. CASE x = p
      BY <3>2, <1>1, <1>3
    <3>3. CASE x # p
      <4>1. K[x].succ = J[x].succ /\ J[x].succ <= p /\ J[x].succ \in DOMAIN J
        BY <3>1, <3>3, <1>1, <1>7 DEF SessionsIn
      <4> QED
        BY <4>1, <1>3
    <3> QED
      BY <3>2, <3>3
  <2> QED
    BY <2>1, <2>2, <2>3 DEF TipIn
<1> QED
  BY <1>3, <1>5, <1>12, <1>13

-----------------------------------------------------------------------------
(***************************************************************************)
(* What every step of the journal leaves as it is: records, links, and     *)
(* everything about a session that ended.                                  *)
(***************************************************************************)
FollowsAt(J, K, s) ==
    /\ K[s].pred = J[s].pred /\ Len(J[s].log) <= Len(K[s].log)
    /\ \A n \in 1..Len(J[s].log) : K[s].log[n] = J[s].log[n]
    /\ J[s].succ # None => K[s].succ = J[s].succ
    /\ ~ActiveIn(J, s) => ~ActiveIn(K, s) /\ K[s].log = J[s].log /\ K[s].succ = J[s].succ
    /\ J[s].disk # "whole" => K[s].disk # "whole"
    /\ DOMAIN J[s].cut \subseteq DOMAIN K[s].cut
Follows(J, K) ==
    DOMAIN J \subseteq DOMAIN K /\ \A s \in DOMAIN J : FollowsAt(J, K, s)

LEMMA SameFollows ==
    ASSUME NEW J \in Seq(SessionT)
    PROVE  Follows(J, J)
  BY Numbered DEF Follows, FollowsAt

LEMMA TerminatedFollows ==
    ASSUME NEW J \in Seq(SessionT), NEW K \in Seq(SessionT), NEW T, Terminated(J, K, T)
    PROVE  Follows(J, K)
<1>1. DOMAIN K = DOMAIN J
  BY TerminatedFacts
<1>2. ASSUME NEW s \in DOMAIN J
      PROVE  FollowsAt(J, K, s)
  <2>1. /\ K[s].disk = J[s].disk /\ K[s].log = J[s].log /\ K[s].pred = J[s].pred
        /\ K[s].succ = J[s].succ /\ (ActiveIn(K, s) => ActiveIn(J, s))
        /\ DOMAIN J[s].cut \subseteq DOMAIN K[s].cut
    BY TerminatedFacts
  <2>2. Len(J[s].log) \in Nat
    BY Numbered
  <2> QED
    BY <2>1, <2>2 DEF FollowsAt
<1> QED
  BY <1>1, <1>2 DEF Follows

LEMMA DeletedFollows ==
    ASSUME NEW J \in Seq(SessionT), NEW K \in Seq(SessionT), NEW D, Deleted(J, K, D),
           \A s \in DOMAIN J : J[s].disk # "whole" => K[s].disk # "whole"
    PROVE  Follows(J, K)
<1>1. DOMAIN K = DOMAIN J
  BY DEF Deleted
<1>2. ASSUME NEW s \in DOMAIN J
      PROVE  FollowsAt(J, K, s)
  <2>1. /\ K[s].log = J[s].log /\ K[s].pred = J[s].pred /\ K[s].cut = J[s].cut
        /\ K[s].succ = J[s].succ /\ (ActiveIn(K, s) <=> ActiveIn(J, s))
    BY DEF Deleted, ActiveIn
  <2>2. Len(J[s].log) \in Nat
    BY Numbered
  <2> QED
    BY <2>1, <2>2 DEF FollowsAt
<1> QED
  BY <1>1, <1>2 DEF Follows

LEMMA CreatedFollows ==
    ASSUME NEW J \in Seq(SessionT), NEW K \in Seq(SessionT), NEW p \in NameT, Created(J, K, p)
    PROVE  Follows(J, K)
<1>1. DOMAIN J \subseteq DOMAIN K /\ \A s \in DOMAIN J : K[s] = J[s]
  BY DEF Created
<1> QED
  BY <1>1, Numbered DEF Follows, FollowsAt, ActiveIn

LEMMA LinkedFollows ==
    ASSUME NEW J \in Seq(SessionT), NEW K \in Seq(SessionT), NEW p, NEW q, LinkedTo(J, K, p, q),
           SessionsIn(J), ActiveIn(J, p)
    PROVE  Follows(J, K)
<1>1. DOMAIN K = DOMAIN J /\ p \in DOMAIN J /\ J[p].succ = None
  BY DEF LinkedTo, SessionsIn, ActiveIn
<1>2. ASSUME NEW s \in DOMAIN J
      PROVE  FollowsAt(J, K, s)
  <2>1. K[s].disk = J[s].disk /\ K[s].log = J[s].log /\ K[s].pred = J[s].pred /\ K[s].cut = J[s].cut
    BY DEF LinkedTo
  <2>2. Len(J[s].log) \in Nat
    BY Numbered
  <2>3. s # p => K[s] = J[s]
    BY DEF LinkedTo
  <2> QED
    BY <2>1, <2>2, <2>3, <1>1 DEF FollowsAt, ActiveIn
<1> QED
  BY <1>1, <1>2 DEF Follows

LEMMA GrownFollows ==
    ASSUME NEW J \in Seq(SessionT), NEW K \in Seq(SessionT), NEW g, NEW e, GrownBy(J, K, g, e),
           ActiveIn(J, g)
    PROVE  Follows(J, K)
<1>1. DOMAIN K = DOMAIN J
  BY DEF GrownBy
<1>2. ASSUME NEW s \in DOMAIN J
      PROVE  FollowsAt(J, K, s)
  <2>1. /\ K[s].disk = J[s].disk /\ K[s].pred = J[s].pred /\ K[s].cut = J[s].cut
        /\ K[s].succ = J[s].succ /\ (ActiveIn(K, s) <=> ActiveIn(J, s))
        /\ s # g => K[s] = J[s]
    BY GrownFacts
  <2>2. Prolongs(J, K)
    BY GrownFacts
  <2>3. Len(J[s].log) <= Len(K[s].log) /\ \A n \in 1..Len(J[s].log) : K[s].log[n] = J[s].log[n]
    BY <2>2 DEF Prolongs
  <2> QED
    BY <2>1, <2>3 DEF FollowsAt
<1> QED
  BY <1>1, <1>2 DEF Follows

(* Once linked, never an orphan again.                                     *)
LEMMA FollowsLinked ==
    ASSUME NEW J, NEW K, Follows(J, K), PredsIn(J), NEW x \in DOMAIN J, ~Orphan(J, x), x # None
    PROVE  ~Orphan(K, x)
  BY DEF Follows, FollowsAt, PredsIn, Orphan

-----------------------------------------------------------------------------
(***************************************************************************)
(* The chain, action by action, and what a step of the journal can do to a *)
(* reader: it links no session at or before the one the recorder appends   *)
(* to, and only that session may get a UART record.                        *)
(***************************************************************************)
TipActive == Recording /\ ActiveIn(ses, Tip)
StaysAtTip ==
    /\ Recording' /\ ActiveIn(ses', Tip') => TipActive /\ Tip' = Tip /\ handle' \in {handle, Tip}
    /\ handle' # None => handle' = handle \/ (handle' = Tip /\ TipActive)
UartAtTip ==
    \A s \in DOMAIN ses' : \A n \in 1..Len(ses'[s].log) :
        \/ s \in DOMAIN ses /\ n <= Len(ses[s].log)
        \/ ses'[s].log[n].t # "uart_rx"
        \/ s = Tip /\ TipActive
LinksAtTip ==
    \A x \in DOMAIN ses : Orphan(ses, x) /\ ~Orphan(ses', x) => TipActive /\ Tip < x
Moves ==
    /\ ses' \in Seq(SessionT) /\ Follows(ses, ses') /\ LinksAtTip /\ UartAtTip
    /\ Recording' => Recording \/ CreateFirst
    /\ StaysAtTip \/ CreateFirst \/ RolloverLink

LEMMA TipExists ==
    ASSUME JInv, Recording
    PROVE  /\ handle \in DOMAIN ses /\ handle \in Nat /\ handle # None
           /\ Tip \in DOMAIN ses /\ Tip \in Nat /\ Tip # None
<1>1. Types /\ JobOK
  BY DEF JInv
<1>2. handle \in DOMAIN ses
  BY <1>1 DEF JobOK, Recording
<1>3. Tip \in DOMAIN ses
  BY <1>1, <1>2 DEF Tip, JobOK, UnitJob
<1>4. DOMAIN ses \subseteq Nat /\ None \notin Nat
  BY <1>1, NamesAreNumbers
<1> QED
  BY <1>2, <1>3, <1>4

(* A step that moves no link.                                              *)
LEMMA LinksStay ==
    ASSUME JInv, ChainInv, ses' \in Seq(SessionT), Follows(ses, ses'), LinksKept(ses, ses'),
           ChainIn(ses'), StaysAtTip, SuccessorCarries', Recording' => Recording, UartAtTip
    PROVE  ChainInv' /\ Moves
<1> DEFINE J == ses
<1> DEFINE K == ses'
<1> DEFINE t == Tip
<1> DEFINE h == handle
<1>1. PredsIn(ses)
  BY DEF ChainInv, ChainIn
<1>2. \A x \in DOMAIN ses : Orphan(ses', x) <=> Orphan(ses, x)
  BY <1>1, OrphansKept
<1>3. TipActive => t \in DOMAIN ses /\ t \in Nat /\ h \in Nat /\ h <= t /\ TipIn(ses, t)
  BY TipExists DEF TipActive, ChainInv, TipFirm
<1>4. TipActive => TipIn(ses', t)
  BY <1>2, <1>3 DEF TipIn, LinksKept
<1>5. Recording' /\ ActiveIn(ses', Tip') => TipActive /\ Tip' = t /\ (handle' = h \/ handle' = t)
  BY DEF StaysAtTip
<1>6. handle' # None => handle' = h \/ (handle' = t /\ TipActive)
  BY DEF StaysAtTip
<1>7. h # None => h \in DOMAIN ses /\ ~Orphan(ses, h)
  BY DEF ChainInv, HandleFirm, JInv, Types
<1> HIDE DEF t, h
<1>8. TipFirm'
  <2>1. SUFFICES ASSUME Recording', ActiveIn(ses', Tip')
                 PROVE  handle' <= Tip' /\ TipIn(ses', Tip')
    BY DEF TipFirm
  <2>2. TipActive /\ Tip' = t /\ (handle' = h \/ handle' = t)
    BY <2>1, <1>5
  <2> QED
    BY <2>2, <1>3, <1>4
<1>9. HandleFirm'
  <2>1. SUFFICES ASSUME handle' # None PROVE ~Orphan(ses', handle')
    BY DEF HandleFirm
  <2>2. CASE handle' = h
    BY <2>1, <2>2, <1>2, <1>7
  <2>3. CASE handle' = t /\ TipActive
    BY <2>3, <1>2, <1>3 DEF TipIn
  <2> QED
    BY <2>1, <2>2, <2>3, <1>6
<1>10. ChainInv'
  BY <1>8, <1>9 DEF ChainInv
<1>11. LinksAtTip
  BY <1>2 DEF LinksAtTip
<1> QED
  BY <1>10, <1>11 DEF Moves

LEMMA ChainTypes ==
    ASSUME JInv, ChainInv
    PROVE  /\ ses \in Seq(SessionT) /\ SessionsIn(ses) /\ RangesIn(ses, FrozenNow)
           /\ ChainIn(ses) /\ Types /\ JobOK
  BY DEF JInv, Types, ChainInv

(* Steps that change no session.                                           *)
LEMMA QuietChain ==
    ASSUME JInv, ChainInv, ses' = ses, StaysAtTip, Recording' => Recording,
           job' # None => job'.step # "continue" \/ job' = job
    PROVE  ChainInv' /\ Moves
<1>1. ses \in Seq(SessionT) /\ ChainIn(ses)
  BY ChainTypes
<1>2. Follows(ses, ses') /\ LinksKept(ses, ses') /\ ChainIn(ses') /\ ses' \in Seq(SessionT)
  BY <1>1, SameFollows DEF LinksKept
<1>3. SuccessorCarries'
  <2>1. SuccessorCarries
    BY DEF ChainInv
  <2> QED
    BY <2>1 DEF SuccessorCarries
<1>4. UartAtTip
  BY <1>1, Numbered DEF UartAtTip
<1> QED
  BY <1>2, <1>3, <1>4, LinksStay

LEMMA QuietStepsChain ==
    ASSUME JInv, ChainInv,
           RecoveryDone \/ RecoveryFails \/ FindEnded \/ InputError \/ CloseReader
           \/ MarkBaseline \/ ClearBaseline \/ Restart
    PROVE  ChainInv' /\ Moves
<1>1. ses' = ses
  BY DEF RecoveryDone, RecoveryFails, FindEnded, InputError, CloseReader, MarkBaseline,
         ClearBaseline, Restart
<1>2. SweepJob({}).step = "sweep" /\ SweepJob({}).unit = None
  BY SweepJobTyped
<1>3. LET j == Job("recover", None, None, 1, {}) IN j.step = "recover" /\ j.unit = None
  BY RecoverJobTyped
<1>4. ~Rolling' /\ (job' # None => job'.step # "continue")
  <2>1. job' = None \/ (job'.unit = None /\ job'.step \in {"sweep", "recover"})
    BY <1>2, <1>3 DEF RecoveryDone, RecoveryFails, FindEnded, InputError, CloseReader,
                      MarkBaseline, ClearBaseline, Restart, Idle
  <2> QED
    BY <2>1 DEF Rolling
<1>5. /\ Recording' => Recording /\ ~Rolling
      /\ handle' = handle \/ handle' = None
  <2>1. CASE RecoveryDone \/ RecoveryFails
    <3>1. phase = "boot"
      BY <2>1 DEF JInv, JobOK, StartupJob, RecoveryDone, RecoveryFails
    <3> QED
      BY <2>1, <3>1 DEF RecoveryDone, RecoveryFails, Recording
  <2>2. CASE FindEnded \/ Restart
    BY <2>2 DEF FindEnded, Restart, Recording
  <2>3. CASE InputError \/ CloseReader \/ MarkBaseline \/ ClearBaseline
    BY <2>3 DEF InputError, CloseReader, MarkBaseline, ClearBaseline, Idle, Recording, Rolling
  <2> QED
    BY <2>1, <2>2, <2>3
<1>6. Recording' => handle' = handle
  <2>1. ASSUME handle' = None, Recording' PROVE handle' = handle
    <3>1. handle' = handle \/ Restart
      BY DEF RecoveryDone, RecoveryFails, FindEnded, InputError, CloseReader, MarkBaseline,
             ClearBaseline
    <3>2. ~Restart
      BY <2>1 DEF Restart, Recording
    <3> QED
      BY <3>1, <3>2
  <2> QED
    BY <2>1, <1>5
<1>7. StaysAtTip
  <2>1. ASSUME Recording', ActiveIn(ses', Tip')
        PROVE  TipActive /\ Tip' = Tip /\ handle' = handle
    <3>1. Recording /\ ~Rolling /\ ~Rolling' /\ handle' = handle
      BY <2>1, <1>4, <1>5, <1>6
    <3>2. Tip = handle /\ Tip' = handle
      BY <3>1 DEF Tip
    <3> QED
      BY <2>1, <3>1, <3>2, <1>1 DEF TipActive
  <2> QED
    BY <2>1, <1>5 DEF StaysAtTip
<1> QED
  BY <1>1, <1>4, <1>5, <1>7, QuietChain

(* The store call a unit enters with.                                      *)
LEMMA OfferedFields ==
    ASSUME NEW step \in {"create", "append"}, NEW w \in Units, NEW h \in Nat
    PROVE  LET j == Job(step, w, h, None, {})
           IN  j # None /\ j.unit = w /\ j.pred = h /\ j.step = step
<1>1. Job(step, w, h, None, {}) = [step |-> step, unit |-> w, pred |-> h, succ |-> None, held |-> {}]
  BY DEF Job
<1>2. Job(step, w, h, None, {}) \in Jobs
  BY <1>1 DEF Jobs
<1> QED
  BY <1>1, <1>2, JobFields

(* A unit enters the store: the session it is for is the recorder's.       *)
LEMMA OfferedJob ==
    ASSUME JInv, Offer
    PROVE  /\ job = None /\ Recording /\ handle \in DOMAIN ses /\ ActiveIn(ses, handle)
           /\ \E u \in Offers(ses[handle]) :
                 /\ u \in Units /\ job' # None /\ job'.unit # None /\ job'.pred = handle
                 /\ job'.step \in {"create", "append"} /\ job'.step # "continue"
                 /\ job'.unit = u \/ (u.t = "segment_opened" /\ job'.unit.t = "reopened")
<1>1. /\ Types /\ JobOK /\ ses' = ses /\ phase' = phase /\ handle' = handle /\ Idle
      /\ phase # "stopped" /\ ses \in Seq(SessionT) /\ ActiveIn(ses, handle)
  BY DEF JInv, Types, Offer, ActiveIn
<1>2. /\ Recording /\ job = None /\ handle \in DOMAIN ses
      /\ handle \in Nat /\ ses[handle] \in SessionT
  BY <1>1, NamesAreNumbers DEF Idle, Recording, JobOK
<1>3. PICK u \in Offers(ses[handle]) :
          \/ job' = Job("create", [u EXCEPT !.t = "reopened"], handle, None, {})
             /\ u.t = "segment_opened"
          \/ job' = Job("create", u, handle, None, {})
          \/ job' = Job("append", u, handle, None, {})
  BY DEF Offer
<1>4. u \in Units
  BY <1>1, <1>2, OfferedUnit
<1> DEFINE v == [u EXCEPT !.t = "reopened"]
<1>5. v \in Units /\ v.t = "reopened"
  BY <1>4 DEF Units
<1>6. u # None /\ v # None
  BY <1>4, <1>5, UnitFields
<1> HIDE DEF v
<1>7. ASSUME NEW step \in {"create", "append"}, NEW w \in Units, w # None
      PROVE  LET j == Job(step, w, handle, None, {})
             IN  j # None /\ j.unit = w /\ j.pred = handle /\ j.step = step
  BY <1>2, OfferedFields
<1>8. CASE job' = Job("create", v, handle, None, {}) /\ u.t = "segment_opened"
  <2>1. job' # None /\ job'.unit = v /\ job'.pred = handle /\ job'.step = "create"
    BY <1>5, <1>6, <1>7, <1>8
  <2> QED
    BY <2>1, <1>1, <1>2, <1>4, <1>5, <1>6, <1>8
<1>9. CASE job' = Job("create", u, handle, None, {})
  <2>1. job' # None /\ job'.unit = u /\ job'.pred = handle /\ job'.step = "create"
    BY <1>4, <1>6, <1>7, <1>9
  <2> QED
    BY <2>1, <1>1, <1>2, <1>4, <1>6
<1>10. CASE job' = Job("append", u, handle, None, {})
  <2>1. job' # None /\ job'.unit = u /\ job'.pred = handle /\ job'.step = "append"
    BY <1>4, <1>6, <1>7, <1>10
  <2> QED
    BY <2>1, <1>1, <1>2, <1>4, <1>6
<1> QED
  BY <1>3, <1>8, <1>9, <1>10 DEF v

LEMMA OfferChain ==
    ASSUME JInv, ChainInv, Offer
    PROVE  ChainInv' /\ Moves
<1>1. /\ job = None /\ Recording /\ handle \in DOMAIN ses /\ ActiveIn(ses, handle)
      /\ job' # None /\ job'.unit # None /\ job'.pred = handle /\ job'.step # "continue"
  BY OfferedJob
<1>2. ses' = ses /\ phase' = phase /\ handle' = handle
  BY DEF Offer
<1>3. Tip = handle /\ Tip' = handle
  BY <1>1 DEF Tip, Rolling
<1>4. StaysAtTip
  BY <1>1, <1>2, <1>3 DEF StaysAtTip, TipActive
<1>5. Recording' => Recording
  BY <1>1
<1> QED
  BY <1>1, <1>2, <1>4, <1>5, QuietChain

(* Steps that end sessions.                                                *)
LEMMA EndsChain ==
    ASSUME JInv, ChainInv, NEW T, ses' \in Seq(SessionT), Terminated(ses, ses', T),
           StaysAtTip, Recording' => Recording, job' # None => job'.step # "continue"
    PROVE  ChainInv' /\ Moves
<1>1. ses \in Seq(SessionT) /\ ChainIn(ses) /\ SessionsIn(ses)
  BY ChainTypes
<1>2. ChainIn(ses') /\ LinksKept(ses, ses')
  BY <1>1, TerminatedChain
<1>3. Follows(ses, ses')
  BY <1>1, TerminatedFollows
<1>4. UartAtTip
  BY <1>1, TerminatedFacts, Numbered DEF UartAtTip
<1>5. SuccessorCarries'
  BY DEF SuccessorCarries
<1> QED
  BY <1>2, <1>3, <1>4, <1>5, LinksStay

LEMMA RecoverSessionChain ==
    ASSUME JInv, ChainInv, RecoverSession
    PROVE  ChainInv' /\ Moves
<1>1. /\ job # None /\ job.step = "recover" /\ job.unit = None /\ job.succ \in DOMAIN ses
      /\ ses' = IF Stale(job.succ) THEN [ses EXCEPT ![job.succ] = Terminalized(ses[job.succ], "abandoned")]
                ELSE ses
      /\ phase' = phase /\ handle' = handle /\ job' = [job EXCEPT !.succ = @ + 1]
      /\ ses \in Seq(SessionT) /\ RangesIn(ses, FrozenNow) /\ phase = "boot"
      /\ job \in Jobs
  BY DEF JInv, Types, JobOK, StartupJob, RecoverSession
<1>2. ~Recording /\ ~Recording' /\ StaysAtTip
  BY <1>1 DEF Recording, StaysAtTip
<1>3. job'.step = "recover"
  BY <1>1 DEF Jobs
<1>4. CASE ~Stale(job.succ)
  <2>1. ses' = ses
    BY <1>1, <1>4
  <2> QED
    BY <2>1, <1>2, <1>3, QuietChain
<1>5. CASE Stale(job.succ)
  <2> DEFINE q == Terminalized(ses[job.succ], "abandoned")
  <2>1. \E state \in {"failed", "completed", "abandoned"} : q = Terminalized(ses[job.succ], state)
    OBVIOUS
  <2>2. ActiveIn(ses, job.succ)
    BY <1>5 DEF Stale, ActiveIn
  <2>3. ses' = [ses EXCEPT ![job.succ] = q]
    BY <1>1, <1>5
  <2> HIDE DEF q
  <2>4. LET K == [ses EXCEPT ![job.succ] = q]
        IN  K \in Seq(SessionT) /\ Terminated(ses, K, {job.succ})
    BY <1>1, <2>1, <2>2, EndOne
  <2>5. ses' \in Seq(SessionT) /\ Terminated(ses, ses', {job.succ})
    BY <2>3, <2>4
  <2> QED
    BY <2>5, <1>2, <1>3, EndsChain
<1> QED
  BY <1>4, <1>5

LEMMA EndHandleChain ==
    ASSUME JInv, ChainInv, FailSession \/ Shutdown
    PROVE  ChainInv' /\ Moves
<1>1. /\ phase' = "stopped" /\ job = None /\ handle' = handle
      /\ ActiveIn(ses, handle) /\ handle \in DOMAIN ses /\ handle \in Nat
      /\ job' = SweepJob({handle})
      /\ \E state \in {"failed", "completed", "abandoned"} :
            ses' = [ses EXCEPT ![handle] = Terminalized(ses[handle], state)]
  BY NamesAreNumbers DEF JInv, JobOK, FailSession, Shutdown, ActiveIn, Idle
<1>2. ses \in Seq(SessionT) /\ RangesIn(ses, FrozenNow)
  BY ChainTypes
<1>3. PICK state \in {"failed", "completed", "abandoned"} :
         ses' = [ses EXCEPT ![handle] = Terminalized(ses[handle], state)]
  BY <1>1
<1>4. ses' \in Seq(SessionT) /\ Terminated(ses, ses', {handle})
  BY <1>1, <1>2, <1>3, EndOne
<1>5. ~Recording' /\ StaysAtTip
  BY <1>1 DEF Recording, StaysAtTip
<1>6. job'.step = "sweep"
  <2>1. {handle} \in SUBSET Nat
    BY <1>1
  <2> QED
    BY <2>1, <1>1, SweepJobTyped
<1> QED
  BY <1>4, <1>5, <1>6, EndsChain

LEMMA WriteFailsChain ==
    ASSUME JInv, ChainInv, AppendFails \/ RolloverFails
    PROVE  ChainInv' /\ Moves
<1>1. handle' = handle
  BY DEF AppendFails, RolloverFails
<1>2. Rolling /\ \E U : FailedSessions(U) /\ (Stopped \/ LetThrough(U))
  BY WriteFailsEnds
<1>3. PICK U : FailedSessions(U) /\ (Stopped \/ LetThrough(U))
  BY <1>2
<1>4. /\ UnitJob /\ ses \in Seq(SessionT) /\ handle \in Nat /\ Recording
      /\ handle \in DOMAIN ses /\ (ActiveIn(ses, handle) => handle = job.pred)
  <2>1. UnitJob /\ Types
    BY <1>2 DEF JInv, JobOK
  <2> QED
    BY <2>1, NamesAreNumbers DEF UnitJob, Types
<1>5. ses' \in Seq(SessionT) /\ Terminated(ses, ses', U)
  BY <1>3 DEF FailedSessions
<1>6. CASE Stopped
  <2>1. {handle} \in SUBSET Nat
    BY <1>4
  <2>2. ~Recording' /\ (job' # None => job'.step # "continue")
    BY <2>1, <1>6, SweepJobTyped DEF Stopped, Recording
  <2>3. StaysAtTip
    BY <2>2, <1>1 DEF StaysAtTip
  <2> QED
    BY <2>2, <2>3, <1>5, EndsChain
<1>7. CASE LetThrough(U)
  <2>1. job' = None
    BY <1>7 DEF LetThrough
  <2>2. Tip = job.pred /\ Tip' = handle
    BY <2>1, <1>1, <1>2 DEF Tip, Rolling
  <2>3. ActiveIn(ses', handle) => ActiveIn(ses, handle)
    BY <1>4, <1>5, TerminatedFacts
  <2>4. StaysAtTip
    BY <2>2, <2>3, <1>1, <1>4 DEF StaysAtTip, TipActive
  <2> QED
    BY <2>1, <2>4, <1>4, <1>5, EndsChain
<1> QED
  BY <1>3, <1>6, <1>7

(* The first session of a run: linked from none, and no other is linked.   *)
LEMMA CreateFirstChain ==
    ASSUME JInv, ChainInv, CreateFirst
    PROVE  ChainInv' /\ Moves
<1>1. /\ ses \in Seq(SessionT) /\ ChainIn(ses) /\ SessionsIn(ses) /\ job' = None
      /\ ses' = Append(ses, NewSession(None)) /\ handle' = Len(ses) + 1
  BY ChainTypes DEF CreateFirst
<1>2. None \in NameT
  BY DEF NameT
<1>3. ses' \in Seq(SessionT) /\ Created(ses, ses', None)
  BY <1>1, <1>2, Extended
<1>4. /\ ChainIn(ses')
      /\ \A x \in DOMAIN ses : Orphan(ses', x) <=> Orphan(ses, x)
      /\ \A x \in DOMAIN ses' : ses'[x].succ # None => x \in DOMAIN ses /\ ses'[x].succ \in DOMAIN ses
  BY <1>1, <1>2, <1>3, CreatedChain
<1> DEFINE g == Len(ses) + 1
<1>5. /\ DOMAIN ses' = DOMAIN ses \union {g} /\ DOMAIN ses = 1..Len(ses) /\ Len(ses) \in Nat
      /\ ses'[g].pred = None /\ Len(ses'[g].log) = 0
      /\ \A s \in DOMAIN ses : ses'[s] = ses[s]
  <2>1. ses'[g].pred = None /\ Len(ses'[g].log) = 0
    BY <1>1, <1>3, CreatedBare
  <2> QED
    BY <2>1, <1>1, <1>3 DEF Created
<1>6. Follows(ses, ses')
  BY <1>1, <1>2, <1>3, CreatedFollows
<1> HIDE DEF g
<1>7. Tip' = g /\ handle' = g /\ g = Len(ses) + 1
  BY <1>1 DEF Tip, Rolling, g
<1>8. ~Orphan(ses', g)
  BY <1>5 DEF Orphan
<1>9. TipIn(ses', g)
  <2>1. \A x \in DOMAIN ses' : ~(x > g)
    BY <1>5, <1>7
  <2>2. \A x \in DOMAIN ses' : ses'[x].succ # None => ses'[x].succ <= g
    BY <1>4, <1>5, <1>7
  <2> QED
    BY <2>1, <2>2, <1>8 DEF TipIn
<1>10. TipFirm' /\ HandleFirm' /\ SuccessorCarries'
  <2>1. g <= g
    BY <1>5, <1>7
  <2> QED
    BY <2>1, <1>1, <1>7, <1>8, <1>9 DEF TipFirm, HandleFirm, SuccessorCarries
<1>11. LinksAtTip
  BY <1>4 DEF LinksAtTip
<1>12. UartAtTip
  <2>1. SUFFICES ASSUME NEW s \in DOMAIN ses', NEW n \in 1..Len(ses'[s].log)
                 PROVE  s \in DOMAIN ses /\ n <= Len(ses[s].log)
    BY DEF UartAtTip
  <2>2. s # g
    BY <2>1, <1>5
  <2> QED
    BY <2>2, <1>5
<1> QED
  BY <1>3, <1>4, <1>6, <1>10, <1>11, <1>12 DEF ChainInv, Moves

(* The successor of a rollover is an orphan until it is linked.            *)
LEMMA RolloverCreateChain ==
    ASSUME JInv, ChainInv, RolloverCreate
    PROVE  ChainInv' /\ Moves
<1>1. /\ Types /\ JobOK /\ job # None /\ job.step = "create" /\ ses \in Seq(SessionT)
      /\ job \in Jobs /\ ses' = Append(ses, NewSession(job.pred))
      /\ job' = [job EXCEPT !.step = "announce", !.succ = Len(ses) + 1]
      /\ handle' = handle /\ phase' = phase /\ ChainIn(ses) /\ SessionsIn(ses)
  BY ChainTypes DEF Types, RolloverCreate
<1>2. /\ Rolling /\ UnitJob /\ job.pred \in DOMAIN ses /\ Recording /\ job.pred \in NameT
      /\ ActiveIn(ses, job.pred) /\ job.pred \in Nat /\ job.pred # None
  BY <1>1, NamesAreNumbers DEF JobOK, StartupJob, Rolling, UnitJob, NameT
<1>3. job'.step = "announce" /\ job'.unit = job.unit /\ job'.pred = job.pred /\ job' \in Jobs
  <2>1. Len(ses) + 1 \in Nat
    BY <1>1, NamesAreNumbers
  <2> QED
    BY <2>1, <1>1 DEF Jobs
<1>4. job' # None
  BY <1>3, JobFields
<1>5. ses' \in Seq(SessionT) /\ Created(ses, ses', job.pred)
  BY <1>1, <1>2, Extended
<1>6. /\ ChainIn(ses')
      /\ \A x \in DOMAIN ses : Orphan(ses', x) <=> Orphan(ses, x)
      /\ \A x \in DOMAIN ses' : ses'[x].succ # None => x \in DOMAIN ses /\ ses'[x].succ \in DOMAIN ses
  BY <1>1, <1>2, <1>5, CreatedChain
<1> DEFINE g == Len(ses) + 1
<1>7. /\ DOMAIN ses' = DOMAIN ses \union {g} /\ DOMAIN ses = 1..Len(ses) /\ Len(ses) \in Nat
      /\ ses'[g].pred = job.pred /\ Len(ses'[g].log) = 0 /\ g # None
      /\ \A s \in DOMAIN ses : ses'[s] = ses[s]
  <2>1. ses'[g].pred = job.pred /\ Len(ses'[g].log) = 0
    BY <1>1, <1>5, CreatedBare
  <2>2. g # None
    BY <1>1, NoneAssumption
  <2> QED
    BY <2>1, <2>2, <1>1, <1>5 DEF Created
<1>8. Follows(ses, ses')
  BY <1>1, <1>2, <1>5, CreatedFollows
<1> HIDE DEF g
<1>9. Rolling' /\ Tip = job.pred /\ Tip' = job.pred /\ TipActive
  BY <1>2, <1>3, <1>4 DEF Rolling, Tip, TipActive
<1>10. handle <= job.pred /\ TipIn(ses, job.pred)
  BY <1>2, <1>9 DEF ChainInv, TipFirm, TipActive
<1>11. Orphan(ses', g)
  <2>1. ses[job.pred].succ = None
    BY <1>1, <1>2 DEF SessionsIn, ActiveIn
  <2> QED
    BY <2>1, <1>2, <1>7 DEF Orphan
<1>12. TipIn(ses', job.pred)
  <2>1. ~Orphan(ses', job.pred)
    BY <1>2, <1>6, <1>10 DEF TipIn
  <2>2. \A x \in DOMAIN ses' : x > job.pred => Orphan(ses', x)
    BY <1>6, <1>7, <1>10, <1>11 DEF TipIn
  <2>3. \A x \in DOMAIN ses' : ses'[x].succ # None => ses'[x].succ <= job.pred
    BY <1>6, <1>7, <1>10 DEF TipIn
  <2> QED
    BY <2>1, <2>2, <2>3 DEF TipIn
<1>13. TipFirm' /\ SuccessorCarries'
  BY <1>1, <1>3, <1>9, <1>10, <1>12 DEF TipFirm, SuccessorCarries
<1>14. HandleFirm'
  <2>1. handle \in DOMAIN ses /\ ~Orphan(ses, handle)
    BY <1>2, TipExists DEF ChainInv, HandleFirm
  <2> QED
    BY <2>1, <1>1, <1>6 DEF HandleFirm
<1>15. LinksAtTip
  BY <1>6 DEF LinksAtTip
<1>16. UartAtTip
  <2>1. SUFFICES ASSUME NEW s \in DOMAIN ses', NEW n \in 1..Len(ses'[s].log)
                 PROVE  s \in DOMAIN ses /\ n <= Len(ses[s].log)
    BY DEF UartAtTip
  <2>2. s # g
    BY <2>1, <1>7
  <2> QED
    BY <2>2, <1>7
<1>17. StaysAtTip /\ (Recording' => Recording)
  BY <1>1, <1>2, <1>9 DEF StaysAtTip
<1> QED
  BY <1>5, <1>6, <1>8, <1>13, <1>14, <1>15, <1>16, <1>17 DEF ChainInv, Moves

(* Steps that add one record, at the tip if it is a UART record.           *)
LEMMA GrownStepChain ==
    ASSUME JInv, ChainInv, NEW g, NEW e, ses' \in Seq(SessionT), GrownBy(ses, ses', g, e),
           ActiveIn(ses, g), BehindIn(ses', g), e.t = "uart_rx" => TipActive /\ g = Tip,
           StaysAtTip, SuccessorCarries', Recording' => Recording
    PROVE  ChainInv' /\ Moves
<1>1. ses \in Seq(SessionT) /\ ChainIn(ses) /\ SessionsIn(ses)
  BY ChainTypes
<1>2. e.t = "uart_rx" => ~Orphan(ses, g)
  BY DEF ChainInv, TipFirm, TipActive, TipIn
<1>3. ChainIn(ses') /\ LinksKept(ses, ses')
  BY <1>1, <1>2, GrownChain
<1>4. Follows(ses, ses')
  BY <1>1, GrownFollows
<1>5. UartAtTip
  <2>1. SUFFICES ASSUME NEW s \in DOMAIN ses', NEW n \in 1..Len(ses'[s].log)
                 PROVE  \/ s \in DOMAIN ses /\ n <= Len(ses[s].log)
                        \/ ses'[s].log[n].t # "uart_rx"
                        \/ s = Tip /\ TipActive
    BY DEF UartAtTip
  <2>2. s \in DOMAIN ses /\ n \in DOMAIN ses'[s].log
    BY <1>1, <1>3, LogTyped DEF LinksKept
  <2>3. (n \in DOMAIN ses[s].log /\ ses'[s].log[n] = ses[s].log[n])
        \/ (s = g /\ ses'[s].log[n] = e)
    BY <1>1, <2>2, GrownFacts
  <2>4. DOMAIN ses[s].log = 1..Len(ses[s].log) /\ Len(ses[s].log) \in Nat
    BY <1>1, <2>2, LogTyped
  <2> QED
    BY <2>2, <2>3, <2>4
<1> QED
  BY <1>3, <1>4, <1>5, LinksStay

(* The rollover's own records.                                             *)
LEMMA SuccessorStepsChain ==
    ASSUME JInv, ChainInv, RolloverAnnounce \/ RolloverContinue
    PROVE  ChainInv' /\ Moves
<1>1. /\ job # None /\ job.step \in {"announce", "continue"} /\ handle' = handle /\ phase' = phase
      /\ Types /\ job \in Jobs /\ ChainIn(ses) /\ RangesIn(ses, FrozenNow)
  BY DEF RolloverAnnounce, RolloverContinue, JInv, Types, ChainInv
<1>2. /\ Rolling /\ ses \in Seq(SessionT) /\ job.pred \in DOMAIN ses /\ job.succ \in DOMAIN ses
      /\ ActiveIn(ses, job.pred) /\ ActiveIn(ses, job.succ) /\ Recording
      /\ job.succ # job.pred /\ ses[job.succ].pred = job.pred /\ handle = job.pred
      /\ job.pred \in Nat /\ job.succ \in Nat
  BY <1>1, RolloverFacts
<1>3. job.pred < job.succ
  BY <1>1, <1>2, NoneAssumption DEF ChainIn, PredsIn
<1>4. BehindIn(ses, job.pred) /\ BehindIn(ses, job.succ)
  BY <1>1, <1>2 DEF ChainIn
<1>5. /\ job' # None /\ job'.step = "continue" /\ job'.unit = job.unit /\ job'.pred = job.pred
      /\ job'.succ = job.succ
  <2>1. CASE RolloverAnnounce
    <3>1. job' = [job EXCEPT !.step = "continue"]
      BY <2>1 DEF RolloverAnnounce
    <3>2. job' \in Jobs
      BY <3>1, <1>1 DEF Jobs
    <3> QED
      BY <3>1, <3>2, <1>1, JobFields DEF Jobs
  <2>2. CASE RolloverContinue
    BY <2>2 DEF RolloverContinue
  <2> QED
    BY <2>1, <2>2
<1>6. Tip = job.pred /\ Tip' = job.pred /\ Rolling'
  BY <1>2, <1>5 DEF Tip, Rolling
<1>7. StaysAtTip /\ (Recording' => Recording)
  BY <1>1, <1>2, <1>6 DEF StaysAtTip, TipActive
<1>8. CASE RolloverAnnounce
  <2>1. PICK e : Announces(e)
    BY <1>8, AnnouncedStep
  <2>2. /\ ses' \in Seq(SessionT) /\ GrownBy(ses, ses', job.succ, e)
        /\ e.t = "rollover_succeeded" /\ ses'[job.succ].ops = ses[job.succ].ops
    BY <2>1 DEF Announces
  <2>3. BehindIn(ses', job.succ)
    BY <2>2, <1>4 DEF BehindIn
  <2>4. SuccessorCarries'
    <3>1. job.step = "announce"
      BY <1>8 DEF RolloverAnnounce
    <3>2. ses[job.succ].ops = Empty
      BY <3>1, <1>2 DEF JInv, JobOK, AnnounceJob
    <3>3. DOMAIN ses'[job.succ].ops = {}
      BY <3>2, <2>2, EmptyMaps
    <3> QED
      BY <3>3, <1>5 DEF SuccessorCarries
  <2> QED
    BY <2>2, <2>3, <2>4, <1>2, <1>7, GrownStepChain
<1>9. CASE RolloverContinue
  <2>1. PICK op, e : Continues(op, e)
    BY <1>9, ContinuedStep
  <2>2. /\ ses' \in Seq(SessionT) /\ GrownBy(ses, ses', job.succ, e)
        /\ e.t = "operation_continued" /\ op \in DOMAIN ses[job.pred].ops
        /\ DOMAIN ses'[job.succ].ops = DOMAIN ses[job.succ].ops \union {op}
        /\ \A o \in DOMAIN ses[job.succ].ops : ses'[job.succ].ops[o] = ses[job.succ].ops[o]
        /\ RangeSessions(ses'[job.succ].ops[op])
             = RangeSessions(ses[job.pred].ops[op]) \union {job.succ}
    BY <2>1 DEF Continues
  <2>3. ses'[job.pred] = ses[job.pred]
    BY <2>2, <1>2 DEF GrownBy
  <2>4. BehindIn(ses', job.succ)
    <3>1. RangeSessions(ses[job.pred].ops[op]) \subseteq Nat
      BY <2>2, <1>1, <1>2, RangesExist, NamesAreNumbers
    <3>2. \A x \in RangeSessions(ses[job.pred].ops[op]) : x <= job.pred
      BY <2>2, <1>4 DEF BehindIn
    <3>3. \A x \in RangeSessions(ses'[job.succ].ops[op]) : x <= job.succ
      BY <3>1, <3>2, <2>2, <1>2, <1>3
    <3>4. \A o \in DOMAIN ses[job.succ].ops : \A x \in RangeSessions(ses'[job.succ].ops[o]) : x <= job.succ
      BY <2>2, <1>4 DEF BehindIn
    <3> QED
      BY <3>3, <3>4, <2>2 DEF BehindIn
  <2>5. SuccessorCarries'
    <3>1. job' = job /\ job.step = "continue"
      BY <1>9 DEF RolloverContinue
    <3>2. \A o \in DOMAIN ses[job.succ].ops :
             RangeSessions(ses[job.succ].ops[o]) = RangeSessions(ses[job.pred].ops[o]) \union {job.succ}
      BY <3>1, <1>1 DEF ChainInv, SuccessorCarries
    <3>3. \A o \in DOMAIN ses'[job.succ].ops :
             RangeSessions(ses'[job.succ].ops[o]) = RangeSessions(ses'[job.pred].ops[o]) \union {job.succ}
      BY <3>2, <2>2, <2>3
    <3> QED
      BY <3>1, <3>3 DEF SuccessorCarries
  <2>6. e.t # "uart_rx"
    BY <2>2
  <2> QED
    BY <2>2, <2>4, <2>5, <2>6, <1>2, <1>7, GrownStepChain
<1> QED
  BY <1>8, <1>9

(* A unit enters the recorder's session.                                   *)
LEMMA AppendUnitChain ==
    ASSUME JInv, ChainInv, AppendUnit
    PROVE  ChainInv' /\ Moves
<1> DEFINE s == job.pred
<1>1. /\ Types /\ JobOK /\ job # None /\ job.step = "append" /\ ChainIn(ses)
      /\ handle' = s /\ phase' = phase /\ ses \in Seq(SessionT)
      /\ job' = None \/ job' = SweepJob({s})
  BY DEF JInv, Types, AppendUnit, ChainInv
<1>2. /\ Rolling /\ UnitJob
  BY <1>1 DEF JobOK, StartupJob, Rolling
<1>3. Recording /\ s \in DOMAIN ses /\ ActiveIn(ses, s) /\ s \in Nat
  BY <1>1, <1>2, NamesAreNumbers DEF UnitJob
<1>4. ~Rolling' /\ (job' # None => job'.step # "continue")
  <2>1. {s} \in SUBSET Nat
    BY <1>3
  <2> QED
    BY <2>1, <1>1, SweepJobTyped DEF Rolling
<1>5. Tip = s /\ Tip' = s /\ TipActive
  BY <1>1, <1>2, <1>3, <1>4 DEF Tip, TipActive
<1>6. StaysAtTip /\ (Recording' => Recording)
  BY <1>1, <1>3, <1>5 DEF StaysAtTip
<1>7. PICK e : Admits(e)
  BY AdmittedStep
<1>8. ses' \in Seq(SessionT) /\ GrownBy(ses, ses', s, e) /\ MovesOps(ses[s], s, ses'[s], e)
  BY <1>7 DEF Admits
<1>9. BehindIn(ses', s)
  <2>1. SUFFICES ASSUME NEW op \in DOMAIN ses'[s].ops, NEW x \in RangeSessions(ses'[s].ops[op])
                 PROVE  x <= s
    BY DEF BehindIn
  <2>2. CASE op \in DOMAIN ses[s].ops /\ ses'[s].ops[op] = ses[s].ops[op]
    BY <2>1, <2>2, <1>1, <1>3 DEF ChainIn, BehindIn
  <2>3. CASE ses'[s].ops[op] = <<[s |-> s, from |-> Len(ses[s].log), to |-> None]>>
    <3>1. RangeSessions(ses'[s].ops[op]) = {s}
      BY <2>3 DEF RangeSessions
    <3> QED
      BY <3>1, <2>1, <1>3
  <2> QED
    BY <2>2, <2>3, <1>8 DEF MovesOps
<1>10. SuccessorCarries'
  BY <1>4 DEF SuccessorCarries
<1> QED
  BY <1>3, <1>5, <1>6, <1>8, <1>9, <1>10, GrownStepChain

(* The link makes the successor the session the recorder appends to.       *)
LEMMA RolloverLinkChain ==
    ASSUME JInv, ChainInv, RolloverLink
    PROVE  ChainInv' /\ Moves
<1>1. /\ job # None /\ job.step = "continue" /\ phase' = phase /\ JobOK
      /\ Types /\ job \in Jobs /\ handle' = handle /\ ChainIn(ses) /\ SessionsIn(ses)
      /\ job' = Job("sweep", job.unit, job.succ, job.succ, {job.succ})
  BY DEF RolloverLink, JInv, Types, ChainInv
<1>2. /\ Rolling /\ ses \in Seq(SessionT) /\ job.pred \in DOMAIN ses /\ job.succ \in DOMAIN ses
      /\ ActiveIn(ses, job.pred) /\ Recording /\ job.succ # job.pred /\ job.succ \in Nat
      /\ job.pred \in Nat /\ ses[job.succ].pred = job.pred /\ handle = job.pred
  BY <1>1, RolloverFacts
<1>3. ses' \in Seq(SessionT) /\ LinkedTo(ses, ses', job.pred, job.succ)
  BY LinkedStep
<1>4. Tip = job.pred /\ TipActive /\ TipIn(ses, job.pred)
  BY <1>2 DEF Tip, TipActive, ChainInv, TipFirm
<1>5. Len(ses[job.succ].log) > 0
  <2>1. ContinueJob
    BY <1>1, <1>2 DEF JobOK
  <2>2. Len(ses[job.succ].log) = 1 + Cardinality(DOMAIN ses[job.succ].ops)
    BY <2>1, <1>1 DEF ContinueJob
  <2>3. Cardinality(DOMAIN ses[job.succ].ops) \in Nat
    <3>1. IsFiniteSet(DOMAIN ses[job.succ].ops)
      BY <1>2, BudgetAssumption, LogTyped, SessionFields, OpsElim, FS_Subset
    <3> QED
      BY <3>1, FS_CardinalityType
  <2> QED
    BY <2>2, <2>3
<1>6. /\ ChainIn(ses') /\ TipIn(ses', job.succ) /\ job.pred < job.succ
      /\ \A x \in DOMAIN ses : Orphan(ses', x) <=> Orphan(ses, x) /\ x # job.succ
  BY <1>1, <1>2, <1>3, <1>4, <1>5, LinkedChain
<1>7. /\ job' # None /\ job'.step = "sweep" /\ job'.unit = job.unit /\ job'.pred = job.succ
  <2>1. /\ "sweep" \in Steps /\ job.unit \in Units \union {None}
        /\ job.succ \in Nat \union {None} /\ {job.succ} \in SUBSET Nat
    BY <1>1, <1>2, JobFields DEF Steps
  <2> QED
    BY <2>1, <1>1, JobTyped
<1>8. Tip' = job.succ
  BY <1>2, <1>7 DEF Rolling, Tip
<1>9. TipFirm'
  <2>1. handle' <= job.succ
    BY <1>1, <1>2, <1>6
  <2> QED
    BY <2>1, <1>6, <1>8 DEF TipFirm
<1>10. HandleFirm' /\ SuccessorCarries'
  <2>1. ~Orphan(ses', handle)
    BY <1>2, <1>4, <1>6 DEF TipIn
  <2> QED
    BY <2>1, <1>1, <1>7 DEF HandleFirm, SuccessorCarries
<1>11. Follows(ses, ses')
  BY <1>1, <1>2, <1>3, LinkedFollows
<1>12. LinksAtTip
  BY <1>4, <1>6 DEF LinksAtTip
<1>13. UartAtTip
  <2>1. DOMAIN ses' = DOMAIN ses /\ \A x \in DOMAIN ses : ses'[x].log = ses[x].log
    BY <1>3 DEF LinkedTo
  <2> QED
    BY <2>1, <1>2, Numbered DEF UartAtTip
<1> QED
  BY <1>2, <1>3, <1>6, <1>9, <1>10, <1>11, <1>12, <1>13 DEF ChainInv, Moves

(* A pass makes no session whole.                                          *)
LEMMA PassDamages ==
    ASSUME JInv, Sweep \/ SweepFails
    PROVE  \A s \in DOMAIN ses : ses[s].disk # "whole" => ses'[s].disk # "whole"
<1>1. ses \in Seq(SessionT)
  BY ChainTypes DEF JInv, Types
<1>2. CASE Sweep /\ RetentionFault
  BY <1>2 DEF Sweep
<1>3. CASE Sweep /\ ~RetentionFault
  <2> DEFINE D == Doomed(job.held)
  <2>1. ses' = [s \in DOMAIN ses |-> IF s \in D THEN Gone(ses[s]) ELSE ses[s]]
    BY <1>3 DEF Sweep
  <2> HIDE DEF D
  <2>2. \A s \in DOMAIN ses : Gone(ses[s]).disk = "gone"
    BY <1>1, LogTyped, GoneEffect
  <2> QED
    BY <2>1, <2>2
<1>4. CASE SweepFails
  BY <1>4, CutShortDeletes DEF JInv
<1> QED
  BY <1>2, <1>3, <1>4

LEMMA SweepChain ==
    ASSUME JInv, ChainInv, Sweep \/ SweepFails
    PROVE  ChainInv' /\ Moves
<1>1. /\ job # None /\ job.step = "sweep" /\ phase' = phase
      /\ Types /\ job \in Jobs /\ handle' = HandleAfterSweep /\ job' = AfterSweep
      /\ SessionsIn(ses) /\ JobOK /\ ses \in Seq(SessionT) /\ ChainIn(ses)
  BY DEF Sweep, SweepFails, JInv, Types, ChainInv
<1> DEFINE D == Doomed(job.held)
<1>2. ses' \in Seq(SessionT) /\ Deleted(ses, ses', D)
  BY PassDeletes
<1> HIDE DEF D
<1>3. ChainIn(ses') /\ LinksKept(ses, ses')
  BY <1>1, <1>2, DeletedChain
<1>4. Follows(ses, ses')
  BY <1>1, <1>2, PassDamages, DeletedFollows
<1>5. \A s \in DOMAIN ses : ActiveIn(ses', s) <=> ActiveIn(ses, s)
  BY <1>2, DeletedFacts
<1>6. UartAtTip
  <2>1. DOMAIN ses' = DOMAIN ses /\ \A x \in DOMAIN ses : ses'[x].log = ses[x].log
    BY <1>2 DEF Deleted
  <2> QED
    BY <2>1, <1>1, Numbered DEF UartAtTip
<1>7. Rolling => UnitJob /\ job.succ = job.pred
  BY <1>1 DEF JobOK, FollowUpJob
<1>8. job' # None =>
        /\ Rolling /\ job' \in Jobs /\ job'.step = "append" /\ job'.unit = job.unit
        /\ job'.pred = job.pred
  <2>1. SUFFICES ASSUME job' = [job EXCEPT !.step = "append", !.held = {}]
                 PROVE  /\ job' \in Jobs /\ job'.step = "append" /\ job'.unit = job.unit
                        /\ job'.pred = job.pred
    BY <1>1 DEF AfterSweep, Rolling
  <2> QED
    BY <2>1, <1>1 DEF Jobs
<1>9. SuccessorCarries'
  BY <1>8 DEF SuccessorCarries
<1>10. Recording' <=> Recording
  BY <1>1 DEF Recording
<1>11. CASE job' = None
  <2>1. Tip' = handle' /\ ~Rolling'
    BY <1>11 DEF Tip, Rolling
  <2>2. CASE Rolling
    <3>1. job.unit.t = "reopened"
      <4>1. ASSUME job.unit.t # "reopened" PROVE FALSE
        <5>1. job' = [job EXCEPT !.step = "append", !.held = {}]
          BY <2>2, <4>1, <1>1 DEF AfterSweep, Rolling
        <5>2. job' \in Jobs
          BY <5>1, <1>1 DEF Jobs
        <5> QED
          BY <5>2, <1>11, JobFields
      <4> QED
        BY <4>1
    <3>2. handle' = job.succ
      BY <3>1, <2>2, <1>1 DEF HandleAfterSweep, Rolling
    <3>3. /\ Tip = job.pred /\ handle' = Tip /\ Tip' = Tip /\ TipActive
      BY <3>2, <2>1, <2>2, <1>7 DEF Tip, TipActive, UnitJob
    <3> QED
      BY <3>3, <1>2, <1>3, <1>4, <1>6, <1>9, <1>10, LinksStay DEF StaysAtTip
  <2>3. CASE ~Rolling
    <3>1. handle' = handle /\ Tip = handle
      BY <2>3, <1>1 DEF HandleAfterSweep, Rolling, Tip
    <3> DEFINE h == handle
    <3>2. handle' = h /\ Tip = h /\ Tip' = h
      BY <3>1, <2>1
    <3>3. Recording => h \in DOMAIN ses
      BY <1>1 DEF JobOK, Recording
    <3> HIDE DEF h
    <3>4. Recording /\ ActiveIn(ses', h) => TipActive
      BY <3>2, <3>3, <1>5 DEF TipActive
    <3>5. StaysAtTip
      BY <3>1, <3>2, <3>4, <1>10 DEF StaysAtTip
    <3> QED
      BY <3>5, <1>2, <1>3, <1>4, <1>6, <1>9, <1>10, LinksStay
  <2> QED
    BY <2>2, <2>3
<1>12. CASE job' # None
  <2>1. /\ Rolling /\ Rolling' /\ Tip' = job.pred /\ Tip = job.pred /\ TipActive
    BY <1>7, <1>8, <1>12 DEF Rolling, Tip, TipActive, UnitJob
  <2>2. handle' = handle
    <3>1. ASSUME job.unit.t = "reopened" PROVE FALSE
      BY <3>1, <2>1, <1>1, <1>12 DEF AfterSweep, Rolling
    <3> QED
      BY <3>1, <1>1 DEF HandleAfterSweep
  <2>3. StaysAtTip
    BY <2>1, <2>2 DEF StaysAtTip
  <2> QED
    BY <2>3, <1>2, <1>3, <1>4, <1>6, <1>9, <1>10, LinksStay
<1> QED
  BY <1>11, <1>12

LEMMA InitChain ==
    ASSUME Init
    PROVE  ChainInv
<1>1. ses = <<>> /\ phase = "boot" /\ job.step = "recover" /\ handle = None
  BY RecoverJobTyped DEF Init
<1> QED
  BY <1>1 DEF ChainInv, ChainIn, PredsIn, LinksIn, QuietIn, TipFirm, HandleFirm,
              SuccessorCarries, Recording

(* Every step of the journal keeps the chain, and moves it only at the     *)
(* session the recorder appends to.                                        *)
LEMMA StepChain ==
    ASSUME JInv, ChainInv, [JournalNext]_vars
    PROVE  ChainInv' /\ Moves
<1>1. CASE RecoverSession \/ CreateFirst \/ AppendUnit \/ AppendFails \/ FailSession \/ Shutdown
           \/ Offer
  BY <1>1, RecoverSessionChain, CreateFirstChain, AppendUnitChain, WriteFailsChain, EndHandleChain,
     OfferChain
<1>2. CASE RolloverCreate \/ RolloverAnnounce \/ RolloverContinue \/ RolloverLink \/ RolloverFails
  BY <1>2, RolloverCreateChain, SuccessorStepsChain, RolloverLinkChain, WriteFailsChain
<1>3. CASE Sweep \/ SweepFails \/ CloseReader \/ MarkBaseline \/ ClearBaseline \/ Restart
  BY <1>3, SweepChain, QuietStepsChain
<1>4. CASE RecoveryDone \/ RecoveryFails \/ FindEnded \/ InputError
  BY <1>4, QuietStepsChain
<1>5. CASE UNCHANGED vars
  <2>1. ses' = ses /\ job' = job /\ handle' = handle /\ phase' = phase
    BY <1>5 DEF vars
  <2>2. Tip' = Tip /\ (Recording' <=> Recording)
    BY <2>1 DEF Tip, Rolling, Recording
  <2>3. StaysAtTip
    BY <2>1, <2>2 DEF StaysAtTip, TipActive
  <2> QED
    BY <2>1, <2>2, <2>3, QuietChain
<1> QED
  BY <1>1, <1>2, <1>3, <1>4, <1>5 DEF JournalNext

-----------------------------------------------------------------------------
(***************************************************************************)
(* The tail reader.                                                        *)
(***************************************************************************)
CursorT == [s : Nat, n : Nat]
PlaceOf(x) == Cursor(x[1], x[2])
After(x) == Cursor(x[1], x[2] + 1)
CursorIn(J, c) == c \in CursorT /\ c.s \in DOMAIN J /\ c.n <= Len(J[c.s].log)

\* The same place, or the start of the successor from the end of a session.
Onward(J, c, d) == d = c \/ (c.n = Len(J[c.s].log) /\ J[c.s].succ = d.s /\ d.n = 0)

\* Records of the journal, each following the one before it.
Unbroken(J, q) ==
    /\ q \in Seq(Nat \X Nat)
    /\ \A i \in 1..Len(q) : q[i][1] \in DOMAIN J /\ q[i][2] < Len(J[q[i][1]].log)
    /\ \A i \in 2..Len(q) : Onward(J, After(q[i - 1]), PlaceOf(q[i]))

TailT == [st : {"off", "idle", "between", "snap", "expired"}, pos : CursorT \union {None},
          at : CursorT \union {None}, cand : Seq(Nat \X Nat), tail : NameT,
          len : Nat, succ : NameT, ended : BOOLEAN]

\* The place after what has been handed over and read.
LastRead(t) == IF t.cand = <<>> THEN t.pos ELSE After(t.cand[Len(t.cand)])

(* A page being read: what was read follows what was handed over, and the  *)
(* next session is read from where that ended.                             *)
PageIn(J, t) ==
    /\ CursorIn(J, t.at) /\ t.pos.s <= t.at.s
    /\ Unbroken(J, t.cand) /\ Len(t.cand) < PageLimit
    /\ t.cand # <<>> => Onward(J, t.pos, PlaceOf(t.cand[1]))
    /\ Onward(J, LastRead(t), t.at)

(* A snapshot is a prefix of its session, and all of it when the session   *)
(* had ended; a successor is never entered before it has a record.         *)
SnapshotIn(J, t) ==
    /\ t.at.n <= t.len /\ t.len <= Len(J[t.at.s].log)
    /\ t.at # LastRead(t) => t.len > 0
    /\ t.succ # None => J[t.at.s].succ = t.succ /\ t.len = Len(J[t.at.s].log)
    /\ t.ended => /\ ~ActiveIn(J, t.at.s) /\ t.len = Len(J[t.at.s].log)
                  /\ J[t.at.s].succ = t.succ

ExpiredIn(J, t) ==
    \/ \E s \in DOMAIN J : t.pos.s <= s /\ J[s].disk # "whole"
    \/ ~ActiveIn(J, t.pos.s) /\ J[t.pos.s].succ = None /\ t.pos.n = Len(J[t.pos.s].log)

TailIn(J, t, g) ==
    /\ t \in TailT /\ Unbroken(J, g)
    /\ t.st = "off" => g = <<>>
    /\ t.st # "off" => CursorIn(J, t.pos) /\ (g # <<>> => t.pos = After(g[Len(g)]))
    /\ t.st \in {"between", "snap"} => PageIn(J, t)
    /\ t.st = "snap" => SnapshotIn(J, t)
    /\ t.st = "expired" => ExpiredIn(J, t)
TailInv == TailIn(ses, tc, got)

LEMMA CursorFields ==
    ASSUME NEW s, NEW n
    PROVE  Cursor(s, n).s = s /\ Cursor(s, n).n = n /\ (s \in Nat /\ n \in Nat => Cursor(s, n) \in CursorT)
  BY DEF Cursor, CursorT

(* None of it depends on what the recorder does meanwhile.                 *)
LEMMA OnwardStays ==
    ASSUME NEW J \in Seq(SessionT), NEW K \in Seq(SessionT), SessionsIn(J), Follows(J, K),
           NEW c, NEW d, Onward(J, c, d), c.s \in DOMAIN J, d.s # None
    PROVE  Onward(K, c, d)
<1>1. CASE d = c
  BY <1>1 DEF Onward
<1>2. CASE c.n = Len(J[c.s].log) /\ J[c.s].succ = d.s /\ d.n = 0
  <2>1. J[c.s].state = "completed"
    BY <1>2 DEF SessionsIn
  <2>2. K[c.s].log = J[c.s].log /\ K[c.s].succ = J[c.s].succ
    BY <2>1 DEF Follows, FollowsAt, ActiveIn
  <2> QED
    BY <1>2, <2>2 DEF Onward
<1> QED
  BY <1>1, <1>2 DEF Onward

LEMMA UnbrokenPlaces ==
    ASSUME NEW J \in Seq(SessionT), NEW q, Unbroken(J, q), NEW i \in 1..Len(q)
    PROVE  /\ q[i] \in Nat \X Nat /\ q[i][1] \in DOMAIN J /\ q[i][1] # None
           /\ q[i][1] \in Nat /\ q[i][2] \in Nat /\ q[i][2] < Len(J[q[i][1]].log)
           /\ PlaceOf(q[i]).s = q[i][1] /\ PlaceOf(q[i]).n = q[i][2]
           /\ After(q[i]).s = q[i][1] /\ After(q[i]).n = q[i][2] + 1
           /\ CursorIn(J, After(q[i]))
<1>1. q[i] \in Nat \X Nat /\ q[i][1] \in DOMAIN J /\ q[i][2] < Len(J[q[i][1]].log)
  BY DEF Unbroken
<1>2. Len(J[q[i][1]].log) \in Nat /\ q[i][1] # None
  BY <1>1, Numbered
<1>3. q[i][1] \in Nat /\ q[i][2] \in Nat
  BY <1>1
<1>4. /\ PlaceOf(q[i]).s = q[i][1] /\ PlaceOf(q[i]).n = q[i][2]
      /\ After(q[i]).s = q[i][1] /\ After(q[i]).n = q[i][2] + 1 /\ After(q[i]) \in CursorT
  BY <1>3, CursorFields DEF PlaceOf, After
<1> QED
  BY <1>1, <1>2, <1>3, <1>4 DEF CursorIn

LEMMA UnbrokenStays ==
    ASSUME NEW J \in Seq(SessionT), NEW K \in Seq(SessionT), SessionsIn(J), Follows(J, K),
           NEW q, Unbroken(J, q)
    PROVE  Unbroken(K, q)
<1>1. q \in Seq(Nat \X Nat) /\ Len(q) \in Nat
  BY DEF Unbroken
<1>2. ASSUME NEW i \in 1..Len(q) PROVE q[i][1] \in DOMAIN K /\ q[i][2] < Len(K[q[i][1]].log)
  <2>1. /\ q[i][1] \in DOMAIN J /\ q[i][2] \in Nat /\ q[i][2] < Len(J[q[i][1]].log)
    BY UnbrokenPlaces
  <2>2. q[i][1] \in DOMAIN K /\ Len(J[q[i][1]].log) <= Len(K[q[i][1]].log)
    BY <2>1 DEF Follows, FollowsAt
  <2>3. Len(J[q[i][1]].log) \in Nat /\ Len(K[q[i][1]].log) \in Nat
    BY <2>1, <2>2, Numbered
  <2> QED
    BY <2>1, <2>2, <2>3
<1>3. ASSUME NEW i \in 2..Len(q) PROVE Onward(K, After(q[i - 1]), PlaceOf(q[i]))
  <2>1. i - 1 \in 1..Len(q) /\ i \in 1..Len(q)
    BY <1>1
  <2>2. /\ After(q[i - 1]).s \in DOMAIN J
        /\ PlaceOf(q[i]).s # None
    BY <2>1, UnbrokenPlaces
  <2>3. Onward(J, After(q[i - 1]), PlaceOf(q[i]))
    BY DEF Unbroken
  <2> QED
    BY <2>2, <2>3, OnwardStays
<1> QED
  BY <1>1, <1>2, <1>3 DEF Unbroken

LEMMA CursorStays ==
    ASSUME NEW J \in Seq(SessionT), NEW K \in Seq(SessionT), Follows(J, K),
           NEW c, CursorIn(J, c)
    PROVE  CursorIn(K, c)
<1>1. c \in CursorT /\ c.s \in DOMAIN J /\ c.n \in Nat /\ c.n <= Len(J[c.s].log)
  BY DEF CursorIn, CursorT
<1>2. c.s \in DOMAIN K /\ Len(J[c.s].log) <= Len(K[c.s].log)
  BY <1>1 DEF Follows, FollowsAt
<1>3. Len(J[c.s].log) \in Nat /\ Len(K[c.s].log) \in Nat
  BY <1>1, <1>2, Numbered
<1> QED
  BY <1>1, <1>2, <1>3 DEF CursorIn

(* Where a page ends up.                                                   *)
LEMMA LastReadPlace ==
    ASSUME NEW J \in Seq(SessionT), NEW t \in TailT, CursorIn(J, t.pos), Unbroken(J, t.cand)
    PROVE  CursorIn(J, LastRead(t)) /\ LastRead(t).s # None
<1>1. CASE t.cand = <<>>
  <2>1. LastRead(t) = t.pos
    BY <1>1 DEF LastRead
  <2>2. t.pos.s # None
    BY Numbered DEF CursorIn
  <2> QED
    BY <2>1, <2>2
<1>2. CASE t.cand # <<>>
  <2>1. Len(t.cand) \in 1..Len(t.cand)
    BY <1>2 DEF Unbroken
  <2>2. LastRead(t) = After(t.cand[Len(t.cand)])
    BY <1>2 DEF LastRead
  <2> QED
    BY <2>1, <2>2, UnbrokenPlaces
<1> QED
  BY <1>1, <1>2

LEMMA TailStays ==
    ASSUME NEW J \in Seq(SessionT), NEW K \in Seq(SessionT), SessionsIn(J), Follows(J, K),
           NEW t, NEW g, TailIn(J, t, g)
    PROVE  TailIn(K, t, g)
<1>1. t \in TailT /\ Unbroken(J, g)
  BY DEF TailIn
<1>2. Unbroken(K, g)
  BY <1>1, UnbrokenStays
<1>3. ASSUME t.st # "off" PROVE CursorIn(J, t.pos) /\ CursorIn(K, t.pos)
  BY <1>3, CursorStays DEF TailIn
<1>4. ASSUME t.st \in {"between", "snap"} PROVE PageIn(J, t) /\ PageIn(K, t)
  <2>1. /\ CursorIn(J, t.at) /\ t.pos.s <= t.at.s /\ Unbroken(J, t.cand)
        /\ Len(t.cand) < PageLimit /\ Onward(J, LastRead(t), t.at)
        /\ t.cand # <<>> => Onward(J, t.pos, PlaceOf(t.cand[1]))
    BY <1>4 DEF TailIn, PageIn
  <2>2. CursorIn(J, t.pos)
    BY <1>3, <1>4
  <2>3. CursorIn(K, t.at) /\ Unbroken(K, t.cand)
    BY <2>1, CursorStays, UnbrokenStays
  <2>4. ASSUME t.cand # <<>> PROVE Onward(K, t.pos, PlaceOf(t.cand[1]))
    <3>1. 1 \in 1..Len(t.cand)
      BY <2>1, <2>4 DEF Unbroken
    <3>2. PlaceOf(t.cand[1]).s # None
      BY <2>1, <3>1, UnbrokenPlaces
    <3>3. Onward(J, t.pos, PlaceOf(t.cand[1])) /\ t.pos.s \in DOMAIN J
      BY <2>1, <2>2, <2>4 DEF CursorIn
    <3> QED
      BY <3>2, <3>3, OnwardStays
  <2>5. Onward(K, LastRead(t), t.at)
    <3>1. LastRead(t).s \in DOMAIN J
      BY <1>1, <2>1, <2>2, LastReadPlace DEF CursorIn
    <3>2. t.at.s # None
      BY <2>1, Numbered DEF CursorIn
    <3> QED
      BY <3>1, <3>2, <2>1, OnwardStays
  <2> QED
    BY <2>1, <2>3, <2>4, <2>5, <1>4 DEF PageIn, TailIn
<1>5. ASSUME t.st = "snap" PROVE SnapshotIn(K, t)
  <2>1. SnapshotIn(J, t) /\ CursorIn(J, t.at) /\ t.len \in Nat
    BY <1>1, <1>4, <1>5 DEF TailIn, PageIn, TailT
  <2>2. t.at.s \in DOMAIN J /\ t.at.s \in DOMAIN K
    BY <2>1 DEF CursorIn, Follows
  <2>3. FollowsAt(J, K, t.at.s)
    BY <2>2 DEF Follows
  <2>4. Len(J[t.at.s].log) \in Nat /\ Len(K[t.at.s].log) \in Nat
    BY <2>2, Numbered
  <2>5. J[t.at.s].succ # None => ~ActiveIn(J, t.at.s)
    BY <2>2 DEF SessionsIn, ActiveIn
  <2>6. /\ t.at.n <= t.len /\ t.len <= Len(J[t.at.s].log)
        /\ t.at # LastRead(t) => t.len > 0
    BY <2>1 DEF SnapshotIn
  <2>7. Len(J[t.at.s].log) <= Len(K[t.at.s].log)
    BY <2>3 DEF FollowsAt
  <2>8. t.len <= Len(K[t.at.s].log)
    <3>1. t.len \in Nat /\ t.len <= Len(J[t.at.s].log)
      BY <2>1, <2>6
    <3>2. \A a, b, c \in Nat : a <= b /\ b <= c => a <= c
      OBVIOUS
    <3> QED
      BY <3>1, <3>2, <2>4, <2>7, Zenon
  <2>9. ~ActiveIn(J, t.at.s) => /\ ~ActiveIn(K, t.at.s) /\ K[t.at.s].log = J[t.at.s].log
                               /\ K[t.at.s].succ = J[t.at.s].succ
    BY <2>3 DEF FollowsAt
  <2>10. t.succ # None => K[t.at.s].succ = t.succ /\ t.len = Len(K[t.at.s].log)
    <3>1. t.succ # None => J[t.at.s].succ = t.succ /\ t.len = Len(J[t.at.s].log)
      BY <2>1 DEF SnapshotIn
    <3> QED
      BY <3>1, <2>5, <2>9
  <2>11. t.ended => /\ ~ActiveIn(K, t.at.s) /\ t.len = Len(K[t.at.s].log)
                   /\ K[t.at.s].succ = t.succ
    <3>1. t.ended => /\ ~ActiveIn(J, t.at.s) /\ t.len = Len(J[t.at.s].log)
                     /\ J[t.at.s].succ = t.succ
      BY <2>1 DEF SnapshotIn
    <3> QED
      BY <3>1, <2>9
  <2> QED
    BY <2>6, <2>8, <2>10, <2>11 DEF SnapshotIn
<1>6. ASSUME t.st = "expired" PROVE ExpiredIn(K, t)
  <2>1. ExpiredIn(J, t) /\ CursorIn(J, t.pos)
    BY <1>3, <1>6 DEF TailIn
  <2>2. t.pos.s \in DOMAIN J /\ FollowsAt(J, K, t.pos.s)
    BY <2>1 DEF CursorIn, Follows
  <2>3. \A s \in DOMAIN J : s \in DOMAIN K /\ (J[s].disk # "whole" => K[s].disk # "whole")
    BY DEF Follows, FollowsAt
  <2> QED
    BY <2>1, <2>2, <2>3 DEF ExpiredIn, FollowsAt
<1> QED
  BY <1>1, <1>2, <1>3, <1>4, <1>5, <1>6 DEF TailIn

(* Parts of an unbroken run of records, and two that follow each other.    *)
LEMMA UnbrokenPrefix ==
    ASSUME NEW J \in Seq(SessionT), NEW q, Unbroken(J, q), NEW k \in 1..Len(q)
    PROVE  LET p == SubSeq(q, 1, k)
           IN  Unbroken(J, p) /\ Len(p) = k /\ p[1] = q[1] /\ p[k] = q[k]
<1> DEFINE p == SubSeq(q, 1, k)
<1>1. q \in Seq(Nat \X Nat) /\ Len(q) \in Nat /\ k \in Nat /\ 1 <= k /\ k <= Len(q)
  BY DEF Unbroken
<1>2. p \in Seq(Nat \X Nat) /\ Len(p) = k /\ \A i \in 1..k : p[i] = q[i]
  BY <1>1
<1> HIDE DEF p
<1>3. ASSUME NEW i \in 1..Len(p)
      PROVE  p[i][1] \in DOMAIN J /\ p[i][2] < Len(J[p[i][1]].log)
  <2>1. i \in 1..Len(q) /\ p[i] = q[i]
    BY <1>1, <1>2
  <2> QED
    BY <2>1 DEF Unbroken
<1>4. ASSUME NEW i \in 2..Len(p) PROVE Onward(J, After(p[i - 1]), PlaceOf(p[i]))
  <2>1. i \in 2..Len(q) /\ i \in 1..k /\ i - 1 \in 1..k
    BY <1>1, <1>2
  <2>2. p[i] = q[i] /\ p[i - 1] = q[i - 1]
    BY <2>1, <1>2
  <2> QED
    BY <2>1, <2>2 DEF Unbroken
<1>5. Unbroken(J, p)
  BY <1>2, <1>3, <1>4 DEF Unbroken
<1>6. Len(p) = k /\ p[1] = q[1] /\ p[k] = q[k]
  <2>1. 1 \in 1..k /\ k \in 1..k
    BY <1>1
  <2> QED
    BY <1>2, <2>1
<1> QED
  BY <1>5, <1>6 DEF p

LEMMA JoinedPlaces ==
    ASSUME NEW p \in Seq(Nat \X Nat), NEW q \in Seq(Nat \X Nat)
    PROVE  /\ Len(p) \in Nat /\ Len(q) \in Nat
           /\ p \o q \in Seq(Nat \X Nat) /\ Len(p \o q) = Len(p) + Len(q)
           /\ \A i \in 1..Len(p) : (p \o q)[i] = p[i]
           /\ \A i \in 1..Len(q) : (p \o q)[Len(p) + i] = q[i]
<1> DEFINE r == p \o q
<1>1. Len(p) \in Nat /\ Len(q) \in Nat
  OBVIOUS
<1>2. /\ r \in Seq(Nat \X Nat) /\ Len(r) = Len(p) + Len(q)
      /\ \A i \in 1..Len(p) + Len(q) : r[i] = IF i <= Len(p) THEN p[i] ELSE q[i - Len(p)]
  BY ConcatProperties
<1> HIDE DEF r
<1>3. ASSUME NEW i \in 1..Len(p) PROVE r[i] = p[i]
  <2>1. i \in 1..Len(p) + Len(q) /\ i <= Len(p)
    BY <1>1
  <2> QED
    BY <1>2, <2>1
<1>4. ASSUME NEW i \in 1..Len(q) PROVE r[Len(p) + i] = q[i]
  <2>1. /\ Len(p) + i \in 1..Len(p) + Len(q) /\ ~(Len(p) + i <= Len(p))
        /\ (Len(p) + i) - Len(p) = i
    BY <1>1
  <2> QED
    BY <1>2, <2>1
<1> QED
  BY <1>1, <1>2, <1>3, <1>4 DEF r

LEMMA UnbrokenJoined ==
    ASSUME NEW J \in Seq(SessionT), NEW p, NEW q, Unbroken(J, p), Unbroken(J, q),
           p # <<>> /\ q # <<>> => Onward(J, After(p[Len(p)]), PlaceOf(q[1]))
    PROVE  /\ Unbroken(J, p \o q) /\ Len(p \o q) = Len(p) + Len(q)
           /\ q # <<>> => (p \o q)[Len(p \o q)] = q[Len(q)] /\ p \o q # <<>>
           /\ q = <<>> => p \o q = p
           /\ p # <<>> => (p \o q)[1] = p[1]
           /\ p = <<>> => p \o q = q
<1> DEFINE r == p \o q
<1>1. /\ p \in Seq(Nat \X Nat) /\ q \in Seq(Nat \X Nat) /\ Len(p) \in Nat /\ Len(q) \in Nat
      /\ p # <<>> => Len(p) > 0
      /\ q # <<>> => Len(q) > 0
  BY DEF Unbroken
<1>2. /\ r \in Seq(Nat \X Nat) /\ Len(r) = Len(p) + Len(q)
      /\ \A i \in 1..Len(p) : r[i] = p[i]
      /\ \A i \in 1..Len(q) : r[Len(p) + i] = q[i]
  BY <1>1, JoinedPlaces
<1>3. (q = <<>> => r = p) /\ (p = <<>> => r = q)
  BY <1>1, ConcatEmptySeq
<1> HIDE DEF r
<1>4. ASSUME NEW i \in 1..Len(r)
      PROVE  r[i][1] \in DOMAIN J /\ r[i][2] < Len(J[r[i][1]].log)
  <2>1. CASE i <= Len(p)
    <3>1. i \in 1..Len(p)
      BY <2>1, <1>1, <1>2
    <3> QED
      BY <3>1, <1>2 DEF Unbroken
  <2>2. CASE i > Len(p)
    <3> DEFINE j == i - Len(p)
    <3>1. j \in 1..Len(q) /\ i = Len(p) + j
      BY <2>2, <1>1, <1>2
    <3> HIDE DEF j
    <3> QED
      BY <3>1, <1>2 DEF Unbroken
  <2> QED
    BY <2>1, <2>2, <1>1
<1>5. ASSUME NEW i \in 2..Len(r) PROVE Onward(J, After(r[i - 1]), PlaceOf(r[i]))
  <2>1. CASE i <= Len(p)
    <3>1. i \in 2..Len(p) /\ i \in 1..Len(p) /\ i - 1 \in 1..Len(p)
      BY <2>1, <1>1, <1>2
    <3>2. r[i] = p[i] /\ r[i - 1] = p[i - 1]
      BY <3>1, <1>2
    <3> QED
      BY <3>1, <3>2 DEF Unbroken
  <2>2. CASE i = Len(p) + 1
    <3>1. Len(p) > 0 /\ Len(q) > 0 /\ Len(p) \in 1..Len(p) /\ 1 \in 1..Len(q) /\ i - 1 = Len(p)
      BY <2>2, <1>1, <1>2
    <3>2. r[i] = q[1] /\ r[i - 1] = p[Len(p)]
      BY <2>2, <3>1, <1>2
    <3>3. p # <<>> /\ q # <<>>
      BY <3>1
    <3> QED
      BY <3>2, <3>3
  <2>3. CASE i > Len(p) + 1
    <3> DEFINE j == i - Len(p)
    <3>0. i \in Nat /\ i <= Len(p) + Len(q) /\ Len(p) \in Nat /\ Len(q) \in Nat
      BY <1>1, <1>2
    <3>1. /\ j \in 2..Len(q) /\ j \in 1..Len(q) /\ j - 1 \in 1..Len(q)
          /\ i = Len(p) + j /\ i - 1 = Len(p) + (j - 1)
      BY <2>3, <3>0
    <3> HIDE DEF j
    <3>2. r[i] = q[j] /\ r[i - 1] = q[j - 1]
      BY <3>1, <1>2
    <3> QED
      BY <3>1, <3>2 DEF Unbroken
  <2> QED
    BY <2>1, <2>2, <2>3, <1>1
<1>6. Unbroken(J, r)
  BY <1>2, <1>4, <1>5 DEF Unbroken
<1>7. ASSUME q # <<>> PROVE r[Len(r)] = q[Len(q)] /\ r # <<>>
  <2>0. Len(q) > 0 /\ Len(q) \in Nat /\ Len(p) \in Nat
    BY <1>1, <1>7
  <2>1. Len(q) \in 1..Len(q) /\ Len(r) > 0 /\ Len(r) = Len(p) + Len(q)
    BY <2>0, <1>2
  <2>2. r # <<>>
    BY <2>1
  <2> QED
    BY <2>1, <2>2, <1>2
<1>8. ASSUME p # <<>> PROVE r[1] = p[1]
  <2>1. 1 \in 1..Len(p)
    BY <1>1, <1>8
  <2> QED
    BY <2>1, <1>2
<1>9. /\ Unbroken(J, r) /\ Len(r) = Len(p) + Len(q)
      /\ q # <<>> => r[Len(r)] = q[Len(q)] /\ r # <<>>
      /\ q = <<>> => r = p
      /\ p # <<>> => r[1] = p[1]
      /\ p = <<>> => r = q
  BY <1>2, <1>3, <1>6, <1>7, <1>8
<1> QED
  BY <1>9 DEF r

(* Consecutive records of one session.                                     *)
LEMMA ConsecutiveRecords ==
    ASSUME NEW J \in Seq(SessionT), NEW c, CursorIn(J, c), NEW k \in Nat,
           c.n + k <= Len(J[c.s].log)
    PROVE  LET q == [i \in 1..k |-> <<c.s, c.n + i - 1>>]
           IN  /\ Unbroken(J, q) /\ Len(q) = k
               /\ k > 0 => q # <<>> /\ PlaceOf(q[1]) = c /\ After(q[k]) = Cursor(c.s, c.n + k)
<1> DEFINE q == [i \in 1..k |-> <<c.s, c.n + i - 1>>]
<1>1. /\ c \in CursorT /\ c.s \in DOMAIN J /\ c.s \in Nat /\ c.n \in Nat
      /\ Len(J[c.s].log) \in Nat
  BY Numbered DEF CursorIn, CursorT
<1>2. /\ q \in Seq(Nat \X Nat) /\ Len(q) = k
      /\ \A i \in 1..k : q[i][1] = c.s /\ q[i][2] = c.n + i - 1 /\ q[i] = <<c.s, c.n + i - 1>>
  <2>1. \A i \in 1..k : c.n + i - 1 \in Nat
    BY <1>1
  <2> QED
    BY <2>1, <1>1
<1> HIDE DEF q
<1>3. ASSUME NEW i \in 1..Len(q)
      PROVE  q[i][1] \in DOMAIN J /\ q[i][2] < Len(J[q[i][1]].log)
  <2>1. i \in 1..k /\ i \in Nat /\ i <= k
    BY <1>2
  <2>2. q[i][1] = c.s /\ q[i][2] = c.n + i - 1
    BY <2>1, <1>2
  <2>3. c.n + i - 1 < Len(J[c.s].log)
    BY <2>1, <1>1
  <2> QED
    BY <2>2, <2>3, <1>1
<1>4. ASSUME NEW i \in 2..Len(q) PROVE Onward(J, After(q[i - 1]), PlaceOf(q[i]))
  <2>0. i \in 1..k /\ i - 1 \in 1..k /\ i \in Nat
    BY <1>2
  <2>1. /\ q[i - 1][1] = c.s /\ q[i - 1][2] = c.n + (i - 1) - 1
        /\ q[i][1] = c.s /\ q[i][2] = c.n + i - 1
    BY <2>0, <1>2
  <2>2. (c.n + (i - 1) - 1) + 1 = c.n + i - 1
    BY <2>0, <1>1
  <2>3. q[i - 1][2] + 1 = q[i][2]
    BY <2>1, <2>2
  <2> QED
    BY <2>1, <2>3 DEF Onward, After, PlaceOf
<1>5. Unbroken(J, q)
  BY <1>2, <1>3, <1>4 DEF Unbroken
<1>6. ASSUME k > 0
      PROVE  q # <<>> /\ PlaceOf(q[1]) = c /\ After(q[k]) = Cursor(c.s, c.n + k)
  <2>1. q[1][1] = c.s /\ q[1][2] = c.n /\ q[k][1] = c.s /\ q[k][2] + 1 = c.n + k
    BY <1>1, <1>2, <1>6
  <2>2. Cursor(c.s, c.n) = c
    BY <1>1 DEF Cursor, CursorT
  <2>3. q # <<>>
    BY <1>2, <1>6
  <2> QED
    BY <2>1, <2>2, <2>3 DEF PlaceOf, After
<1>7. /\ Unbroken(J, q) /\ Len(q) = k
      /\ k > 0 => q # <<>> /\ PlaceOf(q[1]) = c /\ After(q[k]) = Cursor(c.s, c.n + k)
  BY <1>2, <1>5, <1>6
<1> QED
  BY <1>7 DEF q

(* What the page holds after the snapshot is read, and where it ends.      *)
LEMMA PageRead ==
    ASSUME NEW J \in Seq(SessionT), NEW t \in TailT, CursorIn(J, t.pos), PageIn(J, t),
           SnapshotIn(J, t), NEW k \in Nat, t.at.n + k <= t.len, t.at.n < t.len => k > 0
    PROVE  LET b == [i \in 1..k |-> <<t.at.s, t.at.n + i - 1>>]
               q == t.cand \o b
               d == Cursor(t.at.s, t.at.n + k)
           IN  /\ Unbroken(J, q) /\ Len(b) = k /\ CursorIn(J, d)
               /\ q # <<>> => Onward(J, t.pos, PlaceOf(q[1])) /\ After(q[Len(q)]) = d
               /\ q = <<>> => d = t.pos /\ k = 0
<1> DEFINE b == [i \in 1..k |-> <<t.at.s, t.at.n + i - 1>>]
<1> DEFINE q == t.cand \o b
<1> DEFINE d == Cursor(t.at.s, t.at.n + k)
<1> DEFINE p == t.cand
<1>1. /\ CursorIn(J, t.at) /\ Unbroken(J, p) /\ Onward(J, LastRead(t), t.at)
      /\ p # <<>> => Onward(J, t.pos, PlaceOf(p[1]))
      /\ t.len \in Nat /\ t.len <= Len(J[t.at.s].log)
      /\ t.at # LastRead(t) => t.len > 0
  BY DEF PageIn, SnapshotIn, TailT
<1>2. /\ t.at.s \in DOMAIN J /\ t.at.s \in Nat /\ t.at.n \in Nat /\ Len(J[t.at.s].log) \in Nat
      /\ t.at = Cursor(t.at.s, t.at.n)
  BY <1>1, Numbered DEF CursorIn, CursorT, Cursor
<1>3. t.at.n + k <= Len(J[t.at.s].log)
  BY <1>1, <1>2
<1>4. /\ Unbroken(J, b) /\ Len(b) = k
      /\ k > 0 => b # <<>> /\ PlaceOf(b[1]) = t.at /\ After(b[k]) = d
  BY <1>1, <1>3, ConsecutiveRecords
<1>5. CursorIn(J, d)
  BY <1>2, <1>3, CursorFields DEF CursorIn
<1>6. b # <<>> => k > 0
  BY <1>4 DEF Unbroken
<1>7. LastRead(t) = IF p = <<>> THEN t.pos ELSE After(p[Len(p)])
  BY DEF LastRead
<1> HIDE DEF b, p
<1>8. p # <<>> /\ b # <<>> => Onward(J, After(p[Len(p)]), PlaceOf(b[1]))
  BY <1>1, <1>4, <1>6, <1>7
<1>9. /\ Unbroken(J, p \o b) /\ Len(p \o b) = Len(p) + Len(b)
      /\ b # <<>> => (p \o b)[Len(p \o b)] = b[Len(b)] /\ p \o b # <<>>
      /\ b = <<>> => p \o b = p
      /\ p # <<>> => (p \o b)[1] = p[1]
      /\ p = <<>> => p \o b = b
  BY <1>1, <1>4, <1>8, UnbrokenJoined
\* An empty read: the cursor stands where the last record was read.
<1>10. ASSUME k = 0 PROVE d = LastRead(t) /\ b = <<>>
  <2>1. t.len = t.at.n /\ d = t.at
    BY <1>10, <1>2, <1>1 DEF SnapshotIn
  <2>2. ASSUME t.at # LastRead(t) PROVE FALSE
    <3>1. t.at.n = 0 /\ t.len > 0
      BY <2>2, <1>1 DEF Onward
    <3> QED
      BY <2>1, <3>1
  <2>3. b = <<>>
    BY <1>4, <1>10 DEF Unbroken
  <2> QED
    BY <2>1, <2>2, <2>3
<1>11. ASSUME p \o b # <<>>
       PROVE  Onward(J, t.pos, PlaceOf((p \o b)[1])) /\ After((p \o b)[Len(p \o b)]) = d
  <2>1. Onward(J, t.pos, PlaceOf((p \o b)[1]))
    <3>1. CASE p # <<>>
      BY <3>1, <1>1, <1>9
    <3>2. CASE p = <<>>
      <4>1. p \o b = b /\ b # <<>> /\ LastRead(t) = t.pos
        BY <3>2, <1>7, <1>9, <1>11
      <4> QED
        BY <4>1, <1>1, <1>4, <1>6
    <3> QED
      BY <3>1, <3>2
  <2>2. After((p \o b)[Len(p \o b)]) = d
    <3>1. CASE k > 0
      BY <3>1, <1>4, <1>9
    <3>2. CASE k = 0
      <4>1. b = <<>> /\ p \o b = p /\ p # <<>> /\ d = LastRead(t)
        BY <3>2, <1>9, <1>10, <1>11
      <4> QED
        BY <4>1, <1>7
    <3>3. k > 0 \/ k = 0
      OBVIOUS
    <3> QED
      BY <3>1, <3>2, <3>3
  <2> QED
    BY <2>1, <2>2
<1>12. ASSUME p \o b = <<>> PROVE d = t.pos /\ k = 0
  <2>1. b = <<>>
    BY <1>9, <1>12
  <2>2. p = <<>> /\ k = 0
    BY <2>1, <1>9, <1>12, <1>4
  <2> QED
    BY <2>2, <1>7, <1>10
<1>13. /\ Unbroken(J, p \o b) /\ Len(b) = k /\ CursorIn(J, d)
       /\ p \o b # <<>> => /\ Onward(J, t.pos, PlaceOf((p \o b)[1]))
                           /\ After((p \o b)[Len(p \o b)]) = d
       /\ p \o b = <<>> => d = t.pos /\ k = 0
  BY <1>4, <1>5, <1>9, <1>11, <1>12
<1> QED
  BY <1>13 DEF b, p

\* The client's cursor after a page.
Settled(t, c, x) == [t EXCEPT !.pos = c, !.cand = <<>>, !.st = x]

LEMMA PageDone ==
    ASSUME NEW t \in TailT, NEW c \in CursorT, NEW x \in {"idle", "expired"}
    PROVE  LET u == Settled(t, c, x) IN u \in TailT /\ u.st = x /\ u.pos = c
<1> DEFINE u == Settled(t, c, x)
<1>1. <<>> \in Seq(Nat \X Nat) /\ c \in CursorT \union {None}
  OBVIOUS
<1>2. u.st = x /\ u.pos = c
  BY DEF TailT, Settled
<1>3. u \in TailT
  BY <1>1 DEF TailT, Settled
<1> QED
  BY <1>2, <1>3

(* The page is done: nothing was read, or a prefix of it is handed over.   *)
LEMMA HandedNothing ==
    ASSUME NEW J \in Seq(SessionT), NEW t \in TailT, NEW g, TailIn(J, t, g), t.st = "snap",
           NEW x \in {"idle", "expired"}, x = "expired" => ExpiredIn(J, t)
    PROVE  TailIn(J, Settled(t, t.pos, x), g)
<1> DEFINE u == Settled(t, t.pos, x)
<1>0. t.pos \in CursorT
  BY DEF TailIn, CursorIn
<1>1. u \in TailT /\ u.st = x /\ u.pos = t.pos
  BY <1>0, PageDone
<1> HIDE DEF u
<1>2. Unbroken(J, g) /\ CursorIn(J, t.pos) /\ (g # <<>> => t.pos = After(g[Len(g)]))
  BY DEF TailIn
<1>3. u.st = "expired" => ExpiredIn(J, u)
  BY <1>1 DEF ExpiredIn
<1>4. TailIn(J, u, g)
  BY <1>1, <1>2, <1>3 DEF TailIn
<1> QED
  BY <1>4 DEF u

LEMMA HandedOver ==
    ASSUME NEW J \in Seq(SessionT), NEW t \in TailT, NEW g, TailIn(J, t, g), t.st = "snap",
           NEW q, Unbroken(J, q), NEW k \in 1..Len(q), Onward(J, t.pos, PlaceOf(q[1]))
    PROVE  TailIn(J, Settled(t, After(q[k]), "idle"), g \o SubSeq(q, 1, k))
<1> DEFINE u == Settled(t, After(q[k]), "idle")
<1> DEFINE p == SubSeq(q, 1, k)
<1>1. Unbroken(J, g) /\ (g # <<>> => t.pos = After(g[Len(g)]))
  BY DEF TailIn
<1>2. Unbroken(J, p) /\ Len(p) = k /\ p[1] = q[1] /\ p[k] = q[k]
  BY UnbrokenPrefix
<1>0. k > 0
  BY DEF Unbroken
<1> HIDE DEF p
<1>3. p # <<>>
  BY <1>0, <1>2
<1>4. g # <<>> /\ p # <<>> => Onward(J, After(g[Len(g)]), PlaceOf(p[1]))
  BY <1>1, <1>2
<1>5. Unbroken(J, g \o p) /\ (g \o p)[Len(g \o p)] = q[k]
  BY <1>1, <1>2, <1>3, <1>4, UnbrokenJoined
<1>6. CursorIn(J, After(q[k]))
  BY UnbrokenPlaces
<1>7. After(q[k]) \in CursorT
  BY <1>6 DEF CursorIn
<1>8. u \in TailT /\ u.st = "idle" /\ u.pos = After(q[k])
  BY <1>7, PageDone
<1> HIDE DEF u
<1>9. TailIn(J, u, g \o p)
  BY <1>5, <1>6, <1>8 DEF TailIn
<1> QED
  BY <1>9 DEF p, u

(* The page goes on with the successor.                                    *)
LEMMA PageContinued ==
    ASSUME NEW J \in Seq(SessionT), SessionsIn(J), PredsIn(J), NEW t \in TailT, NEW g,
           TailIn(J, t, g), t.st = "snap", t.succ # None,
           NEW q, Unbroken(J, q), Len(q) < PageLimit, NEW d, CursorIn(J, d),
           d.s = t.at.s, d.n = t.len,
           q # <<>> => Onward(J, t.pos, PlaceOf(q[1])) /\ After(q[Len(q)]) = d,
           q = <<>> => d = t.pos, NEW u,
           u = [t EXCEPT !.st = "between", !.cand = q, !.at = Cursor(t.succ, 0)]
    PROVE  TailIn(J, u, g)
<1>1. /\ Unbroken(J, g) /\ CursorIn(J, t.pos) /\ (g # <<>> => t.pos = After(g[Len(g)]))
      /\ CursorIn(J, t.at) /\ t.pos.s <= t.at.s
      /\ J[t.at.s].succ = t.succ /\ t.len = Len(J[t.at.s].log)
  BY DEF TailIn, PageIn, SnapshotIn
<1>2. t.at.s \in DOMAIN J
  BY <1>1 DEF CursorIn
<1>3. t.succ \in DOMAIN J /\ J[t.succ].pred = t.at.s
  BY <1>1, <1>2 DEF SessionsIn
<1>4. t.at.s < t.succ
  BY <1>2, <1>3, Numbered DEF PredsIn
<1>5. /\ Cursor(t.succ, 0).s = t.succ /\ Cursor(t.succ, 0).n = 0 /\ Cursor(t.succ, 0) \in CursorT
      /\ Len(J[t.succ].log) \in Nat
  BY <1>3, Numbered, CursorFields
<1>6. q \in Seq(Nat \X Nat)
  BY DEF Unbroken
<1>7. /\ u \in TailT /\ u.st = "between" /\ u.pos = t.pos /\ u.cand = q
      /\ u.at = Cursor(t.succ, 0)
  BY <1>5, <1>6 DEF TailT
<1>8. CursorIn(J, u.at)
  BY <1>3, <1>5, <1>7 DEF CursorIn
<1>9. u.pos.s <= u.at.s
  <2>1. t.pos.s \in Nat /\ t.at.s \in Nat /\ t.succ \in Nat
    BY <1>1, <1>2, <1>3, Numbered DEF CursorIn
  <2> QED
    BY <2>1, <1>1, <1>4, <1>5, <1>7
<1>10. LastRead(u) = d
  BY <1>7 DEF LastRead
<1>11. Onward(J, LastRead(u), u.at)
  BY <1>1, <1>5, <1>7, <1>10 DEF Onward
<1>12. PageIn(J, u)
  BY <1>7, <1>8, <1>9, <1>11 DEF PageIn
<1> QED
  BY <1>1, <1>7, <1>12 DEF TailIn

(* The snapshot is read.                                                   *)
LEMMA TailReadExact ==
    ASSUME JInv, ChainInv, TailInv, TailRead
    PROVE  TailInv'
<1> DEFINE room == PageLimit - Len(tc.cand)
<1> DEFINE k == IF tc.len - tc.at.n < room THEN tc.len - tc.at.n ELSE room
<1> DEFINE cand == tc.cand \o Batch
<1> DEFINE at == Cursor(tc.at.s, tc.at.n + Len(Batch))
<1>1. /\ ses \in Seq(SessionT) /\ SessionsIn(ses) /\ PredsIn(ses)
      /\ tc \in TailT /\ tc.st = "snap" /\ TailIn(ses, tc, got) /\ ses' = ses
  BY ChainTypes DEF ChainIn, TailInv, TailIn, TailRead
<1>2. CursorIn(ses, tc.pos) /\ PageIn(ses, tc) /\ SnapshotIn(ses, tc)
  BY <1>1 DEF TailIn
<1>3. /\ tc.at.n \in Nat /\ tc.len \in Nat /\ tc.at.n <= tc.len
      /\ Len(tc.cand) \in Nat /\ Len(tc.cand) < PageLimit
  BY <1>1, <1>2 DEF PageIn, SnapshotIn, CursorIn, CursorT, TailT, Unbroken
<1>4. /\ k \in Nat /\ tc.at.n + k <= tc.len /\ (tc.at.n < tc.len => k > 0)
  BY <1>3, PageLimitAssumption
<1>5. Batch = [i \in 1..k |-> <<tc.at.s, tc.at.n + i - 1>>]
  BY DEF Batch
<1> HIDE DEF k
<1>6. LET b == [i \in 1..k |-> <<tc.at.s, tc.at.n + i - 1>>]
          q == tc.cand \o b
          d == Cursor(tc.at.s, tc.at.n + k)
      IN  /\ Unbroken(ses, q) /\ Len(b) = k /\ CursorIn(ses, d)
          /\ q # <<>> => Onward(ses, tc.pos, PlaceOf(q[1])) /\ After(q[Len(q)]) = d
          /\ q = <<>> => d = tc.pos /\ k = 0
  BY <1>1, <1>2, <1>4, PageRead
<1>7. Len(Batch) = k
  BY <1>5, <1>6
<1>8. /\ Unbroken(ses, cand) /\ CursorIn(ses, at)
      /\ cand # <<>> => Onward(ses, tc.pos, PlaceOf(cand[1])) /\ After(cand[Len(cand)]) = at
      /\ cand = <<>> => at = tc.pos /\ k = 0
  BY <1>5, <1>6, <1>7
<1>9. at.s = tc.at.s /\ at.n = tc.at.n + k
  BY <1>7, CursorFields
<1>10. \/ (at.n < tc.len \/ tc.succ = None) /\ HandOver(cand, at)
       \/ /\ ~(at.n < tc.len) /\ tc.succ # None /\ Len(cand) < PageLimit /\ got' = got
          /\ tc' = [tc EXCEPT !.st = "between", !.cand = cand, !.at = Cursor(tc.succ, 0)]
       \/ /\ ~(at.n < tc.len) /\ tc.succ # None /\ ~(Len(cand) < PageLimit)
          /\ HandOver(cand, at)
  BY DEF TailRead
<1> HIDE DEF cand, at
<1>11. CASE /\ ~(at.n < tc.len) /\ tc.succ # None /\ Len(cand) < PageLimit /\ got' = got
            /\ tc' = [tc EXCEPT !.st = "between", !.cand = cand, !.at = Cursor(tc.succ, 0)]
  <2>1. at.n = tc.len
    BY <1>3, <1>4, <1>9, <1>11
  <2>2. TailIn(ses, tc', got)
    BY <2>1, <1>1, <1>8, <1>9, <1>11, PageContinued
  <2> QED
    BY <2>2, <1>1, <1>11 DEF TailInv
<1>12. CASE HandOver(cand, at)
  <2>1. CASE cand = <<>>
    <3>1. /\ tc' = [tc EXCEPT !.pos = at, !.cand = <<>>,
                              !.st = IF CursorExpired(at) THEN "expired" ELSE "idle"]
          /\ got' = got
      <4>1. Len(cand) = 0
        BY <2>1
      <4> QED
        BY <4>1, <1>12 DEF HandOver
    <3>2. at = tc.pos /\ k = 0
      BY <2>1, <1>8
    <3>3. tc.succ = None /\ at.n = tc.len
      <4>1. Len(cand) = 0
        BY <2>1
      <4>2. ~(tc.at.n < tc.len) /\ Len(cand) < PageLimit
        BY <4>1, <3>2, <1>4, PageLimitAssumption
      <4>3. at.n = tc.len
        BY <4>2, <3>2, <1>3, <1>9
      <4>4. tc'.st # "between"
        BY <3>1, <1>1 DEF TailT
      <4>5. ASSUME tc.succ # None PROVE FALSE
        <5>1. tc' = [tc EXCEPT !.st = "between", !.cand = cand, !.at = Cursor(tc.succ, 0)]
          BY <4>2, <4>3, <4>5, <1>3, <1>10
        <5> QED
          BY <4>4, <5>1, <1>1 DEF TailT
      <4> QED
        BY <4>3, <4>5
    <3>4. CursorExpired(at) => ExpiredIn(ses, tc)
      <4>1. SUFFICES ASSUME tc.ended PROVE ExpiredIn(ses, tc)
        BY DEF CursorExpired
      <4>2. /\ ~ActiveIn(ses, tc.at.s) /\ tc.len = Len(ses[tc.at.s].log)
            /\ ses[tc.at.s].succ = None
        BY <4>1, <3>3, <1>2 DEF SnapshotIn
      <4> QED
        BY <4>2, <3>2, <3>3, <1>9 DEF ExpiredIn
    <3>5. TailIn(ses, tc', got)
      <4> DEFINE x == IF CursorExpired(at) THEN "expired" ELSE "idle"
      <4>1. x \in {"idle", "expired"} /\ (x = "expired" => CursorExpired(at))
        OBVIOUS
      <4>2. tc' = Settled(tc, tc.pos, x)
        BY <3>1, <3>2 DEF Settled
      <4> HIDE DEF x
      <4> QED
        BY <4>1, <4>2, <3>4, <1>1, HandedNothing
    <3> QED
      BY <3>1, <3>5, <1>1 DEF TailInv
  <2>2. CASE cand # <<>>
    <3>1. PICK j \in 1..Len(cand) :
             /\ got' = got \o SubSeq(cand, 1, j)
             /\ tc' = [tc EXCEPT !.pos = CursorAfter(cand, j, at), !.cand = <<>>, !.st = "idle"]
      BY <2>2, <1>12 DEF HandOver
    <3>2. CursorAfter(cand, j, at) = After(cand[j])
      BY DEF CursorAfter, After
    <3>3. tc' = Settled(tc, After(cand[j]), "idle")
      BY <3>1, <3>2 DEF Settled
    <3>4. TailIn(ses, tc', got \o SubSeq(cand, 1, j))
      BY <2>2, <3>1, <3>3, <1>1, <1>8, HandedOver
    <3> QED
      BY <3>1, <3>4, <1>1 DEF TailInv
  <2> QED
    BY <2>1, <2>2
<1> QED
  BY <1>10, <1>11, <1>12

(* A session is snapshot under the lock, or is found to be gone.           *)
LEMMA TailSnapshotExact ==
    ASSUME JInv, ChainInv, TailInv, TailSnapshot
    PROVE  TailInv'
<1>1. /\ ses \in Seq(SessionT) /\ SessionsIn(ses) /\ LinksIn(ses)
      /\ tc \in TailT /\ tc.st = "between" /\ TailIn(ses, tc, got) /\ ses' = ses /\ got' = got
  BY ChainTypes DEF ChainIn, TailInv, TailIn, TailSnapshot
<1>2. /\ CursorIn(ses, tc.pos) /\ PageIn(ses, tc) /\ CursorIn(ses, tc.at)
      /\ Unbroken(ses, got) /\ (got # <<>> => tc.pos = After(got[Len(got)]))
      /\ tc.pos.s <= tc.at.s /\ Onward(ses, LastRead(tc), tc.at) /\ Unbroken(ses, tc.cand)
  BY <1>1 DEF TailIn, PageIn
<1> DEFINE s == tc.at.s
<1>3. s \in DOMAIN ses /\ tc.at.n <= Len(ses[s].log)
  BY <1>2 DEF CursorIn
<1>4. /\ Len(ses[s].log) \in Nat /\ ses[s].succ \in NameT
  BY <1>1, <1>3, Numbered DEF NameT
<1>5. CASE tc' = [tc EXCEPT !.st = "expired"]
  <2>1. tc' \in TailT /\ tc'.st = "expired" /\ tc'.pos = tc.pos
    BY <1>1, <1>5 DEF TailT
  <2>2. ~Readable(s)
    <3>1. ASSUME Readable(s) PROVE FALSE
      <4>1. tc'.st = "snap"
        BY <3>1, <1>1 DEF TailSnapshot, TailT
      <4> QED
        BY <4>1, <2>1
    <3> QED
      BY <3>1
  <2>3. ExpiredIn(ses, tc')
    BY <2>1, <2>2, <1>2, <1>3 DEF ExpiredIn, Readable
  <2> QED
    BY <2>1, <2>3, <1>1, <1>2 DEF TailInv, TailIn
<1>6. CASE tc' = [tc EXCEPT !.st = "snap", !.len = Len(ses[s].log), !.succ = ses[s].succ,
                            !.ended = ses[s].state # "active"]
  <2>1. /\ tc' \in TailT /\ tc'.st = "snap" /\ tc'.pos = tc.pos /\ tc'.at = tc.at
        /\ tc'.cand = tc.cand /\ tc'.len = Len(ses[s].log) /\ tc'.succ = ses[s].succ
        /\ tc'.ended => ~ActiveIn(ses, s)
    BY <1>1, <1>4, <1>6 DEF TailT, ActiveIn
  <2>2. LastRead(tc') = LastRead(tc)
    BY <2>1 DEF LastRead
  <2>3. PageIn(ses, tc')
    BY <2>1, <2>2, <1>2 DEF PageIn
  <2>4. ASSUME tc.at # LastRead(tc) PROVE Len(ses[s].log) > 0
    <3> DEFINE c == LastRead(tc)
    <3>1. c.s \in DOMAIN ses /\ ses[c.s].succ = s
      BY <2>4, <1>1, <1>2, LastReadPlace DEF Onward, CursorIn
    <3>2. s # None
      BY <1>1, <1>3, Numbered
    <3> HIDE DEF c
    <3> QED
      BY <3>1, <3>2, <1>1 DEF LinksIn
  <2>5. SnapshotIn(ses, tc')
    BY <2>1, <2>2, <2>4, <1>3, <1>4 DEF SnapshotIn
  <2> QED
    BY <2>1, <2>3, <2>5, <1>1, <1>2 DEF TailInv, TailIn
<1> QED
  BY <1>5, <1>6 DEF TailSnapshot

(* The client attaches at the recorder's tail, and asks for a page.        *)
LEMMA TailAsksExact ==
    ASSUME JInv, TailInv, TailAttach \/ TailPoll
    PROVE  TailInv'
<1>1. /\ ses \in Seq(SessionT) /\ tc \in TailT /\ TailIn(ses, tc, got)
      /\ ses' = ses /\ got' = got /\ handle \in NameT
  BY NamesAreNumbers DEF JInv, Types, TailInv, TailIn, TailAttach, TailPoll, vars, NameT
<1>2. Unbroken(ses, got)
  BY <1>1 DEF TailIn
<1>3. CASE TailAttach
  <2>1. Recording /\ tc.st = "off"
    BY <1>3 DEF TailAttach, Recording
  <2>2. handle \in DOMAIN ses /\ handle \in Nat /\ Len(ses[handle].log) \in Nat
    BY <2>1, <1>1, TipExists, Numbered
  <2>3. CursorIn(ses, PublishedTail)
    BY <2>2, CursorFields DEF CursorIn, PublishedTail
  <2>4. PublishedTail \in CursorT
    BY <2>3 DEF CursorIn
  <2>5. tc' \in TailT /\ tc'.st = "idle" /\ tc'.pos = PublishedTail
    BY <2>4, <1>1, <1>3 DEF TailAttach, TailT
  <2>6. got = <<>>
    BY <2>1, <1>1 DEF TailIn
  <2> QED
    BY <2>3, <2>5, <2>6, <1>1, <1>2 DEF TailInv, TailIn
<1>4. CASE TailPoll
  <2>1. tc.st = "idle" /\ CursorIn(ses, tc.pos) /\ (got # <<>> => tc.pos = After(got[Len(got)]))
    BY <1>1, <1>4 DEF TailPoll, TailIn
  <2>2. /\ tc.pos \in CursorT /\ tc.pos.s \in Nat
        /\ <<>> \in Seq(Nat \X Nat) /\ Len(<<>>) = 0
    BY <2>1 DEF CursorIn, CursorT
  <2>3. /\ tc' \in TailT /\ tc'.st = "between" /\ tc'.pos = tc.pos /\ tc'.at = tc.pos
        /\ tc'.cand = <<>>
    BY <2>2, <1>1, <1>4 DEF TailPoll, TailT
  <2>4. Unbroken(ses, tc'.cand)
    BY <2>2, <2>3 DEF Unbroken
  <2>5. Onward(ses, LastRead(tc'), tc'.at)
    BY <2>3 DEF Onward, LastRead
  <2>6. Len(tc'.cand) < PageLimit
    BY <2>2, <2>3, PageLimitAssumption
  <2>7. PageIn(ses, tc')
    BY <2>1, <2>2, <2>3, <2>4, <2>5, <2>6 DEF PageIn
  <2> QED
    BY <2>1, <2>3, <2>7, <1>1, <1>2 DEF TailInv, TailIn
<1> QED
  BY <1>3, <1>4

(* A client's cursor outlives whatever the journal does.                   *)
LEMMA JournalTailExact ==
    ASSUME JInv, ChainInv, TailInv, JournalStep
    PROVE  TailInv'
<1>1. ses \in Seq(SessionT) /\ SessionsIn(ses) /\ TailIn(ses, tc, got)
  BY ChainTypes DEF TailInv
<1>2. ses' \in Seq(SessionT) /\ Follows(ses, ses')
  BY StepChain DEF JournalStep, Moves
<1>3. TailIn(ses', tc, got)
  BY <1>1, <1>2, TailStays
<1>4. got' = got /\ (tc' = tc \/ (tc' = [tc EXCEPT !.st = "idle"] /\ tc.st \in {"between", "snap"}))
  BY DEF JournalStep
<1>5. CASE tc' = [tc EXCEPT !.st = "idle"] /\ tc.st \in {"between", "snap"}
  <2>1. tc \in TailT
    BY <1>1 DEF TailIn
  <2>2. tc' \in TailT /\ tc'.st = "idle" /\ tc'.pos = tc.pos
    BY <2>1, <1>5 DEF TailT
  <2> QED
    BY <2>2, <1>3, <1>4, <1>5 DEF TailInv, TailIn
<1> QED
  BY <1>3, <1>4, <1>5 DEF TailInv

(* The readers change no session, and their leases keep sessions.          *)
LEMMA TailLeasesKeep ==
    ASSUME JInv, ChainInv, Needed, TailInv, TailSnapshot \/ TailRead
    PROVE  JInv' /\ ChainInv' /\ Needed'
<1>1. /\ Types /\ JobOK /\ Owners /\ ses' = ses /\ phase' = phase /\ handle' = handle
      /\ wire' = wire /\ baseline' = baseline /\ used' = used /\ lease' = lease
      /\ job' = job /\ spent' = spent
  BY DEF JInv, TailSnapshot, TailRead
<1>2. /\ tails \subseteq DOMAIN ses /\ WholeIn(ses, tails)
  BY <1>1 DEF Types, Needed, NeededIn
<1>3. tails' \subseteq DOMAIN ses /\ WholeIn(ses, tails')
  <2>1. CASE TailRead
    BY <2>1, <1>2 DEF TailRead, WholeIn
  <2>2. CASE TailSnapshot
    <3>1. tails' = tails \/ (tails' = tails \union {tc.at.s} /\ Readable(tc.at.s))
      BY <2>2 DEF TailSnapshot
    <3>2. tc.at.s \in DOMAIN ses
      BY <2>2 DEF TailSnapshot, TailInv, TailIn, PageIn, CursorIn
    <3> QED
      BY <3>1, <3>2, <1>2 DEF WholeIn, Readable
  <2> QED
    BY <2>1, <2>2
<1>4. Types'
  BY <1>1, <1>3 DEF Types
<1>5. FrozenNow \subseteq FrozenNow'
  BY <1>1 DEF FrozenNow, Recording
<1>6. JobOK'
  <2>1. StartupJob' <=> StartupJob
    BY <1>1 DEF StartupJob
  <2>2. UnitJob' <=> UnitJob
    BY <1>1 DEF UnitJob, Recording, UnitOK
  <2>3. (AppendJob /\ FollowUpJob /\ RolloverJob)' <=> (AppendJob /\ FollowUpJob /\ RolloverJob)
    BY <1>1 DEF AppendJob, FollowUpJob, RolloverJob
  <2>4. (SuccessorJob /\ AnnounceJob /\ ContinueJob)' <=> (SuccessorJob /\ AnnounceJob /\ ContinueJob)
    BY <1>1 DEF SuccessorJob, AnnounceJob, ContinueJob
  <2> QED
    BY <1>1, <2>1, <2>2, <2>3, <2>4 DEF JobOK, Rolling
<1>7. Owners'
  BY <1>1 DEF Owners, MainOnly, BootEnds, Accounted, MainOwns, EndedOnce, Recording, Main, Rolling
<1>8. JInv'
  BY <1>1, <1>4, <1>5, <1>6, <1>7, SameSessions
<1>9. Needed'
  BY <1>1, <1>3 DEF Needed, NeededIn
<1>10. ChainInv'
  BY <1>1 DEF ChainInv, TipFirm, HandleFirm, SuccessorCarries, Recording, Tip, Rolling
<1> QED
  BY <1>8, <1>9, <1>10

LEMMA ReadersLeaveJournal ==
    ASSUME JInv, ChainInv, Needed, TailInv, [ReadersNext]_allVars
    PROVE  JInv' /\ ChainInv' /\ Needed'
<1>1. CASE TailSnapshot \/ TailRead
  BY <1>1, TailLeasesKeep
<1>2. CASE JournalStep \/ BeginRead \/ ReadTo \/ TailAttach \/ TailPoll \/ UNCHANGED allVars
  <2>1. [JournalNext]_vars
    BY <1>2 DEF JournalStep, BeginRead, ReadTo, TailAttach, TailPoll, allVars
  <2> QED
    BY <2>1, StepKeeps, StepChain, StepNeeded
<1> QED
  BY <1>1, <1>2 DEF ReadersNext

LEMMA StepTail ==
    ASSUME JInv, ChainInv, TailInv, [ReadersNext]_allVars
    PROVE  TailInv'
<1>1. CASE TailSnapshot \/ TailRead \/ TailAttach \/ TailPoll \/ JournalStep
  BY <1>1, TailSnapshotExact, TailReadExact, TailAsksExact, JournalTailExact
<1>2. CASE BeginRead \/ ReadTo \/ UNCHANGED allVars
  <2>1. ses' = ses /\ tc' = tc /\ got' = got
    BY <1>2 DEF BeginRead, ReadTo, allVars, vars, readerVars
  <2> QED
    BY <2>1 DEF TailInv
<1> QED
  BY <1>1, <1>2 DEF ReadersNext

LEMMA InitTail ==
    ASSUME ReadersInit
    PROVE  TailInv
<1>1. /\ got = <<>> /\ <<>> \in Seq(Nat \X Nat) /\ Len(<<>>) = 0
      /\ tc = [st |-> "off", pos |-> None, at |-> None, cand |-> <<>>, tail |-> None,
               len |-> 0, succ |-> None, ended |-> FALSE]
  BY DEF ReadersInit
<1>2. tc \in TailT /\ tc.st = "off"
  BY <1>1 DEF TailT, NameT
<1>3. Unbroken(ses, got)
  BY <1>1 DEF Unbroken
<1> QED
  BY <1>1, <1>2, <1>3 DEF TailInv, TailIn

(* The tail reader's promises follow.                                      *)
LEMMA TailInvExact ==
    ASSUME JInv, Needed, TailInv
    PROVE  TailIsExact
<1>1. ses \in Seq(SessionT) /\ tc \in TailT /\ Unbroken(ses, got) /\ TailIn(ses, tc, got)
  BY DEF JInv, Types, TailInv, TailIn
<1>2. TailContiguous
  <2>1. SUFFICES ASSUME NEW i \in 2..Len(got)
                 PROVE  \/ got[i][1] = got[i - 1][1] /\ got[i][2] = got[i - 1][2] + 1
                        \/ /\ got[i][2] = 0 /\ ses[got[i - 1][1]].succ = got[i][1]
                           /\ got[i - 1][2] + 1 = Len(ses[got[i - 1][1]].log)
    BY <1>1 DEF TailContiguous, Unbroken
  <2>2. DOMAIN got = 1..Len(got) /\ Len(got) \in Nat
    BY <1>1 DEF Unbroken
  <2>3. i \in 1..Len(got) /\ i - 1 \in 1..Len(got)
    BY <2>2
  <2>4. Onward(ses, After(got[i - 1]), PlaceOf(got[i]))
    BY <1>1 DEF Unbroken
  <2>5. /\ PlaceOf(got[i]).s = got[i][1] /\ PlaceOf(got[i]).n = got[i][2]
        /\ After(got[i - 1]).s = got[i - 1][1] /\ After(got[i - 1]).n = got[i - 1][2] + 1
    BY <1>1, <2>3, UnbrokenPlaces
  <2> QED
    BY <2>4, <2>5 DEF Onward
<1>3. ExpiredMeansLost
  <2>1. SUFFICES ASSUME tc.st = "expired"
                 PROVE  \/ \E s \in tc.pos.s..Len(ses) : ses[s].disk # "whole"
                        \/ /\ ses[tc.pos.s].state # "active" /\ ses[tc.pos.s].succ = None
                           /\ tc.pos.n = Len(ses[tc.pos.s].log)
    BY DEF ExpiredMeansLost
  <2>2. ExpiredIn(ses, tc) /\ CursorIn(ses, tc.pos)
    BY <2>1, <1>1 DEF TailIn
  <2>3. tc.pos.s \in Nat /\ DOMAIN ses = 1..Len(ses) /\ Len(ses) \in Nat
    BY <2>2, <1>1 DEF CursorIn, CursorT
  <2>4. \A s \in DOMAIN ses : tc.pos.s <= s => s \in tc.pos.s..Len(ses)
    BY <2>3
  <2> QED
    BY <2>2, <2>4 DEF ExpiredIn, ActiveIn
<1> QED
  BY <1>2, <1>3, NeededKept DEF TailIsExact

(* A tail client is handed the records of the journal without a hole or a  *)
(* repetition, and its cursor expires only when what it led to is gone or  *)
(* was handed over to the end.                                             *)
THEOREM TailStaysExact == ReadersSpec => []TailIsExact
<1>1. ReadersInit => JInv /\ ChainInv /\ Needed /\ TailInv
  BY InitKeeps, InitChain, InitNeeded, InitTail DEF ReadersInit
<1>2. JInv /\ ChainInv /\ Needed /\ TailInv /\ [ReadersNext]_allVars
        => (JInv /\ ChainInv /\ Needed /\ TailInv)'
  BY ReadersLeaveJournal, StepTail
<1>3. JInv /\ ChainInv /\ Needed /\ TailInv => TailIsExact
  BY TailInvExact
<1> QED
  BY <1>1, <1>2, <1>3, PTL DEF ReadersSpec

-----------------------------------------------------------------------------
(***************************************************************************)
(* The records the Monitor reader reads in one session.                    *)
(***************************************************************************)
\* The place of n among the members of U, and the members of U in order.
Below(U, n) == {m \in U : m < n}
PlaceIn(U, n) == Cardinality(Below(U, n)) + 1
InOrder(U, s) ==
    [i \in 1..Cardinality(U) |-> <<s, CHOOSE n \in U : PlaceIn(U, n) = i>>]
UartAt(J, s, from, to) == {n \in from..to : n < to /\ EntryIn(J, s, n).t = "uart_rx"}

LEMMA UartInOrder ==
    ASSUME NEW s, NEW from, NEW to
    PROVE  UartIn(s, from, to) = InOrder(UartAt(ses, s, from, to), s)
  BY DEF UartIn, InOrder, UartAt, PlaceIn, Below, Entry, EntryIn

(* Places grow with the numbers, and every place is taken.                 *)
LEMMA PlacesGrow ==
    ASSUME NEW U \in SUBSET Nat, IsFiniteSet(U)
    PROVE  /\ Cardinality(U) \in Nat
           /\ \A n \in U : PlaceIn(U, n) \in 1..Cardinality(U)
           /\ \A m, n \in U : m < n => PlaceIn(U, m) < PlaceIn(U, n)
<1>1. Cardinality(U) \in Nat
  BY FS_CardinalityType
<1>2. ASSUME NEW n \in U
      PROVE  /\ IsFiniteSet(Below(U, n)) /\ Cardinality(Below(U, n)) \in Nat
             /\ PlaceIn(U, n) \in 1..Cardinality(U)
  <2>1. Below(U, n) \in SUBSET U /\ n \notin Below(U, n) /\ Below(U, n) # U
    BY DEF Below
  <2>2. /\ IsFiniteSet(Below(U, n)) /\ Cardinality(Below(U, n)) <= Cardinality(U)
        /\ Cardinality(U) = Cardinality(Below(U, n)) => U = Below(U, n)
    BY <2>1, FS_Subset
  <2>3. Cardinality(Below(U, n)) \in Nat
    BY <2>2, FS_CardinalityType
  <2>4. Cardinality(Below(U, n)) # Cardinality(U)
    BY <2>1, <2>2
  <2>5. PlaceIn(U, n) \in 1..Cardinality(U)
    BY <2>2, <2>3, <2>4, <1>1 DEF PlaceIn
  <2> QED
    BY <2>2, <2>3, <2>5
<1>3. ASSUME NEW m \in U, NEW n \in U, m < n PROVE PlaceIn(U, m) < PlaceIn(U, n)
  <2>1. m \in Nat /\ n \in Nat
    OBVIOUS
  <2>2. m \notin Below(U, m) /\ m \in Below(U, n)
    BY <2>1, <1>3 DEF Below
  <2>3. \A x \in Below(U, m) : x \in Below(U, n)
    <3>1. \A x \in Nat : x < m => x < n
      BY <2>1, <1>3
    <3> QED
      BY <3>1 DEF Below
  <2>4. Below(U, m) \in SUBSET Below(U, n) /\ Below(U, m) # Below(U, n)
    BY <2>2, <2>3
  <2>5. IsFiniteSet(Below(U, n))
    BY <1>2
  <2>6. /\ Cardinality(Below(U, m)) <= Cardinality(Below(U, n))
        /\ Cardinality(Below(U, n)) # Cardinality(Below(U, m))
    BY <2>4, <2>5, FS_Subset
  <2>7. Cardinality(Below(U, m)) \in Nat /\ Cardinality(Below(U, n)) \in Nat
    BY <1>2
  <2> QED
    BY <2>6, <2>7 DEF PlaceIn
<1> QED
  BY <1>1, <1>2, <1>3

LEMMA PlacesTaken ==
    ASSUME NEW U \in SUBSET Nat, IsFiniteSet(U), NEW i \in 1..Cardinality(U)
    PROVE  \E n \in U : PlaceIn(U, n) = i
<1> DEFINE N == Cardinality(U)
<1> DEFINE f == [n \in U |-> PlaceIn(U, n)]
<1>1. /\ N \in Nat /\ \A n \in U : PlaceIn(U, n) \in 1..N
      /\ \A m, n \in U : m < n => PlaceIn(U, m) < PlaceIn(U, n)
  BY PlacesGrow
<1>2. f \in [U -> 1..N]
  BY <1>1
<1>3. ASSUME NEW m \in U, NEW n \in U, f[m] = f[n] PROVE m = n
  <2>1. m \in Nat /\ n \in Nat /\ PlaceIn(U, m) = PlaceIn(U, n)
    BY <1>3
  <2>2. PlaceIn(U, m) \in Nat /\ PlaceIn(U, n) \in Nat
    BY <1>1
  <2>3. ~(m < n) /\ ~(n < m)
    BY <2>1, <2>2, <1>1
  <2> QED
    BY <2>1, <2>3
<1>4. f \in Injection(U, 1..N)
  BY <1>2, <1>3 DEF Injection, IsInjective
<1>5. IsFiniteSet(1..N) /\ Cardinality(1..N) = N
  BY <1>1, FS_Interval
<1>6. f \in Surjection(U, 1..N)
  BY <1>4, <1>5, FS_Injection
<1>7. \E n \in U : f[n] = i
  BY <1>6 DEF Surjection
<1> QED
  BY <1>7

LEMMA InOrderRecords ==
    ASSUME NEW U \in SUBSET Nat, IsFiniteSet(U), NEW s \in Nat
    PROVE  LET q == InOrder(U, s)
           IN  /\ q \in Seq(Nat \X Nat)
               /\ \A i \in 1..Len(q) : q[i][1] = s /\ q[i][2] \in U
               /\ \A n \in U : \E i \in 1..Len(q) : q[i] = <<s, n>>
               /\ \A i \in 2..Len(q) : q[i - 1][2] < q[i][2]
<1> DEFINE N == Cardinality(U)
<1> DEFINE at(i) == CHOOSE n \in U : PlaceIn(U, n) = i
<1> DEFINE q == InOrder(U, s)
<1>1. /\ N \in Nat /\ \A n \in U : PlaceIn(U, n) \in 1..N
      /\ \A m, n \in U : m < n => PlaceIn(U, m) < PlaceIn(U, n)
  BY PlacesGrow
<1>2. \A i \in 1..N : at(i) \in U /\ PlaceIn(U, at(i)) = i
  BY PlacesTaken
<1>3. q = [i \in 1..N |-> <<s, at(i)>>]
  BY DEF InOrder
<1> HIDE DEF at, q, N
<1>4. q \in Seq(Nat \X Nat) /\ Len(q) = N /\ \A i \in 1..N : q[i] = <<s, at(i)>>
  <2>1. \A i \in 1..N : <<s, at(i)>> \in Nat \X Nat
    BY <1>2
  <2> QED
    BY <2>1, <1>1, <1>3
<1>5. \A i \in 1..Len(q) : q[i][1] = s /\ q[i][2] \in U
  BY <1>2, <1>4
<1>6. ASSUME NEW n \in U PROVE \E i \in 1..Len(q) : q[i] = <<s, n>>
  <2> DEFINE i == PlaceIn(U, n)
  <2>1. i \in 1..N
    BY <1>1
  <2>2. at(i) \in U /\ PlaceIn(U, at(i)) = PlaceIn(U, n)
    BY <2>1, <1>2
  <2>3. at(i) \in Nat /\ n \in Nat /\ PlaceIn(U, n) \in Nat
    <3>1. at(i) \in Nat /\ n \in Nat
      BY <2>2
    <3>2. PlaceIn(U, n) \in 1..N
      BY <1>1
    <3> QED
      BY <3>1, <3>2
  <2>4. at(i) = n
    <3>1. ~(at(i) < n) /\ ~(n < at(i))
      BY <2>2, <2>3, <1>1
    <3> QED
      BY <3>1, <2>3
  <2> HIDE DEF i
  <2> QED
    BY <2>1, <2>4, <1>4
<1>7. ASSUME NEW i \in 2..Len(q) PROVE q[i - 1][2] < q[i][2]
  <2>1. i \in 1..N /\ i - 1 \in 1..N /\ i \in Nat
    BY <1>1, <1>4
  <2>2. /\ q[i][2] = at(i) /\ q[i - 1][2] = at(i - 1)
        /\ at(i) \in U /\ at(i - 1) \in U
    BY <2>1, <1>2, <1>4
  <2>3. PlaceIn(U, at(i)) = i /\ PlaceIn(U, at(i - 1)) = i - 1
    BY <2>1, <1>2
  <2>4. at(i) \in Nat /\ at(i - 1) \in Nat
    BY <2>2
  <2>5. at(i) # at(i - 1)
    BY <2>1, <2>3
  <2>6. ASSUME at(i) < at(i - 1) PROVE FALSE
    <3>1. PlaceIn(U, at(i)) < PlaceIn(U, at(i - 1))
      BY <2>2, <2>6, <1>1
    <3> QED
      BY <2>1, <2>3, <3>1
  <2> QED
    BY <2>2, <2>4, <2>5, <2>6
<1>8. /\ q \in Seq(Nat \X Nat)
      /\ \A i \in 1..Len(q) : q[i][1] = s /\ q[i][2] \in U
      /\ \A n \in U : \E i \in 1..Len(q) : q[i] = <<s, n>>
      /\ \A i \in 2..Len(q) : q[i - 1][2] < q[i][2]
  BY <1>4, <1>5, <1>6, <1>7
<1> QED
  BY <1>8 DEF q

LEMMA UartRead ==
    ASSUME NEW s \in Nat, NEW from \in Nat, NEW to \in Nat
    PROVE  LET q == UartIn(s, from, to)
               U == UartAt(ses, s, from, to)
           IN  /\ q \in Seq(Nat \X Nat)
               /\ \A i \in 1..Len(q) : q[i][1] = s /\ q[i][2] \in U
               /\ \A n \in U : \E i \in 1..Len(q) : q[i] = <<s, n>>
               /\ \A i \in 2..Len(q) : q[i - 1][2] < q[i][2]
<1> DEFINE U == UartAt(ses, s, from, to)
<1>1. U \in SUBSET Nat /\ U \in SUBSET (from..to)
  BY DEF UartAt
<1>2. IsFiniteSet(U)
  BY <1>1, FS_Interval, FS_Subset
<1> HIDE DEF U
<1>3. LET q == InOrder(U, s)
      IN  /\ q \in Seq(Nat \X Nat)
          /\ \A i \in 1..Len(q) : q[i][1] = s /\ q[i][2] \in U
          /\ \A n \in U : \E i \in 1..Len(q) : q[i] = <<s, n>>
          /\ \A i \in 2..Len(q) : q[i - 1][2] < q[i][2]
  BY <1>1, <1>2, InOrderRecords
<1> QED
  BY <1>3, UartInOrder DEF U

-----------------------------------------------------------------------------
(***************************************************************************)
(* Where the Monitor reader stands, and what it has seen.                  *)
(***************************************************************************)
RdT == [st : {"closed", "idle", "reading", "error"}, at : CursorT \union {None},
        start : CursorT \union {None}, end : CursorT \union {None}, seen : Seq(Nat \X Nat)]

\* The UART records from cursor a up to cursor b.
Wanted(J, a, b) ==
    {x \in Nat \X Nat :
        /\ a.s <= x[1] /\ x[1] <= b.s /\ x[2] < Len(J[x[1]].log)
        /\ EntryIn(J, x[1], x[2]).t = "uart_rx"
        /\ ~Before(x, <<a.s, a.n>>) /\ Before(x, <<b.s, b.n>>)}

(* The reader stands in a linked session, not past the recorder's, and the *)
(* tail it reads to lies ahead of it in another.                           *)
StandsIn(J, h, r) ==
    /\ CursorIn(J, r.start) /\ CursorIn(J, r.at) /\ r.start.s <= r.at.s
    /\ r.start.s = r.at.s => r.start.n <= r.at.n
    /\ r.at.s <= h /\ ~Orphan(J, r.at.s)
    /\ r.st # "idle" =>
          /\ CursorIn(J, r.end) /\ r.end.s <= h /\ ~Orphan(J, r.end.s) /\ r.at.s <= r.end.s
          /\ r.at.s = r.end.s => r.at.n <= r.end.n

SeesIn(J, r) ==
    /\ \A i \in 1..Len(r.seen) : r.seen[i] \in Wanted(J, r.start, r.at)
    /\ \A x \in Wanted(J, r.start, r.at) : \E i \in 1..Len(r.seen) : r.seen[i] = x
    /\ \A i \in 2..Len(r.seen) : Before(r.seen[i - 1], r.seen[i])

LEMMA CursorNumbers ==
    ASSUME NEW J \in Seq(SessionT), NEW c, CursorIn(J, c)
    PROVE  /\ c.s \in DOMAIN J /\ c.s \in Nat /\ c.s # None /\ c.n \in Nat
           /\ Len(J[c.s].log) \in Nat /\ c.n <= Len(J[c.s].log) /\ c = Cursor(c.s, c.n)
  BY Numbered DEF CursorIn, CursorT, Cursor

(* What the recorder adds comes after every position behind it.            *)
LEMMA WantedStays ==
    ASSUME NEW J \in Seq(SessionT), NEW K \in Seq(SessionT), Follows(J, K),
           NEW a, NEW b, CursorIn(J, a), CursorIn(J, b),
           \A s \in DOMAIN K : \A n \in 1..Len(K[s].log) :
               \/ s \in DOMAIN J /\ n <= Len(J[s].log)
               \/ K[s].log[n].t # "uart_rx" \/ b.s <= s
    PROVE  Wanted(K, a, b) = Wanted(J, a, b)
<1>1. /\ a.s \in Nat /\ a.s > 0 /\ b.s \in DOMAIN J /\ b.s \in Nat /\ b.n \in Nat
      /\ Len(J[b.s].log) \in Nat /\ b.n <= Len(J[b.s].log)
      /\ DOMAIN J = 1..Len(J) /\ Len(J) \in Nat
  <2>1. DOMAIN J = 1..Len(J) /\ Len(J) \in Nat
    OBVIOUS
  <2> QED
    BY <2>1, CursorNumbers
<1>2. ASSUME NEW x \in Nat \X Nat, a.s <= x[1], x[1] <= b.s, Before(x, <<b.s, b.n>>)
      PROVE  /\ x[1] \in DOMAIN J /\ x[1] \in DOMAIN K
             /\ Len(J[x[1]].log) \in Nat /\ Len(K[x[1]].log) \in Nat /\ x[2] \in Nat
             /\ Len(J[x[1]].log) <= Len(K[x[1]].log)
             /\ x[2] < Len(J[x[1]].log) => EntryIn(K, x[1], x[2]) = EntryIn(J, x[1], x[2])
             /\ b.s <= x[1] => x[2] < Len(J[x[1]].log)
  <2>1. x[1] \in Nat /\ x[2] \in Nat
    OBVIOUS
  <2>2. x[1] \in DOMAIN J
    BY <1>1, <1>2, <2>1
  <2>3. x[1] \in DOMAIN K /\ FollowsAt(J, K, x[1])
    BY <2>2 DEF Follows
  <2>4. Len(J[x[1]].log) \in Nat /\ Len(K[x[1]].log) \in Nat
    BY <2>2, <2>3, Numbered
  <2>5. ASSUME x[2] < Len(J[x[1]].log) PROVE EntryIn(K, x[1], x[2]) = EntryIn(J, x[1], x[2])
    <3>1. x[2] + 1 \in 1..Len(J[x[1]].log)
      BY <2>1, <2>4, <2>5
    <3> QED
      BY <2>3, <3>1 DEF FollowsAt, EntryIn
  <2>6. ASSUME b.s <= x[1] PROVE x[2] < Len(J[x[1]].log)
    <3>1. x[1] = b.s
      BY <1>1, <1>2, <2>1, <2>6
    <3>2. x[2] < b.n
      BY <3>1, <1>1, <1>2 DEF Before
    <3> QED
      BY <3>1, <3>2, <2>1, <1>1
  <2> QED
    BY <2>1, <2>2, <2>3, <2>4, <2>5, <2>6 DEF FollowsAt
<1>3. ASSUME NEW x \in Wanted(J, a, b) PROVE x \in Wanted(K, a, b)
  <2>1. /\ x \in Nat \X Nat /\ a.s <= x[1] /\ x[1] <= b.s /\ Before(x, <<b.s, b.n>>)
        /\ ~Before(x, <<a.s, a.n>>) /\ x[2] < Len(J[x[1]].log)
        /\ EntryIn(J, x[1], x[2]).t = "uart_rx"
    BY DEF Wanted
  <2>2. /\ Len(J[x[1]].log) \in Nat /\ Len(K[x[1]].log) \in Nat /\ x[2] \in Nat
        /\ Len(J[x[1]].log) <= Len(K[x[1]].log)
        /\ EntryIn(K, x[1], x[2]) = EntryIn(J, x[1], x[2])
    BY <2>1, <1>2
  <2>3. x[2] < Len(K[x[1]].log)
    BY <2>1, <2>2
  <2> QED
    BY <2>1, <2>2, <2>3 DEF Wanted
<1>4. ASSUME NEW x \in Wanted(K, a, b) PROVE x \in Wanted(J, a, b)
  <2>1. /\ x \in Nat \X Nat /\ a.s <= x[1] /\ x[1] <= b.s /\ Before(x, <<b.s, b.n>>)
        /\ ~Before(x, <<a.s, a.n>>) /\ x[2] < Len(K[x[1]].log)
        /\ EntryIn(K, x[1], x[2]).t = "uart_rx"
    BY DEF Wanted
  <2>2. /\ x[1] \in DOMAIN K /\ Len(J[x[1]].log) \in Nat /\ Len(K[x[1]].log) \in Nat
        /\ x[2] \in Nat /\ (b.s <= x[1] => x[2] < Len(J[x[1]].log))
        /\ x[2] < Len(J[x[1]].log) => EntryIn(K, x[1], x[2]) = EntryIn(J, x[1], x[2])
    BY <2>1, <1>2
  <2>3. x[2] + 1 \in 1..Len(K[x[1]].log) /\ K[x[1]].log[x[2] + 1].t = "uart_rx"
    BY <2>1, <2>2 DEF EntryIn
  <2>4. x[2] + 1 <= Len(J[x[1]].log) \/ b.s <= x[1]
    BY <2>2, <2>3
  <2>5. x[2] < Len(J[x[1]].log)
    BY <2>2, <2>4
  <2> QED
    BY <2>1, <2>2, <2>5 DEF Wanted
<1> QED
  BY <1>3, <1>4

RecordsAt(s, U) == {<<s, n>> : n \in U}

(* Reading on in the same session.                                         *)
HereTo(J, a, b, m) ==
    /\ CursorIn(J, a) /\ CursorIn(J, b) /\ a.s <= b.s /\ (a.s = b.s => a.n <= b.n)
    /\ m \in Nat /\ b.n <= m /\ m <= Len(J[b.s].log)

LEMMA WantedHere ==
    ASSUME NEW J \in Seq(SessionT), NEW a, NEW b, NEW m, HereTo(J, a, b, m)
    PROVE  Wanted(J, a, Cursor(b.s, m))
             = Wanted(J, a, b) \union RecordsAt(b.s, UartAt(J, b.s, b.n, m))
<1> DEFINE c == Cursor(b.s, m)
<1>0. /\ CursorIn(J, a) /\ CursorIn(J, b) /\ a.s <= b.s /\ (a.s = b.s => a.n <= b.n)
      /\ m \in Nat /\ b.n <= m /\ m <= Len(J[b.s].log)
  BY DEF HereTo
<1>1. /\ a.s \in Nat /\ a.n \in Nat /\ b.s \in Nat /\ b.n \in Nat /\ Len(J[b.s].log) \in Nat
      /\ c.s = b.s /\ c.n = m
  BY <1>0, CursorNumbers, CursorFields
<1> HIDE DEF c
<1>2. ASSUME NEW x \in Wanted(J, a, b) PROVE x \in Wanted(J, a, c)
  <2>1. x[1] \in Nat /\ x[2] \in Nat /\ Before(x, <<b.s, b.n>>)
    BY DEF Wanted
  <2>2. Before(x, <<b.s, m>>)
    BY <2>1, <1>0, <1>1 DEF Before
  <2> QED
    BY <1>0, <1>1, <2>2 DEF Wanted
<1>3. ASSUME NEW n \in UartAt(J, b.s, b.n, m), NEW x, x = <<b.s, n>>
      PROVE  x \in Wanted(J, a, c)
  <2>1. /\ n \in Nat /\ b.n <= n /\ n < m /\ EntryIn(J, b.s, n).t = "uart_rx"
        /\ x \in Nat \X Nat /\ x[1] = b.s /\ x[2] = n
    BY <1>0, <1>1, <1>3 DEF UartAt
  <2>2. n < Len(J[b.s].log)
    BY <2>1, <1>0, <1>1
  <2>3. ~Before(x, <<a.s, a.n>>) /\ Before(x, <<c.s, c.n>>)
    BY <2>1, <1>0, <1>1 DEF Before
  <2> QED
    BY <2>1, <2>2, <2>3, <1>0, <1>1 DEF Wanted
<1>4. ASSUME NEW x \in Wanted(J, a, c), x \notin Wanted(J, a, b)
      PROVE  \E n \in UartAt(J, b.s, b.n, m) : x = <<b.s, n>>
  <2>1. /\ x \in Nat \X Nat /\ x[1] \in Nat /\ x[2] \in Nat /\ x = <<x[1], x[2]>>
        /\ Before(x, <<b.s, m>>) /\ ~Before(x, <<b.s, b.n>>)
        /\ EntryIn(J, x[1], x[2]).t = "uart_rx"
    BY <1>0, <1>1, <1>4 DEF Wanted
  <2>2. x[1] = b.s /\ b.n <= x[2] /\ x[2] < m
    BY <2>1, <1>0, <1>1 DEF Before
  <2>3. x[2] \in UartAt(J, b.s, b.n, m)
    BY <2>1, <2>2, <1>0, <1>1 DEF UartAt
  <2> QED
    BY <2>1, <2>2, <2>3
<1>5. Wanted(J, a, c) = Wanted(J, a, b) \union RecordsAt(b.s, UartAt(J, b.s, b.n, m))
  BY <1>2, <1>3, <1>4 DEF RecordsAt
<1> QED
  BY <1>5 DEF c

(* Going on to the successor: the sessions in between hold no UART record. *)
LEMMA WantedOn ==
    ASSUME NEW J \in Seq(SessionT), QuietIn(J), NEW a, NEW b, CursorIn(J, a), CursorIn(J, b),
           a.s <= b.s, b.n = Len(J[b.s].log), NEW q \in DOMAIN J, b.s < q,
           \A y \in DOMAIN J : b.s < y /\ y < q => Orphan(J, y)
    PROVE  Wanted(J, a, Cursor(q, 0)) = Wanted(J, a, b)
<1> DEFINE c == Cursor(q, 0)
<1>1. /\ a.s \in Nat /\ b.s \in DOMAIN J /\ b.s \in Nat /\ b.n \in Nat
      /\ q \in Nat /\ c.s = q /\ c.n = 0 /\ DOMAIN J = 1..Len(J) /\ Len(J) \in Nat
  <2>1. DOMAIN J = 1..Len(J) /\ Len(J) \in Nat
    OBVIOUS
  <2> QED
    BY <2>1, CursorNumbers, CursorFields
<1> HIDE DEF c
<1>2. ASSUME NEW x \in Wanted(J, a, b) PROVE x \in Wanted(J, a, c)
  <2>1. x[1] \in Nat /\ x[2] \in Nat /\ x[1] <= b.s
    BY DEF Wanted
  <2>2. x[1] <= q /\ Before(x, <<q, 0>>)
    BY <2>1, <1>1 DEF Before
  <2> QED
    BY <1>1, <2>2 DEF Wanted
<1>3. ASSUME NEW x \in Wanted(J, a, c) PROVE x \in Wanted(J, a, b)
  <2>1. /\ x \in Nat \X Nat /\ x[1] \in Nat /\ x[2] \in Nat /\ a.s <= x[1] /\ x[1] <= q
        /\ x[2] < Len(J[x[1]].log) /\ EntryIn(J, x[1], x[2]).t = "uart_rx"
        /\ ~Before(x, <<a.s, a.n>>) /\ Before(x, <<q, 0>>)
    BY <1>1 DEF Wanted
  <2>2. x[1] < q
    BY <2>1, <1>1 DEF Before
  <2>3. x[1] <= b.s
    <3>1. SUFFICES ASSUME b.s < x[1] PROVE FALSE
      BY <2>1, <1>1
    <3>2. x[1] \in DOMAIN J
      BY <3>1, <2>1, <2>2, <1>1
    <3>3. Orphan(J, x[1])
      BY <3>1, <3>2, <2>2
    <3>4. x[2] + 1 \in 1..Len(J[x[1]].log)
      BY <2>1, <3>2, Numbered
    <3> QED
      BY <3>2, <3>3, <3>4, <2>1 DEF QuietIn, EntryIn
  <2>4. Before(x, <<b.s, b.n>>)
    BY <2>1, <2>3, <1>1 DEF Before
  <2> QED
    BY <2>1, <2>3, <2>4 DEF Wanted
<1>4. Wanted(J, a, c) = Wanted(J, a, b)
  BY <1>2, <1>3
<1> QED
  BY <1>4 DEF c

(* The records read are seen too.                                          *)
LEMMA SeesMore ==
    ASSUME ses \in Seq(SessionT), NEW r \in RdT, SeesIn(ses, r), NEW u \in RdT,
           CursorIn(ses, r.start), CursorIn(ses, r.at), r.start.s <= r.at.s,
           r.start.s = r.at.s => r.start.n <= r.at.n,
           NEW m \in Nat, r.at.n <= m, m <= Len(ses[r.at.s].log),
           u.start = r.start, u.at = Cursor(r.at.s, m),
           u.seen = r.seen \o UartIn(r.at.s, r.at.n, m)
    PROVE  SeesIn(ses, u)
<1> DEFINE p == r.seen
<1> DEFINE q == UartIn(r.at.s, r.at.n, m)
<1> DEFINE U == UartAt(ses, r.at.s, r.at.n, m)
<1> DEFINE s == r.at.s
<1>1. s \in Nat /\ r.at.n \in Nat /\ p \in Seq(Nat \X Nat)
  BY CursorNumbers DEF RdT
<1>2. /\ q \in Seq(Nat \X Nat)
      /\ \A i \in 1..Len(q) : q[i][1] = s /\ q[i][2] \in U
      /\ \A n \in U : \E i \in 1..Len(q) : q[i] = <<s, n>>
      /\ \A i \in 2..Len(q) : q[i - 1][2] < q[i][2]
  BY <1>1, UartRead
<1>3. /\ \A i \in 1..Len(p) : p[i] \in Wanted(ses, r.start, r.at)
      /\ \A x \in Wanted(ses, r.start, r.at) : \E i \in 1..Len(p) : p[i] = x
      /\ \A i \in 2..Len(p) : Before(p[i - 1], p[i])
  BY DEF SeesIn
<1>4. \A x : x \in Wanted(ses, u.start, u.at) <=>
                \/ x \in Wanted(ses, r.start, r.at)
                \/ \E n \in U : x = <<s, n>>
  <2>1. Wanted(ses, r.start, Cursor(r.at.s, m))
          = Wanted(ses, r.start, r.at) \union RecordsAt(r.at.s, UartAt(ses, r.at.s, r.at.n, m))
    <3>1. HereTo(ses, r.start, r.at, m)
      BY DEF HereTo
    <3> QED
      BY <3>1, WantedHere
  <2> QED
    BY <2>1 DEF RecordsAt
<1>5. \A n \in U : n \in Nat /\ r.at.n <= n
  BY <1>1 DEF UartAt
<1>6. \A x \in Wanted(ses, r.start, r.at) :
          x[1] \in Nat /\ x[2] \in Nat /\ Before(x, <<s, r.at.n>>)
  BY DEF Wanted
<1>7. u.seen = p \o q
  OBVIOUS
<1> HIDE DEF p, q, U, s
<1> DEFINE w == p \o q
<1>8. /\ Len(p) \in Nat /\ Len(q) \in Nat
      /\ w \in Seq(Nat \X Nat) /\ Len(w) = Len(p) + Len(q)
      /\ \A i \in 1..Len(p) : w[i] = p[i]
      /\ \A i \in 1..Len(q) : w[Len(p) + i] = q[i]
  BY <1>1, <1>2, JoinedPlaces
<1> HIDE DEF w
<1>0. Len(p) \in Nat /\ Len(q) \in Nat /\ Len(w) = Len(p) + Len(q) /\ Len(w) \in Nat
  BY <1>8
<1>9. \A i \in 1..Len(q) : q[i] = <<s, q[i][2]>>
  <2>1. ASSUME NEW i \in 1..Len(q) PROVE q[i] = <<s, q[i][2]>>
    <3>1. q[i] \in Nat \X Nat /\ q[i][1] = s
      BY <1>2
    <3> QED
      BY <3>1
  <2> QED
    BY <2>1
<1>10. ASSUME NEW i \in 1..Len(w)
       PROVE  i \in 1..Len(p) \/ (i - Len(p) \in 1..Len(q) /\ i = Len(p) + (i - Len(p)))
  BY <1>8
<1>11. ASSUME NEW i \in 1..Len(w) PROVE w[i] \in Wanted(ses, u.start, u.at)
  <2>1. CASE i \in 1..Len(p)
    BY <2>1, <1>3, <1>4, <1>8
  <2>2. CASE i - Len(p) \in 1..Len(q) /\ i = Len(p) + (i - Len(p))
    <3> DEFINE j == i - Len(p)
    <3>1. j \in 1..Len(q) /\ i = Len(p) + j
      BY <2>2
    <3> HIDE DEF j
    <3>2. w[i] = q[j] /\ q[j] = <<s, q[j][2]>> /\ q[j][2] \in U
      BY <3>1, <1>2, <1>8, <1>9
    <3> QED
      BY <3>2, <1>4
  <2> QED
    BY <2>1, <2>2, <1>10
<1>12. ASSUME NEW x \in Wanted(ses, u.start, u.at) PROVE \E i \in 1..Len(w) : w[i] = x
  <2>1. CASE x \in Wanted(ses, r.start, r.at)
    <3>1. PICK i \in 1..Len(p) : p[i] = x
      BY <2>1, <1>3
    <3>2. i \in 1..Len(w) /\ w[i] = x
      BY <3>1, <1>8
    <3> QED
      BY <3>2
  <2>2. CASE \E n \in U : x = <<s, n>>
    <3>1. PICK i \in 1..Len(q) : q[i] = x
      BY <2>2, <1>2
    <3>2. Len(p) + i \in 1..Len(w)
      BY <1>0
    <3>3. w[Len(p) + i] = x
      BY <3>1, <1>8
    <3> QED
      BY <3>2, <3>3
  <2> QED
    BY <2>1, <2>2, <1>4
<1>13. ASSUME NEW i \in 2..Len(w) PROVE Before(w[i - 1], w[i])
  <2>1. i \in Nat /\ i - 1 \in 1..Len(w) /\ i \in 1..Len(w) /\ i <= Len(p) + Len(q)
    BY <1>0
  <2>2. CASE i <= Len(p)
    <3>1. i \in 2..Len(p) /\ i \in 1..Len(p) /\ i - 1 \in 1..Len(p)
      BY <2>1, <2>2, <1>8
    <3>2. w[i] = p[i] /\ w[i - 1] = p[i - 1]
      BY <3>1, <1>8
    <3> QED
      BY <3>1, <3>2, <1>3
  <2>3. CASE i = Len(p) + 1
    <3>1. Len(p) \in 1..Len(p) /\ 1 \in 1..Len(q) /\ i - 1 = Len(p)
      BY <2>1, <2>3, <1>8
    <3>2. w[i] = q[1] /\ w[i - 1] = p[Len(p)]
      BY <2>3, <3>1, <1>8
    <3> DEFINE x == p[Len(p)]
    <3> DEFINE y == q[1]
    <3>3. x[1] \in Nat /\ x[2] \in Nat /\ Before(x, <<s, r.at.n>>)
      BY <3>1, <1>3, <1>6
    <3>4. y[1] = s /\ y[2] \in Nat /\ r.at.n <= y[2]
      BY <3>1, <1>2, <1>5
    <3> HIDE DEF x, y
    <3>5. Before(x, y)
      BY <3>3, <3>4, <1>1 DEF Before
    <3> QED
      BY <3>2, <3>5 DEF x, y
  <2>4. CASE i > Len(p) + 1
    <3> DEFINE j == i - Len(p)
    <3>1. /\ j \in 2..Len(q) /\ j \in 1..Len(q) /\ j - 1 \in 1..Len(q)
          /\ i = Len(p) + j /\ i - 1 = Len(p) + (j - 1)
      BY <2>1, <2>4, <1>0
    <3> HIDE DEF j
    <3>2. w[i] = q[j] /\ w[i - 1] = q[j - 1]
      BY <3>1, <1>8
    <3>3. q[j][1] = s /\ q[j - 1][1] = s /\ q[j - 1][2] < q[j][2]
      BY <3>1, <1>2
    <3> QED
      BY <3>2, <3>3 DEF Before
  <2> QED
    BY <2>1, <2>2, <2>3, <2>4, <1>0
<1>14. u.seen = w
  BY <1>7 DEF w
<1> QED
  BY <1>11, <1>12, <1>13, <1>14 DEF SeesIn

(* One turn of read_to: the reader stands and has seen as before, or finds *)
(* a session that is not there, or one that leads nowhere.                 *)
TurnFails(J, r) ==
    \/ J[r.at.s].disk # "whole"
    \/ r.at.s # r.end.s /\ J[r.at.s].succ = None

LEMMA ReadTurnExact ==
    ASSUME ses \in Seq(SessionT), SessionsIn(ses), ChainIn(ses), NEW h \in Nat, NEW r \in RdT,
           r.st = "reading", StandsIn(ses, h, r), SeesIn(ses, r)
    PROVE  LET q == ReadTurn(r)
           IN  /\ q \in RdT /\ q.start = r.start /\ q.end = r.end /\ q.st # "closed"
               /\ StandsIn(ses, h, q)
               /\ q.st \in {"idle", "reading"} => SeesIn(ses, q)
               /\ q.st = "error" => TurnFails(ses, r)
<1> DEFINE s == r.at.s
<1> DEFINE m == SessionEnd(r)
<1> DEFINE more == r.seen \o UartIn(s, r.at.n, m)
<1>1. /\ CursorIn(ses, r.start) /\ CursorIn(ses, r.at) /\ CursorIn(ses, r.end)
      /\ r.start.s <= s /\ (r.start.s = s => r.start.n <= r.at.n)
      /\ s <= h /\ ~Orphan(ses, s) /\ r.end.s <= h /\ ~Orphan(ses, r.end.s)
      /\ s <= r.end.s /\ (s = r.end.s => r.at.n <= r.end.n)
  BY DEF StandsIn
<1>2. /\ s \in DOMAIN ses /\ s \in Nat /\ r.at.n \in Nat /\ Len(ses[s].log) \in Nat
      /\ r.at.n <= Len(ses[s].log) /\ r.start.s \in Nat /\ r.start.n \in Nat
      /\ r.end.s \in DOMAIN ses /\ r.end.s \in Nat /\ r.end.n \in Nat
      /\ r.end.n <= Len(ses[r.end.s].log) /\ r.end = Cursor(r.end.s, r.end.n)
      /\ r.at \in CursorT /\ r.end \in CursorT
  BY <1>1, CursorNumbers DEF CursorIn
<1>3. /\ m \in Nat /\ r.at.n <= m /\ m <= Len(ses[s].log)
      /\ s = r.end.s => m = r.end.n
      /\ s # r.end.s => m = Len(ses[s].log)
  BY <1>1, <1>2 DEF SessionEnd
<1>4. ReadTurn(r) = IF ses[s].disk # "whole" \/ m < r.at.n THEN [r EXCEPT !.st = "error"]
                    ELSE IF s = r.end.s THEN [r EXCEPT !.seen = more, !.st = "idle", !.at = r.end]
                    ELSE IF ses[s].succ = None THEN [r EXCEPT !.seen = more, !.st = "error"]
                    ELSE [r EXCEPT !.seen = more, !.at = Cursor(ses[s].succ, 0)]
  BY DEF ReadTurn, RdT
<1>5. ~(m < r.at.n)
  BY <1>2, <1>3
<1>6. more \in Seq(Nat \X Nat)
  <2> HIDE DEF m
  <2>1. UartIn(s, r.at.n, m) \in Seq(Nat \X Nat)
    <3> DEFINE n == r.at.n
    <3>1. s \in Nat /\ n \in Nat /\ m \in Nat
      BY <1>2, <1>3
    <3> HIDE DEF s, n
    <3>2. UartIn(s, n, m) \in Seq(Nat \X Nat)
      BY <3>1, UartRead
    <3> QED
      BY <3>2 DEF s, n
  <2>2. r.seen \in Seq(Nat \X Nat)
    BY DEF RdT
  <2> QED
    BY <2>1, <2>2, JoinedPlaces
<1>7. ASSUME NEW u \in RdT, u.start = r.start, u.at = Cursor(s, m), u.seen = more
      PROVE  SeesIn(ses, u)
  BY <1>1, <1>2, <1>3, <1>7, SeesMore
<1>8. ASSUME NEW c \in CursorT
      PROVE  /\ [r EXCEPT !.seen = more, !.st = "idle", !.at = c] \in RdT
             /\ [r EXCEPT !.seen = more, !.at = c] \in RdT
  BY <1>6 DEF RdT
<1> HIDE DEF m, more
<1>9. CASE ses[s].disk # "whole"
  <2>1. ReadTurn(r) = [r EXCEPT !.st = "error"]
    BY <1>4, <1>9
  <2> DEFINE q == ReadTurn(r)
  <2>2. /\ q \in RdT /\ q.start = r.start /\ q.end = r.end /\ q.at = r.at /\ q.st = "error"
    BY <2>1 DEF RdT
  <2> HIDE DEF q
  <2>3. StandsIn(ses, h, q)
    BY <2>2 DEF StandsIn
  <2> QED
    BY <2>2, <2>3, <1>9 DEF TurnFails, q
<1>10. CASE ses[s].disk = "whole" /\ s = r.end.s
  <2>1. ReadTurn(r) = [r EXCEPT !.seen = more, !.st = "idle", !.at = r.end]
    BY <1>4, <1>5, <1>10
  <2> DEFINE q == ReadTurn(r)
  <2>2. /\ q.start = r.start /\ q.end = r.end /\ q.at = r.end /\ q.st = "idle" /\ q.seen = more
    BY <2>1 DEF RdT
  <2>3. q \in RdT
    BY <2>1, <1>2, <1>8
  <2> HIDE DEF q
  <2>4. q.at = Cursor(s, m) /\ r.end.s = s /\ r.at.n <= r.end.n
    BY <2>2, <1>1, <1>2, <1>3, <1>10
  <2>5. SeesIn(ses, q)
    BY <2>2, <2>3, <2>4, <1>7
  <2>6. StandsIn(ses, h, q)
    BY <2>2, <2>4, <1>1, <1>2 DEF StandsIn
  <2> QED
    BY <2>2, <2>3, <2>5, <2>6 DEF q
<1>11. CASE ses[s].disk = "whole" /\ s # r.end.s /\ ses[s].succ = None
  <2>1. ReadTurn(r) = [r EXCEPT !.seen = more, !.st = "error"]
    BY <1>4, <1>5, <1>11
  <2> DEFINE q == ReadTurn(r)
  <2>2. /\ q \in RdT /\ q.start = r.start /\ q.end = r.end /\ q.at = r.at /\ q.st = "error"
    BY <2>1, <1>6 DEF RdT
  <2> HIDE DEF q
  <2>3. StandsIn(ses, h, q)
    BY <2>2 DEF StandsIn
  <2> QED
    BY <2>2, <2>3, <1>11 DEF TurnFails, q
<1>12. CASE ses[s].disk = "whole" /\ s # r.end.s /\ ses[s].succ # None
  <2> DEFINE g == ses[s].succ
  <2>1. /\ g \in DOMAIN ses /\ g \in Nat /\ ses[g].pred = s /\ Len(ses[g].log) \in Nat
        /\ \A x \in DOMAIN ses : s < x /\ x < g => Orphan(ses, x)
    BY <1>2, <1>12, Numbered DEF SessionsIn, ChainIn, LinksIn
  <2>2. s < g /\ ~Orphan(ses, g)
    <3>1. PredsIn(ses) /\ s # None
      BY <1>1, CursorNumbers DEF ChainIn
    <3>2. s < g
      BY <3>1, <2>1 DEF PredsIn
    <3>3. ses[ses[g].pred].succ = g
      BY <2>1
    <3> QED
      BY <3>2, <3>3 DEF Orphan
  <2>3. g <= r.end.s
    <3>1. ~(s < r.end.s /\ r.end.s < g)
      BY <2>1, <1>1, <1>2
    <3> QED
      BY <3>1, <2>1, <1>1, <1>2, <1>12
  <2>4. /\ Cursor(g, 0).s = g /\ Cursor(g, 0).n = 0 /\ Cursor(g, 0) \in CursorT
        /\ Cursor(s, m).s = s /\ Cursor(s, m).n = m /\ Cursor(s, m) \in CursorT
    BY <2>1, <1>2, <1>3, CursorFields
  <2>5. ReadTurn(r) = [r EXCEPT !.seen = more, !.at = Cursor(g, 0)]
    BY <1>4, <1>5, <1>12
  <2> DEFINE q == ReadTurn(r)
  <2> DEFINE u == [r EXCEPT !.seen = more, !.at = Cursor(s, m)]
  <2>6. /\ q.start = r.start /\ q.end = r.end /\ q.at = Cursor(g, 0) /\ q.st = "reading"
        /\ q.seen = more
        /\ u.start = r.start /\ u.at = Cursor(s, m) /\ u.seen = more
    BY <2>5 DEF RdT
  <2>7. q \in RdT /\ u \in RdT
    BY <2>4, <2>5, <1>8
  <2> HIDE DEF q, u, g
  <2>8. SeesIn(ses, u)
    BY <2>6, <2>7, <1>7
  <2>9. Wanted(ses, r.start, Cursor(g, 0)) = Wanted(ses, r.start, Cursor(s, m))
    <3>1. CursorIn(ses, Cursor(s, m)) /\ m = Len(ses[s].log) /\ QuietIn(ses)
      BY <2>4, <1>2, <1>3, <1>12 DEF CursorIn, ChainIn
    <3> DEFINE b == Cursor(s, m)
    <3>2. b.s = s /\ b.n = m
      BY <2>4
    <3> HIDE DEF b
    <3>3. CursorIn(ses, b) /\ b.n = Len(ses[b.s].log) /\ b.s < g /\ r.start.s <= b.s
      BY <3>1, <3>2, <2>2, <1>1 DEF b
    <3>4. \A y \in DOMAIN ses : b.s < y /\ y < g => Orphan(ses, y)
      BY <3>2, <2>1
    <3>5. Wanted(ses, r.start, Cursor(g, 0)) = Wanted(ses, r.start, b)
      BY <3>1, <3>3, <3>4, <2>1, <1>1, WantedOn
    <3> QED
      BY <3>5 DEF b
  <2>10. SeesIn(ses, q)
    BY <2>6, <2>8, <2>9 DEF SeesIn
  <2>11. CursorIn(ses, Cursor(g, 0))
    BY <2>1, <2>4 DEF CursorIn
  <2>12. StandsIn(ses, h, q)
    <3>1. /\ r.start.s <= g /\ r.start.s # g /\ g <= h /\ (g = r.end.s => 0 <= r.end.n)
      BY <2>1, <2>2, <2>3, <1>1, <1>2
    <3> QED
      BY <3>1, <2>2, <2>3, <2>4, <2>6, <2>11, <1>1 DEF StandsIn
  <2> QED
    BY <2>6, <2>7, <2>10, <2>12 DEF q
<1> QED
  BY <1>9, <1>10, <1>11, <1>12

-----------------------------------------------------------------------------
(***************************************************************************)
(* Where a reader stands while its operation's evidence is leased.         *)
(***************************************************************************)
ReadingAs(J, h, L, r) ==
    r.st # "closed" =>
        /\ L # {} /\ h # None /\ StandsIn(J, h, r)
        /\ r.st \in {"idle", "reading"} => SeesIn(J, r)
PlaceInv ==
    /\ rd \in [Ops -> RdT]
    /\ \A op \in Ops : ReadingAs(ses, handle, lease[op], rd[op])

(* What becomes of the leases of an operation.                             *)
Begins(op) == AppendUnit /\ job.unit.t = "operation_started" /\ job.unit.id = op
Completed(op) == AppendUnit /\ job.unit.t = "operation_terminal" /\ job.unit.id = op
LeaseMoves(op) ==
    \/ lease'[op] = lease[op] /\ ~Begins(op) /\ (Completed(op) => lease[op] = {})
    \/ lease'[op] = {}
    \/ Begins(op) /\ lease'[op] = {job.pred}
    \/ Completed(op) /\ lease[op] # {}
       /\ lease'[op] = lease[op] \union RangeSessions(ses[job.pred].ops[op])

LEMMA LeasesMove ==
    ASSUME JInv, JournalNext, NEW op \in Ops
    PROVE  LeaseMoves(op)
<1>1. lease \in [Ops -> SUBSET DOMAIN ses]
  BY DEF JInv, Types
<1>2. CASE AppendUnit
  <2> DEFINE u == job.unit
  <2>1. lease' = LeasesAfter(u, job.pred, ses[job.pred])
    BY <1>2 DEF AppendUnit
  <2>2. CASE u.t = "operation_started"
    <3>1. lease' = [lease EXCEPT ![u.id] = {job.pred}]
      BY <2>1, <2>2 DEF LeasesAfter
    <3> QED
      BY <3>1, <2>2, <1>1, <1>2 DEF LeaseMoves, Begins, Completed
  <2>3. CASE u.t = "operation_terminal"
    <3> DEFINE R == RangeSessions(ses[job.pred].ops[u.id])
    <3>1. lease' = [lease EXCEPT ![u.id] = IF lease[u.id] = {} THEN lease[u.id] ELSE lease[u.id] \union R]
      BY <2>1, <2>3 DEF LeasesAfter, TerminalSessions
    <3>2. ~Begins(op)
      BY <2>3 DEF Begins
    <3>3. CASE u.id = op
      <4>1. lease'[op] = IF lease[op] = {} THEN lease[op] ELSE lease[op] \union R
        BY <3>1, <3>3, <1>1
      <4>2. Completed(op)
        BY <3>3, <2>3, <1>2 DEF Completed
      <4> QED
        BY <4>1, <4>2, <3>2, <3>3 DEF LeaseMoves
    <3>4. CASE u.id # op
      <4>1. lease'[op] = lease[op] /\ ~Completed(op)
        BY <3>1, <3>4, <1>1 DEF Completed
      <4> QED
        BY <4>1, <3>2 DEF LeaseMoves
    <3> QED
      BY <3>3, <3>4
  <2>4. CASE u.t # "operation_started" /\ u.t # "operation_terminal"
    <3>1. lease' = lease
      BY <2>1, <2>4 DEF LeasesAfter
    <3> QED
      BY <3>1, <2>4 DEF LeaseMoves, Begins, Completed
  <2> QED
    BY <2>2, <2>3, <2>4
<1>3. CASE ~AppendUnit
  <2>1. ~Begins(op) /\ ~Completed(op)
    BY <1>3 DEF Begins, Completed
  <2>2. CASE CloseReader
    <3>1. PICK o \in Ops : lease' = [lease EXCEPT ![o] = {}]
      BY <2>2 DEF CloseReader
    <3>2. lease'[op] = lease[op] \/ lease'[op] = {}
      BY <3>1, <1>1
    <3> QED
      BY <3>2, <2>1 DEF LeaseMoves
  <2>3. CASE Restart
    <3>1. lease'[op] = {}
      BY <2>3 DEF Restart
    <3> QED
      BY <3>1 DEF LeaseMoves
  <2>4. CASE ~CloseReader /\ ~Restart
    <3>1. lease' = lease
      BY <2>4, <1>3 DEF JournalNext, RecoverSession, RecoveryDone, RecoveryFails, CreateFirst,
         Offer, AppendFails, FindEnded, InputError, FailSession, RolloverCreate,
         RolloverAnnounce, RolloverContinue, RolloverLink, RolloverFails, Sweep, SweepFails,
         MarkBaseline, ClearBaseline, Shutdown
    <3> QED
      BY <3>1, <2>1 DEF LeaseMoves
  <2> QED
    BY <2>2, <2>3, <2>4
<1> QED
  BY <1>2, <1>3

(* While a reader's lease lasts, the recorder's handle moves on, and only  *)
(* sessions no earlier than it are written.                                *)
LEMMA HandleMovesOn ==
    ASSUME JInv, ChainInv, Needed, JournalNext, NEW op \in Ops,
           lease[op] # {}, lease'[op] # {}, handle # None
    PROVE  /\ handle \in DOMAIN ses /\ handle \in Nat
           /\ handle' \in DOMAIN ses' /\ handle' # None /\ handle' \in Nat /\ handle <= handle'
           /\ ~CreateFirst
           /\ handle' = handle \/ (handle' = Tip /\ TipActive)
           /\ \A s \in DOMAIN ses' : \A n \in 1..Len(ses'[s].log) :
                 \/ s \in DOMAIN ses /\ n <= Len(ses[s].log)
                 \/ ses'[s].log[n].t # "uart_rx" \/ handle <= s
<1>1. /\ JInv' /\ ChainInv' /\ Needed' /\ Moves
  BY StepKeeps, StepChain, StepNeeded
<1>2. handle \in DOMAIN ses /\ handle \in Nat
  BY NamesAreNumbers DEF JInv, Types
<1>3. phase' \in {"running", "failing", "stopped"}
  BY <1>1 DEF Needed, JInv, Types
<1>4. handle' \in DOMAIN ses' /\ ses' \in Seq(SessionT)
  BY <1>1, <1>3 DEF JInv, JobOK, Types
<1>5. handle' # None /\ handle' \in Nat
  BY <1>4, Numbered
<1>6. ~CreateFirst
  BY DEF Needed, CreateFirst
<1>7. TipActive => handle <= Tip /\ Tip \in Nat
  BY TipExists DEF TipActive, ChainInv, TipFirm
<1>8. handle' = handle \/ (handle' = Tip /\ TipActive)
  <2>1. CASE StaysAtTip
    BY <2>1, <1>5 DEF StaysAtTip
  <2>2. CASE RolloverLink
    BY <2>2 DEF RolloverLink
  <2> QED
    BY <2>1, <2>2, <1>1, <1>6 DEF Moves
<1>9. handle <= handle'
  BY <1>2, <1>7, <1>8
<1>10. ASSUME NEW s \in DOMAIN ses', NEW n \in 1..Len(ses'[s].log)
       PROVE  \/ s \in DOMAIN ses /\ n <= Len(ses[s].log)
              \/ ses'[s].log[n].t # "uart_rx" \/ handle <= s
  BY <1>1, <1>7 DEF Moves, UartAtTip
<1> QED
  BY <1>2, <1>4, <1>5, <1>6, <1>8, <1>9, <1>10

(* A reader that stays open stands and has seen as before.                 *)
LEMMA ReadingStays ==
    ASSUME NEW J \in Seq(SessionT), NEW K \in Seq(SessionT), Follows(J, K), PredsIn(J),
           NEW h \in Nat, NEW k \in Nat, h <= k, NEW r, r.st # "closed", StandsIn(J, h, r),
           \A s \in DOMAIN K : \A n \in 1..Len(K[s].log) :
               \/ s \in DOMAIN J /\ n <= Len(J[s].log)
               \/ K[s].log[n].t # "uart_rx" \/ h <= s
    PROVE  /\ StandsIn(K, k, r)
           /\ SeesIn(J, r) => SeesIn(K, r)
<1>1. /\ CursorIn(J, r.start) /\ CursorIn(J, r.at) /\ r.start.s <= r.at.s
      /\ r.start.s = r.at.s => r.start.n <= r.at.n
      /\ r.at.s <= h /\ ~Orphan(J, r.at.s)
      /\ r.st # "idle" =>
            /\ CursorIn(J, r.end) /\ r.end.s <= h /\ ~Orphan(J, r.end.s) /\ r.at.s <= r.end.s
            /\ r.at.s = r.end.s => r.at.n <= r.end.n
  BY DEF StandsIn
<1>2. /\ CursorIn(K, r.start) /\ CursorIn(K, r.at)
      /\ r.st # "idle" => CursorIn(K, r.end)
  BY <1>1, CursorStays
<1>3. /\ r.at.s \in DOMAIN J /\ r.at.s # None /\ r.at.s \in Nat
      /\ r.st # "idle" => r.end.s \in DOMAIN J /\ r.end.s # None /\ r.end.s \in Nat
  BY <1>1, CursorNumbers
<1>4. /\ ~Orphan(K, r.at.s)
      /\ r.st # "idle" => ~Orphan(K, r.end.s)
  BY <1>1, <1>3, FollowsLinked
<1>5. r.at.s <= k /\ (r.st # "idle" => r.end.s <= k)
  BY <1>1, <1>3
<1>6. StandsIn(K, k, r)
  BY <1>1, <1>2, <1>4, <1>5 DEF StandsIn
<1>7. ASSUME NEW s \in DOMAIN K, NEW n \in 1..Len(K[s].log)
      PROVE  \/ s \in DOMAIN J /\ n <= Len(J[s].log)
             \/ K[s].log[n].t # "uart_rx" \/ r.at.s <= s
  <2>1. s \in Nat
    BY Numbered
  <2> QED
    BY <2>1, <1>1, <1>3
<1>8. Wanted(K, r.start, r.at) = Wanted(J, r.start, r.at)
  BY <1>1, <1>7, WantedStays
<1>9. SeesIn(J, r) => SeesIn(K, r)
  BY <1>8 DEF SeesIn
<1> QED
  BY <1>6, <1>9

(* A reader that is opened has nothing to see yet.                         *)
LEMMA ReadingOpens ==
    ASSUME NEW J \in Seq(SessionT), NEW h \in DOMAIN J, ~Orphan(J, h), NEW r \in RdT,
           r.st = "idle", r.at = Cursor(h, Len(J[h].log)), r.start = r.at, r.seen = <<>>
    PROVE  StandsIn(J, h, r) /\ SeesIn(J, r)
<1>1. /\ h \in Nat /\ Len(J[h].log) \in Nat
      /\ r.at.s = h /\ r.at.n = Len(J[h].log) /\ r.at \in CursorT
  BY Numbered, CursorFields
<1>2. CursorIn(J, r.at)
  BY <1>1 DEF CursorIn
<1>3. StandsIn(J, h, r)
  BY <1>1, <1>2 DEF StandsIn
<1>4. Wanted(J, r.start, r.at) = {}
  BY DEF Wanted
<1>5. Len(r.seen) = 0
  OBVIOUS
<1>6. SeesIn(J, r)
  BY <1>4, <1>5 DEF SeesIn
<1> QED
  BY <1>3, <1>6

(* What a step of the journal leaves of a reader: it is closed, opened, or *)
(* left alone.                                                             *)
LEMMA ReaderMoves ==
    ASSUME JournalStep, NEW op \in Ops
    PROVE  \/ rd'[op] = Closed
           \/ lease[op] = {} /\ lease'[op] # {} /\ rd'[op] = OpenedAt(handle')
           \/ lease[op] # {} /\ lease'[op] # {} /\ rd'[op] = rd[op] /\ ~Completes(op)
  BY DEF JournalStep

LEMMA OpenedReader ==
    ASSUME JInv, ChainInv, Needed, JournalNext, NEW op \in Ops, lease[op] = {}, lease'[op] # {}
    PROVE  /\ Begins(op) /\ job # None /\ job.step = "append"
           /\ lease'[op] = {handle'} /\ handle' = job.pred /\ handle' = Tip /\ TipActive
           /\ handle' \in DOMAIN ses' /\ handle' # None /\ handle' \in Nat
<1>1. JInv' /\ ChainInv' /\ Needed'
  BY StepKeeps, StepChain, StepNeeded
<1>2. Begins(op) /\ lease'[op] = {job.pred}
  BY LeasesMove DEF LeaseMoves
<1>3. job # None /\ job.step = "append" /\ handle' = job.pred /\ phase' = phase
  BY <1>2 DEF Begins, AppendUnit
<1>4. Rolling /\ UnitJob
  BY <1>3 DEF JInv, JobOK, StartupJob, Rolling
<1>5. Tip = job.pred /\ TipActive
  BY <1>4 DEF Tip, TipActive, UnitJob
<1>6. handle' \in DOMAIN ses' /\ ses' \in Seq(SessionT)
  BY <1>1, <1>3, <1>4 DEF JInv, JobOK, Types, UnitJob, Recording
<1> QED
  BY <1>2, <1>3, <1>5, <1>6, Numbered

LEMMA JournalPlaces ==
    ASSUME JInv, ChainInv, Needed, PlaceInv, JournalStep
    PROVE  PlaceInv'
<1>1. JInv' /\ ChainInv' /\ Needed' /\ Moves /\ JournalNext
  BY StepKeeps, StepChain, StepNeeded DEF JournalStep
<1>2. /\ ses \in Seq(SessionT) /\ ses' \in Seq(SessionT) /\ Follows(ses, ses')
      /\ PredsIn(ses) /\ HandleFirm'
  BY <1>1, ChainTypes DEF Moves, ChainIn, ChainInv
<1>3. ASSUME NEW op \in Ops
      PROVE  rd'[op] \in RdT /\ ReadingAs(ses', handle', lease'[op], rd'[op])
  <2>1. CASE rd'[op] = Closed
    <3>1. Closed \in RdT /\ Closed.st = "closed"
      <4>1. <<>> \in Seq(Nat \X Nat)
        OBVIOUS
      <4> QED
        BY <4>1 DEF Closed, RdT
    <3> QED
      BY <2>1, <3>1 DEF ReadingAs
  <2>2. CASE lease[op] = {} /\ lease'[op] # {} /\ rd'[op] = OpenedAt(handle')
    <3> DEFINE h == handle'
    <3>1. h \in DOMAIN ses' /\ h # None /\ h \in Nat /\ ~Orphan(ses', h)
      BY <2>2, <1>1, <1>2, OpenedReader DEF HandleFirm
    <3>2. rd'[op] = OpenedAt(h)
      BY <2>2
    <3>3. Len(ses'[h].log) \in Nat
      BY <3>1, <1>2, Numbered
    <3> HIDE DEF h
    <3> DEFINE r == OpenedAt(h)
    <3>4. /\ r.st = "idle" /\ r.at = Cursor(h, Len(ses'[h].log)) /\ r.start = r.at
          /\ r.seen = <<>>
      BY DEF OpenedAt
    <3>5. r \in RdT
      <4>1. Cursor(h, Len(ses'[h].log)) \in CursorT /\ <<>> \in Seq(Nat \X Nat)
        BY <3>1, <3>3, CursorFields
      <4> QED
        BY <4>1 DEF OpenedAt, RdT
    <3> HIDE DEF r
    <3>6. StandsIn(ses', h, r) /\ SeesIn(ses', r)
      BY <3>1, <3>4, <3>5, <1>2, ReadingOpens
    <3>7. ReadingAs(ses', h, lease'[op], r)
      BY <3>1, <3>6, <2>2 DEF ReadingAs
    <3> QED
      BY <3>2, <3>5, <3>7 DEF h, r
  <2>3. CASE lease[op] # {} /\ lease'[op] # {} /\ rd'[op] = rd[op]
    <3> DEFINE r == rd[op]
    <3>1. r \in RdT /\ ReadingAs(ses, handle, lease[op], r)
      BY DEF PlaceInv
    <3>2. CASE r.st = "closed"
      BY <2>3, <3>1, <3>2 DEF ReadingAs
    <3>3. CASE r.st # "closed"
      <4>1. /\ handle # None /\ StandsIn(ses, handle, r)
            /\ r.st \in {"idle", "reading"} => SeesIn(ses, r)
        BY <3>1, <3>3 DEF ReadingAs
      <4> HIDE DEF r
      <4> DEFINE h == handle
      <4> DEFINE k == handle'
      <4> DEFINE K == ses'
      <4>2. /\ h \in Nat /\ k # None /\ k \in Nat /\ h <= k
            /\ \A s \in DOMAIN K : \A n \in 1..Len(K[s].log) :
                 \/ s \in DOMAIN ses /\ n <= Len(ses[s].log)
                 \/ K[s].log[n].t # "uart_rx" \/ h <= s
        BY <4>1, <2>3, <1>1, HandleMovesOn
      <4>3. K \in Seq(SessionT) /\ Follows(ses, K) /\ StandsIn(ses, h, r)
        BY <4>1, <1>2
      <4> HIDE DEF h, k, K
      <4>4. StandsIn(K, k, r) /\ (SeesIn(ses, r) => SeesIn(K, r))
        BY <4>2, <4>3, <3>3, <1>2, ReadingStays
      <4>5. ReadingAs(K, k, lease'[op], r)
        BY <4>1, <4>2, <4>4, <2>3 DEF ReadingAs
      <4> QED
        BY <4>5, <2>3, <3>1 DEF K, k, r
    <3> QED
      BY <3>2, <3>3
  <2> QED
    BY <2>1, <2>2, <2>3, ReaderMoves
<1>4. rd' \in [Ops -> RdT]
  <2>1. DOMAIN rd' = Ops /\ rd' = [op \in Ops |-> rd'[op]]
    BY DEF JournalStep
  <2> QED
    BY <2>1, <1>3
<1> QED
  BY <1>3, <1>4 DEF PlaceInv

(* The reader is given a tail, and reads on towards it.                    *)
LEMMA BeginReadPlaces ==
    ASSUME JInv, ChainInv, PlaceInv, BeginRead
    PROVE  PlaceInv'
<1>1. PICK op \in Ops :
         /\ rd[op].st = "idle"
         /\ rd' = [rd EXCEPT ![op].st = "reading", ![op].end = PublishedTail]
  BY DEF BeginRead
<1> DEFINE r == rd[op]
<1> DEFINE q == [r EXCEPT !.st = "reading", !.end = PublishedTail]
<1>2. /\ rd \in [Ops -> RdT] /\ \A o \in Ops : ReadingAs(ses, handle, lease[o], rd[o])
      /\ ses' = ses /\ handle' = handle /\ lease' = lease /\ ses \in Seq(SessionT)
      /\ handle \in DOMAIN ses /\ HandleFirm
  BY ChainTypes DEF PlaceInv, BeginRead, vars, ChainInv, JInv, JobOK
<1>3. rd' = [rd EXCEPT ![op] = q]
  BY <1>1, <1>2
<1>4. /\ handle \in Nat /\ handle # None /\ Len(ses[handle].log) \in Nat
      /\ ~Orphan(ses, handle)
      /\ PublishedTail.s = handle /\ PublishedTail.n = Len(ses[handle].log)
      /\ PublishedTail \in CursorT
  BY <1>2, Numbered, CursorFields DEF HandleFirm, PublishedTail
<1>5. CursorIn(ses, PublishedTail)
  BY <1>2, <1>4 DEF CursorIn
<1>6. r \in RdT /\ lease[op] # {} /\ StandsIn(ses, handle, r) /\ SeesIn(ses, r)
  BY <1>1, <1>2 DEF ReadingAs
<1>7. /\ q \in RdT /\ q.st = "reading" /\ q.end = PublishedTail /\ q.start = r.start
      /\ q.at = r.at /\ q.seen = r.seen
  BY <1>4, <1>6 DEF RdT
<1> HIDE DEF q, r
<1>8. /\ CursorIn(ses, r.start) /\ CursorIn(ses, r.at) /\ r.start.s <= r.at.s
      /\ r.start.s = r.at.s => r.start.n <= r.at.n
      /\ r.at.s <= handle /\ ~Orphan(ses, r.at.s)
  BY <1>6 DEF StandsIn
<1>9. r.at.s = handle => r.at.n <= Len(ses[handle].log)
  BY <1>8 DEF CursorIn
<1>10. handle <= handle
  BY <1>4
<1>11. StandsIn(ses, handle, q)
  BY <1>4, <1>5, <1>7, <1>8, <1>9, <1>10 DEF StandsIn
<1>12. SeesIn(ses, q)
  BY <1>6, <1>7 DEF SeesIn
<1>13. ReadingAs(ses, handle, lease[op], q)
  BY <1>4, <1>6, <1>11, <1>12 DEF ReadingAs
<1>14. rd' \in [Ops -> RdT] /\ rd'[op] = q /\ \A o \in Ops : o # op => rd'[o] = rd[o]
  BY <1>2, <1>3, <1>7
<1>15. ASSUME NEW o \in Ops PROVE ReadingAs(ses', handle', lease'[o], rd'[o])
  BY <1>2, <1>13, <1>14
<1> QED
  BY <1>14, <1>15 DEF PlaceInv

LEMMA ReadToPlaces ==
    ASSUME JInv, ChainInv, PlaceInv, ReadTo
    PROVE  PlaceInv'
<1>1. PICK op \in Ops : rd[op].st = "reading" /\ rd' = [rd EXCEPT ![op] = ReadTurn(rd[op])]
  BY DEF ReadTo
<1> DEFINE r == rd[op]
<1> DEFINE q == ReadTurn(r)
<1> DEFINE h == handle
<1>2. /\ rd \in [Ops -> RdT] /\ \A o \in Ops : ReadingAs(ses, handle, lease[o], rd[o])
      /\ ses' = ses /\ handle' = handle /\ lease' = lease /\ ses \in Seq(SessionT)
      /\ SessionsIn(ses) /\ ChainIn(ses)
  BY ChainTypes DEF PlaceInv, ReadTo, vars
<1>3. /\ r \in RdT /\ lease[op] # {} /\ h # None /\ StandsIn(ses, h, r) /\ SeesIn(ses, r)
      /\ r.st = "reading"
  BY <1>1, <1>2 DEF ReadingAs
<1>4. h \in Nat
  BY <1>3, NamesAreNumbers DEF JInv, Types
<1>5. rd' = [rd EXCEPT ![op] = q]
  BY <1>1
<1> HIDE DEF r, h
<1>6. /\ q \in RdT /\ q.st # "closed" /\ StandsIn(ses, h, q)
      /\ q.st \in {"idle", "reading"} => SeesIn(ses, q)
  BY <1>2, <1>3, <1>4, ReadTurnExact
<1> HIDE DEF q
<1>7. ReadingAs(ses, h, lease[op], q)
  BY <1>3, <1>6 DEF ReadingAs
<1>8. rd' \in [Ops -> RdT] /\ rd'[op] = q /\ \A o \in Ops : o # op => rd'[o] = rd[o]
  BY <1>2, <1>5, <1>6
<1>9. ASSUME NEW o \in Ops PROVE ReadingAs(ses', handle', lease'[o], rd'[o])
  BY <1>2, <1>7, <1>8 DEF h
<1> QED
  BY <1>8, <1>9 DEF PlaceInv

LEMMA StepPlaces ==
    ASSUME JInv, ChainInv, Needed, PlaceInv, [ReadersNext]_allVars
    PROVE  PlaceInv'
<1>1. CASE JournalStep \/ BeginRead \/ ReadTo
  BY <1>1, JournalPlaces, BeginReadPlaces, ReadToPlaces
<1>2. CASE TailAttach \/ TailPoll \/ TailSnapshot \/ TailRead \/ UNCHANGED allVars
  <2>1. ses' = ses /\ handle' = handle /\ lease' = lease /\ rd' = rd
    BY <1>2 DEF TailAttach, TailPoll, TailSnapshot, TailRead, allVars, vars, readerVars
  <2> QED
    BY <2>1 DEF PlaceInv
<1> QED
  BY <1>1, <1>2 DEF ReadersNext

LEMMA InitPlaces ==
    ASSUME ReadersInit
    PROVE  PlaceInv
<1>1. rd = [op \in Ops |-> Closed]
  BY DEF ReadersInit
<1>2. Closed \in RdT /\ Closed.st = "closed"
  <2>1. <<>> \in Seq(Nat \X Nat)
    OBVIOUS
  <2> QED
    BY <2>1 DEF Closed, RdT
<1> QED
  BY <1>1, <1>2 DEF PlaceInv, ReadingAs

(* What a reader has seen is what was written.                             *)
LEMMA PlacesSeeAll == JInv /\ PlaceInv => ReaderSeesAll
<1> SUFFICES ASSUME JInv, PlaceInv PROVE ReaderSeesAll
  OBVIOUS
<1>1. SUFFICES ASSUME NEW op \in Ops, rd[op].st \in {"idle", "reading"}, NEW r, r = rd[op]
               PROVE  LET written == {x \in UNION {{<<s, n>> : n \in 0..(Len(ses[s].log) - 1)} :
                                        s \in r.start.s..r.at.s} :
                          /\ Entry(x[1], x[2]).t = "uart_rx"
                          /\ ~Before(x, <<r.start.s, r.start.n>>)
                          /\ Before(x, <<r.at.s, r.at.n>>)}
                      IN  /\ {r.seen[i] : i \in DOMAIN r.seen} = written
                          /\ \A i \in 2..Len(r.seen) : Before(r.seen[i - 1], r.seen[i])
  BY DEF ReaderSeesAll
<1>2. ses \in Seq(SessionT) /\ r \in RdT /\ StandsIn(ses, handle, r) /\ SeesIn(ses, r)
  BY <1>1 DEF JInv, Types, PlaceInv, ReadingAs
<1> DEFINE a == r.start.s
<1> DEFINE b == r.at.s
<1> DEFINE W == UNION {{<<s, n>> : n \in 0..(Len(ses[s].log) - 1)} : s \in a..b}
<1>3. /\ a \in Nat /\ a # 0 /\ b \in DOMAIN ses /\ b \in Nat /\ a <= b
      /\ DOMAIN ses = 1..Len(ses) /\ Len(ses) \in Nat
  <2>1. DOMAIN ses = 1..Len(ses) /\ Len(ses) \in Nat
    BY <1>2
  <2>2. CursorIn(ses, r.start) /\ CursorIn(ses, r.at) /\ a <= b
    BY <1>2 DEF StandsIn
  <2> QED
    BY <2>1, <2>2, <1>2, CursorNumbers
<1>4. ASSUME NEW x
      PROVE  x \in W <=> x \in Nat \X Nat /\ a <= x[1] /\ x[1] <= b /\ x[2] < Len(ses[x[1]].log)
  <2>1. ASSUME x \in W
        PROVE  x \in Nat \X Nat /\ a <= x[1] /\ x[1] <= b /\ x[2] < Len(ses[x[1]].log)
    <3>1. PICK s \in a..b : x \in {<<s, n>> : n \in 0..(Len(ses[s].log) - 1)}
      BY <2>1
    <3>2. PICK n \in 0..(Len(ses[s].log) - 1) : x = <<s, n>>
      BY <3>1
    <3>3. s \in Nat /\ a <= s /\ s <= b /\ s \in DOMAIN ses
      BY <1>3
    <3>4. Len(ses[s].log) \in Nat
      BY <3>3, <1>2, Numbered
    <3>5. n \in Nat /\ n < Len(ses[s].log)
      BY <3>4
    <3> QED
      BY <3>2, <3>3, <3>5
  <2>2. ASSUME x \in Nat \X Nat, a <= x[1], x[1] <= b, x[2] < Len(ses[x[1]].log)
        PROVE  x \in W
    <3>1. x[1] \in Nat /\ x[2] \in Nat /\ x = <<x[1], x[2]>> /\ x[1] \in a..b /\ x[1] \in DOMAIN ses
      BY <2>2, <1>3
    <3>2. Len(ses[x[1]].log) \in Nat
      BY <3>1, <1>2, Numbered
    <3>3. x[2] \in 0..(Len(ses[x[1]].log) - 1)
      BY <3>1, <3>2, <2>2
    <3> QED
      BY <3>1, <3>3
  <2> QED
    BY <2>1, <2>2
<1> HIDE DEF W
<1>5. {x \in W : /\ Entry(x[1], x[2]).t = "uart_rx"
                 /\ ~Before(x, <<r.start.s, r.start.n>>)
                 /\ Before(x, <<r.at.s, r.at.n>>)} = Wanted(ses, r.start, r.at)
  BY <1>4 DEF Wanted, Entry, EntryIn
<1>6. {r.seen[i] : i \in DOMAIN r.seen} = Wanted(ses, r.start, r.at)
  <2>1. DOMAIN r.seen = 1..Len(r.seen)
    BY <1>2 DEF RdT
  <2> QED
    BY <2>1, <1>2 DEF SeesIn
<1>7. \A i \in 2..Len(r.seen) : Before(r.seen[i - 1], r.seen[i])
  BY <1>2 DEF SeesIn
<1> QED
  BY <1>5, <1>6, <1>7 DEF W

-----------------------------------------------------------------------------
(***************************************************************************)
(* What the recorder writes, as far as operations and their evidence go.   *)
(***************************************************************************)
Terminates(J, K) == \E T : Terminated(J, K, T)
Creates(J, K) == \E p \in NameT : Created(J, K, p)
Deletes(J, K) == \E D : Deleted(J, K, D)
JournalWrites ==
    \/ ses' = ses \/ Terminates(ses, ses') \/ Creates(ses, ses') \/ Deletes(ses, ses')
    \/ AppendUnit /\ \E e : Admits(e)
    \/ RolloverAnnounce /\ \E e : Announces(e)
    \/ RolloverContinue /\ \E o, e : Continues(o, e)
    \/ RolloverLink /\ LinkedTo(ses, ses', job.pred, job.succ)

LEMMA JournalWritten ==
    ASSUME JInv, JournalNext
    PROVE  JournalWrites
<1>1. ses \in Seq(SessionT) /\ Types /\ RangesIn(ses, FrozenNow) /\ JobOK
  BY DEF JInv, Types
<1>2. CASE RecoverSession
  <2>1. ses' = IF Stale(job.succ) THEN [ses EXCEPT ![job.succ] = Terminalized(ses[job.succ], "abandoned")]
               ELSE ses
    BY <1>2 DEF RecoverSession
  <2>2. CASE Stale(job.succ)
    <3> DEFINE q == Terminalized(ses[job.succ], "abandoned")
    <3>1. \E state \in {"failed", "completed", "abandoned"} : q = Terminalized(ses[job.succ], state)
      OBVIOUS
    <3>2. ActiveIn(ses, job.succ) /\ job.succ \in DOMAIN ses
      BY <2>2, <1>2 DEF Stale, ActiveIn, RecoverSession
    <3>3. ses' = [ses EXCEPT ![job.succ] = q]
      BY <2>1, <2>2
    <3> HIDE DEF q
    <3>4. LET K == [ses EXCEPT ![job.succ] = q]
          IN  K \in Seq(SessionT) /\ Terminated(ses, K, {job.succ})
      BY <1>1, <3>1, <3>2, EndOne
    <3>5. Terminated(ses, ses', {job.succ})
      BY <3>3, <3>4
    <3> QED
      BY <3>5 DEF JournalWrites, Terminates
  <2> QED
    BY <2>1, <2>2 DEF JournalWrites
<1>3. CASE FailSession \/ Shutdown
  <2>1. /\ ActiveIn(ses, handle) /\ handle \in DOMAIN ses
        /\ \E state \in {"failed", "completed", "abandoned"} :
              ses' = [ses EXCEPT ![handle] = Terminalized(ses[handle], state)]
    BY <1>1, <1>3 DEF JobOK, FailSession, Shutdown, ActiveIn, Idle
  <2>2. PICK state \in {"failed", "completed", "abandoned"} :
           ses' = [ses EXCEPT ![handle] = Terminalized(ses[handle], state)]
    BY <2>1
  <2>3. Terminated(ses, ses', {handle})
    BY <1>1, <2>1, <2>2, EndOne
  <2> QED
    BY <2>3 DEF JournalWrites, Terminates
<1>4. CASE AppendFails \/ RolloverFails
  <2>1. PICK U : FailedSessions(U)
    BY <1>4, WriteFailsEnds
  <2> QED
    BY <2>1 DEF JournalWrites, Terminates, FailedSessions
<1>5. CASE CreateFirst
  <2>1. None \in NameT /\ ses' = Append(ses, NewSession(None))
    BY <1>5 DEF NameT, CreateFirst
  <2>2. Created(ses, ses', None)
    BY <2>1, <1>1, Extended
  <2> QED
    BY <2>1, <2>2 DEF JournalWrites, Creates
<1>6. CASE RolloverCreate
  <2>1. /\ ses' = Append(ses, NewSession(job.pred)) /\ job # None /\ job.step = "create"
    BY <1>6 DEF RolloverCreate
  <2>2. job.pred \in NameT
    BY <2>1, <1>1, JobFields DEF Types, NameT
  <2>3. Created(ses, ses', job.pred)
    BY <2>1, <2>2, <1>1, Extended
  <2> QED
    BY <2>2, <2>3 DEF JournalWrites, Creates
<1>7. CASE AppendUnit
  BY <1>7, AdmittedStep DEF JournalWrites
<1>8. CASE RolloverAnnounce
  BY <1>8, AnnouncedStep DEF JournalWrites
<1>9. CASE RolloverContinue
  BY <1>9, ContinuedStep DEF JournalWrites
<1>10. CASE RolloverLink
  BY <1>10, LinkedStep DEF JournalWrites
<1>11. CASE Sweep \/ SweepFails
  BY <1>11, PassDeletes DEF JournalWrites, Deletes
<1>12. CASE \/ RecoveryDone \/ RecoveryFails \/ Offer \/ FindEnded \/ InputError
            \/ CloseReader \/ MarkBaseline \/ ClearBaseline \/ Restart
  <2>1. ses' = ses
    BY <1>12 DEF RecoveryDone, RecoveryFails, Offer, FindEnded, InputError, CloseReader,
         MarkBaseline, ClearBaseline, Restart
  <2> QED
    BY <2>1 DEF JournalWrites
<1> QED
  BY <1>2, <1>3, <1>4, <1>5, <1>6, <1>7, <1>8, <1>9, <1>10, <1>11, <1>12 DEF JournalNext

(* An operation ends with its terminal record, and with nothing else.      *)
LEMMA EndsOnce ==
    ASSUME JInv, JournalWrites, ses' \in Seq(SessionT), NEW op, EndedIn(ses', op)
    PROVE  EndedIn(ses, op) \/ Completed(op)
<1>1. ses \in Seq(SessionT)
  BY DEF JInv, Types
<1>2. ASSUME NEW g, NEW e, GrownBy(ses, ses', g, e)
      PROVE  EndedIn(ses, op) \/ (e.t = "operation_terminal" /\ e.id = op)
  <2>1. /\ DOMAIN ses' = DOMAIN ses
        /\ \A s \in DOMAIN ses : \A n \in DOMAIN ses'[s].log :
              (n \in DOMAIN ses[s].log /\ ses'[s].log[n] = ses[s].log[n]) \/ ses'[s].log[n] = e
    BY <1>1, <1>2, GrownFacts
  <2>2. PICK s \in DOMAIN ses' : \E n \in DOMAIN ses'[s].log :
           ses'[s].log[n].t = "operation_terminal" /\ ses'[s].log[n].id = op
    BY DEF EndedIn
  <2>3. PICK n \in DOMAIN ses'[s].log :
           ses'[s].log[n].t = "operation_terminal" /\ ses'[s].log[n].id = op
    BY <2>2
  <2> QED
    BY <2>1, <2>2, <2>3 DEF EndedIn
<1>3. CASE ses' = ses
  BY <1>3
<1>4. CASE Terminates(ses, ses')
  BY <1>1, <1>4, TerminatedFacts DEF Terminates
<1>5. CASE Creates(ses, ses')
  BY <1>1, <1>5, CreatedFacts DEF Creates
<1>6. CASE Deletes(ses, ses')
  BY <1>6, DeletedFacts DEF Deletes
<1>7. CASE AppendUnit /\ \E e : Admits(e)
  <2>1. PICK e : Admits(e)
    BY <1>7
  <2> QED
    BY <2>1, <1>2, <1>7 DEF Admits, Completed
<1>8. CASE \E e : Announces(e)
  <2>1. PICK e : Announces(e)
    BY <1>8
  <2> QED
    BY <2>1, <1>2 DEF Announces
<1>9. CASE \E o, e : Continues(o, e)
  <2>1. PICK o, e : Continues(o, e)
    BY <1>9
  <2> QED
    BY <2>1, <1>2 DEF Continues
<1>10. CASE LinkedTo(ses, ses', job.pred, job.succ)
  <2>1. DOMAIN ses' = DOMAIN ses /\ \A x \in DOMAIN ses : ses'[x].log = ses[x].log
    BY <1>10 DEF LinkedTo
  <2> QED
    BY <2>1 DEF EndedIn
<1> QED
  BY <1>3, <1>4, <1>5, <1>6, <1>7, <1>8, <1>9, <1>10 DEF JournalWrites

(* A session that owns an operation owns it with the same evidence until   *)
(* the operation is completed, carried over or interrupted.                *)
OwnsAs(J, K, op, w) ==
    op \in DOMAIN K[w].ops /\ RangeSessions(K[w].ops[op]) = RangeSessions(J[w].ops[op])

LEMMA OwnerStays ==
    ASSUME JInv, JournalWrites, ses' \in Seq(SessionT), NEW op, NEW w \in DOMAIN ses,
           op \in DOMAIN ses[w].ops, ~Completed(op), ~RolloverLink
    PROVE  InterruptedIn(ses', op) \/ OwnsAs(ses, ses', op, w)
<1>1. ses \in Seq(SessionT)
  BY DEF JInv, Types
<1>2. ASSUME ses'[w] = ses[w] \/ ses'[w].ops = ses[w].ops PROVE OwnsAs(ses, ses', op, w)
  BY <1>2 DEF OwnsAs
<1>3. CASE ses' = ses
  BY <1>2, <1>3
<1>4. CASE Terminates(ses, ses')
  <2>1. PICK T : Terminated(ses, ses', T)
    BY <1>4 DEF Terminates
  <2>2. CASE w \notin T
    BY <2>1, <2>2, <1>2 DEF Terminated
  <2>3. CASE w \in T
    <3>1. ses'[w].cut = CutOf(ses[w]) /\ w \in DOMAIN ses'
      BY <2>1, <2>3 DEF Terminated, EndedFrom
    <3>2. op \in DOMAIN CutOf(ses[w])
      BY DEF CutOf
    <3> QED
      BY <3>1, <3>2 DEF InterruptedIn
  <2> QED
    BY <2>2, <2>3
<1>5. CASE Creates(ses, ses')
  <2>1. ses'[w] = ses[w]
    BY <1>5 DEF Creates, Created
  <2> QED
    BY <2>1, <1>2
<1>6. CASE Deletes(ses, ses')
  <2>1. ses'[w].ops = ses[w].ops
    BY <1>6 DEF Deletes, Deleted
  <2> QED
    BY <2>1, <1>2
<1>7. CASE AppendUnit /\ \E e : Admits(e)
  <2>1. PICK e : Admits(e)
    BY <1>7
  <2>2. CASE w # job.pred
    <3>1. ses'[w] = ses[w]
      BY <2>1, <2>2 DEF Admits, GrownBy
    <3> QED
      BY <3>1, <1>2
  <2>3. CASE w = job.pred
    <3>1. MovesOps(ses[w], w, ses'[w], e)
      BY <2>1, <2>3 DEF Admits
    <3>2. CASE e.t \notin {"operation_started", "operation_terminal"}
      BY <3>1, <3>2, <1>2 DEF MovesOps
    <3>3. CASE e.t = "operation_started"
      <4>1. e.id = job.unit.id /\ job.unit.t = "operation_started"
        BY <2>1, <3>3 DEF Admits
      <4>2. e.id # op
        <5>1. job # None /\ job.step = "append"
          BY <1>7 DEF AppendUnit
        <5>2. UnitJob
          BY <5>1 DEF JInv, JobOK, StartupJob, Rolling
        <5>3. ~StartedIn(ses, job.unit.id)
          BY <4>1, <5>2 DEF UnitJob, UnitOK
        <5>4. StartedIn(ses, op)
          <6>1. OwnedIn(ses, op)
            BY DEF OwnedIn
          <6> QED
            BY <6>1, <1>1, ClaimedStarted DEF JInv
        <5> QED
          BY <4>1, <5>3, <5>4
      <4>3. op \in DOMAIN ses'[w].ops /\ ses'[w].ops[op] = ses[w].ops[op]
        BY <3>1, <3>3, <4>2 DEF MovesOps
      <4> QED
        BY <4>3 DEF OwnsAs
    <3>4. CASE e.t = "operation_terminal"
      <4>1. e.id # op
        BY <2>1, <3>4, <1>7 DEF Admits, Completed
      <4>2. op \in DOMAIN ses'[w].ops /\ ses'[w].ops[op] = ses[w].ops[op]
        BY <3>1, <3>4, <4>1 DEF MovesOps
      <4> QED
        BY <4>2 DEF OwnsAs
    <3> QED
      BY <3>2, <3>3, <3>4
  <2> QED
    BY <2>2, <2>3
<1>8. CASE \E e : Announces(e)
  <2>1. PICK e : Announces(e)
    BY <1>8
  <2>2. ses'[w] = ses[w] \/ ses'[w].ops = ses[w].ops
    BY <2>1 DEF Announces, GrownBy
  <2> QED
    BY <2>2, <1>2
<1>9. CASE \E o, e : Continues(o, e)
  <2>1. PICK o, e : Continues(o, e)
    BY <1>9
  <2>2. ses'[w] = ses[w] \/ (op \in DOMAIN ses'[w].ops /\ ses'[w].ops[op] = ses[w].ops[op])
    BY <2>1 DEF Continues, GrownBy
  <2> QED
    BY <2>2, <1>2 DEF OwnsAs
<1> QED
  BY <1>3, <1>4, <1>5, <1>6, <1>7, <1>8, <1>9 DEF JournalWrites

-----------------------------------------------------------------------------
(***************************************************************************)
(* The sessions a reader passes through, and that they stay: linked to the *)
(* next, and held for the operation whose evidence they are.               *)
(***************************************************************************)
Span(J, a, b) == {x \in DOMAIN J : a <= x /\ x <= b /\ ~Orphan(J, x)}
LinkedUp(J, a, b) == \A x \in Span(J, a, b) : x # b => J[x].succ # None
Covers(J, op, a, b, w) ==
    op \in DOMAIN J[w].ops /\ Span(J, a, b) \subseteq RangeSessions(J[w].ops[op])

(* How far the evidence of a running operation is linked.                  *)
Furthest == IF TipActive THEN Tip ELSE handle

EvidenceOwned(op, a) ==
    ~EndedIn(ses, op) /\ ~InterruptedIn(ses, op) =>
        \E w \in DOMAIN ses : Covers(ses, op, a, Furthest, w) /\ (TipActive => w = Tip)
LeaseSpans(op, a) ==
    /\ ~EndedIn(ses, op) => lease[op] = {a}
    /\ \A y \in lease[op] : y <= handle /\ Span(ses, a, y) \subseteq lease[op]
ErrorExplained(op, r) ==
    r.st = "error" =>
        InterruptedIn(ses, op) \/ (EndedIn(ses, op) /\ r.end.s \notin lease[op])
Unfinished(op) ==
    phase = "running" =>
        /\ ~EndedIn(ses, op)
        /\ ~(Rolling /\ job.unit.t = "operation_terminal" /\ job.unit.id = op)
Reaches(op) ==
    /\ StartedIn(ses, op) /\ LinkedUp(ses, rd[op].start.s, Furthest)
    /\ EvidenceOwned(op, rd[op].start.s) /\ LeaseSpans(op, rd[op].start.s)
    /\ ErrorExplained(op, rd[op]) /\ Unfinished(op)
ReachInv == Recording => \A op \in Ops : rd[op].st # "closed" => Reaches(op)

LEMMA SpanNearer ==
    ASSUME NEW J \in Seq(SessionT), NEW a \in Nat, NEW b \in Nat, NEW c \in Nat, c <= b
    PROVE  /\ Span(J, a, c) \subseteq Span(J, a, b)
           /\ LinkedUp(J, a, b) => LinkedUp(J, a, c)
<1>1. DOMAIN J \subseteq Nat
  BY Numbered
<1>2. Span(J, a, c) \subseteq Span(J, a, b)
  BY <1>1 DEF Span
<1>3. ASSUME LinkedUp(J, a, b), NEW x \in Span(J, a, c), x # c PROVE J[x].succ # None
  <2>1. x <= c /\ x \in Nat
    BY <1>1 DEF Span
  <2>2. x # b
    BY <2>1, <1>3
  <2> QED
    BY <2>2, <1>2, <1>3 DEF LinkedUp
<1> QED
  BY <1>2, <1>3 DEF LinkedUp

LEMMA SpanAlone ==
    ASSUME NEW J \in Seq(SessionT), NEW a \in Nat
    PROVE  Span(J, a, a) \subseteq {a} /\ LinkedUp(J, a, a)
<1>1. DOMAIN J \subseteq Nat
  BY Numbered
<1>2. Span(J, a, a) \subseteq {a}
  BY <1>1 DEF Span
<1> QED
  BY <1>2 DEF LinkedUp

(* A step that links no session up to b leaves the span up to b alone.     *)
LEMMA SpanStays ==
    ASSUME NEW J \in Seq(SessionT), NEW K \in Seq(SessionT), Follows(J, K), PredsIn(J),
           NEW a \in Nat, NEW b \in DOMAIN J,
           \A x \in DOMAIN J : x <= b /\ Orphan(J, x) => Orphan(K, x)
    PROVE  /\ Span(K, a, b) = Span(J, a, b)
           /\ LinkedUp(J, a, b) => LinkedUp(K, a, b)
<1>1. /\ DOMAIN J \subseteq DOMAIN K /\ DOMAIN J = 1..Len(J) /\ Len(J) \in Nat
      /\ DOMAIN K \subseteq Nat \ {None} /\ DOMAIN K = 1..Len(K) /\ Len(K) \in Nat /\ b \in Nat
  BY Numbered DEF Follows
<1>2. \A x \in DOMAIN K : x <= b => x \in DOMAIN J
  BY <1>1
<1>3. \A x \in DOMAIN J : x <= b => (Orphan(K, x) <=> Orphan(J, x))
  BY <1>1, FollowsLinked
<1>4. Span(K, a, b) = Span(J, a, b)
  BY <1>1, <1>2, <1>3 DEF Span
<1>5. \A x \in DOMAIN J : J[x].succ # None => K[x].succ # None
  BY DEF Follows, FollowsAt
<1>6. Span(J, a, b) \subseteq DOMAIN J
  BY DEF Span
<1> QED
  BY <1>4, <1>5, <1>6 DEF LinkedUp

(* While the recorder runs nothing is linked up to where it stands.        *)
LEMMA SpansStay ==
    ASSUME JInv, ChainInv, Moves, NEW a \in Nat, NEW b \in DOMAIN ses, TipActive => b <= Tip
    PROVE  /\ Span(ses', a, b) = Span(ses, a, b)
           /\ LinkedUp(ses, a, b) => LinkedUp(ses', a, b)
<1>1. /\ ses \in Seq(SessionT) /\ ses' \in Seq(SessionT) /\ Follows(ses, ses') /\ PredsIn(ses)
      /\ LinksAtTip
  BY ChainTypes DEF Moves, ChainInv, ChainIn
<1>2. TipActive => Tip \in Nat
  BY TipExists DEF TipActive
<1>3. DOMAIN ses \subseteq Nat
  BY <1>1, Numbered
<1>4. ASSUME NEW x \in DOMAIN ses, x <= b, Orphan(ses, x) PROVE Orphan(ses', x)
  <2>1. SUFFICES ASSUME ~Orphan(ses', x) PROVE FALSE
    OBVIOUS
  <2>2. TipActive /\ Tip < x
    BY <2>1, <1>1, <1>4 DEF LinksAtTip
  <2> QED
    BY <2>2, <1>2, <1>3, <1>4
<1> QED
  BY <1>1, <1>4, SpanStays

LEMMA FurthestExists ==
    ASSUME JInv, ChainInv, Recording
    PROVE  /\ Furthest \in DOMAIN ses /\ Furthest \in Nat /\ handle \in DOMAIN ses
           /\ handle \in Nat /\ handle # None /\ handle <= Furthest
           /\ TipActive => Furthest = Tip /\ Tip \in Nat /\ Tip \in DOMAIN ses /\ TipIn(ses, Tip)
<1>1. /\ handle \in DOMAIN ses /\ handle \in Nat /\ handle # None
      /\ Tip \in DOMAIN ses /\ Tip \in Nat
  BY TipExists
<1>2. TipActive => handle <= Tip /\ TipIn(ses, Tip)
  BY DEF TipActive, ChainInv, TipFirm
<1>3. handle <= handle
  BY <1>1
<1> QED
  BY <1>1, <1>2, <1>3 DEF Furthest

(* Unless a rollover is linked, the evidence reaches no further than before. *)
LEMMA FurthestMoves ==
    ASSUME JInv, ChainInv, Recording, StaysAtTip, handle' # None
    PROVE  /\ Furthest' \in DOMAIN ses /\ Furthest' \in Nat /\ Furthest' <= Furthest
           /\ TipActive' => TipActive /\ Tip' = Tip
           /\ handle <= handle'
<1>1. /\ Furthest \in DOMAIN ses /\ Furthest \in Nat /\ handle \in DOMAIN ses
      /\ handle \in Nat /\ handle <= Furthest
      /\ TipActive => Furthest = Tip /\ Tip \in Nat /\ Tip \in DOMAIN ses
  BY FurthestExists
<1>2. TipActive' => TipActive /\ Tip' = Tip
  BY DEF StaysAtTip, TipActive
<1>3. handle' = handle \/ (handle' = Tip /\ TipActive)
  BY DEF StaysAtTip
<1>4. Furthest' = IF TipActive' THEN Tip' ELSE handle'
  BY DEF Furthest
<1>5. handle <= handle
  BY <1>1
<1> DEFINE f == Furthest
<1> DEFINE g == Furthest'
<1> DEFINE h == handle'
<1>6. g = f \/ g = handle
  BY <1>1, <1>2, <1>3, <1>4
<1>7. h = handle \/ h = f
  BY <1>1, <1>3
<1>8. f \in DOMAIN ses /\ f \in Nat /\ handle <= f /\ f <= f
  BY <1>1
<1> HIDE DEF f, g, h
<1>9. g \in DOMAIN ses /\ g \in Nat /\ g <= f /\ handle <= h
  BY <1>1, <1>5, <1>6, <1>7, <1>8
<1> QED
  BY <1>2, <1>9 DEF f, g, h

(* What was begun stays begun, and what ended or failed has.               *)
LEMMA FactsStay ==
    ASSUME NEW J \in Seq(SessionT), NEW K \in Seq(SessionT), Follows(J, K), NEW op
    PROVE  /\ StartedIn(J, op) => StartedIn(K, op)
           /\ EndedIn(J, op) => EndedIn(K, op)
           /\ InterruptedIn(J, op) => InterruptedIn(K, op)
<1>1. ASSUME NEW s \in DOMAIN J, NEW n \in DOMAIN J[s].log
      PROVE  s \in DOMAIN K /\ n \in DOMAIN K[s].log /\ K[s].log[n] = J[s].log[n]
  <2>1. s \in DOMAIN K /\ FollowsAt(J, K, s)
    BY DEF Follows
  <2>2. DOMAIN J[s].log = 1..Len(J[s].log) /\ DOMAIN K[s].log = 1..Len(K[s].log)
    BY <2>1, LogTyped
  <2>3. Len(J[s].log) \in Nat /\ Len(K[s].log) \in Nat
    BY <2>1, Numbered
  <2> QED
    BY <2>1, <2>2, <2>3 DEF FollowsAt
<1>2. StartedIn(J, op) => StartedIn(K, op)
  BY <1>1 DEF StartedIn
<1>3. EndedIn(J, op) => EndedIn(K, op)
  BY <1>1 DEF EndedIn
<1>4. InterruptedIn(J, op) => InterruptedIn(K, op)
  BY DEF InterruptedIn, Follows, FollowsAt
<1> QED
  BY <1>2, <1>3, <1>4

(* A step that neither links a rollover nor completes the operation.       *)
LEMMA EvidenceStays ==
    ASSUME JInv, ChainInv, JournalNext, Recording, Moves, StaysAtTip, handle' # None,
           NEW op \in Ops, NEW a \in Nat, lease'[op] = lease[op], ~Completed(op), ~RolloverLink,
           LinkedUp(ses, a, Furthest), EvidenceOwned(op, a), LeaseSpans(op, a)
    PROVE  LinkedUp(ses, a, Furthest)' /\ EvidenceOwned(op, a)' /\ LeaseSpans(op, a)'
<1> DEFINE K == ses'
<1> DEFINE f == Furthest
<1> DEFINE g == Furthest'
<1>1. /\ ses \in Seq(SessionT) /\ K \in Seq(SessionT) /\ Follows(ses, K)
      /\ lease \in [Ops -> SUBSET DOMAIN ses]
  BY DEF Moves, JInv, Types
<1>2. /\ g \in DOMAIN ses /\ g \in Nat /\ g <= f
      /\ TipActive' => TipActive /\ Tip' = Tip
      /\ handle <= handle'
  BY FurthestMoves
<1>3. /\ f \in Nat /\ f \in DOMAIN ses /\ handle \in DOMAIN ses /\ handle \in Nat /\ handle <= f
      /\ TipActive => f = Tip /\ Tip \in Nat
  BY FurthestExists
<1>4. handle' \in Nat
  <2>1. handle' = handle \/ (handle' = Tip /\ TipActive)
    BY DEF StaysAtTip
  <2> QED
    BY <2>1, <1>3
<1>5. JournalWrites
  BY JournalWritten
<1>6. /\ EndedIn(ses, op) <=> EndedIn(K, op)
      /\ InterruptedIn(ses, op) => InterruptedIn(K, op)
  BY <1>1, <1>5, FactsStay, EndsOnce
<1>7. Span(ses, a, g) \subseteq Span(ses, a, f) /\ LinkedUp(ses, a, g)
  BY <1>1, <1>2, <1>3, SpanNearer
<1>8. ASSUME NEW b \in DOMAIN ses, b <= f
      PROVE  Span(K, a, b) = Span(ses, a, b) /\ (LinkedUp(ses, a, b) => LinkedUp(K, a, b))
  BY <1>3, <1>8, SpansStay
<1>9. LinkedUp(K, a, g) /\ Span(K, a, g) \subseteq Span(ses, a, f)
  BY <1>2, <1>7, <1>8
<1>10. EvidenceOwned(op, a)'
  <2>1. SUFFICES ASSUME ~EndedIn(K, op), ~InterruptedIn(K, op)
                 PROVE  \E w \in DOMAIN K : Covers(K, op, a, g, w) /\ (TipActive' => w = Tip')
    BY DEF EvidenceOwned
  <2>2. PICK w \in DOMAIN ses : Covers(ses, op, a, f, w) /\ (TipActive => w = Tip)
    BY <2>1, <1>6 DEF EvidenceOwned
  <2>3. op \in DOMAIN ses[w].ops /\ Span(ses, a, f) \subseteq RangeSessions(ses[w].ops[op])
    BY <2>2 DEF Covers
  <2>4. OwnsAs(ses, K, op, w)
    BY <2>1, <2>3, <1>1, <1>5, OwnerStays
  <2>5. Covers(K, op, a, g, w)
    BY <2>3, <2>4, <1>9 DEF Covers, OwnsAs
  <2>6. w \in DOMAIN K
    BY <1>1 DEF Follows
  <2> QED
    BY <2>2, <2>5, <2>6, <1>2
<1>11. LeaseSpans(op, a)'
  <2>1. ASSUME NEW y \in lease[op]
        PROVE  y <= handle' /\ Span(K, a, y) \subseteq lease[op]
    <3>1. y \in DOMAIN ses /\ y <= handle /\ Span(ses, a, y) \subseteq lease[op]
      BY <1>1 DEF LeaseSpans
    <3>2. y \in Nat
      BY <3>1, <1>1, Numbered
    <3>3. y <= f /\ y <= handle'
      BY <3>1, <3>2, <1>2, <1>3, <1>4
    <3> QED
      BY <3>1, <3>3, <1>8
  <2>2. ~EndedIn(K, op) => lease[op] = {a}
    BY <1>6 DEF LeaseSpans
  <2> QED
    BY <2>1, <2>2 DEF LeaseSpans
<1> QED
  BY <1>9, <1>10, <1>11

(* The link of a rollover: every operation has been carried over, and the  *)
(* successor is the next session of its evidence.                          *)
LEMMA EvidenceLinked ==
    ASSUME JInv, ChainInv, RolloverLink, NEW op \in Ops, NEW a \in Nat,
           LinkedUp(ses, a, Furthest), EvidenceOwned(op, a), LeaseSpans(op, a)
    PROVE  LinkedUp(ses, a, Furthest)' /\ EvidenceOwned(op, a)' /\ LeaseSpans(op, a)'
<1> DEFINE K == ses'
<1> DEFINE p == job.pred
<1> DEFINE q == job.succ
<1>1. /\ job # None /\ job.step = "continue" /\ phase' = phase /\ lease' = lease
      /\ Types /\ job \in Jobs /\ handle' = handle /\ ChainIn(ses) /\ SessionsIn(ses)
      /\ job' = Job("sweep", job.unit, q, q, {q}) /\ lease \in [Ops -> SUBSET DOMAIN ses]
      /\ JournalNext
  BY DEF RolloverLink, JInv, Types, ChainInv, JournalNext
<1>2. /\ Rolling /\ ses \in Seq(SessionT) /\ p \in DOMAIN ses /\ q \in DOMAIN ses
      /\ ActiveIn(ses, p) /\ Recording /\ q # p /\ q \in Nat
      /\ p \in Nat /\ ses[q].pred = p /\ handle = p
  BY <1>1, RolloverFacts
<1>3. /\ K \in Seq(SessionT) /\ LinkedTo(ses, K, p, q)
      /\ DOMAIN ses[p].ops \subseteq DOMAIN ses[q].ops
  BY LinkedStep
<1>4. Tip = p /\ TipActive /\ TipIn(ses, p) /\ Furthest = p
  BY <1>2 DEF Tip, TipActive, ChainInv, TipFirm, Furthest
<1>5. Moves
  BY <1>1, StepChain
<1>6. Follows(ses, K)
  BY <1>5 DEF Moves
<1>7. /\ DOMAIN K = DOMAIN ses /\ K[q] = ses[q] /\ K[p].succ = q /\ q # None
      /\ DOMAIN ses \subseteq Nat
  BY <1>2, <1>3, Numbered DEF LinkedTo
<1>8. \A x \in DOMAIN ses : Orphan(K, x) \/ ~Orphan(ses, x) \/ x = q
  <2>1. SUFFICES ASSUME NEW x \in DOMAIN ses, ~Orphan(K, x), Orphan(ses, x), x # q PROVE FALSE
    OBVIOUS
  <2>2. PredsIn(ses)
    BY <1>1 DEF ChainIn
  <2>3. ses[x].pred # None /\ ses[x].pred \in DOMAIN ses /\ ses[ses[x].pred].succ # x
    BY <2>1, <2>2 DEF Orphan, PredsIn
  <2>4. K[x].pred = ses[x].pred
    BY <1>3 DEF LinkedTo
  <2>5. K[ses[x].pred].succ = x
    BY <2>1, <2>3, <2>4 DEF Orphan
  <2>6. ses[x].pred # p
    BY <2>1, <2>5, <1>7
  <2> QED
    BY <2>3, <2>5, <2>6, <1>3 DEF LinkedTo
<1>9. p < q
  BY <1>1, <1>2, NoneAssumption DEF ChainIn, PredsIn
<1>10. Span(K, a, q) \subseteq Span(ses, a, p) \union {q}
  <2>1. SUFFICES ASSUME NEW x \in DOMAIN ses, a <= x, ~Orphan(K, x), x # q
                 PROVE  x \in Span(ses, a, p)
    BY <1>7 DEF Span
  <2>2. ~Orphan(ses, x)
    BY <2>1, <1>8
  <2>3. ~(x > p)
    BY <2>2, <1>4 DEF TipIn
  <2>4. x <= p
    BY <2>3, <1>2, <1>7
  <2> QED
    BY <2>1, <2>2, <2>4 DEF Span
<1>11. LinkedUp(K, a, q)
  <2>1. SUFFICES ASSUME NEW x \in Span(K, a, q), x # q PROVE K[x].succ # None
    BY DEF LinkedUp
  <2>2. x \in Span(ses, a, p) /\ x \in DOMAIN ses
    BY <2>1, <1>10 DEF Span
  <2>3. CASE x = p
    BY <2>3, <1>7
  <2>4. CASE x # p
    BY <2>2, <2>4, <1>3, <1>4 DEF LinkedTo, LinkedUp
  <2> QED
    BY <2>3, <2>4
<1>12. /\ job' # None /\ job'.unit = job.unit /\ job'.pred = q
  <2>1. /\ "sweep" \in Steps /\ job.unit \in Units \union {None}
        /\ q \in Nat \union {None} /\ {q} \in SUBSET Nat
    BY <1>1, <1>2, JobFields DEF Steps
  <2> QED
    BY <2>1, <1>1, JobTyped
<1>13. Tip' = q
  BY <1>2, <1>12 DEF Rolling, Tip
<1> DEFINE g == Furthest'
<1>14. g = q \/ g = p
  BY <1>1, <1>2, <1>13 DEF Furthest
<1>15. /\ EndedIn(ses, op) => EndedIn(K, op)
       /\ InterruptedIn(ses, op) => InterruptedIn(K, op)
  BY <1>2, <1>3, <1>6, FactsStay
<1> HIDE DEF g
<1>16. g \in Nat /\ g <= q
  BY <1>2, <1>9, <1>14
<1>17. LinkedUp(K, a, g) /\ Span(K, a, g) \subseteq Span(K, a, q)
  BY <1>2, <1>3, <1>11, <1>16, SpanNearer
<1>18. EvidenceOwned(op, a)'
  <2>1. SUFFICES ASSUME ~EndedIn(K, op), ~InterruptedIn(K, op)
                 PROVE  \E w \in DOMAIN K : Covers(K, op, a, g, w) /\ (TipActive' => w = Tip')
    BY DEF EvidenceOwned, g
  <2>2. op \in DOMAIN ses[p].ops /\ Span(ses, a, p) \subseteq RangeSessions(ses[p].ops[op])
    <3>1. PICK w \in DOMAIN ses : Covers(ses, op, a, Furthest, w) /\ (TipActive => w = Tip)
      BY <2>1, <1>15 DEF EvidenceOwned
    <3> QED
      BY <3>1, <1>4 DEF Covers
  <2>3. op \in DOMAIN ses[q].ops
    BY <2>2, <1>3
  <2>4. RangeSessions(ses[q].ops[op]) = RangeSessions(ses[p].ops[op]) \union {q}
    BY <2>3, <1>1 DEF ChainInv, SuccessorCarries
  <2>5. Covers(K, op, a, g, q)
    BY <2>2, <2>3, <2>4, <1>7, <1>10, <1>17 DEF Covers
  <2> QED
    BY <2>5, <1>2, <1>7, <1>13
<1>19. LeaseSpans(op, a)'
  <2>1. ASSUME NEW y \in lease[op] PROVE y <= handle /\ Span(K, a, y) \subseteq lease[op]
    <3>1. y \in DOMAIN ses /\ y <= handle /\ Span(ses, a, y) \subseteq lease[op]
      BY <1>1 DEF LeaseSpans
    <3>2. y <= Tip
      BY <3>1, <1>2, <1>4
    <3>3. Span(K, a, y) = Span(ses, a, y)
      BY <3>1, <3>2, <1>5, SpansStay
    <3> QED
      BY <3>1, <3>3
  <2>2. ~EndedIn(K, op) => lease[op] = {a}
    BY <1>15 DEF LeaseSpans
  <2> QED
    BY <2>1, <2>2, <1>1 DEF LeaseSpans
<1> QED
  BY <1>17, <1>18, <1>19 DEF g

(* A failing recorder completes the operation: its reader now holds the    *)
(* sessions of all its ranges.                                             *)
LEMMA EvidenceCompleted ==
    ASSUME JInv, ChainInv, JournalNext, NEW op \in Ops, NEW a \in Nat, Completed(op),
           lease'[op] = lease[op] \union RangeSessions(ses[job.pred].ops[op]),
           LinkedUp(ses, a, Furthest), EvidenceOwned(op, a), LeaseSpans(op, a)
    PROVE  /\ LinkedUp(ses, a, Furthest)' /\ EvidenceOwned(op, a)' /\ LeaseSpans(op, a)'
           /\ ~EndedIn(ses, op) /\ ~InterruptedIn(ses, op) /\ EndedIn(ses', op)
           /\ Recording /\ phase' = phase /\ Rolling
<1> DEFINE K == ses'
<1> DEFINE p == job.pred
<1>1. /\ AppendUnit /\ job # None /\ job.step = "append" /\ handle' = p /\ phase' = phase
      /\ job.unit.t = "operation_terminal" /\ job.unit.id = op
      /\ Types /\ JobOK /\ ChainIn(ses) /\ ses \in Seq(SessionT) /\ Owners
      /\ lease \in [Ops -> SUBSET DOMAIN ses]
  BY DEF Completed, AppendUnit, JInv, Types, ChainInv
<1>2. Rolling /\ UnitJob
  BY <1>1 DEF JobOK, StartupJob, Rolling
<1>3. /\ Recording /\ p \in DOMAIN ses /\ ActiveIn(ses, p) /\ p \in Nat
      /\ op \in DOMAIN ses[p].ops
  BY <1>1, <1>2, NamesAreNumbers DEF UnitJob, UnitOK
<1>4. Tip = p /\ TipActive /\ Furthest = p
  BY <1>2, <1>3 DEF Tip, TipActive, Furthest
<1>5. job' = None
  BY <1>1 DEF AppendUnit
<1>6. Tip' = p /\ Furthest' = p
  BY <1>1, <1>5 DEF Tip, Rolling, Furthest
<1>7. ~EndedIn(ses, op) /\ ~InterruptedIn(ses, op)
  <2>1. p \in Main
    BY <1>2 DEF Main
  <2> QED
    BY <2>1, <1>1, <1>3 DEF Owners, MainOwns
<1>8. PICK e : Admits(e)
  BY <1>1, AdmittedStep
<1>9. /\ K \in Seq(SessionT) /\ GrownBy(ses, K, p, e) /\ e.t = "operation_terminal" /\ e.id = op
  BY <1>1, <1>8 DEF Admits
<1>10. EndedIn(K, op)
  <2>1. /\ DOMAIN K = DOMAIN ses /\ Len(ses[p].log) \in Nat
        /\ Len(K[p].log) = Len(ses[p].log) + 1 /\ K[p].log[Len(ses[p].log) + 1] = e
    BY <1>1, <1>9, GrownFacts
  <2>2. DOMAIN K[p].log = 1..Len(K[p].log)
    BY <2>1, <1>3, <1>9, LogTyped
  <2>3. Len(ses[p].log) + 1 \in DOMAIN K[p].log
    BY <2>1, <2>2
  <2> QED
    BY <2>1, <2>3, <1>3, <1>9 DEF EndedIn
<1>11. Moves
  BY StepChain
<1>12. \A b \in DOMAIN ses : b <= p =>
          Span(K, a, b) = Span(ses, a, b) /\ (LinkedUp(ses, a, b) => LinkedUp(K, a, b))
  BY <1>4, <1>11, SpansStay
<1>13. p <= p
  BY <1>3
<1>14. LinkedUp(K, a, p)
  BY <1>3, <1>4, <1>12, <1>13
<1>15. lease[op] = {a}
  BY <1>7 DEF LeaseSpans
<1> DEFINE R == RangeSessions(ses[p].ops[op])
<1>16. Span(ses, a, p) \subseteq R
  BY <1>4, <1>7 DEF EvidenceOwned, Covers
<1>17. R \subseteq DOMAIN ses /\ \A y \in R : y <= p
  <2>1. R \subseteq DOMAIN ses
    BY <1>1, <1>3, RangesExist DEF JInv
  <2>2. BehindIn(ses, p)
    BY <1>1, <1>3 DEF ChainIn
  <2> QED
    BY <2>1, <2>2, <1>3 DEF BehindIn
<1>18. a \in DOMAIN ses /\ a <= p
  <2>1. a \in DOMAIN ses /\ a <= handle
    BY <1>1, <1>15 DEF LeaseSpans
  <2>2. handle <= p /\ handle \in Nat
    BY <1>3, <1>4, FurthestExists
  <2> QED
    BY <2>1, <2>2, <1>3
<1> HIDE DEF R
<1>19. ASSUME NEW y \in {a} \union R
       PROVE  y <= p /\ Span(K, a, y) \subseteq {a} \union R
  <2>1. y \in DOMAIN ses /\ y <= p /\ y \in Nat
    BY <1>1, <1>17, <1>18, Numbered
  <2>2. Span(K, a, y) = Span(ses, a, y)
    BY <2>1, <1>12
  <2>3. Span(ses, a, y) \subseteq Span(ses, a, p)
    BY <2>1, <1>1, <1>3, SpanNearer
  <2> QED
    BY <2>1, <2>2, <2>3, <1>16
<1>20. lease'[op] = {a} \union R
  BY <1>15 DEF R
<1>21. LeaseSpans(op, a)'
  BY <1>1, <1>10, <1>19, <1>20 DEF LeaseSpans
<1>22. EvidenceOwned(op, a)'
  BY <1>10 DEF EvidenceOwned
<1> QED
  BY <1>1, <1>2, <1>3, <1>6, <1>7, <1>10, <1>14, <1>21, <1>22

(* The start of the operation: its reader stands at the start record, and  *)
(* the session it is in is all its evidence.                               *)
LEMMA EvidenceOpened ==
    ASSUME JInv, ChainInv, Needed, JournalNext, NEW op \in Ops, NEW a, a = handle',
           lease[op] = {}, lease'[op] # {}
    PROVE  /\ LinkedUp(ses, a, Furthest)' /\ EvidenceOwned(op, a)' /\ LeaseSpans(op, a)'
           /\ StartedIn(ses', op) /\ ~EndedIn(ses', op) /\ ~Rolling'
<1> DEFINE K == ses'
<1>1. /\ Begins(op) /\ job # None /\ job.step = "append"
      /\ lease'[op] = {a} /\ a = job.pred /\ a = Tip /\ TipActive
      /\ a \in DOMAIN K /\ a # None /\ a \in Nat
  BY OpenedReader
<1>2. /\ AppendUnit /\ job.unit.t = "operation_started" /\ job.unit.id = op
      /\ Types /\ JobOK /\ RangesIn(ses, FrozenNow) /\ ses \in Seq(SessionT)
  BY <1>1 DEF Begins, JInv, Types
<1>3. Rolling /\ UnitJob
  BY <1>1, <1>2 DEF JobOK, StartupJob, Rolling
<1>4. ~StartedIn(ses, op) /\ a \in DOMAIN ses
  BY <1>1, <1>2, <1>3 DEF UnitJob, UnitOK
<1>5. job' = None
  BY <1>2 DEF AppendUnit
<1>6. ~Rolling' /\ Tip' = a /\ Furthest' = a
  BY <1>5 DEF Rolling, Tip, Furthest
<1>7. PICK e : Admits(e)
  BY <1>2, AdmittedStep
<1>8. /\ K \in Seq(SessionT) /\ GrownBy(ses, K, a, e) /\ MovesOps(ses[a], a, K[a], e)
      /\ e.t = "operation_started" /\ e.id = op
  BY <1>1, <1>2, <1>7 DEF Admits
<1>9. StartedIn(K, op)
  <2>1. /\ Len(ses[a].log) \in Nat
        /\ Len(K[a].log) = Len(ses[a].log) + 1 /\ K[a].log[Len(ses[a].log) + 1] = e
    BY <1>2, <1>8, GrownFacts
  <2>2. DOMAIN K[a].log = 1..Len(K[a].log)
    BY <1>1, <1>8, LogTyped
  <2>3. Len(ses[a].log) + 1 \in DOMAIN K[a].log
    BY <2>1, <2>2
  <2> QED
    BY <2>1, <2>3, <1>1, <1>8 DEF StartedIn
<1>10. ~EndedIn(K, op)
  <2>1. ~Completed(op)
    BY <1>2 DEF Completed
  <2>2. ~EndedIn(ses, op)
    BY <1>2, <1>4, ClaimedStarted
  <2> QED
    BY <2>1, <2>2, <1>8, JournalWritten, EndsOnce
<1>11. Span(K, a, a) \subseteq {a} /\ LinkedUp(K, a, a)
  BY <1>1, <1>8, SpanAlone
<1>12. op \in DOMAIN K[a].ops /\ RangeSessions(K[a].ops[op]) = {a}
  <2>1. /\ op \in DOMAIN K[a].ops
        /\ K[a].ops[op] = <<[s |-> a, from |-> Len(ses[a].log), to |-> None]>>
    BY <1>8 DEF MovesOps
  <2> QED
    BY <2>1 DEF RangeSessions
<1>13. EvidenceOwned(op, a)'
  <2>1. Covers(K, op, a, a, a)
    BY <1>11, <1>12 DEF Covers
  <2> QED
    BY <2>1, <1>1, <1>6 DEF EvidenceOwned
<1>14. LeaseSpans(op, a)'
  <2>1. a <= a
    BY <1>1
  <2> QED
    BY <2>1, <1>1, <1>11 DEF LeaseSpans
<1> QED
  BY <1>6, <1>9, <1>10, <1>11, <1>13, <1>14

(* What the recorder works on next while it runs.                          *)
LEMMA JobMoves ==
    ASSUME JInv, JournalNext, ~CreateFirst, phase' = "running"
    PROVE  /\ phase = "running"
           /\ Rolling' => Offer \/ (Rolling /\ job'.unit = job.unit)
<1>1. Types /\ JobOK /\ (job = None \/ job \in Jobs)
  BY DEF JInv, Types
<1>2. CASE RecoverSession \/ RecoveryDone
  <2>1. phase = "boot" /\ phase' = phase
    BY <1>1, <1>2 DEF JobOK, StartupJob, RecoverSession, RecoveryDone
  <2> QED
    BY <2>1
<1>3. CASE RecoveryFails \/ FindEnded \/ InputError \/ FailSession \/ Shutdown \/ Restart
  BY <1>3 DEF RecoveryFails, FindEnded, InputError, FailSession, Shutdown, Restart
<1>4. CASE Offer
  BY <1>4 DEF Offer
<1>5. CASE AppendUnit
  <2>1. /\ job # None /\ job.step = "append" /\ phase' = phase
        /\ job' = None \/ job' = SweepJob({job.pred})
    BY <1>5 DEF AppendUnit
  <2>2. UnitJob
    BY <2>1, <1>1 DEF JobOK, StartupJob, Rolling
  <2>3. {job.pred} \in SUBSET Nat
    BY <2>2, <1>1, NamesAreNumbers DEF UnitJob
  <2> QED
    BY <2>1, <2>3, SweepJobTyped DEF Rolling
<1>6. CASE AppendFails \/ RolloverFails
  <2>1. PICK U : Stopped \/ LetThrough(U)
    BY <1>6, WriteFailsEnds
  <2> QED
    BY <2>1 DEF Stopped, LetThrough, Rolling
<1>7. CASE RolloverCreate \/ RolloverAnnounce \/ RolloverContinue
  <2>1. /\ job # None /\ phase' = phase
        /\ \/ job' = [job EXCEPT !.step = "announce", !.succ = Len(ses) + 1]
           \/ job' = [job EXCEPT !.step = "continue"]
           \/ job' = job
    BY <1>7 DEF RolloverCreate, RolloverAnnounce, RolloverContinue
  <2>2. job'.unit = job.unit
    BY <2>1, <1>1 DEF Jobs
  <2> QED
    BY <2>1, <2>2 DEF Rolling
<1>8. CASE RolloverLink
  <2>1. /\ job # None /\ job.step = "continue" /\ phase' = phase
        /\ job' = Job("sweep", job.unit, job.succ, job.succ, {job.succ})
    BY <1>8 DEF RolloverLink
  <2>2. job \in Jobs /\ job.succ \in Nat
    BY <2>1, RolloverFacts
  <2>3. /\ "sweep" \in Steps /\ job.unit \in Units \union {None}
        /\ job.succ \in Nat \union {None} /\ {job.succ} \in SUBSET Nat
    BY <2>2, JobFields DEF Steps
  <2>4. job'.unit = job.unit
    BY <2>1, <2>3, JobTyped
  <2> QED
    BY <2>1, <2>4 DEF Rolling
<1>9. CASE Sweep \/ SweepFails
  <2>1. job # None /\ phase' = phase /\ job' = AfterSweep
    BY <1>9 DEF Sweep, SweepFails
  <2>2. job' = None \/ job' = [job EXCEPT !.step = "append", !.held = {}]
    BY <2>1 DEF AfterSweep
  <2>3. job' = None \/ job'.unit = job.unit
    BY <2>1, <2>2, <1>1 DEF Jobs
  <2> QED
    BY <2>1, <2>3 DEF Rolling
<1>10. CASE CloseReader \/ MarkBaseline \/ ClearBaseline
  <2>1. phase' = phase /\ (job' = job \/ job' = SweepJob({}))
    BY <1>10 DEF CloseReader, MarkBaseline, ClearBaseline
  <2>2. {} \in SUBSET Nat
    OBVIOUS
  <2> QED
    BY <2>1, <2>2, SweepJobTyped DEF Rolling
<1> QED
  BY <1>2, <1>3, <1>4, <1>5, <1>6, <1>7, <1>8, <1>9, <1>10 DEF JournalNext

(* A running recorder completes an operation only over a closed reader.    *)
LEMMA UnfinishedStays ==
    ASSUME JInv, JournalNext, Moves, ~CreateFirst, NEW op \in Ops, Unfinished(op),
           ~Completes(op), ~Completed(op)
    PROVE  Unfinished(op)'
<1>1. SUFFICES ASSUME phase' = "running"
               PROVE  /\ ~EndedIn(ses', op)
                      /\ ~(Rolling' /\ job'.unit.t = "operation_terminal" /\ job'.unit.id = op)
  BY DEF Unfinished
<1>2. /\ phase = "running"
      /\ Rolling' => Offer \/ (Rolling /\ job'.unit = job.unit)
  BY <1>1, JobMoves
<1>3. /\ ~EndedIn(ses, op)
      /\ ~(Rolling /\ job.unit.t = "operation_terminal" /\ job.unit.id = op)
  BY <1>2 DEF Unfinished
<1>4. ~EndedIn(ses', op)
  BY <1>3, JournalWritten, EndsOnce DEF Moves
<1>5. ~(Rolling' /\ job'.unit.t = "operation_terminal" /\ job'.unit.id = op)
  <2>1. SUFFICES ASSUME Offer, job'.unit.t = "operation_terminal", job'.unit.id = op
                 PROVE  FALSE
    BY <1>2, <1>3
  <2>2. job = None /\ job' # None /\ \E u \in Units : job'.unit = u
    BY <2>1, OfferedJob
  <2>3. job'.unit = [t |-> "operation_terminal", id |-> op]
    BY <2>1, <2>2 DEF Units
  <2> QED
    BY <2>2, <2>3, <1>2 DEF Completes
<1> QED
  BY <1>4, <1>5

LEMMA JournalReaches ==
    ASSUME JInv, ChainInv, Needed, PlaceInv, ReachInv, JournalStep
    PROVE  ReachInv'
<1>1. /\ JInv' /\ ChainInv' /\ Needed' /\ Moves /\ JournalNext
  BY StepKeeps, StepChain, StepNeeded DEF JournalStep
<1>2. /\ ses \in Seq(SessionT) /\ ses' \in Seq(SessionT) /\ Follows(ses, ses')
  BY <1>1 DEF Moves, JInv, Types
<1>3. SUFFICES ASSUME Recording', NEW op \in Ops, rd'[op].st # "closed" PROVE Reaches(op)'
  BY DEF ReachInv
<1>4. rd'[op] # Closed
  BY <1>3 DEF Closed
<1>5. CASE lease[op] = {} /\ lease'[op] # {} /\ rd'[op] = OpenedAt(handle')
  <2>1. PICK a : a = handle'
    OBVIOUS
  <2>2. /\ LinkedUp(ses, a, Furthest)' /\ EvidenceOwned(op, a)' /\ LeaseSpans(op, a)'
        /\ StartedIn(ses', op) /\ ~EndedIn(ses', op) /\ ~Rolling'
    BY <2>1, <1>1, <1>5, EvidenceOpened
  <2>3. rd'[op].start.s = a /\ rd'[op].st = "idle"
    BY <2>1, <1>5 DEF OpenedAt, Cursor
  <2>4. ErrorExplained(op, rd[op])' /\ Unfinished(op)'
    BY <2>2, <2>3 DEF ErrorExplained, Unfinished
  <2> QED
    BY <2>2, <2>3, <2>4 DEF Reaches
<1>6. CASE lease[op] # {} /\ lease'[op] # {} /\ rd'[op] = rd[op] /\ ~Completes(op)
  <2>1. PICK r : r = rd[op]
    OBVIOUS
  <2>2. rd'[op] = r /\ r.st # "closed"
    BY <2>1, <1>3, <1>6
  <2>3. PICK a : a = r.start.s
    OBVIOUS
  <2>4. handle # None /\ StandsIn(ses, handle, r) /\ a \in Nat
    <3>1. ReadingAs(ses, handle, lease[op], r)
      BY <2>1 DEF PlaceInv
    <3>2. handle # None /\ StandsIn(ses, handle, r)
      BY <2>2, <3>1 DEF ReadingAs
    <3>3. CursorIn(ses, r.start)
      BY <3>2 DEF StandsIn
    <3> QED
      BY <3>2, <3>3, <2>3, <1>2, CursorNumbers
  <2>5. ~CreateFirst /\ handle' # None
    BY <2>4, <1>1, <1>6, HandleMovesOn
  <2>6. Recording /\ (StaysAtTip \/ RolloverLink)
    BY <2>5, <1>1, <1>3 DEF Moves
  <2>7. /\ StartedIn(ses, op) /\ LinkedUp(ses, a, Furthest) /\ EvidenceOwned(op, a)
        /\ LeaseSpans(op, a) /\ ErrorExplained(op, r) /\ Unfinished(op)
    BY <2>1, <2>2, <2>3, <2>6 DEF ReachInv, Reaches
  <2>8. /\ StartedIn(ses', op)
        /\ EndedIn(ses, op) => EndedIn(ses', op)
        /\ InterruptedIn(ses, op) => InterruptedIn(ses', op)
    BY <2>7, <1>2, FactsStay
  <2>9. ~Begins(op)
    <3>1. SUFFICES ASSUME Begins(op) PROVE FALSE
      OBVIOUS
    <3>2. /\ job # None /\ job.step = "append" /\ job.unit.t = "operation_started"
          /\ job.unit.id = op
      BY <3>1 DEF Begins, AppendUnit
    <3>3. UnitJob
      BY <3>2 DEF JInv, JobOK, StartupJob, Rolling
    <3> QED
      BY <3>2, <3>3, <2>7 DEF UnitJob, UnitOK
  <2>10. CASE Completed(op)
    <3>1. lease'[op] = lease[op] \union RangeSessions(ses[job.pred].ops[op])
      BY <2>9, <2>10, <1>1, <1>6, LeasesMove DEF LeaseMoves
    <3>2. /\ LinkedUp(ses, a, Furthest)' /\ EvidenceOwned(op, a)' /\ LeaseSpans(op, a)'
          /\ ~EndedIn(ses, op) /\ ~InterruptedIn(ses, op) /\ EndedIn(ses', op)
          /\ Recording /\ phase' = phase /\ Rolling
      BY <3>1, <2>4, <2>7, <2>10, <1>1, EvidenceCompleted
    <3>3. phase # "running"
      BY <2>7, <2>10, <3>2 DEF Unfinished, Completed
    <3>4. Unfinished(op)'
      BY <3>2, <3>3 DEF Unfinished
    <3>5. r.st # "error"
      BY <3>2, <2>7 DEF ErrorExplained
    <3>6. ErrorExplained(op, rd[op])'
      BY <3>5, <2>2 DEF ErrorExplained
    <3> QED
      BY <3>2, <3>4, <3>6, <2>2, <2>3, <2>8 DEF Reaches
  <2>11. CASE ~Completed(op)
    <3>1. lease'[op] = lease[op]
      BY <2>9, <2>11, <1>1, <1>6, LeasesMove DEF LeaseMoves
    <3>2. Unfinished(op)'
      BY <2>5, <2>7, <2>11, <1>1, <1>6, UnfinishedStays
    <3>3. ErrorExplained(op, rd[op])'
      BY <3>1, <2>2, <2>7, <2>8 DEF ErrorExplained
    <3>4. LinkedUp(ses, a, Furthest)' /\ EvidenceOwned(op, a)' /\ LeaseSpans(op, a)'
      <4>1. CASE RolloverLink
        BY <4>1, <2>4, <2>7, EvidenceLinked
      <4>2. CASE StaysAtTip /\ ~RolloverLink
        BY <4>2, <3>1, <2>4, <2>5, <2>6, <2>7, <2>11, <1>1, EvidenceStays
      <4> QED
        BY <4>1, <4>2, <2>6
    <3> QED
      BY <3>2, <3>3, <3>4, <2>2, <2>3, <2>8 DEF Reaches
  <2> QED
    BY <2>10, <2>11
<1> QED
  BY <1>4, <1>5, <1>6, ReaderMoves

(* A turn that fails finds its operation interrupted, or completed over a  *)
(* tail beyond its evidence.                                               *)
LEMMA TurnFailsFor ==
    ASSUME JInv, ChainInv, Needed, Recording, NEW op \in Ops, NEW r,
           StandsIn(ses, handle, r), r.st = "reading", TurnFails(ses, r),
           LinkedUp(ses, r.start.s, Furthest), EvidenceOwned(op, r.start.s),
           LeaseSpans(op, r.start.s)
    PROVE  InterruptedIn(ses, op) \/ (EndedIn(ses, op) /\ r.end.s \notin lease[op])
<1> DEFINE a == r.start.s
<1> DEFINE s == r.at.s
<1> DEFINE e == r.end.s
<1>1. /\ CursorIn(ses, r.start) /\ CursorIn(ses, r.at) /\ CursorIn(ses, r.end)
      /\ a <= s /\ ~Orphan(ses, s) /\ s <= e /\ e <= handle /\ ses \in Seq(SessionT)
  BY DEF StandsIn, JInv, Types
<1>2. a \in Nat /\ s \in DOMAIN ses /\ s \in Nat /\ e \in Nat
  BY <1>1, CursorNumbers
<1>3. Furthest \in Nat /\ handle \in Nat /\ handle <= Furthest
  BY FurthestExists
<1>4. /\ LinkedUp(ses, a, Furthest) /\ EvidenceOwned(op, a) /\ LeaseSpans(op, a)
      /\ TurnFails(ses, r)
  OBVIOUS
<1>5. s \in Span(ses, a, e) /\ s \in Span(ses, a, Furthest)
  <2> DEFINE f == Furthest
  <2>1. f \in Nat /\ e <= f
    BY <1>1, <1>2, <1>3
  <2> HIDE DEF f
  <2>2. s <= f
    BY <2>1, <1>1, <1>2
  <2>3. s \in Span(ses, a, e) /\ s \in Span(ses, a, f)
    BY <2>2, <1>1, <1>2 DEF Span
  <2> QED
    BY <2>3 DEF f
<1>6. ses[s].disk # "whole"
  <2>1. SUFFICES ASSUME s # e, ses[s].succ = None PROVE FALSE
    BY <1>4 DEF TurnFails
  <2>2. s # Furthest
    BY <2>1, <1>1, <1>2, <1>3
  <2> QED
    BY <2>1, <2>2, <1>4, <1>5 DEF LinkedUp
<1> HIDE DEF a, s, e
<1>7. SUFFICES ASSUME ~InterruptedIn(ses, op) PROVE EndedIn(ses, op) /\ e \notin lease[op]
  BY DEF e
<1>8. ASSUME ~EndedIn(ses, op) PROVE FALSE
  <2>1. PICK w \in DOMAIN ses : Covers(ses, op, a, Furthest, w)
    BY <1>4, <1>7, <1>8 DEF EvidenceOwned
  <2>2. op \in DOMAIN ses[w].ops /\ s \in RangeSessions(ses[w].ops[op])
    BY <2>1, <1>5 DEF Covers
  <2>3. OpsWhole(ses, w)
    BY DEF Needed, NeededIn
  <2> QED
    BY <2>2, <2>3, <1>6 DEF OpsWhole, WholeIn
<1>9. ASSUME e \in lease[op] PROVE FALSE
  <2>1. s \in lease[op]
    BY <1>4, <1>5, <1>9 DEF LeaseSpans
  <2>2. WholeIn(ses, lease[op])
    BY DEF Needed, NeededIn
  <2> QED
    BY <2>1, <2>2, <1>6 DEF WholeIn
<1> QED
  BY <1>8, <1>9

(* The readers move neither the journal nor the evidence in it.            *)
LEMMA EvidenceSame ==
    ASSUME UNCHANGED <<ses, handle, phase, job, lease>>, NEW op, NEW a, NEW r
    PROVE  /\ StartedIn(ses, op)' <=> StartedIn(ses, op)
           /\ LinkedUp(ses, a, Furthest)' <=> LinkedUp(ses, a, Furthest)
           /\ EvidenceOwned(op, a)' <=> EvidenceOwned(op, a)
           /\ LeaseSpans(op, a)' <=> LeaseSpans(op, a)
           /\ ErrorExplained(op, r)' <=> ErrorExplained(op, r)
           /\ Unfinished(op)' <=> Unfinished(op)
           /\ Recording' <=> Recording
<1>1. ses' = ses /\ handle' = handle /\ phase' = phase /\ job' = job /\ lease' = lease
  OBVIOUS
<1>2. (Recording' <=> Recording) /\ (Rolling' <=> Rolling) /\ Tip' = Tip
  BY <1>1 DEF Recording, Rolling, Tip
<1>3. TipActive' <=> TipActive
  BY <1>1, <1>2 DEF TipActive
<1>4. Furthest' = Furthest
  BY <1>1, <1>2, <1>3 DEF Furthest
<1>5. StartedIn(ses, op)' <=> StartedIn(ses, op)
  BY <1>1
<1>6. LinkedUp(ses, a, Furthest)' <=> LinkedUp(ses, a, Furthest)
  BY <1>1, <1>4
<1>7. EvidenceOwned(op, a)' <=> EvidenceOwned(op, a)
  BY <1>1, <1>2, <1>3, <1>4 DEF EvidenceOwned
<1>8. LeaseSpans(op, a)' <=> LeaseSpans(op, a)
  BY <1>1 DEF LeaseSpans
<1>9. ErrorExplained(op, r)' <=> ErrorExplained(op, r)
  BY <1>1 DEF ErrorExplained
<1>10. Unfinished(op)' <=> Unfinished(op)
  BY <1>1, <1>2 DEF Unfinished
<1> QED
  BY <1>2, <1>5, <1>6, <1>7, <1>8, <1>9, <1>10

LEMMA ReachesSame ==
    ASSUME UNCHANGED <<ses, handle, phase, job, lease>>, NEW op, Reaches(op),
           rd'[op].start = rd[op].start, NEW r, r = rd'[op], ErrorExplained(op, r)
    PROVE  Reaches(op)'
<1>1. PICK a : a = rd[op].start.s
  OBVIOUS
<1>2. /\ StartedIn(ses, op) /\ LinkedUp(ses, a, Furthest) /\ EvidenceOwned(op, a)
      /\ LeaseSpans(op, a) /\ Unfinished(op) /\ rd'[op].start.s = a
  BY <1>1 DEF Reaches
<1>3. /\ StartedIn(ses, op)' /\ LinkedUp(ses, a, Furthest)' /\ EvidenceOwned(op, a)'
      /\ LeaseSpans(op, a)' /\ Unfinished(op)' /\ ErrorExplained(op, r)'
  BY <1>2, EvidenceSame
<1>4. /\ LinkedUp(ses, rd[op].start.s, Furthest)' /\ EvidenceOwned(op, rd[op].start.s)'
      /\ LeaseSpans(op, rd[op].start.s)' /\ ErrorExplained(op, rd[op])'
  BY <1>2, <1>3
<1> QED
  BY <1>3, <1>4 DEF Reaches

LEMMA ReadToReaches ==
    ASSUME JInv, ChainInv, Needed, PlaceInv, ReachInv, ReadTo
    PROVE  ReachInv'
<1>1. PICK op \in Ops : rd[op].st = "reading" /\ rd' = [rd EXCEPT ![op] = ReadTurn(rd[op])]
  BY DEF ReadTo
<1> DEFINE r == rd[op]
<1> DEFINE q == ReadTurn(r)
<1>2. /\ rd \in [Ops -> RdT] /\ ReadingAs(ses, handle, lease[op], r)
      /\ ses \in Seq(SessionT) /\ SessionsIn(ses) /\ ChainIn(ses)
      /\ rd' = [rd EXCEPT ![op] = q]
  BY <1>1, ChainTypes DEF PlaceInv
<1>3. /\ r \in RdT /\ handle # None /\ StandsIn(ses, handle, r) /\ SeesIn(ses, r)
      /\ r.st = "reading" /\ r.st # "closed"
  BY <1>1, <1>2 DEF ReadingAs
<1>4. handle \in Nat
  BY <1>3, NamesAreNumbers DEF JInv, Types
<1>5. UNCHANGED <<ses, handle, phase, job, lease>> /\ (Recording' <=> Recording)
  BY DEF ReadTo, vars, Recording
<1> HIDE DEF r, q
<1>6. /\ q.start = r.start /\ q.end = r.end /\ q.st # "closed"
      /\ q.st = "error" => TurnFails(ses, r)
  BY <1>2, <1>3, <1>4, ReadTurnExact DEF q
<1>7. SUFFICES ASSUME Recording, NEW o \in Ops, rd'[o].st # "closed" PROVE Reaches(o)'
  BY <1>5 DEF ReachInv
<1>8. CASE o # op
  <2>1. rd'[o] = rd[o]
    BY <1>2, <1>8
  <2>2. Reaches(o)
    BY <2>1, <1>7 DEF ReachInv
  <2>3. ErrorExplained(o, rd[o])
    BY <2>2 DEF Reaches
  <2> QED
    BY <2>1, <2>2, <2>3, <1>5, ReachesSame
<1>9. CASE o = op
  <2>1. rd'[o] = q /\ rd[o] = r
    BY <1>2, <1>9 DEF r
  <2>2. Reaches(o)
    BY <2>1, <1>3, <1>7 DEF ReachInv
  <2>3. /\ LinkedUp(ses, r.start.s, Furthest) /\ EvidenceOwned(o, r.start.s)
        /\ LeaseSpans(o, r.start.s)
    BY <2>1, <2>2 DEF Reaches
  <2>4. ErrorExplained(o, q)
    <3>1. SUFFICES ASSUME q.st = "error"
                   PROVE  InterruptedIn(ses, o) \/ (EndedIn(ses, o) /\ q.end.s \notin lease[o])
      BY DEF ErrorExplained
    <3>2. InterruptedIn(ses, o) \/ (EndedIn(ses, o) /\ r.end.s \notin lease[o])
      BY <3>1, <2>3, <1>3, <1>6, <1>7, TurnFailsFor
    <3> QED
      BY <3>2, <1>6
  <2> QED
    BY <2>1, <2>2, <2>4, <1>5, <1>6, ReachesSame
<1> QED
  BY <1>8, <1>9

LEMMA BeginReadReaches ==
    ASSUME PlaceInv, ReachInv, BeginRead
    PROVE  ReachInv'
<1>1. PICK op \in Ops :
         /\ rd[op].st = "idle"
         /\ rd' = [rd EXCEPT ![op].st = "reading", ![op].end = PublishedTail]
  BY DEF BeginRead
<1> DEFINE q == [rd[op] EXCEPT !.st = "reading", !.end = PublishedTail]
<1>2. rd \in [Ops -> RdT] /\ rd' = [rd EXCEPT ![op] = q]
  BY <1>1 DEF PlaceInv
<1>3. q.start = rd[op].start /\ q.st = "reading"
  BY <1>2 DEF RdT
<1> HIDE DEF q
<1>4. UNCHANGED <<ses, handle, phase, job, lease>> /\ (Recording' <=> Recording)
  BY DEF BeginRead, vars, Recording
<1>5. SUFFICES ASSUME Recording, NEW o \in Ops, rd'[o].st # "closed" PROVE Reaches(o)'
  BY <1>4 DEF ReachInv
<1>6. /\ rd[o].st # "closed" /\ rd'[o].start = rd[o].start
      /\ rd'[o].st = "error" => rd'[o] = rd[o]
  BY <1>1, <1>2, <1>3, <1>5
<1>7. Reaches(o)
  BY <1>5, <1>6 DEF ReachInv
<1>8. ErrorExplained(o, rd[o])
  BY <1>7 DEF Reaches
<1>9. PICK r : r = rd'[o]
  OBVIOUS
<1>10. ErrorExplained(o, r)
  BY <1>6, <1>8, <1>9 DEF ErrorExplained
<1> QED
  BY <1>4, <1>6, <1>7, <1>9, <1>10, ReachesSame

LEMMA StepReach ==
    ASSUME JInv, ChainInv, Needed, PlaceInv, ReachInv, [ReadersNext]_allVars
    PROVE  ReachInv'
<1>1. CASE JournalStep \/ BeginRead \/ ReadTo
  BY <1>1, JournalReaches, BeginReadReaches, ReadToReaches
<1>2. CASE TailAttach \/ TailPoll \/ TailSnapshot \/ TailRead \/ UNCHANGED allVars
  <2>1. UNCHANGED <<ses, handle, phase, job, lease>> /\ rd' = rd /\ (Recording' <=> Recording)
    BY <1>2 DEF TailAttach, TailPoll, TailSnapshot, TailRead, allVars, vars, readerVars, Recording
  <2>2. SUFFICES ASSUME Recording, NEW op \in Ops, rd[op].st # "closed" PROVE Reaches(op)'
    BY <2>1 DEF ReachInv
  <2>3. Reaches(op)
    BY <2>2 DEF ReachInv
  <2>4. PICK r : r = rd'[op]
    OBVIOUS
  <2>5. ErrorExplained(op, r)
    BY <2>1, <2>3, <2>4 DEF Reaches
  <2> QED
    BY <2>1, <2>3, <2>4, <2>5, ReachesSame
<1> QED
  BY <1>1, <1>2 DEF ReadersNext

LEMMA InitReach ==
    ASSUME ReadersInit
    PROVE  ReachInv
  BY DEF ReadersInit, Init, ReachInv, Recording

(* A reader that failed was refused by a failure, or read past what a      *)
(* failing recorder completed.                                             *)
LEMMA ReachExact == ReachInv => ReaderReachesTail
<1> SUFFICES ASSUME ReachInv, Recording, NEW op \in Ops, rd[op].st = "error"
             PROVE  \/ Interrupted(op)
                    \/ phase = "failing" /\ Ended(op) /\ rd[op].end.s \notin lease[op]
  BY DEF ReaderReachesTail, Recording
<1>1. ErrorExplained(op, rd[op]) /\ Unfinished(op)
  BY DEF ReachInv, Reaches
<1>2. (Interrupted(op) <=> InterruptedIn(ses, op)) /\ (Ended(op) <=> EndedIn(ses, op))
  BY DEF Interrupted, InterruptedIn, Ended, EndedIn
<1> QED
  BY <1>1, <1>2 DEF ErrorExplained, Unfinished, Recording

(* The Monitor reader sees exactly the UART records of its operation, and  *)
(* always reaches the tail it was given, unless its operation failed or a  *)
(* failing recorder completed it.                                          *)
THEOREM ReaderStaysExact == ReadersSpec => []ReaderIsExact
<1> DEFINE Invs == JInv /\ ChainInv /\ Needed /\ TailInv /\ PlaceInv /\ ReachInv
<1>1. ReadersInit => Invs
  BY InitKeeps, InitChain, InitNeeded, InitTail, InitPlaces, InitReach DEF ReadersInit
<1>2. Invs /\ [ReadersNext]_allVars => Invs'
  BY ReadersLeaveJournal, StepTail, StepPlaces, StepReach
<1>3. Invs => ReaderIsExact
  BY PlacesSeeAll, ReachExact DEF ReaderIsExact
<1> HIDE DEF Invs
<1> QED
  BY <1>1, <1>2, <1>3, PTL DEF ReadersSpec
=============================================================================
