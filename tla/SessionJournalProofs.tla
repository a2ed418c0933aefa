------------------------ MODULE SessionJournalProofs ------------------------
(***************************************************************************)
(* Proofs about SessionJournal: however rollovers, failures, crashes and   *)
(* recovery interleave, the sessions form one journal (JournalIsWhole) of  *)
(* which retention keeps what is needed (RetentionIsSound).                *)
(*                                                                         *)
(* The inductive invariant JInv is a conjunction of named parts.  Types    *)
(* and SessionsIn say what a session is; RangesIn and PendsIn say that     *)
(* every range claimed and every pending attempt lies in the log where it  *)
(* is said to; JobOK says what a store call in progress may rely on,       *)
(* whatever failed before it; Owners says who may append and who owns an   *)
(* operation.  A step changes the list of sessions in one of six ways (see *)
(* Kept); each action is shown to be one of them.                          *)
(***************************************************************************)
EXTENDS SessionJournal, FiniteSetTheorems, WellFoundedInduction, TLAPS

(* The types of a session's fields, independent of the state.              *)
EntryTypes == UnitTypes \union Bookkeeping
RangeT == [s : Nat, from : Nat, to : Nat \union {None}]
PendT == [s : Nat, seq : Nat, kind : {"uart_tx", "control"}]
IdT == Ops \union Attempts \union {None}
RefT == {None} \union Seq(RangeT) \union PendT
EntryT == [t : EntryTypes, id : IdT, ref : RefT, live : BOOLEAN]
OpsT == UNION {[D -> Seq(RangeT)] : D \in SUBSET Ops}
PendMapT == UNION {[D -> PendT] : D \in SUBSET Attempts}
DiskT == {"whole", "damaged", "gone"}
NameT == Nat \union {None}
SessionT ==
    [disk : DiskT, state : States, log : Seq(EntryT), pred : NameT, succ : NameT,
     ops : OpsT, cut : OpsT, pend : PendMapT, segs : Nat, open : BOOLEAN,
     gaps : Nat, loss : BOOLEAN, fault : BOOLEAN]
SpentT == [uart : Nat, gap : Nat, loss : Nat, mark : Nat, fault : Nat, crash : Nat,
           swallowed : 0..2]

Types ==
    /\ ses \in Seq(SessionT)
    /\ handle \in DOMAIN ses \union {None} /\ baseline \in DOMAIN ses \union {None}
    /\ phase \in {"boot", "running", "failing", "stopped", "down"}
    /\ job \in Jobs \union {None}
    /\ wire \in BOOLEAN /\ used \subseteq Ops \union Attempts
    /\ lease \in [Ops -> SUBSET DOMAIN ses] /\ tails \subseteq DOMAIN ses
    /\ spent \in SpentT

-----------------------------------------------------------------------------
(* A function that is a JSON object, and what With and Without do to it.   *)
LEMMA OpsIntro ==
    ASSUME NEW f, NEW D \in SUBSET Ops, f \in [D -> Seq(RangeT)]
    PROVE  f \in OpsT
  BY DEF OpsT

(* What a map from operations to their ranges holds.                       *)
LEMMA OpsElim ==
    ASSUME NEW f \in OpsT
    PROVE  /\ DOMAIN f \in SUBSET Ops /\ f \in [DOMAIN f -> Seq(RangeT)]
           /\ \A op \in DOMAIN f : f[op] \in Seq(RangeT)
<1>1. PICK D \in SUBSET Ops : f \in [D -> Seq(RangeT)]
  BY DEF OpsT
<1>2. DOMAIN f = D
  BY <1>1
<1> QED
  BY <1>1, <1>2

(* A map from attempts to their pending records.                           *)
LEMMA PendIntro ==
    ASSUME NEW f, NEW D \in SUBSET Attempts, f \in [D -> PendT]
    PROVE  f \in PendMapT
  BY DEF PendMapT

(* What a map from attempts to their pending records holds.                *)
LEMMA PendElim ==
    ASSUME NEW f \in PendMapT
    PROVE  /\ DOMAIN f \in SUBSET Attempts /\ f \in [DOMAIN f -> PendT]
           /\ \A a \in DOMAIN f : f[a] \in PendT
<1>1. PICK D \in SUBSET Attempts : f \in [D -> PendT]
  BY DEF PendMapT
<1>2. DOMAIN f = D
  BY <1>1
<1> QED
  BY <1>1, <1>2

(* The empty JSON object is a map of either kind.                          *)
LEMMA EmptyMaps == Empty \in OpsT /\ Empty \in PendMapT /\ DOMAIN Empty = {}
<1>1. DOMAIN Empty = {}
  BY DEF Empty
<1>2. Empty \in [{} -> Seq(RangeT)] /\ Empty \in [{} -> PendT]
  BY DEF Empty
<1>3. {} \in SUBSET Ops /\ {} \in SUBSET Attempts
  OBVIOUS
<1> QED
  BY <1>1, <1>2, <1>3, OpsIntro, PendIntro

(* A JSON object with one more member.                                     *)
LEMMA WithFacts ==
    ASSUME NEW f, NEW key, NEW value
    PROVE  /\ DOMAIN With(f, key, value) = DOMAIN f \union {key}
           /\ With(f, key, value)[key] = value
           /\ \A x \in DOMAIN f : x # key => With(f, key, value)[x] = f[x]
  BY DEF With

(* A JSON object with one member less.                                     *)
LEMMA WithoutFacts ==
    ASSUME NEW f, NEW key
    PROVE  /\ DOMAIN Without(f, key) = DOMAIN f \ {key}
           /\ \A x \in DOMAIN f : x # key => Without(f, key)[x] = f[x]
  BY DEF Without, Restrict

(* An operation more in active_operations leaves it a map of ranges.       *)
LEMMA OpsWith ==
    ASSUME NEW f \in OpsT, NEW op \in Ops, NEW v \in Seq(RangeT)
    PROVE  With(f, op, v) \in OpsT
<1>1. DOMAIN f \union {op} \in SUBSET Ops /\ f \in [DOMAIN f -> Seq(RangeT)]
  BY OpsElim
<1>2. With(f, op, v) \in [DOMAIN f \union {op} -> Seq(RangeT)]
  BY <1>1 DEF With
<1> QED
  BY <1>1, <1>2, OpsIntro

(* An operation less in active_operations leaves it a map of ranges.       *)
LEMMA OpsWithout ==
    ASSUME NEW f \in OpsT, NEW op
    PROVE  Without(f, op) \in OpsT
<1>1. DOMAIN f \ {op} \in SUBSET Ops /\ f \in [DOMAIN f -> Seq(RangeT)]
  BY OpsElim
<1>2. Without(f, op) \in [DOMAIN f \ {op} -> Seq(RangeT)]
  BY <1>1 DEF Without, Restrict
<1> QED
  BY <1>1, <1>2, OpsIntro

(* An attempt more in pending_attempts leaves it a map of attempts.        *)
LEMMA PendWith ==
    ASSUME NEW f \in PendMapT, NEW a \in Attempts, NEW v \in PendT
    PROVE  With(f, a, v) \in PendMapT
<1>1. DOMAIN f \union {a} \in SUBSET Attempts /\ f \in [DOMAIN f -> PendT]
  BY PendElim
<1>2. With(f, a, v) \in [DOMAIN f \union {a} -> PendT]
  BY <1>1 DEF With
<1> QED
  BY <1>1, <1>2, PendIntro

(* An attempt less in pending_attempts leaves it a map of attempts.        *)
LEMMA PendWithout ==
    ASSUME NEW f \in PendMapT, NEW a
    PROVE  Without(f, a) \in PendMapT
<1>1. DOMAIN f \ {a} \in SUBSET Attempts /\ f \in [DOMAIN f -> PendT]
  BY PendElim
<1>2. Without(f, a) \in [DOMAIN f \ {a} -> PendT]
  BY <1>1 DEF Without, Restrict
<1> QED
  BY <1>1, <1>2, PendIntro

(* The last range of a list closes; the others stay as they were.          *)
LEMMA ClosedFacts ==
    ASSUME NEW rs \in Seq(RangeT), Len(rs) > 0, NEW n \in Nat
    PROVE  /\ ClosedAt(rs, n) \in Seq(RangeT) /\ Len(ClosedAt(rs, n)) = Len(rs)
           /\ DOMAIN ClosedAt(rs, n) = DOMAIN rs
           /\ \A i \in 1..Len(rs) :
                 /\ ClosedAt(rs, n)[i].s = rs[i].s /\ ClosedAt(rs, n)[i].from = rs[i].from
                 /\ i < Len(rs) => ClosedAt(rs, n)[i] = rs[i]
           /\ ClosedAt(rs, n)[Len(rs)].to = n
<1>1. ClosedAt(rs, n) = [rs EXCEPT ![Len(rs)] = [rs[Len(rs)] EXCEPT !.to = n]]
  BY DEF ClosedAt
<1>2. /\ rs[Len(rs)] \in RangeT /\ DOMAIN rs = 1..Len(rs) /\ Len(rs) \in 1..Len(rs)
  OBVIOUS
<1> DEFINE last == [rs[Len(rs)] EXCEPT !.to = n]
<1>3. last \in RangeT /\ last.s = rs[Len(rs)].s /\ last.from = rs[Len(rs)].from /\ last.to = n
  BY <1>2 DEF RangeT
<1> HIDE DEF last
<1>4. ClosedAt(rs, n) = [rs EXCEPT ![Len(rs)] = last]
  BY <1>1 DEF last
<1>5. /\ ClosedAt(rs, n) \in Seq(RangeT) /\ Len(ClosedAt(rs, n)) = Len(rs)
      /\ ClosedAt(rs, n)[Len(rs)] = last
      /\ \A i \in 1..Len(rs) : i # Len(rs) => ClosedAt(rs, n)[i] = rs[i]
  BY <1>2, <1>3, <1>4
<1>6. DOMAIN ClosedAt(rs, n) = 1..Len(rs)
  BY <1>5
<1>7. ClosedAt(rs, n)[Len(rs)].to = n
  BY <1>3, <1>5
<1>8. ASSUME NEW i \in 1..Len(rs)
      PROVE  /\ ClosedAt(rs, n)[i].s = rs[i].s /\ ClosedAt(rs, n)[i].from = rs[i].from
             /\ i < Len(rs) => ClosedAt(rs, n)[i] = rs[i]
  <2>1. CASE i = Len(rs)
    BY <2>1, <1>3, <1>5
  <2>2. CASE i # Len(rs)
    BY <2>2, <1>5
  <2> QED
    BY <2>1, <2>2
<1> QED
  BY <1>2, <1>5, <1>6, <1>7, <1>8

(* Appending puts the record last and leaves the others alone.             *)
LEMMA AppendFacts ==
    ASSUME NEW S, NEW x \in Seq(S), NEW y \in S
    PROVE  /\ Append(x, y) \in Seq(S) /\ Len(Append(x, y)) = Len(x) + 1
           /\ Append(x, y)[Len(x) + 1] = y
           /\ \A i \in 1..Len(x) : Append(x, y)[i] = x[i]
           /\ DOMAIN Append(x, y) = 1..(Len(x) + 1)
           /\ DOMAIN x = 1..Len(x) /\ Len(x) \in Nat
  OBVIOUS

-----------------------------------------------------------------------------
(* Writing one field of a session leaves it a session.                     *)
LEMMA Put_disk ==
    ASSUME NEW r \in SessionT, NEW v \in DiskT
    PROVE  [r EXCEPT !.disk = v] \in SessionT /\ [r EXCEPT !.disk = v].disk = v
  BY DEF SessionT

(* Writing the field state of a session leaves it a session.               *)
LEMMA Put_state ==
    ASSUME NEW r \in SessionT, NEW v \in States
    PROVE  [r EXCEPT !.state = v] \in SessionT /\ [r EXCEPT !.state = v].state = v
  BY DEF SessionT

(* Writing the field log of a session leaves it a session.                 *)
LEMMA Put_log ==
    ASSUME NEW r \in SessionT, NEW v \in Seq(EntryT)
    PROVE  [r EXCEPT !.log = v] \in SessionT /\ [r EXCEPT !.log = v].log = v
  BY DEF SessionT

(* Writing the field pred of a session leaves it a session.                *)
LEMMA Put_pred ==
    ASSUME NEW r \in SessionT, NEW v \in NameT
    PROVE  [r EXCEPT !.pred = v] \in SessionT /\ [r EXCEPT !.pred = v].pred = v
  BY DEF SessionT

(* Writing the field succ of a session leaves it a session.                *)
LEMMA Put_succ ==
    ASSUME NEW r \in SessionT, NEW v \in NameT
    PROVE  [r EXCEPT !.succ = v] \in SessionT /\ [r EXCEPT !.succ = v].succ = v
  BY DEF SessionT

(* Writing the field ops of a session leaves it a session.                 *)
LEMMA Put_ops ==
    ASSUME NEW r \in SessionT, NEW v \in OpsT
    PROVE  [r EXCEPT !.ops = v] \in SessionT /\ [r EXCEPT !.ops = v].ops = v
  BY DEF SessionT

(* Writing the field cut of a session leaves it a session.                 *)
LEMMA Put_cut ==
    ASSUME NEW r \in SessionT, NEW v \in OpsT
    PROVE  [r EXCEPT !.cut = v] \in SessionT /\ [r EXCEPT !.cut = v].cut = v
  BY DEF SessionT

(* Writing the field pend of a session leaves it a session.                *)
LEMMA Put_pend ==
    ASSUME NEW r \in SessionT, NEW v \in PendMapT
    PROVE  [r EXCEPT !.pend = v] \in SessionT /\ [r EXCEPT !.pend = v].pend = v
  BY DEF SessionT

(* Writing the field segs of a session leaves it a session.                *)
LEMMA Put_segs ==
    ASSUME NEW r \in SessionT, NEW v \in Nat
    PROVE  [r EXCEPT !.segs = v] \in SessionT /\ [r EXCEPT !.segs = v].segs = v
  BY DEF SessionT

(* Writing the field open of a session leaves it a session.                *)
LEMMA Put_open ==
    ASSUME NEW r \in SessionT, NEW v \in BOOLEAN
    PROVE  [r EXCEPT !.open = v] \in SessionT /\ [r EXCEPT !.open = v].open = v
  BY DEF SessionT

(* Writing the field gaps of a session leaves it a session.                *)
LEMMA Put_gaps ==
    ASSUME NEW r \in SessionT, NEW v \in Nat
    PROVE  [r EXCEPT !.gaps = v] \in SessionT /\ [r EXCEPT !.gaps = v].gaps = v
  BY DEF SessionT

(* Writing the field loss of a session leaves it a session.                *)
LEMMA Put_loss ==
    ASSUME NEW r \in SessionT, NEW v \in BOOLEAN
    PROVE  [r EXCEPT !.loss = v] \in SessionT /\ [r EXCEPT !.loss = v].loss = v
  BY DEF SessionT

(* Writing the field fault of a session leaves it a session.               *)
LEMMA Put_fault ==
    ASSUME NEW r \in SessionT, NEW v \in BOOLEAN
    PROVE  [r EXCEPT !.fault = v] \in SessionT /\ [r EXCEPT !.fault = v].fault = v
  BY DEF SessionT

(* The fields a session has, each of its type.                             *)
LEMMA SessionFields ==
    ASSUME NEW r \in SessionT
    PROVE  /\ DOMAIN r = {"disk", "state", "log", "pred", "succ", "ops", "cut", "pend",
                          "segs", "open", "gaps", "loss", "fault"}
           /\ r.disk \in DiskT /\ r.state \in States /\ r.log \in Seq(EntryT)
           /\ r.pred \in NameT /\ r.succ \in NameT /\ r.ops \in OpsT /\ r.cut \in OpsT
           /\ r.pend \in PendMapT /\ r.segs \in Nat /\ r.open \in BOOLEAN
           /\ r.gaps \in Nat /\ r.loss \in BOOLEAN /\ r.fault \in BOOLEAN
  BY DEF SessionT

-----------------------------------------------------------------------------
(* What each operation does to the session it is for.                      *)
NewEntry(t, id, ref) == [t |-> t, id |-> id, ref |-> ref, live |-> wire]

(* A record the store appends is one of the records of the evidence log.   *)
LEMMA EntryTyped ==
    ASSUME wire \in BOOLEAN, NEW t \in EntryTypes, NEW id \in IdT, NEW ref \in RefT
    PROVE  NewEntry(t, id, ref) \in EntryT
  BY DEF NewEntry, EntryT

(* What a record may refer to, and the identifiers it may carry.           *)
LEMMA RefTyped ==
    /\ None \in RefT /\ None \in IdT /\ Ops \subseteq IdT /\ Attempts \subseteq IdT
    /\ \A rs \in Seq(RangeT) : rs \in RefT
    /\ \A p \in PendT : p \in RefT
  BY DEF RefT, IdT

(* Every unit, and a rollover's own bookkeeping, is a record of the log.   *)
LEMMA TypesListed ==
    /\ UnitTypes \subseteq EntryTypes
    /\ "rollover_succeeded" \in EntryTypes /\ "operation_continued" \in EntryTypes
  BY DEF EntryTypes, Bookkeeping

(* _append_v2_record_locked changes nothing of the session but its log.    *)
LEMMA LoggedEffect ==
    ASSUME wire \in BOOLEAN, NEW r \in SessionT, NEW t \in EntryTypes, NEW id \in IdT,
           NEW ref \in RefT
    PROVE  /\ Logged(r, t, id, ref) \in SessionT
           /\ Logged(r, t, id, ref).disk = r.disk
           /\ Logged(r, t, id, ref).state = r.state
           /\ Logged(r, t, id, ref).pred = r.pred
           /\ Logged(r, t, id, ref).succ = r.succ
           /\ Logged(r, t, id, ref).ops = r.ops
           /\ Logged(r, t, id, ref).cut = r.cut
           /\ Logged(r, t, id, ref).pend = r.pend
           /\ Logged(r, t, id, ref).segs = r.segs
           /\ Logged(r, t, id, ref).open = r.open
           /\ Logged(r, t, id, ref).gaps = r.gaps
           /\ Logged(r, t, id, ref).loss = r.loss
           /\ Logged(r, t, id, ref).fault = r.fault
           /\ Logged(r, t, id, ref).log = Append(r.log, NewEntry(t, id, ref))
<1> DEFINE v == Append(r.log, NewEntry(t, id, ref))
<1>1. v \in Seq(EntryT)
  BY SessionFields, EntryTyped
<1>2. Logged(r, t, id, ref) = [r EXCEPT !.log = v]
  BY DEF Logged, NewEntry
<1> HIDE DEF v
<1>3. Logged(r, t, id, ref) \in SessionT /\ Logged(r, t, id, ref).log = v
  BY <1>1, <1>2, Put_log
<1> QED
  BY <1>2, <1>3, SessionFields DEF v

(* A new session is active, empty, and knows its predecessor.              *)
LEMMA NewSessionEffect ==
    ASSUME NEW p \in NameT
    PROVE  /\ NewSession(p) \in SessionT
           /\ NewSession(p).disk = "whole" /\ NewSession(p).state = "active"
           /\ NewSession(p).log = <<>> /\ NewSession(p).pred = p
           /\ NewSession(p).succ = None /\ NewSession(p).ops = Empty
           /\ NewSession(p).cut = Empty /\ NewSession(p).pend = Empty
           /\ NewSession(p).segs = 1 /\ NewSession(p).open = TRUE
           /\ NewSession(p).gaps = 0 /\ NewSession(p).fault = FALSE
<1>1. <<>> \in Seq(EntryT) /\ Empty \in OpsT /\ Empty \in PendMapT
  BY EmptyMaps
<1> QED
  BY <1>1 DEF NewSession, SessionT, DiskT, States, NameT

(* append_v2_uart_receive appends its record and changes nothing else.     *)
LEMMA UartReceiveEffect ==
    ASSUME wire \in BOOLEAN, NEW r \in SessionT
    PROVE  /\ UartReceive(r) \in SessionT
           /\ UartReceive(r).disk = r.disk
           /\ UartReceive(r).state = r.state
           /\ UartReceive(r).pred = r.pred
           /\ UartReceive(r).succ = r.succ /\ UartReceive(r).ops = r.ops
           /\ UartReceive(r).cut = r.cut /\ UartReceive(r).pend = r.pend
           /\ UartReceive(r).segs = r.segs
           /\ UartReceive(r).open = r.open
           /\ UartReceive(r).gaps = r.gaps
           /\ UartReceive(r).loss = r.loss
           /\ UartReceive(r).fault = r.fault
           /\ UartReceive(r).log = Append(r.log, NewEntry("uart_rx", None, None))
  BY LoggedEffect, RefTyped, TypesListed DEF UartReceive, UnitTypes

(* append_v2_buffer_overflow appends its record and notes the loss.        *)
LEMMA BufferOverflowEffect ==
    ASSUME wire \in BOOLEAN, NEW r \in SessionT
    PROVE  /\ BufferOverflow(r) \in SessionT
           /\ BufferOverflow(r).disk = r.disk
           /\ BufferOverflow(r).state = r.state
           /\ BufferOverflow(r).pred = r.pred
           /\ BufferOverflow(r).succ = r.succ
           /\ BufferOverflow(r).ops = r.ops
           /\ BufferOverflow(r).cut = r.cut
           /\ BufferOverflow(r).pend = r.pend
           /\ BufferOverflow(r).segs = r.segs
           /\ BufferOverflow(r).open = r.open
           /\ BufferOverflow(r).gaps = r.gaps
           /\ BufferOverflow(r).fault = r.fault
           /\ BufferOverflow(r).log = Append(r.log, NewEntry("buffer_overflow", None, None))
           /\ BufferOverflow(r).loss = TRUE
<1> DEFINE L == Logged(r, "buffer_overflow", None, None)
<1>1. "buffer_overflow" \in EntryTypes /\ None \in IdT /\ None \in RefT
  BY RefTyped, TypesListed DEF UnitTypes
<1>2. /\ L \in SessionT
      /\ L.disk = r.disk /\ L.state = r.state /\ L.pred = r.pred
      /\ L.succ = r.succ /\ L.ops = r.ops /\ L.cut = r.cut
      /\ L.pend = r.pend /\ L.segs = r.segs /\ L.open = r.open
      /\ L.gaps = r.gaps /\ L.loss = r.loss /\ L.fault = r.fault
      /\ L.log = Append(r.log, NewEntry("buffer_overflow", None, None))
  BY <1>1, LoggedEffect
<1> HIDE DEF L
<1> DEFINE m3 == [L EXCEPT !.loss = TRUE]
<1>3. /\ m3 \in SessionT
      /\ m3.disk = r.disk /\ m3.state = r.state /\ m3.pred = r.pred
      /\ m3.succ = r.succ /\ m3.ops = r.ops /\ m3.cut = r.cut
      /\ m3.pend = r.pend /\ m3.segs = r.segs /\ m3.open = r.open
      /\ m3.gaps = r.gaps /\ m3.fault = r.fault
      /\ m3.log = Append(r.log, NewEntry("buffer_overflow", None, None))
      /\ m3.loss = TRUE
  <2>1. TRUE \in BOOLEAN
    OBVIOUS
  <2>2. m3 \in SessionT /\ m3.loss = TRUE
    BY <2>1, <1>2, Put_loss
  <2> QED
    BY <2>2, <1>2, SessionFields
<1> HIDE DEF m3
<1>4. BufferOverflow(r) = m3
  BY <1>2 DEF BufferOverflow, IntegrityLoss, L, m3
<1> QED
  BY <1>3, <1>4

(* A disconnect appends its record, counts the gap and closes the segment. *)
LEMMA ConnectionGapEffect ==
    ASSUME wire \in BOOLEAN, NEW r \in SessionT
    PROVE  /\ ConnectionGap(r) \in SessionT
           /\ ConnectionGap(r).disk = r.disk
           /\ ConnectionGap(r).state = r.state
           /\ ConnectionGap(r).pred = r.pred
           /\ ConnectionGap(r).succ = r.succ
           /\ ConnectionGap(r).ops = r.ops
           /\ ConnectionGap(r).cut = r.cut
           /\ ConnectionGap(r).pend = r.pend
           /\ ConnectionGap(r).segs = r.segs
           /\ ConnectionGap(r).loss = r.loss
           /\ ConnectionGap(r).fault = r.fault
           /\ ConnectionGap(r).log = Append(r.log, NewEntry("gap", None, None))
           /\ ConnectionGap(r).gaps = r.gaps + 1
           /\ ConnectionGap(r).open = FALSE
<1> DEFINE L == Logged(r, "gap", None, None)
<1>1. "gap" \in EntryTypes /\ None \in IdT /\ None \in RefT
  BY RefTyped, TypesListed DEF UnitTypes
<1>2. /\ L \in SessionT
      /\ L.disk = r.disk /\ L.state = r.state /\ L.pred = r.pred
      /\ L.succ = r.succ /\ L.ops = r.ops /\ L.cut = r.cut
      /\ L.pend = r.pend /\ L.segs = r.segs /\ L.open = r.open
      /\ L.gaps = r.gaps /\ L.loss = r.loss /\ L.fault = r.fault
      /\ L.log = Append(r.log, NewEntry("gap", None, None))
  BY <1>1, LoggedEffect
<1> HIDE DEF L
<1> DEFINE m3 == [L EXCEPT !.gaps = r.gaps + 1]
<1>3. /\ m3 \in SessionT
      /\ m3.disk = r.disk /\ m3.state = r.state /\ m3.pred = r.pred
      /\ m3.succ = r.succ /\ m3.ops = r.ops /\ m3.cut = r.cut
      /\ m3.pend = r.pend /\ m3.segs = r.segs /\ m3.open = r.open
      /\ m3.loss = r.loss /\ m3.fault = r.fault
      /\ m3.log = Append(r.log, NewEntry("gap", None, None))
      /\ m3.gaps = r.gaps + 1
  <2>1. r.gaps + 1 \in Nat
    BY SessionFields
  <2>2. m3 \in SessionT /\ m3.gaps = r.gaps + 1
    BY <2>1, <1>2, Put_gaps
  <2> QED
    BY <2>2, <1>2, SessionFields
<1> HIDE DEF m3
<1> DEFINE m4 == [m3 EXCEPT !.open = FALSE]
<1>4. /\ m4 \in SessionT
      /\ m4.disk = r.disk /\ m4.state = r.state /\ m4.pred = r.pred
      /\ m4.succ = r.succ /\ m4.ops = r.ops /\ m4.cut = r.cut
      /\ m4.pend = r.pend /\ m4.segs = r.segs /\ m4.loss = r.loss
      /\ m4.fault = r.fault
      /\ m4.log = Append(r.log, NewEntry("gap", None, None))
      /\ m4.gaps = r.gaps + 1
      /\ m4.open = FALSE
  <2>1. FALSE \in BOOLEAN
    OBVIOUS
  <2>2. m4 \in SessionT /\ m4.open = FALSE
    BY <2>1, <1>3, Put_open
  <2> QED
    BY <2>2, <1>3, SessionFields
<1> HIDE DEF m4
<1>5. ConnectionGap(r) = m4
  BY <1>2 DEF ConnectionGap, L, m3, m4
<1> QED
  BY <1>4, <1>5

(* append_v2_segment appends its record and opens the next segment.        *)
LEMMA PublishSegmentEffect ==
    ASSUME wire \in BOOLEAN, NEW r \in SessionT
    PROVE  /\ PublishSegment(r) \in SessionT
           /\ PublishSegment(r).disk = r.disk
           /\ PublishSegment(r).state = r.state
           /\ PublishSegment(r).pred = r.pred
           /\ PublishSegment(r).succ = r.succ
           /\ PublishSegment(r).ops = r.ops
           /\ PublishSegment(r).cut = r.cut
           /\ PublishSegment(r).pend = r.pend
           /\ PublishSegment(r).gaps = r.gaps
           /\ PublishSegment(r).loss = r.loss
           /\ PublishSegment(r).fault = r.fault
           /\ PublishSegment(r).log = Append(r.log, NewEntry("segment_opened", None, None))
           /\ PublishSegment(r).segs = r.segs + 1
           /\ PublishSegment(r).open = TRUE
<1> DEFINE L == Logged(r, "segment_opened", None, None)
<1>1. "segment_opened" \in EntryTypes /\ None \in IdT /\ None \in RefT
  BY RefTyped, TypesListed DEF UnitTypes
<1>2. /\ L \in SessionT
      /\ L.disk = r.disk /\ L.state = r.state /\ L.pred = r.pred
      /\ L.succ = r.succ /\ L.ops = r.ops /\ L.cut = r.cut
      /\ L.pend = r.pend /\ L.segs = r.segs /\ L.open = r.open
      /\ L.gaps = r.gaps /\ L.loss = r.loss /\ L.fault = r.fault
      /\ L.log = Append(r.log, NewEntry("segment_opened", None, None))
  BY <1>1, LoggedEffect
<1> HIDE DEF L
<1> DEFINE m3 == [L EXCEPT !.segs = r.segs + 1]
<1>3. /\ m3 \in SessionT
      /\ m3.disk = r.disk /\ m3.state = r.state /\ m3.pred = r.pred
      /\ m3.succ = r.succ /\ m3.ops = r.ops /\ m3.cut = r.cut
      /\ m3.pend = r.pend /\ m3.open = r.open /\ m3.gaps = r.gaps
      /\ m3.loss = r.loss /\ m3.fault = r.fault
      /\ m3.log = Append(r.log, NewEntry("segment_opened", None, None))
      /\ m3.segs = r.segs + 1
  <2>1. r.segs + 1 \in Nat
    BY SessionFields
  <2>2. m3 \in SessionT /\ m3.segs = r.segs + 1
    BY <2>1, <1>2, Put_segs
  <2> QED
    BY <2>2, <1>2, SessionFields
<1> HIDE DEF m3
<1> DEFINE m4 == [m3 EXCEPT !.open = TRUE]
<1>4. /\ m4 \in SessionT
      /\ m4.disk = r.disk /\ m4.state = r.state /\ m4.pred = r.pred
      /\ m4.succ = r.succ /\ m4.ops = r.ops /\ m4.cut = r.cut
      /\ m4.pend = r.pend /\ m4.gaps = r.gaps /\ m4.loss = r.loss
      /\ m4.fault = r.fault
      /\ m4.log = Append(r.log, NewEntry("segment_opened", None, None))
      /\ m4.segs = r.segs + 1
      /\ m4.open = TRUE
  <2>1. TRUE \in BOOLEAN
    OBVIOUS
  <2>2. m4 \in SessionT /\ m4.open = TRUE
    BY <2>1, <1>3, Put_open
  <2> QED
    BY <2>2, <1>3, SessionFields
<1> HIDE DEF m4
<1>5. PublishSegment(r) = m4
  BY <1>2 DEF PublishSegment, L, m3, m4
<1> QED
  BY <1>4, <1>5

(* start_v2_operation appends its record and opens the first range.        *)
LEMMA StartOperationEffect ==
    ASSUME wire \in BOOLEAN, NEW r \in SessionT, NEW s \in Nat, NEW op \in Ops
    PROVE  /\ StartOperation(r, s, op) \in SessionT
           /\ StartOperation(r, s, op).disk = r.disk
           /\ StartOperation(r, s, op).state = r.state
           /\ StartOperation(r, s, op).pred = r.pred
           /\ StartOperation(r, s, op).succ = r.succ
           /\ StartOperation(r, s, op).cut = r.cut
           /\ StartOperation(r, s, op).pend = r.pend
           /\ StartOperation(r, s, op).segs = r.segs
           /\ StartOperation(r, s, op).open = r.open
           /\ StartOperation(r, s, op).gaps = r.gaps
           /\ StartOperation(r, s, op).loss = r.loss
           /\ StartOperation(r, s, op).fault = r.fault
           /\ StartOperation(r, s, op).log = Append(r.log, NewEntry("operation_started", op, None))
           /\ StartOperation(r, s, op).ops = With(r.ops, op, <<[s |-> s, from |-> Len(r.log), to |-> None]>>)
<1> DEFINE L == Logged(r, "operation_started", op, None)
<1>1. "operation_started" \in EntryTypes /\ op \in IdT /\ None \in RefT
  BY RefTyped, TypesListed DEF UnitTypes
<1>2. /\ L \in SessionT
      /\ L.disk = r.disk /\ L.state = r.state /\ L.pred = r.pred
      /\ L.succ = r.succ /\ L.ops = r.ops /\ L.cut = r.cut
      /\ L.pend = r.pend /\ L.segs = r.segs /\ L.open = r.open
      /\ L.gaps = r.gaps /\ L.loss = r.loss /\ L.fault = r.fault
      /\ L.log = Append(r.log, NewEntry("operation_started", op, None))
  BY <1>1, LoggedEffect
<1> HIDE DEF L
<1> DEFINE m3 == [L EXCEPT !.ops = With(r.ops, op, <<[s |-> s, from |-> Len(r.log), to |-> None]>>)]
<1>3. /\ m3 \in SessionT
      /\ m3.disk = r.disk /\ m3.state = r.state /\ m3.pred = r.pred
      /\ m3.succ = r.succ /\ m3.cut = r.cut /\ m3.pend = r.pend
      /\ m3.segs = r.segs /\ m3.open = r.open /\ m3.gaps = r.gaps
      /\ m3.loss = r.loss /\ m3.fault = r.fault
      /\ m3.log = Append(r.log, NewEntry("operation_started", op, None))
      /\ m3.ops = With(r.ops, op, <<[s |-> s, from |-> Len(r.log), to |-> None]>>)
  <2>1. With(r.ops, op, <<[s |-> s, from |-> Len(r.log), to |-> None]>>) \in OpsT
    <3>1. Len(r.log) \in Nat
      BY SessionFields
    <3>2. <<[s |-> s, from |-> Len(r.log), to |-> None]>> \in Seq(RangeT)
      BY <3>1 DEF RangeT
    <3> QED
      BY <3>2, SessionFields, OpsWith
  <2>2. m3 \in SessionT /\ m3.ops = With(r.ops, op, <<[s |-> s, from |-> Len(r.log), to |-> None]>>)
    BY <2>1, <1>2, Put_ops
  <2> QED
    BY <2>2, <1>2, SessionFields
<1> HIDE DEF m3
<1>4. StartOperation(r, s, op) = m3
  BY <1>2 DEF StartOperation, L, m3
<1> QED
  BY <1>3, <1>4

(* complete_v2_operation appends the terminal record with the closed       *)
(* ranges and gives the operation up.                                      *)
LEMMA CompleteOperationEffect ==
    ASSUME wire \in BOOLEAN, NEW r \in SessionT, NEW op \in DOMAIN r.ops, Len(r.ops[op]) > 0
    PROVE  /\ CompleteOperation(r, op) \in SessionT
           /\ CompleteOperation(r, op).disk = r.disk
           /\ CompleteOperation(r, op).state = r.state
           /\ CompleteOperation(r, op).pred = r.pred
           /\ CompleteOperation(r, op).succ = r.succ
           /\ CompleteOperation(r, op).cut = r.cut
           /\ CompleteOperation(r, op).pend = r.pend
           /\ CompleteOperation(r, op).segs = r.segs
           /\ CompleteOperation(r, op).open = r.open
           /\ CompleteOperation(r, op).gaps = r.gaps
           /\ CompleteOperation(r, op).loss = r.loss
           /\ CompleteOperation(r, op).fault = r.fault
           /\ CompleteOperation(r, op).log = Append(r.log, NewEntry("operation_terminal", op, ClosedAt(r.ops[op], Len(r.log) + 1)))
           /\ CompleteOperation(r, op).ops = Without(r.ops, op)
<1> DEFINE L == Logged(r, "operation_terminal", op, ClosedAt(r.ops[op], Len(r.log) + 1))
<1>1. "operation_terminal" \in EntryTypes /\ op \in IdT /\ ClosedAt(r.ops[op], Len(r.log) + 1) \in RefT
  <2>1. op \in Ops /\ r.ops[op] \in Seq(RangeT) /\ Len(r.log) + 1 \in Nat
    BY SessionFields, OpsElim
  <2>2. ClosedAt(r.ops[op], Len(r.log) + 1) \in Seq(RangeT)
    BY <2>1, ClosedFacts
  <2> QED
    BY <2>1, <2>2, RefTyped, TypesListed DEF UnitTypes
<1>2. /\ L \in SessionT
      /\ L.disk = r.disk /\ L.state = r.state /\ L.pred = r.pred
      /\ L.succ = r.succ /\ L.ops = r.ops /\ L.cut = r.cut
      /\ L.pend = r.pend /\ L.segs = r.segs /\ L.open = r.open
      /\ L.gaps = r.gaps /\ L.loss = r.loss /\ L.fault = r.fault
      /\ L.log = Append(r.log, NewEntry("operation_terminal", op, ClosedAt(r.ops[op], Len(r.log) + 1)))
  BY <1>1, LoggedEffect
<1> HIDE DEF L
<1> DEFINE m3 == [L EXCEPT !.ops = Without(r.ops, op)]
<1>3. /\ m3 \in SessionT
      /\ m3.disk = r.disk /\ m3.state = r.state /\ m3.pred = r.pred
      /\ m3.succ = r.succ /\ m3.cut = r.cut /\ m3.pend = r.pend
      /\ m3.segs = r.segs /\ m3.open = r.open /\ m3.gaps = r.gaps
      /\ m3.loss = r.loss /\ m3.fault = r.fault
      /\ m3.log = Append(r.log, NewEntry("operation_terminal", op, ClosedAt(r.ops[op], Len(r.log) + 1)))
      /\ m3.ops = Without(r.ops, op)
  <2>1. Without(r.ops, op) \in OpsT
    BY SessionFields, OpsWithout
  <2>2. m3 \in SessionT /\ m3.ops = Without(r.ops, op)
    BY <2>1, <1>2, Put_ops
  <2> QED
    BY <2>2, <1>2, SessionFields
<1> HIDE DEF m3
<1>4. CompleteOperation(r, op) = m3
  BY <1>2 DEF CompleteOperation, L, m3
<1> QED
  BY <1>3, <1>4

(* append_v2_uart_tx_attempt appends its record and makes it pending.      *)
LEMMA TxAttemptEffect ==
    ASSUME wire \in BOOLEAN, NEW r \in SessionT, NEW s \in Nat, NEW a \in Attempts
    PROVE  /\ TxAttempt(r, s, a) \in SessionT
           /\ TxAttempt(r, s, a).disk = r.disk
           /\ TxAttempt(r, s, a).state = r.state
           /\ TxAttempt(r, s, a).pred = r.pred
           /\ TxAttempt(r, s, a).succ = r.succ
           /\ TxAttempt(r, s, a).ops = r.ops
           /\ TxAttempt(r, s, a).cut = r.cut
           /\ TxAttempt(r, s, a).segs = r.segs
           /\ TxAttempt(r, s, a).open = r.open
           /\ TxAttempt(r, s, a).gaps = r.gaps
           /\ TxAttempt(r, s, a).loss = r.loss
           /\ TxAttempt(r, s, a).fault = r.fault
           /\ TxAttempt(r, s, a).log = Append(r.log, NewEntry("uart_tx_attempt", a, None))
           /\ TxAttempt(r, s, a).pend = With(r.pend, a, [s |-> s, seq |-> Len(r.log), kind |-> "uart_tx"])
<1> DEFINE L == Logged(r, "uart_tx_attempt", a, None)
<1>1. "uart_tx_attempt" \in EntryTypes /\ a \in IdT /\ None \in RefT
  BY RefTyped, TypesListed DEF UnitTypes
<1>2. /\ L \in SessionT
      /\ L.disk = r.disk /\ L.state = r.state /\ L.pred = r.pred
      /\ L.succ = r.succ /\ L.ops = r.ops /\ L.cut = r.cut
      /\ L.pend = r.pend /\ L.segs = r.segs /\ L.open = r.open
      /\ L.gaps = r.gaps /\ L.loss = r.loss /\ L.fault = r.fault
      /\ L.log = Append(r.log, NewEntry("uart_tx_attempt", a, None))
  BY <1>1, LoggedEffect
<1> HIDE DEF L
<1> DEFINE m3 == [L EXCEPT !.pend = With(r.pend, a, [s |-> s, seq |-> Len(r.log), kind |-> "uart_tx"])]
<1>3. /\ m3 \in SessionT
      /\ m3.disk = r.disk /\ m3.state = r.state /\ m3.pred = r.pred
      /\ m3.succ = r.succ /\ m3.ops = r.ops /\ m3.cut = r.cut
      /\ m3.segs = r.segs /\ m3.open = r.open /\ m3.gaps = r.gaps
      /\ m3.loss = r.loss /\ m3.fault = r.fault
      /\ m3.log = Append(r.log, NewEntry("uart_tx_attempt", a, None))
      /\ m3.pend = With(r.pend, a, [s |-> s, seq |-> Len(r.log), kind |-> "uart_tx"])
  <2>1. With(r.pend, a, [s |-> s, seq |-> Len(r.log), kind |-> "uart_tx"]) \in PendMapT
    <3>1. [s |-> s, seq |-> Len(r.log), kind |-> "uart_tx"] \in PendT
      BY SessionFields DEF PendT
    <3> QED
      BY <3>1, SessionFields, PendWith
  <2>2. m3 \in SessionT /\ m3.pend = With(r.pend, a, [s |-> s, seq |-> Len(r.log), kind |-> "uart_tx"])
    BY <2>1, <1>2, Put_pend
  <2> QED
    BY <2>2, <1>2, SessionFields
<1> HIDE DEF m3
<1>4. TxAttempt(r, s, a) = m3
  BY <1>2 DEF TxAttempt, Pending, L, m3
<1> QED
  BY <1>3, <1>4

(* append_v2_control_attempt appends its record and makes it pending.      *)
LEMMA ControlAttemptEffect ==
    ASSUME wire \in BOOLEAN, NEW r \in SessionT, NEW s \in Nat, NEW a \in Attempts
    PROVE  /\ ControlAttempt(r, s, a) \in SessionT
           /\ ControlAttempt(r, s, a).disk = r.disk
           /\ ControlAttempt(r, s, a).state = r.state
           /\ ControlAttempt(r, s, a).pred = r.pred
           /\ ControlAttempt(r, s, a).succ = r.succ
           /\ ControlAttempt(r, s, a).ops = r.ops
           /\ ControlAttempt(r, s, a).cut = r.cut
           /\ ControlAttempt(r, s, a).segs = r.segs
           /\ ControlAttempt(r, s, a).open = r.open
           /\ ControlAttempt(r, s, a).gaps = r.gaps
           /\ ControlAttempt(r, s, a).loss = r.loss
           /\ ControlAttempt(r, s, a).fault = r.fault
           /\ ControlAttempt(r, s, a).log = Append(r.log, NewEntry("control_attempt", a, None))
           /\ ControlAttempt(r, s, a).pend = With(r.pend, a, [s |-> s, seq |-> Len(r.log), kind |-> "control"])
<1> DEFINE L == Logged(r, "control_attempt", a, None)
<1>1. "control_attempt" \in EntryTypes /\ a \in IdT /\ None \in RefT
  BY RefTyped, TypesListed DEF UnitTypes
<1>2. /\ L \in SessionT
      /\ L.disk = r.disk /\ L.state = r.state /\ L.pred = r.pred
      /\ L.succ = r.succ /\ L.ops = r.ops /\ L.cut = r.cut
      /\ L.pend = r.pend /\ L.segs = r.segs /\ L.open = r.open
      /\ L.gaps = r.gaps /\ L.loss = r.loss /\ L.fault = r.fault
      /\ L.log = Append(r.log, NewEntry("control_attempt", a, None))
  BY <1>1, LoggedEffect
<1> HIDE DEF L
<1> DEFINE m3 == [L EXCEPT !.pend = With(r.pend, a, [s |-> s, seq |-> Len(r.log), kind |-> "control"])]
<1>3. /\ m3 \in SessionT
      /\ m3.disk = r.disk /\ m3.state = r.state /\ m3.pred = r.pred
      /\ m3.succ = r.succ /\ m3.ops = r.ops /\ m3.cut = r.cut
      /\ m3.segs = r.segs /\ m3.open = r.open /\ m3.gaps = r.gaps
      /\ m3.loss = r.loss /\ m3.fault = r.fault
      /\ m3.log = Append(r.log, NewEntry("control_attempt", a, None))
      /\ m3.pend = With(r.pend, a, [s |-> s, seq |-> Len(r.log), kind |-> "control"])
  <2>1. With(r.pend, a, [s |-> s, seq |-> Len(r.log), kind |-> "control"]) \in PendMapT
    <3>1. [s |-> s, seq |-> Len(r.log), kind |-> "control"] \in PendT
      BY SessionFields DEF PendT
    <3> QED
      BY <3>1, SessionFields, PendWith
  <2>2. m3 \in SessionT /\ m3.pend = With(r.pend, a, [s |-> s, seq |-> Len(r.log), kind |-> "control"])
    BY <2>1, <1>2, Put_pend
  <2> QED
    BY <2>2, <1>2, SessionFields
<1> HIDE DEF m3
<1>4. ControlAttempt(r, s, a) = m3
  BY <1>2 DEF ControlAttempt, Pending, L, m3
<1> QED
  BY <1>3, <1>4

(* append_v2_uart_tx_result appends its record and resolves the attempt.   *)
LEMMA TxResultEffect ==
    ASSUME wire \in BOOLEAN, NEW r \in SessionT, NEW a \in DOMAIN r.pend
    PROVE  /\ TxResult(r, a) \in SessionT
           /\ TxResult(r, a).disk = r.disk
           /\ TxResult(r, a).state = r.state
           /\ TxResult(r, a).pred = r.pred
           /\ TxResult(r, a).succ = r.succ /\ TxResult(r, a).ops = r.ops
           /\ TxResult(r, a).cut = r.cut /\ TxResult(r, a).segs = r.segs
           /\ TxResult(r, a).open = r.open
           /\ TxResult(r, a).gaps = r.gaps
           /\ TxResult(r, a).loss = r.loss
           /\ TxResult(r, a).fault = r.fault
           /\ TxResult(r, a).log = Append(r.log, NewEntry("uart_tx_result", a, r.pend[a]))
           /\ TxResult(r, a).pend = Without(r.pend, a)
<1> DEFINE L == Logged(r, "uart_tx_result", a, r.pend[a])
<1>1. "uart_tx_result" \in EntryTypes /\ a \in IdT /\ r.pend[a] \in RefT
  <2>1. a \in Attempts /\ r.pend[a] \in PendT
    BY SessionFields, PendElim
  <2> QED
    BY <2>1, RefTyped, TypesListed DEF UnitTypes
<1>2. /\ L \in SessionT
      /\ L.disk = r.disk /\ L.state = r.state /\ L.pred = r.pred
      /\ L.succ = r.succ /\ L.ops = r.ops /\ L.cut = r.cut
      /\ L.pend = r.pend /\ L.segs = r.segs /\ L.open = r.open
      /\ L.gaps = r.gaps /\ L.loss = r.loss /\ L.fault = r.fault
      /\ L.log = Append(r.log, NewEntry("uart_tx_result", a, r.pend[a]))
  BY <1>1, LoggedEffect
<1> HIDE DEF L
<1> DEFINE m3 == [L EXCEPT !.pend = Without(r.pend, a)]
<1>3. /\ m3 \in SessionT
      /\ m3.disk = r.disk /\ m3.state = r.state /\ m3.pred = r.pred
      /\ m3.succ = r.succ /\ m3.ops = r.ops /\ m3.cut = r.cut
      /\ m3.segs = r.segs /\ m3.open = r.open /\ m3.gaps = r.gaps
      /\ m3.loss = r.loss /\ m3.fault = r.fault
      /\ m3.log = Append(r.log, NewEntry("uart_tx_result", a, r.pend[a]))
      /\ m3.pend = Without(r.pend, a)
  <2>1. Without(r.pend, a) \in PendMapT
    BY SessionFields, PendWithout
  <2>2. m3 \in SessionT /\ m3.pend = Without(r.pend, a)
    BY <2>1, <1>2, Put_pend
  <2> QED
    BY <2>2, <1>2, SessionFields
<1> HIDE DEF m3
<1>4. TxResult(r, a) = m3
  BY <1>2 DEF TxResult, Resolved, L, m3
<1> QED
  BY <1>3, <1>4

(* append_v2_control_result appends its record and resolves the attempt.   *)
LEMMA ControlResultEffect ==
    ASSUME wire \in BOOLEAN, NEW r \in SessionT, NEW a \in DOMAIN r.pend
    PROVE  /\ ControlResult(r, a) \in SessionT
           /\ ControlResult(r, a).disk = r.disk
           /\ ControlResult(r, a).state = r.state
           /\ ControlResult(r, a).pred = r.pred
           /\ ControlResult(r, a).succ = r.succ
           /\ ControlResult(r, a).ops = r.ops
           /\ ControlResult(r, a).cut = r.cut
           /\ ControlResult(r, a).segs = r.segs
           /\ ControlResult(r, a).open = r.open
           /\ ControlResult(r, a).gaps = r.gaps
           /\ ControlResult(r, a).loss = r.loss
           /\ ControlResult(r, a).fault = r.fault
           /\ ControlResult(r, a).log = Append(r.log, NewEntry("control_result", a, r.pend[a]))
           /\ ControlResult(r, a).pend = Without(r.pend, a)
<1> DEFINE L == Logged(r, "control_result", a, r.pend[a])
<1>1. "control_result" \in EntryTypes /\ a \in IdT /\ r.pend[a] \in RefT
  <2>1. a \in Attempts /\ r.pend[a] \in PendT
    BY SessionFields, PendElim
  <2> QED
    BY <2>1, RefTyped, TypesListed DEF UnitTypes
<1>2. /\ L \in SessionT
      /\ L.disk = r.disk /\ L.state = r.state /\ L.pred = r.pred
      /\ L.succ = r.succ /\ L.ops = r.ops /\ L.cut = r.cut
      /\ L.pend = r.pend /\ L.segs = r.segs /\ L.open = r.open
      /\ L.gaps = r.gaps /\ L.loss = r.loss /\ L.fault = r.fault
      /\ L.log = Append(r.log, NewEntry("control_result", a, r.pend[a]))
  BY <1>1, LoggedEffect
<1> HIDE DEF L
<1> DEFINE m3 == [L EXCEPT !.pend = Without(r.pend, a)]
<1>3. /\ m3 \in SessionT
      /\ m3.disk = r.disk /\ m3.state = r.state /\ m3.pred = r.pred
      /\ m3.succ = r.succ /\ m3.ops = r.ops /\ m3.cut = r.cut
      /\ m3.segs = r.segs /\ m3.open = r.open /\ m3.gaps = r.gaps
      /\ m3.loss = r.loss /\ m3.fault = r.fault
      /\ m3.log = Append(r.log, NewEntry("control_result", a, r.pend[a]))
      /\ m3.pend = Without(r.pend, a)
  <2>1. Without(r.pend, a) \in PendMapT
    BY SessionFields, PendWithout
  <2>2. m3 \in SessionT /\ m3.pend = Without(r.pend, a)
    BY <2>1, <1>2, Put_pend
  <2> QED
    BY <2>2, <1>2, SessionFields
<1> HIDE DEF m3
<1>4. ControlResult(r, a) = m3
  BY <1>2 DEF ControlResult, Resolved, L, m3
<1> QED
  BY <1>3, <1>4
CutOf(r) ==
    [op \in DOMAIN r.ops \union DOMAIN r.cut |->
       IF op \in DOMAIN r.ops THEN ClosedAt(r.ops[op], Len(r.log)) ELSE r.cut[op]]

(* The interrupted operations of an ended session are a map of ranges.     *)
LEMMA CutTyped ==
    ASSUME NEW r \in SessionT, \A op \in DOMAIN r.ops : Len(r.ops[op]) > 0
    PROVE  CutOf(r) \in OpsT
<1>1. /\ DOMAIN r.ops \union DOMAIN r.cut \in SUBSET Ops /\ Len(r.log) \in Nat
      /\ \A op \in DOMAIN r.ops : r.ops[op] \in Seq(RangeT)
      /\ \A op \in DOMAIN r.cut : r.cut[op] \in Seq(RangeT)
  BY SessionFields, OpsElim
<1>2. \A op \in DOMAIN r.ops : ClosedAt(r.ops[op], Len(r.log)) \in Seq(RangeT)
  BY <1>1, ClosedFacts
<1>3. CutOf(r) \in [DOMAIN r.ops \union DOMAIN r.cut -> Seq(RangeT)]
  BY <1>1, <1>2 DEF CutOf
<1> QED
  BY <1>1, <1>3, OpsIntro

(* _relinquish_v2_ownership moves every active operation to the            *)
(* interrupted ones.                                                       *)
LEMMA RelinquishedEffect ==
    ASSUME NEW r \in SessionT, \A op \in DOMAIN r.ops : Len(r.ops[op]) > 0
    PROVE  /\ Relinquished(r) \in SessionT
           /\ Relinquished(r).disk = r.disk
           /\ Relinquished(r).state = r.state
           /\ Relinquished(r).log = r.log
           /\ Relinquished(r).pred = r.pred
           /\ Relinquished(r).succ = r.succ
           /\ Relinquished(r).pend = r.pend
           /\ Relinquished(r).segs = r.segs
           /\ Relinquished(r).open = r.open
           /\ Relinquished(r).gaps = r.gaps
           /\ Relinquished(r).loss = r.loss
           /\ Relinquished(r).fault = r.fault
           /\ Relinquished(r).cut = CutOf(r)
           /\ Relinquished(r).ops = Empty
<1> DEFINE m1 == [r EXCEPT !.cut = CutOf(r)]
<1>1. /\ m1 \in SessionT
      /\ m1.disk = r.disk /\ m1.state = r.state /\ m1.log = r.log
      /\ m1.pred = r.pred /\ m1.succ = r.succ /\ m1.ops = r.ops
      /\ m1.pend = r.pend /\ m1.segs = r.segs /\ m1.open = r.open
      /\ m1.gaps = r.gaps /\ m1.loss = r.loss /\ m1.fault = r.fault
      /\ m1.cut = CutOf(r)
  <2>1. CutOf(r) \in OpsT
    BY CutTyped
  <2>2. m1 \in SessionT /\ m1.cut = CutOf(r)
    BY <2>1, Put_cut
  <2> QED
    BY <2>2, SessionFields
<1> HIDE DEF m1
<1> DEFINE m2 == [m1 EXCEPT !.ops = Empty]
<1>2. /\ m2 \in SessionT
      /\ m2.disk = r.disk /\ m2.state = r.state /\ m2.log = r.log
      /\ m2.pred = r.pred /\ m2.succ = r.succ /\ m2.pend = r.pend
      /\ m2.segs = r.segs /\ m2.open = r.open /\ m2.gaps = r.gaps
      /\ m2.loss = r.loss /\ m2.fault = r.fault
      /\ m2.cut = CutOf(r)
      /\ m2.ops = Empty
  <2>1. Empty \in OpsT
    BY EmptyMaps
  <2>2. m2 \in SessionT /\ m2.ops = Empty
    BY <2>1, <1>1, Put_ops
  <2> QED
    BY <2>2, <1>1, SessionFields
<1> HIDE DEF m2
<1>3. Relinquished(r) = m2
  BY DEF Relinquished, CutOf, m1, m2
<1> QED
  BY <1>2, <1>3

(* _terminalize_session_locked relinquishes and sets the final state.      *)
LEMMA TerminalizedEffect ==
    ASSUME NEW r \in SessionT, \A op \in DOMAIN r.ops : Len(r.ops[op]) > 0, NEW state \in States
    PROVE  /\ Terminalized(r, state) \in SessionT
           /\ Terminalized(r, state).disk = r.disk
           /\ Terminalized(r, state).log = r.log
           /\ Terminalized(r, state).pred = r.pred
           /\ Terminalized(r, state).succ = r.succ
           /\ Terminalized(r, state).pend = r.pend
           /\ Terminalized(r, state).segs = r.segs
           /\ Terminalized(r, state).gaps = r.gaps
           /\ Terminalized(r, state).loss = r.loss
           /\ Terminalized(r, state).fault = r.fault
           /\ Terminalized(r, state).cut = CutOf(r)
           /\ Terminalized(r, state).ops = Empty
           /\ Terminalized(r, state).state = state
           /\ Terminalized(r, state).open = FALSE
<1> DEFINE L == Relinquished(r)
<1>1. /\ L \in SessionT
      /\ L.disk = r.disk /\ L.state = r.state /\ L.log = r.log
      /\ L.pred = r.pred /\ L.succ = r.succ /\ L.pend = r.pend
      /\ L.segs = r.segs /\ L.open = r.open /\ L.gaps = r.gaps
      /\ L.loss = r.loss /\ L.fault = r.fault
      /\ L.cut = CutOf(r)
      /\ L.ops = Empty
  BY RelinquishedEffect
<1> HIDE DEF L
<1> DEFINE m2 == [L EXCEPT !.state = state]
<1>2. /\ m2 \in SessionT
      /\ m2.disk = r.disk /\ m2.log = r.log /\ m2.pred = r.pred
      /\ m2.succ = r.succ /\ m2.pend = r.pend /\ m2.segs = r.segs
      /\ m2.open = r.open /\ m2.gaps = r.gaps /\ m2.loss = r.loss
      /\ m2.fault = r.fault
      /\ m2.cut = CutOf(r)
      /\ m2.ops = Empty
      /\ m2.state = state
  <2>1. state \in States
    OBVIOUS
  <2>2. m2 \in SessionT /\ m2.state = state
    BY <2>1, <1>1, Put_state
  <2> QED
    BY <2>2, <1>1, SessionFields
<1> HIDE DEF m2
<1> DEFINE m3 == [m2 EXCEPT !.open = FALSE]
<1>3. /\ m3 \in SessionT
      /\ m3.disk = r.disk /\ m3.log = r.log /\ m3.pred = r.pred
      /\ m3.succ = r.succ /\ m3.pend = r.pend /\ m3.segs = r.segs
      /\ m3.gaps = r.gaps /\ m3.loss = r.loss /\ m3.fault = r.fault
      /\ m3.cut = CutOf(r)
      /\ m3.ops = Empty
      /\ m3.state = state
      /\ m3.open = FALSE
  <2>1. FALSE \in BOOLEAN
    OBVIOUS
  <2>2. m3 \in SessionT /\ m3.open = FALSE
    BY <2>1, <1>2, Put_open
  <2> QED
    BY <2>2, <1>2, SessionFields
<1> HIDE DEF m3
<1>4. Terminalized(r, state) = m3
  BY <1>1 DEF Terminalized, m2, m3, L
<1> QED
  BY <1>3, <1>4

(* _fail_active_v2_persistence_locked ends the session as failed.          *)
LEMMA PersistenceFailedEffect ==
    ASSUME NEW r \in SessionT, \A op \in DOMAIN r.ops : Len(r.ops[op]) > 0
    PROVE  /\ PersistenceFailed(r) \in SessionT
           /\ PersistenceFailed(r).disk = r.disk
           /\ PersistenceFailed(r).log = r.log
           /\ PersistenceFailed(r).pred = r.pred
           /\ PersistenceFailed(r).succ = r.succ
           /\ PersistenceFailed(r).pend = r.pend
           /\ PersistenceFailed(r).segs = r.segs
           /\ PersistenceFailed(r).gaps = r.gaps
           /\ PersistenceFailed(r).loss = r.loss
           /\ PersistenceFailed(r).cut = CutOf(r)
           /\ PersistenceFailed(r).ops = Empty
           /\ PersistenceFailed(r).state = "failed"
           /\ PersistenceFailed(r).open = FALSE
           /\ PersistenceFailed(r).fault = TRUE
<1> DEFINE L == Terminalized(r, "failed")
<1>1. /\ L \in SessionT
      /\ L.disk = r.disk /\ L.log = r.log /\ L.pred = r.pred
      /\ L.succ = r.succ /\ L.pend = r.pend /\ L.segs = r.segs
      /\ L.gaps = r.gaps /\ L.loss = r.loss /\ L.fault = r.fault
      /\ L.cut = CutOf(r)
      /\ L.ops = Empty
      /\ L.state = "failed"
      /\ L.open = FALSE
  BY TerminalizedEffect DEF States
<1> HIDE DEF L
<1> DEFINE m2 == [L EXCEPT !.fault = TRUE]
<1>2. /\ m2 \in SessionT
      /\ m2.disk = r.disk /\ m2.log = r.log /\ m2.pred = r.pred
      /\ m2.succ = r.succ /\ m2.pend = r.pend /\ m2.segs = r.segs
      /\ m2.gaps = r.gaps /\ m2.loss = r.loss
      /\ m2.cut = CutOf(r)
      /\ m2.ops = Empty
      /\ m2.state = "failed"
      /\ m2.open = FALSE
      /\ m2.fault = TRUE
  <2>1. TRUE \in BOOLEAN
    OBVIOUS
  <2>2. m2 \in SessionT /\ m2.fault = TRUE
    BY <2>1, <1>1, Put_fault
  <2> QED
    BY <2>2, <1>1, SessionFields
<1> HIDE DEF m2
<1>3. PersistenceFailed(r) = m2
  BY <1>1 DEF PersistenceFailed, m2, L
<1> QED
  BY <1>2, <1>3

(* link_successor completes the predecessor, which owns nothing any more.  *)
LEMMA LinkedEffect ==
    ASSUME NEW r \in SessionT, NEW next \in NameT
    PROVE  /\ Linked(r, next) \in SessionT
           /\ Linked(r, next).disk = r.disk
           /\ Linked(r, next).log = r.log
           /\ Linked(r, next).pred = r.pred
           /\ Linked(r, next).cut = r.cut
           /\ Linked(r, next).segs = r.segs
           /\ Linked(r, next).gaps = r.gaps
           /\ Linked(r, next).loss = r.loss
           /\ Linked(r, next).fault = r.fault
           /\ Linked(r, next).ops = Empty
           /\ Linked(r, next).pend = Empty
           /\ Linked(r, next).succ = next
           /\ Linked(r, next).state = "completed"
           /\ Linked(r, next).open = FALSE
<1> DEFINE m1 == [r EXCEPT !.ops = Empty]
<1>1. /\ m1 \in SessionT
      /\ m1.disk = r.disk /\ m1.state = r.state /\ m1.log = r.log
      /\ m1.pred = r.pred /\ m1.succ = r.succ /\ m1.cut = r.cut
      /\ m1.pend = r.pend /\ m1.segs = r.segs /\ m1.open = r.open
      /\ m1.gaps = r.gaps /\ m1.loss = r.loss /\ m1.fault = r.fault
      /\ m1.ops = Empty
  BY EmptyMaps, Put_ops, SessionFields
<1> HIDE DEF m1
<1> DEFINE m2 == [m1 EXCEPT !.pend = Empty]
<1>2. /\ m2 \in SessionT
      /\ m2.disk = r.disk /\ m2.state = r.state /\ m2.log = r.log
      /\ m2.pred = r.pred /\ m2.succ = r.succ /\ m2.cut = r.cut
      /\ m2.segs = r.segs /\ m2.open = r.open /\ m2.gaps = r.gaps
      /\ m2.loss = r.loss /\ m2.fault = r.fault
      /\ m2.ops = Empty
      /\ m2.pend = Empty
  BY <1>1, EmptyMaps, Put_pend, SessionFields
<1> HIDE DEF m2
<1> DEFINE m3 == [m2 EXCEPT !.succ = next]
<1>3. /\ m3 \in SessionT
      /\ m3.disk = r.disk /\ m3.state = r.state /\ m3.log = r.log
      /\ m3.pred = r.pred /\ m3.cut = r.cut /\ m3.segs = r.segs
      /\ m3.open = r.open /\ m3.gaps = r.gaps /\ m3.loss = r.loss
      /\ m3.fault = r.fault
      /\ m3.ops = Empty
      /\ m3.pend = Empty
      /\ m3.succ = next
  BY <1>2, Put_succ, SessionFields
<1> HIDE DEF m3
<1>4. \A op \in DOMAIN m3.ops : Len(m3.ops[op]) > 0
  BY <1>3, EmptyMaps
<1>5. CutOf(m3) = r.cut
  <2>1. r.cut = [op \in DOMAIN r.cut |-> r.cut[op]]
    BY SessionFields, OpsElim
  <2>2. DOMAIN m3.ops = {} /\ m3.cut = r.cut
    BY <1>3, EmptyMaps
  <2>3. CutOf(m3) = [op \in DOMAIN r.cut |-> r.cut[op]]
    BY <2>2 DEF CutOf
  <2> QED
    BY <2>1, <2>3
<1>6. Linked(r, next) = Terminalized(m3, "completed")
  BY DEF Linked, m1, m2, m3
<1> DEFINE m4 == Terminalized(m3, "completed")
<1>7. "completed" \in States
  BY DEF States
<1>8. /\ m4 \in SessionT /\ m4.disk = m3.disk /\ m4.log = m3.log /\ m4.pred = m3.pred
      /\ m4.succ = m3.succ /\ m4.pend = m3.pend /\ m4.segs = m3.segs /\ m4.gaps = m3.gaps
      /\ m4.loss = m3.loss /\ m4.fault = m3.fault /\ m4.cut = CutOf(m3)
      /\ m4.ops = Empty /\ m4.state = "completed" /\ m4.open = FALSE
  BY <1>3, <1>4, <1>7, TerminalizedEffect
<1> HIDE DEF m4
<1> QED
  BY <1>3, <1>5, <1>6, <1>8 DEF m4

(* continue_operation appends its record and gives the successor the       *)
(* operation with its ranges.                                              *)
LEMMA ContinuedEffect ==
    ASSUME wire \in BOOLEAN, NEW r \in SessionT, NEW s \in Nat, NEW p \in SessionT,
           NEW op \in DOMAIN p.ops, Len(p.ops[op]) > 0
    PROVE  /\ Continued(r, s, p, op) \in SessionT
           /\ Continued(r, s, p, op).disk = r.disk
           /\ Continued(r, s, p, op).state = r.state
           /\ Continued(r, s, p, op).pred = r.pred
           /\ Continued(r, s, p, op).succ = r.succ
           /\ Continued(r, s, p, op).cut = r.cut
           /\ Continued(r, s, p, op).pend = r.pend
           /\ Continued(r, s, p, op).segs = r.segs
           /\ Continued(r, s, p, op).open = r.open
           /\ Continued(r, s, p, op).gaps = r.gaps
           /\ Continued(r, s, p, op).loss = r.loss
           /\ Continued(r, s, p, op).fault = r.fault
           /\ Continued(r, s, p, op).log = Append(r.log, NewEntry("operation_continued", op, None))
           /\ Continued(r, s, p, op).ops = With(r.ops, op, Append(ClosedAt(p.ops[op], Len(p.log)), [s |-> s, from |-> Len(r.log), to |-> None]))
<1> DEFINE L == Logged(r, "operation_continued", op, None)
<1>1. /\ L \in SessionT
      /\ L.disk = r.disk /\ L.state = r.state /\ L.pred = r.pred
      /\ L.succ = r.succ /\ L.ops = r.ops /\ L.cut = r.cut
      /\ L.pend = r.pend /\ L.segs = r.segs /\ L.open = r.open
      /\ L.gaps = r.gaps /\ L.loss = r.loss /\ L.fault = r.fault
      /\ L.log = Append(r.log, NewEntry("operation_continued", op, None))
      /\ op \in Ops
  <2>1. op \in Ops
    BY SessionFields, OpsElim
  <2> QED
    BY <2>1, LoggedEffect, RefTyped, TypesListed
<1> HIDE DEF L
<1> DEFINE m2 == [L EXCEPT !.ops = With(r.ops, op, Append(ClosedAt(p.ops[op], Len(p.log)), [s |-> s, from |-> Len(r.log), to |-> None]))]
<1>2. /\ m2 \in SessionT
      /\ m2.disk = r.disk /\ m2.state = r.state /\ m2.pred = r.pred
      /\ m2.succ = r.succ /\ m2.cut = r.cut /\ m2.pend = r.pend
      /\ m2.segs = r.segs /\ m2.open = r.open /\ m2.gaps = r.gaps
      /\ m2.loss = r.loss /\ m2.fault = r.fault
      /\ m2.log = Append(r.log, NewEntry("operation_continued", op, None))
      /\ m2.ops = With(r.ops, op, Append(ClosedAt(p.ops[op], Len(p.log)), [s |-> s, from |-> Len(r.log), to |-> None]))
  <2>1. With(r.ops, op, Append(ClosedAt(p.ops[op], Len(p.log)), [s |-> s, from |-> Len(r.log), to |-> None])) \in OpsT
    <3>1. Len(r.log) \in Nat /\ Len(p.log) \in Nat /\ p.ops[op] \in Seq(RangeT)
      BY SessionFields, OpsElim
    <3>2. /\ ClosedAt(p.ops[op], Len(p.log)) \in Seq(RangeT)
          /\ [s |-> s, from |-> Len(r.log), to |-> None] \in RangeT
      BY <3>1, ClosedFacts DEF RangeT
    <3>3. Append(ClosedAt(p.ops[op], Len(p.log)), [s |-> s, from |-> Len(r.log), to |-> None]) \in Seq(RangeT)
      BY <3>2, AppendFacts
    <3> QED
      BY <1>1, <3>3, SessionFields, OpsWith
  <2>2. m2 \in SessionT /\ m2.ops = With(r.ops, op, Append(ClosedAt(p.ops[op], Len(p.log)), [s |-> s, from |-> Len(r.log), to |-> None]))
    BY <2>1, <1>1, Put_ops
  <2> QED
    BY <2>2, <1>1, SessionFields
<1> HIDE DEF m2
<1>3. Continued(r, s, p, op) = m2
  BY <1>1 DEF Continued, m2, L
<1> QED
  BY <1>2, <1>3

(* transfer_rollover_ownership appends its record and gives the successor  *)
(* the pending attempts.                                                   *)
LEMMA AnnouncedEffect ==
    ASSUME wire \in BOOLEAN, NEW r \in SessionT, NEW p \in SessionT, NEW reopened \in BOOLEAN
    PROVE  /\ Announced(r, p, reopened) \in SessionT
           /\ Announced(r, p, reopened).disk = r.disk
           /\ Announced(r, p, reopened).state = r.state
           /\ Announced(r, p, reopened).pred = r.pred
           /\ Announced(r, p, reopened).succ = r.succ
           /\ Announced(r, p, reopened).ops = r.ops
           /\ Announced(r, p, reopened).cut = r.cut
           /\ Announced(r, p, reopened).segs = r.segs
           /\ Announced(r, p, reopened).loss = r.loss
           /\ Announced(r, p, reopened).fault = r.fault
           /\ Announced(r, p, reopened).log = Append(r.log, NewEntry("rollover_succeeded", None, None))
           /\ Announced(r, p, reopened).pend = p.pend
           /\ Announced(r, p, reopened).open = (~(~reopened /\ ~p.open))
           /\ Announced(r, p, reopened).gaps = (IF ~reopened /\ ~p.open THEN 1 ELSE 0)
<1> DEFINE L == Logged(r, "rollover_succeeded", None, None)
<1>1. /\ L \in SessionT
      /\ L.disk = r.disk /\ L.state = r.state /\ L.pred = r.pred
      /\ L.succ = r.succ /\ L.ops = r.ops /\ L.cut = r.cut
      /\ L.pend = r.pend /\ L.segs = r.segs /\ L.open = r.open
      /\ L.gaps = r.gaps /\ L.loss = r.loss /\ L.fault = r.fault
      /\ L.log = Append(r.log, NewEntry("rollover_succeeded", None, None))
  BY LoggedEffect, RefTyped, TypesListed
<1> HIDE DEF L
<1> DEFINE m2 == [L EXCEPT !.pend = p.pend]
<1>2. /\ m2 \in SessionT
      /\ m2.disk = r.disk /\ m2.state = r.state /\ m2.pred = r.pred
      /\ m2.succ = r.succ /\ m2.ops = r.ops /\ m2.cut = r.cut
      /\ m2.segs = r.segs /\ m2.open = r.open /\ m2.gaps = r.gaps
      /\ m2.loss = r.loss /\ m2.fault = r.fault
      /\ m2.log = Append(r.log, NewEntry("rollover_succeeded", None, None))
      /\ m2.pend = p.pend
  <2>1. p.pend \in PendMapT
    BY SessionFields
  <2>2. m2 \in SessionT /\ m2.pend = p.pend
    BY <2>1, <1>1, Put_pend
  <2> QED
    BY <2>2, <1>1, SessionFields
<1> HIDE DEF m2
<1> DEFINE m3 == [m2 EXCEPT !.open = (~(~reopened /\ ~p.open))]
<1>3. /\ m3 \in SessionT
      /\ m3.disk = r.disk /\ m3.state = r.state /\ m3.pred = r.pred
      /\ m3.succ = r.succ /\ m3.ops = r.ops /\ m3.cut = r.cut
      /\ m3.segs = r.segs /\ m3.gaps = r.gaps /\ m3.loss = r.loss
      /\ m3.fault = r.fault
      /\ m3.log = Append(r.log, NewEntry("rollover_succeeded", None, None))
      /\ m3.pend = p.pend
      /\ m3.open = (~(~reopened /\ ~p.open))
  <2>1. (~(~reopened /\ ~p.open)) \in BOOLEAN
    BY SessionFields
  <2>2. m3 \in SessionT /\ m3.open = (~(~reopened /\ ~p.open))
    BY <2>1, <1>2, Put_open
  <2> QED
    BY <2>2, <1>2, SessionFields
<1> HIDE DEF m3
<1> DEFINE m4 == [m3 EXCEPT !.gaps = (IF ~reopened /\ ~p.open THEN 1 ELSE 0)]
<1>4. /\ m4 \in SessionT
      /\ m4.disk = r.disk /\ m4.state = r.state /\ m4.pred = r.pred
      /\ m4.succ = r.succ /\ m4.ops = r.ops /\ m4.cut = r.cut
      /\ m4.segs = r.segs /\ m4.loss = r.loss /\ m4.fault = r.fault
      /\ m4.log = Append(r.log, NewEntry("rollover_succeeded", None, None))
      /\ m4.pend = p.pend
      /\ m4.open = (~(~reopened /\ ~p.open))
      /\ m4.gaps = (IF ~reopened /\ ~p.open THEN 1 ELSE 0)
  <2>1. (IF ~reopened /\ ~p.open THEN 1 ELSE 0) \in Nat
    OBVIOUS
  <2>2. m4 \in SessionT /\ m4.gaps = (IF ~reopened /\ ~p.open THEN 1 ELSE 0)
    BY <2>1, <1>3, Put_gaps
  <2> QED
    BY <2>2, <1>3, SessionFields
<1> HIDE DEF m4
<1>5. Announced(r, p, reopened) = m4
  BY <1>1 DEF Announced, m2, m3, m4, L
<1> QED
  BY <1>4, <1>5

(* Deleting a session leaves what was said of it.                          *)
LEMMA GoneEffect ==
    ASSUME NEW r \in SessionT
    PROVE  /\ Gone(r) \in SessionT
           /\ Gone(r).state = r.state /\ Gone(r).log = r.log
           /\ Gone(r).pred = r.pred /\ Gone(r).succ = r.succ
           /\ Gone(r).ops = r.ops /\ Gone(r).cut = r.cut
           /\ Gone(r).pend = r.pend /\ Gone(r).segs = r.segs
           /\ Gone(r).open = r.open /\ Gone(r).gaps = r.gaps
           /\ Gone(r).loss = r.loss /\ Gone(r).fault = r.fault
           /\ Gone(r).disk = "gone"
<1> DEFINE m1 == [r EXCEPT !.disk = "gone"]
<1>1. /\ m1 \in SessionT
      /\ m1.state = r.state /\ m1.log = r.log /\ m1.pred = r.pred
      /\ m1.succ = r.succ /\ m1.ops = r.ops /\ m1.cut = r.cut
      /\ m1.pend = r.pend /\ m1.segs = r.segs /\ m1.open = r.open
      /\ m1.gaps = r.gaps /\ m1.loss = r.loss /\ m1.fault = r.fault
      /\ m1.disk = "gone"
  <2>1. "gone" \in DiskT
    BY DEF DiskT
  <2>2. m1 \in SessionT /\ m1.disk = "gone"
    BY <2>1, Put_disk
  <2> QED
    BY <2>2, SessionFields
<1> HIDE DEF m1
<1>2. Gone(r) = m1
  BY DEF Gone, m1
<1> QED
  BY <1>1, <1>2

(* What a deletion leaves of the files says nothing else of the session.   *)
LEMMA LeftEffect ==
    ASSUME NEW r \in SessionT, NEW left \in DiskT
    PROVE  /\ [r EXCEPT !.disk = left] \in SessionT
           /\ [r EXCEPT !.disk = left].state = r.state
           /\ [r EXCEPT !.disk = left].log = r.log
           /\ [r EXCEPT !.disk = left].pred = r.pred
           /\ [r EXCEPT !.disk = left].succ = r.succ
           /\ [r EXCEPT !.disk = left].ops = r.ops
           /\ [r EXCEPT !.disk = left].cut = r.cut
           /\ [r EXCEPT !.disk = left].pend = r.pend
           /\ [r EXCEPT !.disk = left].segs = r.segs
           /\ [r EXCEPT !.disk = left].open = r.open
           /\ [r EXCEPT !.disk = left].gaps = r.gaps
           /\ [r EXCEPT !.disk = left].loss = r.loss
           /\ [r EXCEPT !.disk = left].fault = r.fault
           /\ [r EXCEPT !.disk = left].disk = left
  BY Put_disk, SessionFields

-----------------------------------------------------------------------------
(***************************************************************************)
(* The inductive invariant.  What the journal as a whole keeps is said of  *)
(* any list of sessions J, so that it can be compared before and after a   *)
(* step.                                                                   *)
(***************************************************************************)
ActiveIn(J, s) == J[s].state = "active"
EntryIn(J, s, n) == J[s].log[n + 1]
StartedIn(J, op) == \E s \in DOMAIN J : \E n \in DOMAIN J[s].log :
                       J[s].log[n].t = "operation_started" /\ J[s].log[n].id = op
EndedIn(J, op) == \E s \in DOMAIN J : \E n \in DOMAIN J[s].log :
                       J[s].log[n].t = "operation_terminal" /\ J[s].log[n].id = op
InterruptedIn(J, op) == \E s \in DOMAIN J : op \in DOMAIN J[s].cut
OwnedIn(J, op) == \E s \in DOMAIN J : op \in DOMAIN J[s].ops

(* An ended session owns nothing; a link is mutual.                        *)
SessionsIn(J) ==
    \A s \in DOMAIN J :
        /\ ActiveIn(J, s) => J[s].disk = "whole"
        /\ ~ActiveIn(J, s) => J[s].ops = Empty
        /\ Len(J[s].log) <= Budget /\ J[s].segs \in 1..MaxSegments
        /\ J[s].succ # None =>
             /\ J[s].state = "completed" /\ J[s].succ \in DOMAIN J
             /\ J[J[s].succ].pred = s /\ J[s].pend = Empty

(* The ranges of an operation, each but the last in a session whose log    *)
(* will not grow any more.                                                 *)
SoundIn(J, frozen, op, rs) ==
    /\ Len(rs) > 0
    /\ \A i \in 1..Len(rs) : rs[i].s \in DOMAIN J /\ rs[i].from < Len(J[rs[i].s].log)
    /\ EntryIn(J, rs[1].s, rs[1].from).t = "operation_started"
    /\ EntryIn(J, rs[1].s, rs[1].from).id = op
    /\ \A i \in 2..Len(rs) :
          /\ J[rs[i].s].pred = rs[i - 1].s
          /\ rs[i - 1].to = Len(J[rs[i - 1].s].log)
          /\ rs[i - 1].s \in frozen
          /\ EntryIn(J, rs[i].s, rs[i].from).t = "operation_continued"
          /\ EntryIn(J, rs[i].s, rs[i].from).id = op
          /\ \A n \in 0..(rs[i].from - 1) : EntryIn(J, rs[i].s, n).t \in Bookkeeping

OwnedSound(J, frozen, s, op) ==
    /\ SoundIn(J, frozen, op, J[s].ops[op])
    /\ J[s].ops[op][Len(J[s].ops[op])].s = s
CutSound(J, frozen, s, op) == SoundIn(J, frozen, op, J[s].cut[op])
TerminalSound(J, frozen, e) ==
    e.t = "operation_terminal" =>
        e.id \in Ops /\ e.ref \in Seq(RangeT) /\ SoundIn(J, frozen, e.id, e.ref)
RangesIn(J, frozen) ==
    \A s \in DOMAIN J :
        /\ \A op \in DOMAIN J[s].ops : OwnedSound(J, frozen, s, op)
        /\ \A op \in DOMAIN J[s].cut : CutSound(J, frozen, s, op)
        /\ \A n \in 1..Len(J[s].log) : TerminalSound(J, frozen, J[s].log[n])

(* The record an attempt was made with.                                    *)
AttemptOf(kind) == IF kind = "uart_tx" THEN "uart_tx_attempt" ELSE "control_attempt"
OriginIn(J, p, a, type) ==
    /\ p.s \in DOMAIN J /\ p.seq < Len(J[p.s].log)
    /\ EntryIn(J, p.s, p.seq).id = a /\ EntryIn(J, p.s, p.seq).t = type
PendingFound(J, s, a) == OriginIn(J, J[s].pend[a], a, AttemptOf(J[s].pend[a].kind))
ResultFound(J, e) ==
    /\ e.t = "uart_tx_result" => e.ref \in PendT /\ OriginIn(J, e.ref, e.id, "uart_tx_attempt")
    /\ e.t = "control_result" => e.ref \in PendT /\ OriginIn(J, e.ref, e.id, "control_attempt")
PendsIn(J) ==
    \A s \in DOMAIN J :
        /\ \A a \in DOMAIN J[s].pend :
              /\ PendingFound(J, s, a)
              /\ ActiveIn(J, s) => J[J[s].pend[a].s].disk # "gone"
        /\ \A n \in 1..Len(J[s].log) : ResultFound(J, J[s].log[n])

Recording == phase \in {"running", "failing"}
Rolling == job # None /\ job.unit # None
Main == IF Rolling THEN {job.pred, job.succ} ELSE {handle}

(* The sessions that will not grow any more: a predecessor of a rollover   *)
(* under way, a session filled to its budget, and every session once the   *)
(* recorder has stopped or the session has ended.                          *)
FrozenNow ==
    {x \in DOMAIN ses :
        \/ ~ActiveIn(ses, x) \/ Len(ses[x].log) = Budget \/ ~Recording
        \/ job # None /\ job.step \in {"announce", "continue"} /\ job.pred = x}

UnitOK(u, r) ==
    /\ u.t \in UnitTypes \union {"reopened"}
    /\ u.t = "operation_started" => u.id \in Ops \cap used /\ ~StartedIn(ses, u.id)
    /\ u.t = "operation_terminal" => u.id \in DOMAIN r.ops
    /\ u.t \in {"uart_tx_attempt", "control_attempt"} => u.id \in Attempts
    /\ u.t = "uart_tx_result" => u.id \in DOMAIN r.pend /\ r.pend[u.id].kind = "uart_tx"
    /\ u.t = "control_result" => u.id \in DOMAIN r.pend /\ r.pend[u.id].kind = "control"
    /\ u.t = "segment_opened" => r.segs < MaxSegments
    /\ u.t \in {"segment_opened", "reopened"} => wire

(* A unit on its way into the journal.                                     *)
UnitJob ==
    /\ Recording /\ job.pred \in DOMAIN ses /\ ActiveIn(ses, job.pred)
    /\ UnitOK(job.unit, ses[job.pred])
    /\ job.step \in {"append", "create", "announce", "continue", "sweep"}
    /\ handle \in DOMAIN ses /\ (ActiveIn(ses, handle) => handle = job.pred)
AppendJob ==
    job.step = "append" =>
        /\ job.unit.t # "reopened" /\ Len(ses[job.pred].log) < Budget
        /\ job.succ \in {None, job.pred}
FollowUpJob ==
    job.step = "sweep" =>
        job.succ = job.pred /\ (job.unit.t # "reopened" => Len(ses[job.pred].log) < Budget)
RolloverJob ==
    job.step \in {"create", "announce", "continue"} =>
        /\ job.unit.t = "reopened" \/ Len(ses[job.pred].log) = Budget
        /\ handle = job.pred
        /\ job.step = "create" => job.succ = None
SuccessorJob ==
    job.step \in {"announce", "continue"} =>
        /\ job.succ \in DOMAIN ses /\ job.succ # job.pred /\ ActiveIn(ses, job.succ)
        /\ ses[job.succ].pred = job.pred /\ ses[job.succ].segs = 1
AnnounceJob ==
    job.step = "announce" =>
        /\ ses[job.succ].log = <<>> /\ ses[job.succ].ops = Empty
        /\ ses[job.succ].pend = Empty
ContinueJob ==
    job.step = "continue" =>
        /\ Len(ses[job.succ].log) = 1 + Cardinality(DOMAIN ses[job.succ].ops)
        /\ DOMAIN ses[job.succ].ops \subseteq DOMAIN ses[job.pred].ops
        /\ ses[job.succ].pend = ses[job.pred].pend
        /\ \A n \in 1..Len(ses[job.succ].log) : ses[job.succ].log[n].t \in Bookkeeping
StartupJob ==
    /\ job.unit = None => job.step \in {"recover", "sweep"}
    /\ job.step = "recover" =>
         phase = "boot" /\ job.unit = None /\ job.succ \in 1..(Len(ses) + 1)
JobOK ==
    /\ phase \in {"running", "failing", "stopped"} => handle \in DOMAIN ses
    /\ phase = "down" => job = None
    /\ job # None => StartupJob
    /\ Rolling =>
         /\ UnitJob /\ AppendJob /\ FollowUpJob /\ RolloverJob
         /\ SuccessorJob /\ AnnounceJob /\ ContinueJob

(* Who is active, and who owns an operation.                               *)
MainOnly == Recording /\ spent.swallowed # 1 =>
                \A s \in DOMAIN ses : ActiveIn(ses, s) => s \in Main
BootEnds == phase = "boot" =>
                \A s \in DOMAIN ses : ActiveIn(ses, s) =>
                    job # None /\ job.step = "recover" /\ s >= job.succ
Accounted == \A op \in Ops : StartedIn(ses, op) =>
                op \in used /\ (EndedIn(ses, op) \/ InterruptedIn(ses, op) \/ OwnedIn(ses, op))
MainOwns == Recording =>
                \A s \in DOMAIN ses : s \in Main => \A op \in DOMAIN ses[s].ops :
                    ~EndedIn(ses, op) /\ ~InterruptedIn(ses, op)
EndedOnce == spent.swallowed = 0 =>
                \A op \in Ops : EndedIn(ses, op) => ~InterruptedIn(ses, op) /\ ~OwnedIn(ses, op)
Owners == MainOnly /\ BootEnds /\ Accounted /\ MainOwns /\ EndedOnce

JInv ==
    /\ Types /\ SessionsIn(ses) /\ RangesIn(ses, FrozenNow) /\ PendsIn(ses)
    /\ JobOK /\ Owners

-----------------------------------------------------------------------------
(***************************************************************************)
(* A step leaves every session where it was, and its log only grows.       *)
(***************************************************************************)
Prolongs(J, K) ==
    /\ DOMAIN J \subseteq DOMAIN K
    /\ \A s \in DOMAIN J :
          /\ Len(J[s].log) <= Len(K[s].log) /\ K[s].pred = J[s].pred
          /\ \A n \in 1..Len(J[s].log) : K[s].log[n] = J[s].log[n]
Stays(J, K, F, G) ==
    F \subseteq G /\ \A x \in F : x \in DOMAIN J => Len(K[x].log) = Len(J[x].log)

(* A session of the journal, its log and its name have their types.        *)
LEMMA LogTyped ==
    ASSUME NEW J \in Seq(SessionT), NEW s \in DOMAIN J
    PROVE  /\ J[s] \in SessionT /\ J[s].log \in Seq(EntryT) /\ Len(J[s].log) \in Nat
           /\ DOMAIN J[s].log = 1..Len(J[s].log) /\ s \in 1..Len(J) /\ s \in Nat
           /\ DOMAIN J = 1..Len(J)
           /\ \A n \in 1..Len(J[s].log) : J[s].log[n] \in EntryT
<1>1. J[s] \in SessionT /\ DOMAIN J = 1..Len(J)
  OBVIOUS
<1>2. J[s].log \in Seq(EntryT)
  BY <1>1, SessionFields
<1> QED
  BY <1>1, <1>2

(* A record stays where it is when the journal grows.                      *)
LEMMA EntryStays ==
    ASSUME NEW J \in Seq(SessionT), NEW K \in Seq(SessionT), Prolongs(J, K),
           NEW s \in DOMAIN J, NEW n \in Nat, n < Len(J[s].log)
    PROVE  /\ s \in DOMAIN K /\ n < Len(K[s].log)
           /\ EntryIn(K, s, n) = EntryIn(J, s, n)
<1>1. Len(J[s].log) \in Nat /\ Len(K[s].log) \in Nat /\ s \in DOMAIN K
  BY LogTyped DEF Prolongs
<1>2. n + 1 \in 1..Len(J[s].log)
  BY <1>1
<1> QED
  BY <1>1, <1>2 DEF Prolongs, EntryIn

(* The ranges of an operation stay sound when the journal grows.           *)
LEMMA SoundStays ==
    ASSUME NEW J \in Seq(SessionT), NEW K \in Seq(SessionT), Prolongs(J, K),
           NEW F, NEW G, Stays(J, K, F, G),
           NEW op, NEW rs \in Seq(RangeT), SoundIn(J, F, op, rs)
    PROVE  SoundIn(K, G, op, rs)
<1>1. /\ Len(rs) \in Nat /\ Len(rs) > 0
      /\ \A i \in 1..Len(rs) : rs[i] \in RangeT /\ rs[i].s \in Nat /\ rs[i].from \in Nat
  <2>1. Len(rs) > 0 /\ Len(rs) \in Nat /\ \A i \in 1..Len(rs) : rs[i] \in RangeT
    BY DEF SoundIn
  <2> QED
    BY <2>1 DEF RangeT
<1>2. ASSUME NEW i \in 1..Len(rs)
      PROVE  /\ rs[i].s \in DOMAIN J /\ rs[i].s \in DOMAIN K /\ rs[i].from < Len(K[rs[i].s].log)
             /\ EntryIn(K, rs[i].s, rs[i].from) = EntryIn(J, rs[i].s, rs[i].from)
  <2>1. rs[i].s \in DOMAIN J /\ rs[i].from < Len(J[rs[i].s].log) /\ rs[i].from \in Nat
    BY <1>1 DEF SoundIn
  <2> QED
    BY <2>1, EntryStays
<1>3. 1 \in 1..Len(rs)
  BY <1>1
<1>4. ASSUME NEW i \in 2..Len(rs)
      PROVE  /\ K[rs[i].s].pred = rs[i - 1].s
             /\ rs[i - 1].to = Len(K[rs[i - 1].s].log)
             /\ rs[i - 1].s \in G
             /\ EntryIn(K, rs[i].s, rs[i].from).t = "operation_continued"
             /\ EntryIn(K, rs[i].s, rs[i].from).id = op
             /\ \A n \in 0..(rs[i].from - 1) : EntryIn(K, rs[i].s, n).t \in Bookkeeping
  <2>1. i \in 1..Len(rs) /\ i - 1 \in 1..Len(rs)
    BY <1>1
  <2>2. /\ J[rs[i].s].pred = rs[i - 1].s
        /\ rs[i - 1].to = Len(J[rs[i - 1].s].log)
        /\ rs[i - 1].s \in F
        /\ EntryIn(J, rs[i].s, rs[i].from).t = "operation_continued"
        /\ EntryIn(J, rs[i].s, rs[i].from).id = op
        /\ \A n \in 0..(rs[i].from - 1) : EntryIn(J, rs[i].s, n).t \in Bookkeeping
    BY DEF SoundIn
  <2>3. rs[i].s \in DOMAIN J /\ rs[i - 1].s \in DOMAIN J
    BY <2>1, <1>2
  <2>4. ASSUME NEW n \in 0..(rs[i].from - 1)
        PROVE  EntryIn(K, rs[i].s, n) = EntryIn(J, rs[i].s, n)
    <3>1. rs[i].from < Len(J[rs[i].s].log) /\ rs[i].from \in Nat
      BY <2>1, <1>1 DEF SoundIn
    <3>2. Len(J[rs[i].s].log) \in Nat
      BY <2>3, LogTyped
    <3>3. n \in Nat /\ n < Len(J[rs[i].s].log)
      BY <3>1, <3>2
    <3> QED
      BY <3>3, <2>3, EntryStays
  <2>5. K[rs[i].s].pred = J[rs[i].s].pred
    BY <2>3 DEF Prolongs
  <2>6. Len(K[rs[i - 1].s].log) = Len(J[rs[i - 1].s].log) /\ rs[i - 1].s \in G
    BY <2>2, <2>3 DEF Stays
  <2> QED
    BY <2>1, <2>2, <2>4, <2>5, <2>6, <1>2
<1> QED
  BY <1>1, <1>2, <1>3, <1>4 DEF SoundIn

(* Closing the last range leaves the ranges sound.                         *)
LEMMA ClosedSound ==
    ASSUME NEW J, NEW F, NEW op, NEW rs \in Seq(RangeT), NEW m \in Nat,
           SoundIn(J, F, op, rs)
    PROVE  SoundIn(J, F, op, ClosedAt(rs, m))
<1> DEFINE cs == ClosedAt(rs, m)
<1>1. /\ Len(rs) > 0 /\ Len(rs) \in Nat /\ Len(cs) = Len(rs)
      /\ \A i \in 1..Len(rs) :
            cs[i].s = rs[i].s /\ cs[i].from = rs[i].from /\ (i < Len(rs) => cs[i] = rs[i])
  BY ClosedFacts DEF SoundIn
<1> HIDE DEF cs
<1>2. 1 \in 1..Len(rs)
  BY <1>1
<1>3. ASSUME NEW i \in 2..Len(rs)
      PROVE  /\ i \in 1..Len(rs) /\ i - 1 \in 1..Len(rs) /\ cs[i - 1] = rs[i - 1]
  BY <1>1
<1>4. ASSUME NEW i \in 2..Len(rs)
      PROVE  /\ J[cs[i].s].pred = cs[i - 1].s
             /\ cs[i - 1].to = Len(J[cs[i - 1].s].log)
             /\ cs[i - 1].s \in F
             /\ EntryIn(J, cs[i].s, cs[i].from).t = "operation_continued"
             /\ EntryIn(J, cs[i].s, cs[i].from).id = op
             /\ \A n \in 0..(cs[i].from - 1) : EntryIn(J, cs[i].s, n).t \in Bookkeeping
  <2>1. /\ J[rs[i].s].pred = rs[i - 1].s
        /\ rs[i - 1].to = Len(J[rs[i - 1].s].log)
        /\ rs[i - 1].s \in F
        /\ EntryIn(J, rs[i].s, rs[i].from).t = "operation_continued"
        /\ EntryIn(J, rs[i].s, rs[i].from).id = op
        /\ \A n \in 0..(rs[i].from - 1) : EntryIn(J, rs[i].s, n).t \in Bookkeeping
    BY DEF SoundIn
  <2>2. cs[i].s = rs[i].s /\ cs[i].from = rs[i].from /\ cs[i - 1] = rs[i - 1]
    BY <1>1, <1>3
  <2> QED
    BY <2>1, <2>2
<1>5. \A i \in 1..Len(cs) : cs[i].s \in DOMAIN J /\ cs[i].from < Len(J[cs[i].s].log)
  BY <1>1 DEF SoundIn
<1>6. /\ EntryIn(J, cs[1].s, cs[1].from).t = "operation_started"
      /\ EntryIn(J, cs[1].s, cs[1].from).id = op
  BY <1>1, <1>2 DEF SoundIn
<1>7. SoundIn(J, F, op, cs)
  BY <1>1, <1>4, <1>5, <1>6 DEF SoundIn
<1> QED
  BY <1>7 DEF cs

(* The range a new operation starts with is sound.                         *)
LEMMA FirstSound ==
    ASSUME NEW K \in Seq(SessionT), NEW G, NEW op, NEW s \in DOMAIN K, NEW n \in Nat,
           n < Len(K[s].log), EntryIn(K, s, n).t = "operation_started",
           EntryIn(K, s, n).id = op
    PROVE  SoundIn(K, G, op, <<[s |-> s, from |-> n, to |-> None]>>)
<1> DEFINE x == [s |-> s, from |-> n, to |-> None]
<1>1. x.s = s /\ x.from = n
  OBVIOUS
<1> HIDE DEF x
<1>2. Len(<<x>>) = 1 /\ <<x>>[1] = x
  OBVIOUS
<1> DEFINE rs == <<x>>
<1>3. Len(rs) = 1 /\ rs[1] = x
  BY <1>2
<1> HIDE DEF rs
<1>4. SoundIn(K, G, op, rs)
  BY <1>1, <1>3 DEF SoundIn
<1> QED
  BY <1>4 DEF rs, x

(* Carrying an operation over to the successor: its last range closes at   *)
(* the end of the predecessor, whose log will not grow, and the next range *)
(* begins at the continuation.                                             *)
CarriedOver(K, G, op, rs, p, s, n, us) ==
    /\ K \in Seq(SessionT) /\ rs \in Seq(RangeT) /\ SoundIn(K, G, op, rs)
    /\ p \in DOMAIN K /\ p \in G /\ rs[Len(rs)].s = p
    /\ s \in DOMAIN K /\ K[s].pred = p /\ n \in Nat /\ n < Len(K[s].log)
    /\ EntryIn(K, s, n).t = "operation_continued" /\ EntryIn(K, s, n).id = op
    /\ \A m \in 0..(n - 1) : EntryIn(K, s, m).t \in Bookkeeping
    /\ us = Append(ClosedAt(rs, Len(K[p].log)), [s |-> s, from |-> n, to |-> None])

(* The ranges continue_operation gives the successor are sound.            *)
LEMMA ContinuedSound ==
    ASSUME NEW K, NEW G, NEW op, NEW rs, NEW p, NEW s, NEW n, NEW us,
           CarriedOver(K, G, op, rs, p, s, n, us)
    PROVE  SoundIn(K, G, op, us) /\ us[Len(us)].s = s
<1>0. /\ K \in Seq(SessionT) /\ rs \in Seq(RangeT) /\ SoundIn(K, G, op, rs)
      /\ p \in DOMAIN K /\ p \in G /\ rs[Len(rs)].s = p
      /\ s \in DOMAIN K /\ K[s].pred = p /\ n \in Nat /\ n < Len(K[s].log)
      /\ EntryIn(K, s, n).t = "operation_continued" /\ EntryIn(K, s, n).id = op
      /\ \A m \in 0..(n - 1) : EntryIn(K, s, m).t \in Bookkeeping
      /\ us = Append(ClosedAt(rs, Len(K[p].log)), [s |-> s, from |-> n, to |-> None])
  BY DEF CarriedOver
<1>1. Len(K[p].log) \in Nat /\ s \in Nat
  BY <1>0, LogTyped
<1> DEFINE cs == ClosedAt(rs, Len(K[p].log))
<1> DEFINE x == [s |-> s, from |-> n, to |-> None]
<1>2. /\ Len(rs) > 0 /\ cs \in Seq(RangeT) /\ Len(cs) = Len(rs) /\ cs[Len(rs)].to = Len(K[p].log)
      /\ cs[Len(rs)].s = rs[Len(rs)].s
  <2>1. Len(rs) > 0
    BY <1>0 DEF SoundIn
  <2>2. /\ cs \in Seq(RangeT) /\ Len(cs) = Len(rs) /\ cs[Len(rs)].to = Len(K[p].log)
        /\ \A i \in 1..Len(rs) : cs[i].s = rs[i].s
    BY <2>1, <1>0, <1>1, ClosedFacts
  <2>3. Len(rs) \in 1..Len(rs)
    BY <2>1, <1>0
  <2> QED
    BY <2>1, <2>2, <2>3
<1>3. SoundIn(K, G, op, cs)
  BY <1>0, <1>1, ClosedSound
<1>4. x \in RangeT /\ x.s = s /\ x.from = n
  BY <1>0, <1>1 DEF RangeT
<1> HIDE DEF cs, x
<1> DEFINE ts == Append(cs, x)
<1>5. /\ Len(ts) = Len(cs) + 1 /\ ts[Len(cs) + 1] = x /\ Len(cs) \in Nat /\ Len(cs) > 0
      /\ \A i \in 1..Len(cs) : ts[i] = cs[i]
  BY <1>2, <1>4, AppendFacts
<1> HIDE DEF ts
<1>6. cs[Len(cs)].s = p /\ cs[Len(cs)].to = Len(K[p].log)
  BY <1>0, <1>2
<1>7. ASSUME NEW i \in 1..Len(ts)
      PROVE  ts[i].s \in DOMAIN K /\ ts[i].from < Len(K[ts[i].s].log)
  <2>1. CASE i = Len(cs) + 1
    BY <2>1, <1>0, <1>4, <1>5
  <2>2. CASE i # Len(cs) + 1
    <3>1. i \in 1..Len(cs)
      BY <2>2, <1>5
    <3>2. ts[i] = cs[i] /\ cs[i].s \in DOMAIN K /\ cs[i].from < Len(K[cs[i].s].log)
      BY <3>1, <1>3, <1>5 DEF SoundIn
    <3> QED
      BY <3>2
  <2> QED
    BY <2>1, <2>2
<1>8. EntryIn(K, ts[1].s, ts[1].from).t = "operation_started" /\ EntryIn(K, ts[1].s, ts[1].from).id = op
  <2>1. ts[1] = cs[1]
    BY <1>5
  <2> QED
    BY <2>1, <1>3 DEF SoundIn
<1>9. ASSUME NEW i \in 2..Len(ts)
      PROVE  /\ K[ts[i].s].pred = ts[i - 1].s
             /\ ts[i - 1].to = Len(K[ts[i - 1].s].log)
             /\ ts[i - 1].s \in G
             /\ EntryIn(K, ts[i].s, ts[i].from).t = "operation_continued"
             /\ EntryIn(K, ts[i].s, ts[i].from).id = op
             /\ \A m \in 0..(ts[i].from - 1) : EntryIn(K, ts[i].s, m).t \in Bookkeeping
  <2>1. CASE i = Len(cs) + 1
    <3>1. ts[i] = x /\ i - 1 = Len(cs) /\ ts[i - 1] = cs[Len(cs)]
      BY <2>1, <1>5
    <3> QED
      BY <3>1, <1>0, <1>4, <1>6
  <2>2. CASE i # Len(cs) + 1
    <3>1. i \in 2..Len(cs) /\ i - 1 \in 1..Len(cs) /\ i \in 1..Len(cs)
      BY <2>2, <1>5
    <3>2. ts[i] = cs[i] /\ ts[i - 1] = cs[i - 1]
      BY <3>1, <1>5
    <3>3. /\ K[cs[i].s].pred = cs[i - 1].s
          /\ cs[i - 1].to = Len(K[cs[i - 1].s].log)
          /\ cs[i - 1].s \in G
          /\ EntryIn(K, cs[i].s, cs[i].from).t = "operation_continued"
          /\ EntryIn(K, cs[i].s, cs[i].from).id = op
          /\ \A m \in 0..(cs[i].from - 1) : EntryIn(K, cs[i].s, m).t \in Bookkeeping
      BY <3>1, <1>3 DEF SoundIn
    <3> QED
      BY <3>2, <3>3
  <2> QED
    BY <2>1, <2>2
<1>10. SoundIn(K, G, op, ts)
  BY <1>5, <1>7, <1>8, <1>9 DEF SoundIn
<1>11. ts[Len(ts)].s = s
  BY <1>4, <1>5
<1>12. us = ts
  BY <1>0 DEF ts, cs, x
<1> QED
  BY <1>10, <1>11, <1>12

-----------------------------------------------------------------------------
(* What a step has to show: that the ranges, and the records of attempts,  *)
(* that are new are sound.  The others stay so.                            *)
OldOps(J, K, s, op) ==
    s \in DOMAIN J /\ op \in DOMAIN J[s].ops /\ K[s].ops[op] = J[s].ops[op]
OldCut(J, K, s, op) ==
    s \in DOMAIN J /\ op \in DOMAIN J[s].cut /\ K[s].cut[op] = J[s].cut[op]
OldEntry(J, K, s, n) == s \in DOMAIN J /\ n <= Len(J[s].log)

(* All ranges stay sound over a step whose new claims are sound.           *)
LEMMA RangesStay ==
    ASSUME NEW J \in Seq(SessionT), NEW K \in Seq(SessionT), Prolongs(J, K),
           NEW F, NEW G, Stays(J, K, F, G), RangesIn(J, F),
           \A s \in DOMAIN K : \A op \in DOMAIN K[s].ops :
               OldOps(J, K, s, op) \/ OwnedSound(K, G, s, op),
           \A s \in DOMAIN K : \A op \in DOMAIN K[s].cut :
               OldCut(J, K, s, op) \/ CutSound(K, G, s, op),
           \A s \in DOMAIN K : \A n \in 1..Len(K[s].log) :
               OldEntry(J, K, s, n) \/ TerminalSound(K, G, K[s].log[n])
    PROVE  RangesIn(K, G)
<1>1. ASSUME NEW s \in DOMAIN K, NEW op \in DOMAIN K[s].ops
      PROVE  OwnedSound(K, G, s, op)
  <2>1. CASE OldOps(J, K, s, op)
    <3>1. s \in DOMAIN J /\ op \in DOMAIN J[s].ops /\ K[s].ops[op] = J[s].ops[op]
      BY <2>1 DEF OldOps
    <3>2. J[s].ops[op] \in Seq(RangeT)
      BY <3>1, LogTyped, SessionFields, OpsElim
    <3>3. SoundIn(J, F, op, J[s].ops[op]) /\ J[s].ops[op][Len(J[s].ops[op])].s = s
      BY <3>1 DEF RangesIn, OwnedSound
    <3>4. SoundIn(K, G, op, J[s].ops[op])
      BY <3>2, <3>3, SoundStays
    <3> QED
      BY <3>1, <3>3, <3>4 DEF OwnedSound
  <2> QED
    BY <2>1
<1>2. ASSUME NEW s \in DOMAIN K, NEW op \in DOMAIN K[s].cut
      PROVE  CutSound(K, G, s, op)
  <2>1. CASE OldCut(J, K, s, op)
    <3>1. s \in DOMAIN J /\ op \in DOMAIN J[s].cut /\ K[s].cut[op] = J[s].cut[op]
      BY <2>1 DEF OldCut
    <3>2. J[s].cut[op] \in Seq(RangeT)
      BY <3>1, LogTyped, SessionFields, OpsElim
    <3>3. SoundIn(J, F, op, J[s].cut[op])
      BY <3>1 DEF RangesIn, CutSound
    <3>4. SoundIn(K, G, op, J[s].cut[op])
      BY <3>2, <3>3, SoundStays
    <3> QED
      BY <3>1, <3>4 DEF CutSound
  <2> QED
    BY <2>1
<1>3. ASSUME NEW s \in DOMAIN K, NEW n \in 1..Len(K[s].log)
      PROVE  TerminalSound(K, G, K[s].log[n])
  <2>1. CASE OldEntry(J, K, s, n)
    <3>1. s \in DOMAIN J /\ n \in 1..Len(J[s].log) /\ K[s].log[n] = J[s].log[n]
      <4>1. s \in DOMAIN J /\ n <= Len(J[s].log)
        BY <2>1 DEF OldEntry
      <4>2. n \in 1..Len(J[s].log)
        BY <4>1, LogTyped
      <4> QED
        BY <4>1, <4>2 DEF Prolongs
    <3>2. TerminalSound(J, F, J[s].log[n])
      BY <3>1 DEF RangesIn
    <3> DEFINE e == J[s].log[n]
    <3>3. TerminalSound(K, G, e)
      <4>1. SUFFICES ASSUME e.t = "operation_terminal"
                     PROVE  e.id \in Ops /\ e.ref \in Seq(RangeT) /\ SoundIn(K, G, e.id, e.ref)
        BY DEF TerminalSound
      <4>2. e.id \in Ops /\ e.ref \in Seq(RangeT) /\ SoundIn(J, F, e.id, e.ref)
        BY <3>2, <4>1 DEF TerminalSound
      <4> QED
        BY <4>2, SoundStays
    <3> QED
      BY <3>1, <3>3
  <2> QED
    BY <2>1
<1> QED
  BY <1>1, <1>2, <1>3 DEF RangesIn

(* The record of an attempt stays where it is when the journal grows.      *)
LEMMA OriginStays ==
    ASSUME NEW J \in Seq(SessionT), NEW K \in Seq(SessionT), Prolongs(J, K),
           NEW p \in PendT, NEW a, NEW type, OriginIn(J, p, a, type)
    PROVE  OriginIn(K, p, a, type)
<1>1. p.s \in DOMAIN J /\ p.seq \in Nat /\ p.seq < Len(J[p.s].log)
  BY DEF OriginIn, PendT
<1>2. /\ p.s \in DOMAIN K /\ p.seq < Len(K[p.s].log)
      /\ EntryIn(K, p.s, p.seq) = EntryIn(J, p.s, p.seq)
  BY <1>1, EntryStays
<1> QED
  BY <1>2 DEF OriginIn

OldPend(J, K, s, a) ==
    s \in DOMAIN J /\ a \in DOMAIN J[s].pend /\ K[s].pend[a] = J[s].pend[a]

(* Every attempt keeps its record over a step whose new attempts have      *)
(* theirs.                                                                 *)
LEMMA PendsStay ==
    ASSUME NEW J \in Seq(SessionT), NEW K \in Seq(SessionT), Prolongs(J, K), PendsIn(J),
           \A s \in DOMAIN K : \A a \in DOMAIN K[s].pend :
               OldPend(J, K, s, a) \/ PendingFound(K, s, a),
           \A s \in DOMAIN K : ActiveIn(K, s) => \A a \in DOMAIN K[s].pend :
               K[K[s].pend[a].s].disk # "gone",
           \A s \in DOMAIN K : \A n \in 1..Len(K[s].log) :
               OldEntry(J, K, s, n) \/ ResultFound(K, K[s].log[n])
    PROVE  PendsIn(K)
<1>1. ASSUME NEW s \in DOMAIN K, NEW a \in DOMAIN K[s].pend
      PROVE  PendingFound(K, s, a)
  <2>1. CASE OldPend(J, K, s, a)
    <3>1. s \in DOMAIN J /\ a \in DOMAIN J[s].pend /\ K[s].pend[a] = J[s].pend[a]
      BY <2>1 DEF OldPend
    <3>2. J[s].pend[a] \in PendT
      BY <3>1, LogTyped, SessionFields, PendElim
    <3>3. OriginIn(J, J[s].pend[a], a, AttemptOf(J[s].pend[a].kind))
      BY <3>1 DEF PendsIn, PendingFound
    <3>4. OriginIn(K, J[s].pend[a], a, AttemptOf(J[s].pend[a].kind))
      BY <3>2, <3>3, OriginStays
    <3> QED
      BY <3>1, <3>4 DEF PendingFound
  <2> QED
    BY <2>1
<1>2. ASSUME NEW s \in DOMAIN K, NEW n \in 1..Len(K[s].log)
      PROVE  ResultFound(K, K[s].log[n])
  <2>1. CASE OldEntry(J, K, s, n)
    <3>1. s \in DOMAIN J /\ n \in 1..Len(J[s].log) /\ K[s].log[n] = J[s].log[n]
      <4>1. s \in DOMAIN J /\ n <= Len(J[s].log)
        BY <2>1 DEF OldEntry
      <4>2. n \in 1..Len(J[s].log)
        BY <4>1, LogTyped
      <4> QED
        BY <4>1, <4>2 DEF Prolongs
    <3>2. ResultFound(J, J[s].log[n])
      BY <3>1 DEF PendsIn
    <3> DEFINE e == J[s].log[n]
    <3>3. ResultFound(K, e)
      <4>1. ASSUME e.t = "uart_tx_result"
            PROVE  e.ref \in PendT /\ OriginIn(K, e.ref, e.id, "uart_tx_attempt")
        BY <4>1, <3>2, OriginStays DEF ResultFound
      <4>2. ASSUME e.t = "control_result"
            PROVE  e.ref \in PendT /\ OriginIn(K, e.ref, e.id, "control_attempt")
        BY <4>2, <3>2, OriginStays DEF ResultFound
      <4> QED
        BY <4>1, <4>2 DEF ResultFound
    <3> QED
      BY <3>1, <3>3
  <2> QED
    BY <2>1
<1> QED
  BY <1>1, <1>2 DEF PendsIn

-----------------------------------------------------------------------------
(***************************************************************************)
(* The six ways a step changes the journal: not at all, by ending          *)
(* sessions, by creating one, by linking one to its successor, by deleting *)
(* files, and by appending one record.                                     *)
(***************************************************************************)
Kept(J, K, G) == SessionsIn(K) /\ RangesIn(K, G) /\ PendsIn(K)

(* A step that leaves the sessions alone keeps what is said of them, also  *)
(* when more of them are frozen.                                           *)
LEMMA SameKept ==
    ASSUME NEW J \in Seq(SessionT), NEW F, NEW G, F \subseteq G,
           SessionsIn(J), RangesIn(J, F), PendsIn(J)
    PROVE  Kept(J, J, G)
<1>1. Prolongs(J, J) /\ Stays(J, J, F, G)
  BY LogTyped DEF Prolongs, Stays
<1>2. ASSUME NEW s \in DOMAIN J
      PROVE  /\ \A op \in DOMAIN J[s].ops : OldOps(J, J, s, op)
             /\ \A op \in DOMAIN J[s].cut : OldCut(J, J, s, op)
             /\ \A n \in 1..Len(J[s].log) : OldEntry(J, J, s, n)
  BY LogTyped DEF OldOps, OldCut, OldEntry
<1> QED
  BY <1>1, <1>2, RangesStay DEF Kept

(* Ending the sessions of T.                                               *)
EndedFrom(r, q) ==
    /\ r.state = "active" /\ q.state \in {"failed", "completed", "abandoned"}
    /\ q.disk = r.disk /\ q.log = r.log /\ q.pred = r.pred /\ q.succ = r.succ
    /\ q.pend = r.pend /\ q.segs = r.segs /\ q.gaps = r.gaps
    /\ q.ops = Empty /\ q.cut = CutOf(r)
Terminated(J, K, T) ==
    /\ DOMAIN K = DOMAIN J /\ T \subseteq DOMAIN J
    /\ \A s \in DOMAIN J : IF s \in T THEN EndedFrom(J[s], K[s]) ELSE K[s] = J[s]

(* What ending sessions changes: their operations become interrupted,      *)
(* nothing else is lost.                                                   *)
LEMMA TerminatedFacts ==
    ASSUME NEW J \in Seq(SessionT), NEW K \in Seq(SessionT), NEW T, Terminated(J, K, T)
    PROVE  /\ DOMAIN K = DOMAIN J /\ Len(K) = Len(J)
           /\ \A s \in DOMAIN J :
                 /\ K[s].disk = J[s].disk /\ K[s].log = J[s].log /\ K[s].pred = J[s].pred
                 /\ K[s].succ = J[s].succ /\ K[s].pend = J[s].pend /\ K[s].segs = J[s].segs
                 /\ K[s].gaps = J[s].gaps
                 /\ ActiveIn(K, s) <=> ActiveIn(J, s) /\ s \notin T
                 /\ s \in T => ActiveIn(J, s) /\ DOMAIN K[s].ops = {}
                 /\ s \notin T => K[s] = J[s]
                 /\ DOMAIN J[s].cut \subseteq DOMAIN K[s].cut
           /\ \A op : StartedIn(K, op) <=> StartedIn(J, op)
           /\ \A op : EndedIn(K, op) <=> EndedIn(J, op)
           /\ \A op : InterruptedIn(J, op) => InterruptedIn(K, op)
           /\ \A op : InterruptedIn(K, op) => InterruptedIn(J, op) \/ OwnedIn(J, op)
           /\ \A op : OwnedIn(K, op) => OwnedIn(J, op)
           /\ \A op : OwnedIn(J, op) => OwnedIn(K, op) \/ InterruptedIn(K, op)
<1>1. ASSUME NEW s \in DOMAIN J
      PROVE  /\ K[s].disk = J[s].disk /\ K[s].log = J[s].log /\ K[s].pred = J[s].pred
             /\ K[s].succ = J[s].succ /\ K[s].pend = J[s].pend /\ K[s].segs = J[s].segs
             /\ K[s].gaps = J[s].gaps
             /\ ActiveIn(K, s) <=> ActiveIn(J, s) /\ s \notin T
             /\ s \in T => ActiveIn(J, s) /\ DOMAIN K[s].ops = {}
             /\ s \notin T => K[s] = J[s]
             /\ s \in T => DOMAIN K[s].cut = DOMAIN J[s].ops \union DOMAIN J[s].cut
  <2>1. CASE s \in T
    <3>1. EndedFrom(J[s], K[s])
      BY <2>1 DEF Terminated
    <3>2. DOMAIN CutOf(J[s]) = DOMAIN J[s].ops \union DOMAIN J[s].cut
      BY DEF CutOf
    <3> QED
      BY <2>1, <3>1, <3>2, EmptyMaps DEF EndedFrom, ActiveIn
  <2>2. CASE s \notin T
    <3>1. K[s] = J[s]
      BY <2>2 DEF Terminated
    <3> QED
      BY <2>2, <3>1 DEF ActiveIn
  <2> QED
    BY <2>1, <2>2
<1>2. DOMAIN K = DOMAIN J /\ Len(K) = Len(J)
  BY DEF Terminated
<1>3. /\ \A op : StartedIn(K, op) <=> StartedIn(J, op)
      /\ \A op : EndedIn(K, op) <=> EndedIn(J, op)
  BY <1>1, <1>2 DEF StartedIn, EndedIn
<1>4. ASSUME NEW op
      PROVE  /\ InterruptedIn(J, op) => InterruptedIn(K, op)
             /\ InterruptedIn(K, op) => InterruptedIn(J, op) \/ OwnedIn(J, op)
             /\ OwnedIn(K, op) => OwnedIn(J, op)
             /\ OwnedIn(J, op) => OwnedIn(K, op) \/ InterruptedIn(K, op)
  <2>1. ASSUME NEW s \in DOMAIN J, op \in DOMAIN J[s].cut
        PROVE  op \in DOMAIN K[s].cut
    BY <2>1, <1>1
  <2>2. ASSUME NEW s \in DOMAIN J, op \in DOMAIN K[s].cut
        PROVE  op \in DOMAIN J[s].cut \/ op \in DOMAIN J[s].ops
    BY <2>2, <1>1
  <2>3. ASSUME NEW s \in DOMAIN J, op \in DOMAIN K[s].ops
        PROVE  op \in DOMAIN J[s].ops
    BY <2>3, <1>1
  <2>4. ASSUME NEW s \in DOMAIN J, op \in DOMAIN J[s].ops
        PROVE  op \in DOMAIN K[s].ops \/ op \in DOMAIN K[s].cut
    BY <2>4, <1>1
  <2> QED
    BY <2>1, <2>2, <2>3, <2>4, <1>2 DEF InterruptedIn, OwnedIn
<1>5. ASSUME NEW s \in DOMAIN J
      PROVE  DOMAIN J[s].cut \subseteq DOMAIN K[s].cut
  BY <1>1
<1> QED
  BY <1>1, <1>2, <1>3, <1>4, <1>5

(* Ending sessions keeps their ranges and attempts.                        *)
LEMMA TerminatedKept ==
    ASSUME NEW J \in Seq(SessionT), NEW K \in Seq(SessionT), NEW T, Terminated(J, K, T),
           NEW F, NEW G, F \subseteq G, SessionsIn(J), RangesIn(J, F), PendsIn(J)
    PROVE  Kept(J, K, G)
<1>1. /\ DOMAIN K = DOMAIN J
      /\ \A s \in DOMAIN J :
            /\ K[s].disk = J[s].disk /\ K[s].log = J[s].log /\ K[s].pred = J[s].pred
            /\ K[s].succ = J[s].succ /\ K[s].pend = J[s].pend /\ K[s].segs = J[s].segs
            /\ ActiveIn(K, s) <=> ActiveIn(J, s) /\ s \notin T
            /\ s \in T => ActiveIn(J, s) /\ DOMAIN K[s].ops = {}
            /\ s \notin T => K[s] = J[s]
  BY TerminatedFacts
<1>2. Prolongs(J, K) /\ Stays(J, K, F, G)
  BY <1>1, LogTyped DEF Prolongs, Stays
<1>3. SessionsIn(K)
  <2>1. ASSUME NEW s \in DOMAIN K
        PROVE  /\ ActiveIn(K, s) => K[s].disk = "whole"
               /\ ~ActiveIn(K, s) => K[s].ops = Empty
               /\ Len(K[s].log) <= Budget /\ K[s].segs \in 1..MaxSegments
    <3>1. s \in T => K[s].ops = Empty
      BY <1>1 DEF Terminated, EndedFrom
    <3> QED
      BY <3>1, <1>1 DEF SessionsIn
  <2>2. ASSUME NEW s \in DOMAIN K, K[s].succ # None
        PROVE  /\ K[s].state = "completed" /\ K[s].succ \in DOMAIN K
               /\ K[K[s].succ].pred = s /\ K[s].pend = Empty
    <3>1. /\ J[s].state = "completed" /\ J[s].succ \in DOMAIN J
          /\ J[J[s].succ].pred = s /\ J[s].pend = Empty
      BY <2>2, <1>1 DEF SessionsIn
    <3>2. s \notin T
      BY <3>1, <1>1 DEF ActiveIn
    <3> QED
      BY <3>1, <3>2, <1>1
  <2> QED
    BY <2>1, <2>2 DEF SessionsIn
<1>4. RangesIn(K, G)
  <2>1. \A s \in DOMAIN K : \A op \in DOMAIN K[s].ops : OldOps(J, K, s, op)
    BY <1>1 DEF OldOps
  <2>2. ASSUME NEW s \in DOMAIN K, NEW op \in DOMAIN K[s].cut
        PROVE  OldCut(J, K, s, op) \/ CutSound(K, G, s, op)
    <3>1. CASE s \notin T
      BY <3>1, <1>1 DEF OldCut
    <3>2. CASE s \in T /\ op \notin DOMAIN J[s].ops
      <4>1. K[s].cut = CutOf(J[s])
        BY <3>2, <1>1 DEF Terminated, EndedFrom
      <4> QED
        BY <4>1, <3>2, <1>1 DEF OldCut, CutOf
    <3>3. CASE s \in T /\ op \in DOMAIN J[s].ops
      <4>1. K[s].cut = CutOf(J[s])
        BY <3>3, <1>1 DEF Terminated, EndedFrom
      <4>2. K[s].cut[op] = ClosedAt(J[s].ops[op], Len(J[s].log))
        BY <4>1, <3>3 DEF CutOf
      <4>3. SoundIn(J, F, op, J[s].ops[op])
        BY <3>3, <1>1 DEF RangesIn, OwnedSound
      <4>4. J[s].ops[op] \in Seq(RangeT) /\ Len(J[s].log) \in Nat
        BY <3>3, <1>1, LogTyped, SessionFields, OpsElim
      <4>5. SoundIn(J, F, op, ClosedAt(J[s].ops[op], Len(J[s].log)))
        BY <4>3, <4>4, ClosedSound
      <4>6. ClosedAt(J[s].ops[op], Len(J[s].log)) \in Seq(RangeT)
        BY <4>3, <4>4, ClosedFacts DEF SoundIn
      <4>7. SoundIn(K, G, op, ClosedAt(J[s].ops[op], Len(J[s].log)))
        BY <4>5, <4>6, <1>2, SoundStays
      <4> QED
        BY <4>2, <4>7 DEF CutSound
    <3> QED
      BY <3>1, <3>2, <3>3
  <2>3. \A s \in DOMAIN K : \A n \in 1..Len(K[s].log) : OldEntry(J, K, s, n)
    BY <1>1, LogTyped DEF OldEntry
  <2> QED
    BY <2>1, <2>2, <2>3, <1>2, RangesStay
<1>5. PendsIn(K)
  <2>1. \A s \in DOMAIN K : \A a \in DOMAIN K[s].pend : OldPend(J, K, s, a)
    BY <1>1 DEF OldPend
  <2>2. ASSUME NEW s \in DOMAIN K, ActiveIn(K, s), NEW a \in DOMAIN K[s].pend
        PROVE  K[K[s].pend[a].s].disk # "gone"
    <3>1. s \in DOMAIN J /\ ActiveIn(J, s) /\ a \in DOMAIN J[s].pend /\ K[s].pend = J[s].pend
      BY <2>2, <1>1
    <3>2. J[s].pend[a].s \in DOMAIN J /\ J[J[s].pend[a].s].disk # "gone"
      BY <3>1 DEF PendsIn, PendingFound, OriginIn
    <3> QED
      BY <3>1, <3>2, <1>1
  <2>3. \A s \in DOMAIN K : \A n \in 1..Len(K[s].log) : OldEntry(J, K, s, n)
    BY <1>1, LogTyped DEF OldEntry
  <2> QED
    BY <2>1, <2>2, <2>3, <1>2, PendsStay
<1> QED
  BY <1>3, <1>4, <1>5 DEF Kept

(* A new session at the end.                                               *)
Created(J, K, p) ==
    /\ Len(K) = Len(J) + 1 /\ K[Len(J) + 1] = NewSession(p)
    /\ \A s \in DOMAIN J : K[s] = J[s]

(* What creating a session changes: it starts, ends and owns no operation. *)
LEMMA CreatedFacts ==
    ASSUME NEW J \in Seq(SessionT), NEW K \in Seq(SessionT), NEW p \in NameT, Created(J, K, p)
    PROVE  /\ DOMAIN K = DOMAIN J \union {Len(J) + 1} /\ Len(J) + 1 \notin DOMAIN J
           /\ Len(J) \in Nat /\ DOMAIN J = 1..Len(J) /\ DOMAIN K = 1..Len(K)
           /\ \A s \in DOMAIN J : K[s] = J[s] /\ s # Len(J) + 1
           /\ LET q == K[Len(J) + 1]
              IN  /\ q.disk = "whole" /\ q.state = "active" /\ q.log = <<>> /\ q.pred = p
                  /\ q.succ = None /\ q.ops = Empty /\ q.cut = Empty /\ q.pend = Empty
                  /\ q.segs = 1 /\ q.gaps = 0 /\ Len(q.log) = 0
                  /\ DOMAIN q.ops = {} /\ DOMAIN q.cut = {} /\ DOMAIN q.pend = {}
           /\ \A op : StartedIn(K, op) <=> StartedIn(J, op)
           /\ \A op : EndedIn(K, op) <=> EndedIn(J, op)
           /\ \A op : InterruptedIn(K, op) <=> InterruptedIn(J, op)
           /\ \A op : OwnedIn(K, op) <=> OwnedIn(J, op)
<1>1. /\ DOMAIN K = DOMAIN J \union {Len(J) + 1} /\ Len(J) + 1 \notin DOMAIN J
      /\ Len(J) \in Nat /\ DOMAIN J = 1..Len(J) /\ DOMAIN K = 1..Len(K)
      /\ \A s \in DOMAIN J : K[s] = J[s] /\ s # Len(J) + 1
  BY DEF Created
<1> DEFINE q == K[Len(J) + 1]
<1>2. /\ q.disk = "whole" /\ q.state = "active" /\ q.log = <<>> /\ q.pred = p
      /\ q.succ = None /\ q.ops = Empty /\ q.cut = Empty /\ q.pend = Empty
      /\ q.segs = 1 /\ q.gaps = 0 /\ Len(q.log) = 0
      /\ DOMAIN q.ops = {} /\ DOMAIN q.cut = {} /\ DOMAIN q.pend = {}
  <2>1. q = NewSession(p)
    BY DEF Created
  <2> DEFINE x == NewSession(p)
  <2>2. /\ x.disk = "whole" /\ x.state = "active" /\ x.log = <<>> /\ x.pred = p
        /\ x.succ = None /\ x.ops = Empty /\ x.cut = Empty /\ x.pend = Empty
        /\ x.segs = 1 /\ x.gaps = 0
    BY NewSessionEffect
  <2> HIDE DEF x
  <2>3. q = x
    BY <2>1 DEF x
  <2> QED
    BY <2>2, <2>3, EmptyMaps
<1>3. DOMAIN q.log = {}
  BY <1>2
<1> HIDE DEF q
<1>4. \A s \in DOMAIN K : s \in DOMAIN J \/ K[s] = q
  BY <1>1 DEF q
<1>5. \A op : StartedIn(K, op) <=> StartedIn(J, op)
  BY <1>1, <1>3, <1>4 DEF StartedIn
<1>6. \A op : EndedIn(K, op) <=> EndedIn(J, op)
  BY <1>1, <1>3, <1>4 DEF EndedIn
<1>7. \A op : InterruptedIn(K, op) <=> InterruptedIn(J, op)
  BY <1>1, <1>2, <1>4 DEF InterruptedIn
<1>8. \A op : OwnedIn(K, op) <=> OwnedIn(J, op)
  BY <1>1, <1>2, <1>4 DEF OwnedIn
<1> QED
  BY <1>1, <1>2, <1>5, <1>6, <1>7, <1>8 DEF q

(* Creating a session keeps the ranges and attempts of the others.         *)
LEMMA CreatedKept ==
    ASSUME NEW J \in Seq(SessionT), NEW K \in Seq(SessionT), NEW p \in NameT, Created(J, K, p),
           NEW F, NEW G, F \subseteq G, F \subseteq DOMAIN J,
           SessionsIn(J), RangesIn(J, F), PendsIn(J)
    PROVE  Kept(J, K, G)
<1> DEFINE q == K[Len(J) + 1]
<1>1. /\ DOMAIN K = DOMAIN J \union {Len(J) + 1} /\ Len(J) + 1 \notin DOMAIN J
      /\ \A s \in DOMAIN J : K[s] = J[s] /\ s # Len(J) + 1
      /\ q.disk = "whole" /\ q.state = "active" /\ q.log = <<>> /\ Len(q.log) = 0
      /\ q.succ = None /\ q.segs = 1
      /\ DOMAIN q.ops = {} /\ DOMAIN q.cut = {} /\ DOMAIN q.pend = {}
  BY CreatedFacts
<1>2. \A s \in DOMAIN K : s \in DOMAIN J \/ K[s] = q
  BY <1>1
<1> HIDE DEF q
<1>3. Prolongs(J, K) /\ Stays(J, K, F, G)
  BY <1>1, LogTyped DEF Prolongs, Stays
<1>4. SessionsIn(K)
  <2>1. ASSUME NEW s \in DOMAIN J
        PROVE  /\ ActiveIn(K, s) => K[s].disk = "whole"
               /\ ~ActiveIn(K, s) => K[s].ops = Empty
               /\ Len(K[s].log) <= Budget /\ K[s].segs \in 1..MaxSegments
               /\ K[s].succ # None =>
                    /\ K[s].state = "completed" /\ K[s].succ \in DOMAIN K
                    /\ K[K[s].succ].pred = s /\ K[s].pend = Empty
    <3>1. K[s] = J[s]
      BY <1>1
    <3>2. J[s].succ # None =>
                    /\ J[s].state = "completed" /\ J[s].succ \in DOMAIN J
                    /\ J[J[s].succ].pred = s /\ J[s].pend = Empty
      BY DEF SessionsIn
    <3>3. J[s].succ # None => J[s].succ \in DOMAIN K /\ K[J[s].succ] = J[J[s].succ]
      BY <3>2, <1>1
    <3>4. /\ ActiveIn(J, s) => J[s].disk = "whole"
          /\ ~ActiveIn(J, s) => J[s].ops = Empty
          /\ Len(J[s].log) <= Budget /\ J[s].segs \in 1..MaxSegments
      BY DEF SessionsIn
    <3> QED
      BY <3>1, <3>2, <3>3, <3>4 DEF ActiveIn
  <2>2. 0 <= Budget /\ 1 \in 1..MaxSegments
    BY BudgetAssumption
  <2> QED
    BY <2>1, <2>2, <1>1, <1>2 DEF SessionsIn, ActiveIn
<1>5. \A s \in DOMAIN K : \A n \in 1..Len(K[s].log) : OldEntry(J, K, s, n)
  BY <1>1, <1>2, LogTyped DEF OldEntry
<1>6. RangesIn(K, G)
  <2>1. /\ \A s \in DOMAIN K : \A op \in DOMAIN K[s].ops : OldOps(J, K, s, op)
        /\ \A s \in DOMAIN K : \A op \in DOMAIN K[s].cut : OldCut(J, K, s, op)
    BY <1>1, <1>2 DEF OldOps, OldCut
  <2> QED
    BY <2>1, <1>3, <1>5, RangesStay
<1>7. PendsIn(K)
  <2>1. \A s \in DOMAIN K : \A a \in DOMAIN K[s].pend : OldPend(J, K, s, a)
    BY <1>1, <1>2 DEF OldPend
  <2>2. ASSUME NEW s \in DOMAIN K, ActiveIn(K, s), NEW a \in DOMAIN K[s].pend
        PROVE  K[K[s].pend[a].s].disk # "gone"
    <3>1. s \in DOMAIN J /\ ActiveIn(J, s) /\ a \in DOMAIN J[s].pend /\ K[s] = J[s]
      BY <2>1, <2>2, <1>1 DEF OldPend, ActiveIn
    <3>2. J[s].pend[a].s \in DOMAIN J /\ J[J[s].pend[a].s].disk # "gone"
      BY <3>1 DEF PendsIn, PendingFound, OriginIn
    <3> QED
      BY <3>1, <3>2, <1>1
  <2> QED
    BY <2>1, <2>2, <1>3, <1>5, PendsStay
<1> QED
  BY <1>4, <1>6, <1>7 DEF Kept

(* The predecessor is linked to its successor, which owns all it owned.    *)
LinkedTo(J, K, p, q) ==
    /\ DOMAIN K = DOMAIN J /\ p \in DOMAIN J /\ q \in DOMAIN J /\ p # q
    /\ \A s \in DOMAIN J : s # p => K[s] = J[s]
    /\ K[p].disk = J[p].disk /\ K[p].log = J[p].log /\ K[p].pred = J[p].pred
    /\ K[p].cut = J[p].cut /\ K[p].segs = J[p].segs /\ K[p].gaps = J[p].gaps
    /\ K[p].state = "completed" /\ K[p].succ = q /\ K[p].ops = Empty /\ K[p].pend = Empty

(* What linking a predecessor changes: its operations are owned by the     *)
(* successor already.                                                      *)
LEMMA LinkedFacts ==
    ASSUME NEW J \in Seq(SessionT), NEW K \in Seq(SessionT), NEW p, NEW q, LinkedTo(J, K, p, q),
           DOMAIN J[p].ops \subseteq DOMAIN J[q].ops
    PROVE  /\ DOMAIN K = DOMAIN J /\ Len(K) = Len(J)
           /\ \A s \in DOMAIN J :
                 /\ K[s].disk = J[s].disk /\ K[s].log = J[s].log /\ K[s].pred = J[s].pred
                 /\ K[s].cut = J[s].cut /\ K[s].segs = J[s].segs
                 /\ ActiveIn(K, s) <=> ActiveIn(J, s) /\ s # p
                 /\ s # p => K[s] = J[s]
           /\ DOMAIN K[p].ops = {} /\ DOMAIN K[p].pend = {}
           /\ \A op : StartedIn(K, op) <=> StartedIn(J, op)
           /\ \A op : EndedIn(K, op) <=> EndedIn(J, op)
           /\ \A op : InterruptedIn(K, op) <=> InterruptedIn(J, op)
           /\ \A op : OwnedIn(K, op) <=> OwnedIn(J, op)
<1>1. /\ DOMAIN K = DOMAIN J /\ Len(K) = Len(J) /\ p \in DOMAIN J /\ q \in DOMAIN J /\ p # q
      /\ DOMAIN K[p].ops = {} /\ DOMAIN K[p].pend = {}
  BY EmptyMaps DEF LinkedTo
<1>2. ASSUME NEW s \in DOMAIN J
      PROVE  /\ K[s].disk = J[s].disk /\ K[s].log = J[s].log /\ K[s].pred = J[s].pred
             /\ K[s].cut = J[s].cut /\ K[s].segs = J[s].segs
             /\ ActiveIn(K, s) <=> ActiveIn(J, s) /\ s # p
             /\ s # p => K[s] = J[s]
  BY DEF LinkedTo, ActiveIn
<1>3. /\ \A op : StartedIn(K, op) <=> StartedIn(J, op)
      /\ \A op : EndedIn(K, op) <=> EndedIn(J, op)
      /\ \A op : InterruptedIn(K, op) <=> InterruptedIn(J, op)
  BY <1>1, <1>2 DEF StartedIn, EndedIn, InterruptedIn
<1>4. ASSUME NEW op PROVE OwnedIn(K, op) <=> OwnedIn(J, op)
  BY <1>1, <1>2 DEF OwnedIn
<1> QED
  BY <1>1, <1>2, <1>3, <1>4

(* Linking a predecessor keeps the ranges and attempts.                    *)
LEMMA LinkedKept ==
    ASSUME NEW J \in Seq(SessionT), NEW K \in Seq(SessionT), NEW p, NEW q, LinkedTo(J, K, p, q),
           DOMAIN J[p].ops \subseteq DOMAIN J[q].ops, J[q].pred = p, J[p].state = "active",
           NEW F, NEW G, F \subseteq G, F \subseteq DOMAIN J,
           SessionsIn(J), RangesIn(J, F), PendsIn(J)
    PROVE  Kept(J, K, G)
<1>1. /\ DOMAIN K = DOMAIN J /\ p \in DOMAIN J /\ q \in DOMAIN J /\ p # q
      /\ \A s \in DOMAIN J :
            /\ K[s].disk = J[s].disk /\ K[s].log = J[s].log /\ K[s].pred = J[s].pred
            /\ K[s].cut = J[s].cut /\ K[s].segs = J[s].segs
            /\ ActiveIn(K, s) <=> ActiveIn(J, s) /\ s # p
            /\ s # p => K[s] = J[s]
      /\ DOMAIN K[p].ops = {} /\ DOMAIN K[p].pend = {}
  <2>1. p \in DOMAIN J /\ q \in DOMAIN J /\ p # q
    BY DEF LinkedTo
  <2> QED
    BY <2>1, LinkedFacts
<1>2. Prolongs(J, K) /\ Stays(J, K, F, G)
  BY <1>1, LogTyped DEF Prolongs, Stays
<1>3. SessionsIn(K)
  <2>1. ASSUME NEW s \in DOMAIN K
        PROVE  /\ ActiveIn(K, s) => K[s].disk = "whole"
               /\ ~ActiveIn(K, s) => K[s].ops = Empty
               /\ Len(K[s].log) <= Budget /\ K[s].segs \in 1..MaxSegments
    <3>1. s = p => K[s].ops = Empty
      BY DEF LinkedTo
    <3> QED
      BY <3>1, <1>1 DEF SessionsIn
  <2>2. ASSUME NEW s \in DOMAIN K, K[s].succ # None
        PROVE  /\ K[s].state = "completed" /\ K[s].succ \in DOMAIN K
               /\ K[K[s].succ].pred = s /\ K[s].pend = Empty
    <3>1. CASE s = p
      <4>1. K[p].state = "completed" /\ K[p].succ = q /\ K[p].pend = Empty
        BY DEF LinkedTo
      <4> QED
        BY <3>1, <4>1, <1>1
    <3>2. CASE s # p
      <4>1. /\ J[s].state = "completed" /\ J[s].succ \in DOMAIN J
            /\ J[J[s].succ].pred = s /\ J[s].pend = Empty
        BY <2>2, <3>2, <1>1 DEF SessionsIn
      <4> QED
        BY <4>1, <3>2, <1>1
    <3> QED
      BY <3>1, <3>2
  <2> QED
    BY <2>1, <2>2 DEF SessionsIn
<1>4. \A s \in DOMAIN K : \A n \in 1..Len(K[s].log) : OldEntry(J, K, s, n)
  BY <1>1, LogTyped DEF OldEntry
<1>5. RangesIn(K, G)
  <2>1. /\ \A s \in DOMAIN K : \A op \in DOMAIN K[s].ops : OldOps(J, K, s, op)
        /\ \A s \in DOMAIN K : \A op \in DOMAIN K[s].cut : OldCut(J, K, s, op)
    BY <1>1 DEF OldOps, OldCut
  <2> QED
    BY <2>1, <1>2, <1>4, RangesStay
<1>6. PendsIn(K)
  <2>1. \A s \in DOMAIN K : \A a \in DOMAIN K[s].pend : OldPend(J, K, s, a)
    BY <1>1 DEF OldPend
  <2>2. ASSUME NEW s \in DOMAIN K, ActiveIn(K, s), NEW a \in DOMAIN K[s].pend
        PROVE  K[K[s].pend[a].s].disk # "gone"
    <3>1. s \in DOMAIN J /\ ActiveIn(J, s) /\ a \in DOMAIN J[s].pend /\ K[s] = J[s]
      BY <2>2, <1>1
    <3>2. J[s].pend[a].s \in DOMAIN J /\ J[J[s].pend[a].s].disk # "gone"
      BY <3>1 DEF PendsIn, PendingFound, OriginIn
    <3> QED
      BY <3>1, <3>2, <1>1
  <2> QED
    BY <2>1, <2>2, <1>2, <1>4, PendsStay
<1> QED
  BY <1>3, <1>5, <1>6 DEF Kept

(* Files of sessions of D go; none of them is active, and none holds an    *)
(* attempt an active session may still have to resolve.                    *)
Deleted(J, K, D) ==
    /\ DOMAIN K = DOMAIN J
    /\ \A s \in DOMAIN J :
          /\ K[s].state = J[s].state /\ K[s].log = J[s].log /\ K[s].pred = J[s].pred
          /\ K[s].succ = J[s].succ /\ K[s].ops = J[s].ops /\ K[s].cut = J[s].cut
          /\ K[s].pend = J[s].pend /\ K[s].segs = J[s].segs /\ K[s].gaps = J[s].gaps
          /\ K[s].fault = J[s].fault /\ K[s].loss = J[s].loss
          /\ s \notin D => K[s].disk = J[s].disk
    /\ \A s \in D : s \in DOMAIN J => ~ActiveIn(J, s)
    /\ \A s \in DOMAIN J : ActiveIn(J, s) => \A a \in DOMAIN J[s].pend : J[s].pend[a].s \notin D

(* Deleting files starts, ends and interrupts no operation.                *)
LEMMA DeletedFacts ==
    ASSUME NEW J, NEW K, NEW D, Deleted(J, K, D)
    PROVE  /\ \A op : StartedIn(K, op) <=> StartedIn(J, op)
           /\ \A op : EndedIn(K, op) <=> EndedIn(J, op)
           /\ \A op : InterruptedIn(K, op) <=> InterruptedIn(J, op)
           /\ \A op : OwnedIn(K, op) <=> OwnedIn(J, op)
           /\ \A s \in DOMAIN J : ActiveIn(K, s) <=> ActiveIn(J, s)
<1>1. DOMAIN K = DOMAIN J
  BY DEF Deleted
<1>2. ASSUME NEW s \in DOMAIN J
      PROVE  K[s].state = J[s].state /\ K[s].log = J[s].log /\ K[s].ops = J[s].ops /\ K[s].cut = J[s].cut
  BY DEF Deleted
<1> QED
  BY <1>1, <1>2 DEF StartedIn, EndedIn, InterruptedIn, OwnedIn, ActiveIn

(* Deleting files of sessions nothing needs keeps the ranges and attempts. *)
LEMMA DeletedKept ==
    ASSUME NEW J \in Seq(SessionT), NEW K \in Seq(SessionT), NEW D, Deleted(J, K, D),
           NEW F, NEW G, F \subseteq G, F \subseteq DOMAIN J,
           SessionsIn(J), RangesIn(J, F), PendsIn(J)
    PROVE  Kept(J, K, G)
<1>1. /\ DOMAIN K = DOMAIN J
      /\ \A s \in DOMAIN J :
            /\ K[s].state = J[s].state /\ K[s].log = J[s].log /\ K[s].pred = J[s].pred
            /\ K[s].succ = J[s].succ /\ K[s].ops = J[s].ops /\ K[s].cut = J[s].cut
            /\ K[s].pend = J[s].pend /\ K[s].segs = J[s].segs
            /\ s \notin D => K[s].disk = J[s].disk
            /\ ActiveIn(K, s) <=> ActiveIn(J, s)
  BY DEF Deleted, ActiveIn
<1>2. Prolongs(J, K) /\ Stays(J, K, F, G)
  BY <1>1, LogTyped DEF Prolongs, Stays
<1>3. \A s \in DOMAIN J : ActiveIn(J, s) => s \notin D
  BY DEF Deleted
<1>4. SessionsIn(K)
  <2>1. ASSUME NEW s \in DOMAIN K
        PROVE  /\ ActiveIn(K, s) => K[s].disk = "whole"
               /\ ~ActiveIn(K, s) => K[s].ops = Empty
               /\ Len(K[s].log) <= Budget /\ K[s].segs \in 1..MaxSegments
    BY <1>1, <1>3 DEF SessionsIn
  <2>2. ASSUME NEW s \in DOMAIN K, K[s].succ # None
        PROVE  /\ K[s].state = "completed" /\ K[s].succ \in DOMAIN K
               /\ K[K[s].succ].pred = s /\ K[s].pend = Empty
    <3>1. /\ J[s].state = "completed" /\ J[s].succ \in DOMAIN J
          /\ J[J[s].succ].pred = s /\ J[s].pend = Empty
      BY <2>2, <1>1 DEF SessionsIn
    <3> QED
      BY <3>1, <1>1
  <2> QED
    BY <2>1, <2>2 DEF SessionsIn
<1>5. \A s \in DOMAIN K : \A n \in 1..Len(K[s].log) : OldEntry(J, K, s, n)
  BY <1>1, LogTyped DEF OldEntry
<1>6. RangesIn(K, G)
  <2>1. /\ \A s \in DOMAIN K : \A op \in DOMAIN K[s].ops : OldOps(J, K, s, op)
        /\ \A s \in DOMAIN K : \A op \in DOMAIN K[s].cut : OldCut(J, K, s, op)
    BY <1>1 DEF OldOps, OldCut
  <2> QED
    BY <2>1, <1>2, <1>5, RangesStay
<1>7. PendsIn(K)
  <2>1. \A s \in DOMAIN K : \A a \in DOMAIN K[s].pend : OldPend(J, K, s, a)
    BY <1>1 DEF OldPend
  <2>2. ASSUME NEW s \in DOMAIN K, ActiveIn(K, s), NEW a \in DOMAIN K[s].pend
        PROVE  K[K[s].pend[a].s].disk # "gone"
    <3>1. s \in DOMAIN J /\ ActiveIn(J, s) /\ a \in DOMAIN J[s].pend /\ K[s].pend = J[s].pend
      BY <2>2, <1>1
    <3>2. J[s].pend[a].s \in DOMAIN J /\ J[J[s].pend[a].s].disk # "gone"
      BY <3>1 DEF PendsIn, PendingFound, OriginIn
    <3>3. J[s].pend[a].s \notin D
      BY <3>1 DEF Deleted
    <3> QED
      BY <3>1, <3>2, <3>3, <1>1
  <2> QED
    BY <2>1, <2>2, <1>2, <1>5, PendsStay
<1> QED
  BY <1>4, <1>6, <1>7 DEF Kept

(* One record more in session g.                                           *)
GrownBy(J, K, g, e) ==
    /\ DOMAIN K = DOMAIN J /\ g \in DOMAIN J
    /\ \A s \in DOMAIN J : s # g => K[s] = J[s]
    /\ K[g].log = Append(J[g].log, e) /\ e \in EntryT
    /\ K[g].disk = J[g].disk /\ K[g].state = J[g].state /\ K[g].pred = J[g].pred
    /\ K[g].succ = J[g].succ /\ K[g].cut = J[g].cut

(* What appending one record changes: it starts or ends at most its own    *)
(* operation.                                                              *)
LEMMA GrownFacts ==
    ASSUME NEW J \in Seq(SessionT), NEW K \in Seq(SessionT), NEW g, NEW e, GrownBy(J, K, g, e)
    PROVE  /\ DOMAIN K = DOMAIN J /\ Len(K) = Len(J) /\ g \in DOMAIN J
           /\ Len(J[g].log) \in Nat /\ Len(K[g].log) = Len(J[g].log) + 1
           /\ K[g].log[Len(J[g].log) + 1] = e
           /\ \A n \in 1..Len(J[g].log) : K[g].log[n] = J[g].log[n]
           /\ \A s \in DOMAIN J : s # g => K[s] = J[s]
           /\ \A s \in DOMAIN J :
                 /\ K[s].disk = J[s].disk /\ K[s].state = J[s].state /\ K[s].pred = J[s].pred
                 /\ K[s].succ = J[s].succ /\ K[s].cut = J[s].cut
                 /\ ActiveIn(K, s) <=> ActiveIn(J, s)
                 /\ \A n \in DOMAIN K[s].log :
                       (n \in DOMAIN J[s].log /\ K[s].log[n] = J[s].log[n])
                       \/ (s = g /\ n = Len(J[g].log) + 1 /\ K[s].log[n] = e)
           /\ Prolongs(J, K)
           /\ \A op : StartedIn(K, op) <=> StartedIn(J, op) \/ (e.t = "operation_started" /\ e.id = op)
           /\ \A op : EndedIn(K, op) <=> EndedIn(J, op) \/ (e.t = "operation_terminal" /\ e.id = op)
           /\ \A op : InterruptedIn(K, op) <=> InterruptedIn(J, op)
<1>1. /\ DOMAIN K = DOMAIN J /\ Len(K) = Len(J) /\ g \in DOMAIN J /\ e \in EntryT
      /\ \A s \in DOMAIN J : s # g => K[s] = J[s]
  BY DEF GrownBy
<1>2. /\ Len(J[g].log) \in Nat /\ Len(K[g].log) = Len(J[g].log) + 1
      /\ K[g].log[Len(J[g].log) + 1] = e
      /\ \A n \in 1..Len(J[g].log) : K[g].log[n] = J[g].log[n]
      /\ DOMAIN K[g].log = 1..(Len(J[g].log) + 1) /\ DOMAIN J[g].log = 1..Len(J[g].log)
  <2>1. J[g].log \in Seq(EntryT)
    BY <1>1, LogTyped
  <2>2. K[g].log = Append(J[g].log, e)
    BY DEF GrownBy
  <2> QED
    BY <2>1, <2>2, <1>1, AppendFacts
<1>3. ASSUME NEW s \in DOMAIN J
      PROVE  /\ K[s].disk = J[s].disk /\ K[s].state = J[s].state /\ K[s].pred = J[s].pred
             /\ K[s].succ = J[s].succ /\ K[s].cut = J[s].cut
             /\ ActiveIn(K, s) <=> ActiveIn(J, s)
             /\ \A n \in DOMAIN K[s].log :
                       (n \in DOMAIN J[s].log /\ K[s].log[n] = J[s].log[n])
                       \/ (s = g /\ n = Len(J[g].log) + 1 /\ K[s].log[n] = e)
             /\ \A n \in DOMAIN J[s].log : n \in DOMAIN K[s].log /\ K[s].log[n] = J[s].log[n]
             /\ Len(J[s].log) <= Len(K[s].log)
  <2>1. CASE s # g
    BY <2>1, <1>1, LogTyped DEF ActiveIn
  <2>2. CASE s = g
    <3>1. /\ K[g].disk = J[g].disk /\ K[g].state = J[g].state /\ K[g].pred = J[g].pred
          /\ K[g].succ = J[g].succ /\ K[g].cut = J[g].cut
      BY DEF GrownBy
    <3>2. ActiveIn(K, g) <=> ActiveIn(J, g)
      BY <3>1 DEF ActiveIn
    <3>3. \A n \in DOMAIN K[g].log : n \in DOMAIN J[g].log \/ n = Len(J[g].log) + 1
      BY <1>2
    <3>4. \A n \in DOMAIN J[g].log : n \in DOMAIN K[g].log
      BY <1>2
    <3>5. Len(J[g].log) <= Len(K[g].log)
      BY <1>2
    <3>6. \A n \in DOMAIN J[g].log : K[g].log[n] = J[g].log[n]
      BY <1>2
    <3>7. \A n \in DOMAIN K[g].log :
             (n \in DOMAIN J[g].log /\ K[g].log[n] = J[g].log[n])
             \/ (n = Len(J[g].log) + 1 /\ K[g].log[n] = e)
      BY <3>3, <3>6, <1>2
    <3> QED
      BY <2>2, <3>1, <3>2, <3>4, <3>5, <3>6, <3>7
  <2> QED
    BY <2>1, <2>2
<1>4. Prolongs(J, K)
  BY <1>1, <1>3, LogTyped DEF Prolongs
<1>5. g \in DOMAIN K /\ Len(J[g].log) + 1 \in DOMAIN K[g].log
  BY <1>1, <1>2
<1>6. ASSUME NEW op
      PROVE  StartedIn(K, op) <=> StartedIn(J, op) \/ (e.t = "operation_started" /\ e.id = op)
  <2>1. StartedIn(J, op) => StartedIn(K, op)
    BY <1>1, <1>3 DEF StartedIn
  <2>2. e.t = "operation_started" /\ e.id = op => StartedIn(K, op)
    BY <1>2, <1>5 DEF StartedIn
  <2>3. StartedIn(K, op) => StartedIn(J, op) \/ (e.t = "operation_started" /\ e.id = op)
    BY <1>1, <1>3 DEF StartedIn
  <2> QED
    BY <2>1, <2>2, <2>3
<1>7. ASSUME NEW op
      PROVE  EndedIn(K, op) <=> EndedIn(J, op) \/ (e.t = "operation_terminal" /\ e.id = op)
  <2>1. EndedIn(J, op) => EndedIn(K, op)
    BY <1>1, <1>3 DEF EndedIn
  <2>2. e.t = "operation_terminal" /\ e.id = op => EndedIn(K, op)
    BY <1>2, <1>5 DEF EndedIn
  <2>3. EndedIn(K, op) => EndedIn(J, op) \/ (e.t = "operation_terminal" /\ e.id = op)
    BY <1>1, <1>3 DEF EndedIn
  <2> QED
    BY <2>1, <2>2, <2>3
<1>8. \A op : InterruptedIn(K, op) <=> InterruptedIn(J, op)
  BY <1>1, <1>3 DEF InterruptedIn
<1> QED
  BY <1>1, <1>2, <1>3, <1>4, <1>6, <1>7, <1>8

(* Appending one record keeps the ranges and attempts when the record is   *)
(* sound.                                                                  *)
LEMMA GrownKept ==
    ASSUME NEW J \in Seq(SessionT), NEW K \in Seq(SessionT), NEW g, NEW e, GrownBy(J, K, g, e),
           NEW F, NEW G, F \subseteq G, g \notin F, ActiveIn(J, g),
           SessionsIn(J), RangesIn(J, F), PendsIn(J),
           Len(J[g].log) < Budget, K[g].segs \in 1..MaxSegments,
           \A op \in DOMAIN K[g].ops : OldOps(J, K, g, op) \/ OwnedSound(K, G, g, op),
           \A a \in DOMAIN K[g].pend : OldPend(J, K, g, a) \/ PendingFound(K, g, a),
           \A a \in DOMAIN K[g].pend : K[K[g].pend[a].s].disk # "gone",
           TerminalSound(K, G, e), ResultFound(K, e)
    PROVE  Kept(J, K, G)
<1>1. /\ DOMAIN K = DOMAIN J /\ g \in DOMAIN J /\ Len(J[g].log) \in Nat
      /\ Len(K[g].log) = Len(J[g].log) + 1
      /\ K[g].log[Len(J[g].log) + 1] = e
      /\ \A s \in DOMAIN J : s # g => K[s] = J[s]
      /\ \A s \in DOMAIN J :
            /\ K[s].disk = J[s].disk /\ K[s].state = J[s].state /\ K[s].pred = J[s].pred
            /\ K[s].succ = J[s].succ /\ K[s].cut = J[s].cut
            /\ ActiveIn(K, s) <=> ActiveIn(J, s)
      /\ Prolongs(J, K)
  BY GrownFacts
<1>2. Stays(J, K, F, G)
  BY <1>1 DEF Stays
<1>3. J[g].succ = None
  BY <1>1 DEF SessionsIn, ActiveIn
<1>4. SessionsIn(K)
  <2>1. ASSUME NEW s \in DOMAIN K
        PROVE  /\ ActiveIn(K, s) => K[s].disk = "whole"
               /\ ~ActiveIn(K, s) => K[s].ops = Empty
               /\ Len(K[s].log) <= Budget /\ K[s].segs \in 1..MaxSegments
    <3>1. CASE s = g
      BY <3>1, <1>1, BudgetAssumption DEF SessionsIn
    <3>2. CASE s # g
      BY <3>2, <1>1 DEF SessionsIn
    <3> QED
      BY <3>1, <3>2
  <2>2. ASSUME NEW s \in DOMAIN K, K[s].succ # None
        PROVE  /\ K[s].state = "completed" /\ K[s].succ \in DOMAIN K
               /\ K[K[s].succ].pred = s /\ K[s].pend = Empty
    <3>1. /\ J[s].state = "completed" /\ J[s].succ \in DOMAIN J
          /\ J[J[s].succ].pred = s /\ J[s].pend = Empty
      BY <2>2, <1>1 DEF SessionsIn
    <3>2. s # g
      BY <2>2, <1>1, <1>3
    <3> QED
      BY <3>1, <3>2, <1>1
  <2> QED
    BY <2>1, <2>2 DEF SessionsIn
<1>5. ASSUME NEW s \in DOMAIN K, NEW n \in 1..Len(K[s].log)
      PROVE  OldEntry(J, K, s, n) \/ K[s].log[n] = e
  <2>1. CASE s = g
    BY <2>1, <1>1 DEF OldEntry
  <2>2. CASE s # g
    BY <2>2, <1>1, LogTyped DEF OldEntry
  <2> QED
    BY <2>1, <2>2
<1>6. RangesIn(K, G)
  <2>1. \A s \in DOMAIN K : \A op \in DOMAIN K[s].ops :
               OldOps(J, K, s, op) \/ OwnedSound(K, G, s, op)
    <3>1. \A s \in DOMAIN K : s # g => \A op \in DOMAIN K[s].ops : OldOps(J, K, s, op)
      BY <1>1 DEF OldOps
    <3> QED
      BY <3>1
  <2>2. \A s \in DOMAIN K : \A op \in DOMAIN K[s].cut :
               OldCut(J, K, s, op) \/ CutSound(K, G, s, op)
    BY <1>1 DEF OldCut
  <2>3. \A s \in DOMAIN K : \A n \in 1..Len(K[s].log) :
               OldEntry(J, K, s, n) \/ TerminalSound(K, G, K[s].log[n])
    BY <1>5
  <2> QED
    BY <2>1, <2>2, <2>3, <1>1, <1>2, RangesStay
<1>7. PendsIn(K)
  <2>1. \A s \in DOMAIN K : \A a \in DOMAIN K[s].pend :
               OldPend(J, K, s, a) \/ PendingFound(K, s, a)
    <3>1. \A s \in DOMAIN K : s # g => \A a \in DOMAIN K[s].pend : OldPend(J, K, s, a)
      BY <1>1 DEF OldPend
    <3> QED
      BY <3>1
  <2>2. ASSUME NEW s \in DOMAIN K, ActiveIn(K, s), NEW a \in DOMAIN K[s].pend
        PROVE  K[K[s].pend[a].s].disk # "gone"
    <3>1. CASE s = g
      BY <3>1
    <3>2. CASE s # g
      <4>1. s \in DOMAIN J /\ ActiveIn(J, s) /\ a \in DOMAIN J[s].pend /\ K[s].pend = J[s].pend
        BY <2>2, <3>2, <1>1
      <4>2. J[s].pend[a].s \in DOMAIN J /\ J[J[s].pend[a].s].disk # "gone"
        BY <4>1 DEF PendsIn, PendingFound, OriginIn
      <4> QED
        BY <4>1, <4>2, <1>1
    <3> QED
      BY <3>1, <3>2
  <2>3. \A s \in DOMAIN K : \A n \in 1..Len(K[s].log) :
               OldEntry(J, K, s, n) \/ ResultFound(K, K[s].log[n])
    BY <1>5
  <2> QED
    BY <2>1, <2>2, <2>3, <1>1, PendsStay
<1> QED
  BY <1>4, <1>6, <1>7 DEF Kept

-----------------------------------------------------------------------------
(***************************************************************************)
(* The steps that leave the sessions as they are.                          *)
(***************************************************************************)
Steps == {"recover", "sweep", "append", "create", "announce", "continue"}

(* The fields of a store call in progress.                                 *)
LEMMA JobFields ==
    ASSUME NEW j \in Jobs
    PROVE  /\ j # None /\ j.step \in Steps /\ j.unit \in Units \union {None}
           /\ j.pred \in Nat \union {None} /\ j.succ \in Nat \union {None} /\ j.held \subseteq Nat
  BY NoneAssumption DEF Jobs, Steps

(* A store call that is begun has its type and its fields.                 *)
LEMMA JobTyped ==
    ASSUME NEW step \in Steps, NEW unit \in Units \union {None}, NEW pred \in Nat \union {None},
           NEW succ \in Nat \union {None}, NEW held \in SUBSET Nat
    PROVE  LET j == Job(step, unit, pred, succ, held)
           IN  /\ j \in Jobs /\ j # None
               /\ j.step = step /\ j.unit = unit /\ j.pred = pred /\ j.succ = succ /\ j.held = held
<1>1. Job(step, unit, pred, succ, held) \in Jobs
  BY DEF Job, Jobs, Steps
<1> QED
  BY <1>1, JobFields DEF Job

(* A retention pass that is begun has its type and its fields.             *)
LEMMA SweepJobTyped ==
    ASSUME NEW held \in SUBSET Nat
    PROVE  LET j == SweepJob(held)
           IN  /\ j \in Jobs /\ j # None
               /\ j.step = "sweep" /\ j.unit = None /\ j.pred = None /\ j.succ = None /\ j.held = held
<1>1. SweepJob(held) = [step |-> "sweep", unit |-> None, pred |-> None, succ |-> None, held |-> held]
  BY DEF SweepJob, Job
<1>2. SweepJob(held) \in Jobs
  BY <1>1 DEF Jobs
<1> QED
  BY <1>1, <1>2, JobFields

(* Recovery that is begun has its type and its fields.                     *)
LEMMA RecoverJobTyped ==
    LET j == Job("recover", None, None, 1, {})
    IN  /\ j \in Jobs /\ j # None
        /\ j.step = "recover" /\ j.unit = None /\ j.pred = None /\ j.succ = 1
<1>1. Job("recover", None, None, 1, {})
        = [step |-> "recover", unit |-> None, pred |-> None, succ |-> 1, held |-> {}]
  BY DEF Job
<1>2. Job("recover", None, None, 1, {}) \in Jobs
  BY <1>1 DEF Jobs
<1> QED
  BY <1>1, <1>2, JobFields

(* The fields of a unit.                                                   *)
LEMMA UnitFields ==
    ASSUME NEW u \in Units
    PROVE  u # None /\ u.t \in UnitTypes \union {"reopened"} /\ u.id \in Ops \union Attempts \union {None}
  BY NoneAssumption DEF Units

(* Sessions are named by their place in creation order.                    *)
LEMMA NamesAreNumbers ==
    ASSUME Types
    PROVE  /\ DOMAIN ses = 1..Len(ses) /\ Len(ses) \in Nat /\ DOMAIN ses \subseteq Nat
           /\ None \notin DOMAIN ses /\ None \notin Nat /\ FrozenNow \subseteq DOMAIN ses
           /\ \A s \in DOMAIN ses : ses[s] \in SessionT
  BY NoneAssumption DEF Types, FrozenNow

(* Spending one of the bounds keeps the others and lets nothing through.   *)
LEMMA SpentTyped ==
    ASSUME NEW x \in SpentT
    PROVE  /\ x.swallowed \in 0..2
           /\ [x EXCEPT !.fault = @ + 1] \in SpentT /\ [x EXCEPT !.fault = @ + 1].swallowed = x.swallowed
           /\ [x EXCEPT !.mark = @ + 1] \in SpentT /\ [x EXCEPT !.mark = @ + 1].swallowed = x.swallowed
           /\ [x EXCEPT !.uart = @ + 1] \in SpentT /\ [x EXCEPT !.uart = @ + 1].swallowed = x.swallowed
           /\ [x EXCEPT !.gap = @ + 1] \in SpentT /\ [x EXCEPT !.gap = @ + 1].swallowed = x.swallowed
           /\ [x EXCEPT !.loss = @ + 1] \in SpentT /\ [x EXCEPT !.loss = @ + 1].swallowed = x.swallowed
<1>1. [x EXCEPT !.fault = @ + 1] \in SpentT /\ [x EXCEPT !.fault = @ + 1].swallowed = x.swallowed
  BY DEF SpentT
<1>2. [x EXCEPT !.mark = @ + 1] \in SpentT /\ [x EXCEPT !.mark = @ + 1].swallowed = x.swallowed
  BY DEF SpentT
<1>3. [x EXCEPT !.uart = @ + 1] \in SpentT /\ [x EXCEPT !.uart = @ + 1].swallowed = x.swallowed
  BY DEF SpentT
<1>4. [x EXCEPT !.gap = @ + 1] \in SpentT /\ [x EXCEPT !.gap = @ + 1].swallowed = x.swallowed
  BY DEF SpentT
<1>5. [x EXCEPT !.loss = @ + 1] \in SpentT /\ [x EXCEPT !.loss = @ + 1].swallowed = x.swallowed
  BY DEF SpentT
<1>6. x.swallowed \in 0..2
  BY DEF SpentT
<1> QED
  BY <1>1, <1>2, <1>3, <1>4, <1>5, <1>6

(* Noting that a failure was let through keeps the bounds.                 *)
LEMMA SwallowedTyped ==
    ASSUME NEW x \in SpentT, NEW n \in 0..2
    PROVE  [x EXCEPT !.swallowed = n] \in SpentT /\ [x EXCEPT !.swallowed = n].swallowed = n
  BY DEF SpentT

(* A failure that is let through is spent and noted.                       *)
LEMMA LetThroughTyped ==
    ASSUME NEW x \in SpentT
    PROVE  LET y == [x EXCEPT !.fault = @ + 1, !.swallowed = 1]
           IN  y \in SpentT /\ y.swallowed = 1
<1> DEFINE z == [x EXCEPT !.fault = @ + 1]
<1>1. z \in SpentT
  BY DEF SpentT
<1>2. [x EXCEPT !.fault = @ + 1, !.swallowed = 1] = [z EXCEPT !.swallowed = 1]
  OBVIOUS
<1> HIDE DEF z
<1>3. [z EXCEPT !.swallowed = 1] \in SpentT /\ [z EXCEPT !.swallowed = 1].swallowed = 1
  <2>1. 1 \in 0..2
    OBVIOUS
  <2> QED
    BY <1>1, <2>1, SwallowedTyped
<1> QED
  BY <1>2, <1>3

(* A restart is spent, and what was let through before it is history.      *)
LEMMA RestartTyped ==
    ASSUME NEW x \in SpentT
    PROVE  LET y == [x EXCEPT !.crash = @ + 1, !.swallowed = IF @ = 0 THEN 0 ELSE 2]
           IN  y \in SpentT /\ (y.swallowed = 0 <=> x.swallowed = 0) /\ y.swallowed # 1
<1> DEFINE z == [x EXCEPT !.crash = @ + 1]
<1> DEFINE n == IF x.swallowed = 0 THEN 0 ELSE 2
<1>1. z \in SpentT /\ z.swallowed = x.swallowed
  BY DEF SpentT
<1>2. [x EXCEPT !.crash = @ + 1, !.swallowed = IF @ = 0 THEN 0 ELSE 2] = [z EXCEPT !.swallowed = n]
  BY DEF SpentT
<1>3. n \in 0..2 /\ (n = 0 <=> x.swallowed = 0) /\ n # 1
  OBVIOUS
<1> HIDE DEF z, n
<1>4. [z EXCEPT !.swallowed = n] \in SpentT /\ [z EXCEPT !.swallowed = n].swallowed = n
  BY <1>1, <1>3, SwallowedTyped
<1> QED
  BY <1>2, <1>3, <1>4

(* The parts of the invariant that no session changes under.               *)
LEMMA SameSessions ==
    ASSUME JInv, ses' = ses, Types', FrozenNow \subseteq FrozenNow', JobOK', Owners'
    PROVE  JInv'
<1>1. Kept(ses, ses, FrozenNow')
  BY SameKept DEF JInv, Types
<1> QED
  BY <1>1 DEF JInv, Kept

(* The end of recovery keeps the invariant: no session is active any more. *)
LEMMA RecoveryDoneKeeps ==
    ASSUME JInv, RecoveryDone
    PROVE  JInv'
<1>1. /\ Types /\ JobOK /\ Owners /\ phase = "boot" /\ ses' = ses /\ phase' = phase /\ handle' = handle
      /\ wire' = wire /\ baseline' = baseline /\ lease' = lease /\ tails' = tails /\ used' = used
      /\ spent' = spent /\ job' = SweepJob({}) /\ job # None /\ job.step = "recover"
      /\ job.succ = Len(ses) + 1
  BY DEF JInv, RecoveryDone, JobOK, StartupJob
<1>2. job' \in Jobs /\ job' # None /\ job'.step = "sweep" /\ job'.unit = None
  BY <1>1, SweepJobTyped
<1>3. Types'
  BY <1>1, <1>2 DEF Types
<1>4. FrozenNow \subseteq FrozenNow'
  BY <1>1 DEF FrozenNow, Recording
<1>5. JobOK'
  BY <1>1, <1>2 DEF JobOK, StartupJob, Rolling
<1>6. \A s \in DOMAIN ses : ~ActiveIn(ses, s)
  BY <1>1, NamesAreNumbers DEF Owners, BootEnds
<1>7. Owners'
  BY <1>1, <1>6 DEF Owners, MainOnly, BootEnds, Accounted, MainOwns, EndedOnce, Recording
<1> QED
  BY <1>1, <1>3, <1>4, <1>5, <1>7, SameSessions

(* Giving startup up keeps the invariant.                                  *)
LEMMA RecoveryFailsKeeps ==
    ASSUME JInv, RecoveryFails
    PROVE  JInv'
<1>1. /\ Types /\ JobOK /\ Owners /\ ses' = ses /\ phase' = "down" /\ handle' = handle
      /\ wire' = wire /\ baseline' = baseline /\ lease' = lease /\ tails' = tails /\ used' = used
      /\ job' = None /\ spent' = [spent EXCEPT !.fault = @ + 1]
  BY DEF JInv, RecoveryFails, Spend
<1>2. spent' \in SpentT /\ spent'.swallowed = spent.swallowed
  BY <1>1, SpentTyped DEF Types
<1>3. Types'
  BY <1>1, <1>2 DEF Types
<1>4. FrozenNow \subseteq FrozenNow'
  BY <1>1 DEF FrozenNow, Recording
<1>5. JobOK'
  BY <1>1 DEF JobOK, Rolling
<1>6. Owners'
  BY <1>1, <1>2 DEF Owners, MainOnly, BootEnds, Accounted, MainOwns, EndedOnce, Recording
<1> QED
  BY <1>1, <1>3, <1>4, <1>5, <1>6, SameSessions

(* Finding that the session has ended keeps the invariant.                 *)
LEMMA FindEndedKeeps ==
    ASSUME JInv, FindEnded
    PROVE  JInv'
<1>1. /\ Types /\ JobOK /\ Owners /\ ses' = ses /\ phase' = "stopped" /\ handle' = handle
      /\ wire' = wire /\ baseline' = baseline /\ lease' = lease /\ tails' = tails /\ used' = used
      /\ job' = job /\ job = None /\ spent' = spent /\ phase \in {"running", "failing"}
  BY DEF JInv, FindEnded, Idle
<1>2. Types'
  BY <1>1 DEF Types
<1>3. FrozenNow \subseteq FrozenNow'
  BY <1>1 DEF FrozenNow, Recording
<1>4. JobOK'
  BY <1>1 DEF JobOK, Rolling
<1>5. Owners'
  BY <1>1 DEF Owners, MainOnly, BootEnds, Accounted, MainOwns, EndedOnce, Recording
<1> QED
  BY <1>1, <1>2, <1>3, <1>4, <1>5, SameSessions

(* Failing on bad input keeps the invariant.                               *)
LEMMA InputErrorKeeps ==
    ASSUME JInv, InputError
    PROVE  JInv'
<1>1. /\ Types /\ JobOK /\ Owners /\ ses' = ses /\ phase' = "failing" /\ handle' = handle
      /\ wire' = wire /\ baseline' = baseline /\ lease' = lease /\ tails' = tails /\ used' = used
      /\ job' = job /\ job = None /\ spent' = [spent EXCEPT !.fault = @ + 1] /\ phase = "running"
  BY DEF JInv, InputError, Idle, Spend
<1>2. spent' \in SpentT /\ spent'.swallowed = spent.swallowed
  BY <1>1, SpentTyped DEF Types
<1>3. Types'
  BY <1>1, <1>2 DEF Types
<1>4. FrozenNow \subseteq FrozenNow'
  BY <1>1 DEF FrozenNow, Recording
<1>5. JobOK'
  BY <1>1 DEF JobOK, Rolling
<1>6. Owners'
  BY <1>1, <1>2 DEF Owners, MainOnly, BootEnds, Accounted, MainOwns, EndedOnce, Recording, Main, Rolling
<1> QED
  BY <1>1, <1>3, <1>4, <1>5, <1>6, SameSessions

(* Closing the reader of an operation that ended keeps the invariant.      *)
LEMMA CloseReaderKeeps ==
    ASSUME JInv, CloseReader
    PROVE  JInv'
<1>1. /\ Types /\ JobOK /\ Owners /\ ses' = ses /\ phase' = phase /\ handle' = handle
      /\ wire' = wire /\ baseline' = baseline /\ tails' = tails /\ used' = used
      /\ job' = job /\ job = None /\ spent' = spent
  BY DEF JInv, CloseReader
<1>2. lease' \in [Ops -> SUBSET DOMAIN ses]
  BY <1>1 DEF CloseReader, Types
<1>3. Types'
  BY <1>1, <1>2 DEF Types
<1>4. FrozenNow \subseteq FrozenNow'
  BY <1>1 DEF FrozenNow, Recording
<1>5. JobOK'
  BY <1>1 DEF JobOK, Rolling
<1>6. Owners'
  BY <1>1 DEF Owners, MainOnly, BootEnds, Accounted, MainOwns, EndedOnce, Recording, Main, Rolling
<1> QED
  BY <1>1, <1>3, <1>4, <1>5, <1>6, SameSessions

(* Marking or clearing the baseline keeps the invariant.                   *)
LEMMA BaselineKeeps ==
    ASSUME JInv, MarkBaseline \/ ClearBaseline
    PROVE  JInv'
<1>1. /\ Types /\ JobOK /\ Owners /\ ses' = ses /\ phase' = phase /\ handle' = handle
      /\ wire' = wire /\ lease' = lease /\ tails' = tails /\ used' = used
      /\ job' = SweepJob({}) /\ job = None /\ phase \in {"running", "failing", "stopped"}
      /\ spent' = spent \/ spent' = [spent EXCEPT !.mark = @ + 1]
      /\ baseline' \in DOMAIN ses \union {None}
  BY DEF JInv, MarkBaseline, ClearBaseline, Idle, Spend, Existing
<1>2. spent' \in SpentT /\ spent'.swallowed = spent.swallowed
  BY <1>1, SpentTyped DEF Types
<1>3. job' \in Jobs /\ job' # None /\ job'.step = "sweep" /\ job'.unit = None
  BY <1>1, SweepJobTyped
<1>4. Types'
  BY <1>1, <1>2, <1>3 DEF Types
<1>5. FrozenNow \subseteq FrozenNow'
  BY <1>1 DEF FrozenNow, Recording
<1>6. JobOK'
  BY <1>1, <1>3 DEF JobOK, Rolling, StartupJob
<1>7. Owners'
  BY <1>1, <1>2, <1>3 DEF Owners, MainOnly, BootEnds, Accounted, MainOwns, EndedOnce, Recording, Main, Rolling
<1> QED
  BY <1>1, <1>4, <1>5, <1>6, <1>7, SameSessions

(* A crash at any point, and the restart after it, keep the invariant.     *)
LEMMA RestartKeeps ==
    ASSUME JInv, Restart
    PROVE  JInv'
<1>1. /\ Types /\ JobOK /\ Owners /\ ses' = ses /\ phase' = "boot" /\ handle' = None
      /\ wire' = TRUE /\ baseline' = baseline /\ tails' = {} /\ used' = used
      /\ job' = Job("recover", None, None, 1, {}) /\ lease' = [op \in Ops |-> {}]
      /\ spent' = [spent EXCEPT !.crash = @ + 1, !.swallowed = IF @ = 0 THEN 0 ELSE 2]
  BY DEF JInv, Restart
<1>2. spent' \in SpentT /\ (spent'.swallowed = 0 <=> spent.swallowed = 0)
  BY <1>1, RestartTyped DEF Types
<1>3. job' \in Jobs /\ job' # None /\ job'.step = "recover" /\ job'.unit = None /\ job'.succ = 1
  BY <1>1, RecoverJobTyped
<1>4. Types'
  BY <1>1, <1>2, <1>3 DEF Types
<1>5. FrozenNow \subseteq FrozenNow'
  BY <1>1 DEF FrozenNow, Recording
<1>6. /\ \A s \in DOMAIN ses : s >= 1
      /\ Len(ses) \in Nat
  BY <1>1, NamesAreNumbers
<1>7. JobOK'
  BY <1>1, <1>3, <1>6 DEF JobOK, Rolling, StartupJob
<1>8. Owners'
  BY <1>1, <1>2, <1>3, <1>6 DEF Owners, MainOnly, BootEnds, Accounted, MainOwns, EndedOnce, Recording
<1> QED
  BY <1>1, <1>4, <1>5, <1>7, <1>8, SameSessions

(* What the recorder offers fits the session it is for.                    *)
LEMMA OfferedUnit ==
    ASSUME Types, NEW r \in SessionT, NEW u \in Offers(r)
    PROVE  /\ u \in Units /\ u.t \in UnitTypes
           /\ u.t = "operation_started" => u.id \in Ops \ used
           /\ u.t = "operation_terminal" => u.id \in DOMAIN r.ops
           /\ u.t \in {"uart_tx_attempt", "control_attempt"} => u.id \in Attempts
           /\ u.t = "uart_tx_result" => u.id \in DOMAIN r.pend /\ r.pend[u.id].kind = "uart_tx"
           /\ u.t = "control_result" => u.id \in DOMAIN r.pend /\ r.pend[u.id].kind = "control"
           /\ u.t \in {"operation_started", "uart_tx_attempt", "control_attempt", "uart_rx",
                       "buffer_overflow", "gap"} => wire
           /\ u.t = "gap" => phase # "failing"
<1>1. DOMAIN r.ops \subseteq Ops /\ DOMAIN r.pend \subseteq Attempts
  BY SessionFields, OpsElim, PendElim
<1>2. CASE u \in [t : {"operation_terminal"}, id : DOMAIN r.ops]
  BY <1>1, <1>2 DEF Units, UnitTypes
<1>3. CASE phase # "failing"
  <2>1. CASE u \in [t : {"operation_started"}, id : IF wire THEN FreshOperations ELSE {}]
    BY <2>1, <1>3 DEF Units, UnitTypes, FreshOperations
  <2>2. CASE u \in [t : {"uart_tx_attempt", "control_attempt"},
                    id : IF wire /\ r.pend = Empty THEN FreshAttempts ELSE {}]
    BY <2>2, <1>3 DEF Units, UnitTypes, FreshAttempts
  <2>3. CASE u \in [t : {"uart_tx_result"}, id : {a \in DOMAIN r.pend : r.pend[a].kind = "uart_tx"}]
    BY <2>3, <1>1, <1>3 DEF Units, UnitTypes
  <2>4. CASE u \in [t : {"control_result"}, id : {a \in DOMAIN r.pend : r.pend[a].kind = "control"}]
    BY <2>4, <1>1, <1>3 DEF Units, UnitTypes
  <2>5. CASE u \in [t : {"uart_rx"}, id : IF wire /\ spent.uart < MaxUart THEN {None} ELSE {}]
    BY <2>5, <1>3 DEF Units, UnitTypes
  <2>6. CASE u \in [t : {"buffer_overflow"}, id : IF wire /\ spent.loss < MaxLosses THEN {None} ELSE {}]
    BY <2>6, <1>3 DEF Units, UnitTypes
  <2>7. CASE u \in [t : {"gap"}, id : IF wire /\ spent.gap < MaxGaps THEN {None} ELSE {}]
    BY <2>7, <1>3 DEF Units, UnitTypes
  <2>8. CASE u \in [t : {"segment_opened"}, id : IF wire THEN {} ELSE {None}]
    BY <2>8, <1>3 DEF Units, UnitTypes
  <2> QED
    BY <1>2, <1>3, <2>1, <2>2, <2>3, <2>4, <2>5, <2>6, <2>7, <2>8 DEF Offers
<1>4. CASE phase = "failing"
  BY <1>2, <1>4 DEF Offers
<1> QED
  BY <1>3, <1>4

(* A unit that enters the store keeps the invariant, whichever branch it   *)
(* takes.                                                                  *)
LEMMA OfferKeeps ==
    ASSUME JInv, Offer
    PROVE  JInv'
<1>1. /\ Types /\ JobOK /\ Owners /\ SessionsIn(ses) /\ ses' = ses /\ phase' = phase
      /\ handle' = handle /\ baseline' = baseline /\ lease' = lease /\ tails' = tails
      /\ job = None /\ phase \in {"running", "failing"} /\ ActiveIn(ses, handle)
      /\ handle \in DOMAIN ses
  BY DEF JInv, Offer, Idle, JobOK, ActiveIn
<1>2. PICK u \in Offers(ses[handle]) :
        /\ Issued(u)
        /\ IF u.t = "segment_opened" /\ ses[handle].segs = MaxSegments
             THEN job' = Job("create", [u EXCEPT !.t = "reopened"], handle, None, {})
             ELSE job' = Job(IF WillRollOver(ses[handle]) THEN "create" ELSE "append",
                             u, handle, None, {})
  BY DEF Offer
<1> DEFINE r == ses[handle]
<1>3. r \in SessionT /\ handle \in Nat /\ None \notin DOMAIN ses
  BY <1>1, NamesAreNumbers
<1>4. /\ u \in Units /\ u.t \in UnitTypes
      /\ u.t = "operation_started" => u.id \in Ops \ used
      /\ u.t = "operation_terminal" => u.id \in DOMAIN r.ops
      /\ u.t \in {"uart_tx_attempt", "control_attempt"} => u.id \in Attempts
      /\ u.t = "uart_tx_result" => u.id \in DOMAIN r.pend /\ r.pend[u.id].kind = "uart_tx"
      /\ u.t = "control_result" => u.id \in DOMAIN r.pend /\ r.pend[u.id].kind = "control"
  BY <1>1, <1>3, OfferedUnit
<1>5. /\ used' = used \union ({u.id} \ {None})
      /\ spent' \in SpentT /\ spent'.swallowed = spent.swallowed
      /\ wire' \in BOOLEAN /\ (u.t = "segment_opened" => wire')
  <2>1. spent \in SpentT /\ wire \in BOOLEAN
    BY <1>1 DEF Types
  <2>2. spent' \in {spent, [spent EXCEPT !.uart = @ + 1], [spent EXCEPT !.gap = @ + 1],
                    [spent EXCEPT !.loss = @ + 1]}
    BY <1>2 DEF Issued
  <2>3. wire' \in BOOLEAN /\ (u.t = "segment_opened" => wire')
    BY <1>2, <2>1 DEF Issued
  <2>4. used' = used \union ({u.id} \ {None})
    BY <1>2 DEF Issued
  <2> QED
    BY <2>1, <2>2, <2>3, <2>4, SpentTyped
<1>6. /\ used' \subseteq Ops \union Attempts
      /\ u.t = "operation_started" => u.id \in Ops \cap used' /\ ~StartedIn(ses, u.id)
  <2>1. u.id \in Ops \union Attempts \union {None} /\ used \subseteq Ops \union Attempts
    BY <1>1, <1>4, UnitFields DEF Types
  <2> QED
    BY <2>1, <1>1, <1>4, <1>5, NoneAssumption DEF Owners, Accounted
<1>7. Len(r.log) \in Nat /\ Len(r.log) <= Budget /\ r.segs \in 1..MaxSegments
  BY <1>1, <1>3, SessionFields DEF SessionsIn
<1>8. PICK step \in {"append", "create"}, v \in Units :
        /\ job' = Job(step, v, handle, None, {}) /\ v.id = u.id
        /\ v = u \/ (u.t = "segment_opened" /\ v.t = "reopened")
        /\ v = u => (step = "append" <=> Len(r.log) < Budget)
        /\ v = u => (u.t = "segment_opened" => r.segs # MaxSegments)
        /\ v.t = "reopened" => step = "create"
  <2>1. CASE u.t = "segment_opened" /\ ses[handle].segs = MaxSegments
    <3> DEFINE w == [u EXCEPT !.t = "reopened"]
    <3>1. w \in Units /\ w.id = u.id /\ w.t = "reopened"
      BY <1>4 DEF Units
    <3>2. job' = Job("create", w, handle, None, {})
      BY <2>1, <1>2
    <3>3. w # u
      BY <3>1, <2>1
    <3> HIDE DEF w
    <3>4. "create" \in {"append", "create"}
      OBVIOUS
    <3> QED
      BY <3>1, <3>2, <3>3, <3>4, <2>1
  <2>2. CASE ~(u.t = "segment_opened" /\ ses[handle].segs = MaxSegments)
    <3>1. CASE Len(r.log) < Budget
      <4>1. job' = Job("append", u, handle, None, {})
        BY <2>2, <3>1, <1>2 DEF WillRollOver, Fits
      <4>2. "append" \in {"append", "create"} /\ u.t # "reopened"
        BY <1>4 DEF UnitTypes
      <4> QED
        BY <4>1, <4>2, <3>1, <2>2, <1>4
    <3>2. CASE ~(Len(r.log) < Budget)
      <4>1. job' = Job("create", u, handle, None, {})
        BY <2>2, <3>2, <1>2 DEF WillRollOver, Fits
      <4>2. "create" \in {"append", "create"} /\ u.t # "reopened"
        BY <1>4 DEF UnitTypes
      <4> QED
        BY <4>1, <4>2, <3>2, <2>2, <1>4
    <3> QED
      BY <3>1, <3>2
  <2> QED
    BY <2>1, <2>2
<1>9. /\ job' \in Jobs /\ job' # None /\ job'.step = step /\ job'.unit = v /\ job'.unit # None
      /\ job'.pred = handle /\ job'.succ = None
  <2>1. /\ step \in Steps /\ {} \in SUBSET Nat /\ v \in Units \union {None}
        /\ handle \in Nat \union {None} /\ None \in Nat \union {None} /\ v # None
    BY <1>3, UnitFields DEF Steps
  <2>2. job' = Job(step, v, handle, None, {})
    BY <1>8
  <2>3. job' = [step |-> step, unit |-> v, pred |-> handle, succ |-> None, held |-> {}]
    BY <2>2 DEF Job
  <2>4. job' \in Jobs
    BY <2>1, <2>3 DEF Jobs, Steps
  <2> QED
    BY <2>1, <2>3, <2>4, JobFields
<1>10. Types'
  BY <1>1, <1>5, <1>6, <1>9 DEF Types
<1>11. FrozenNow \subseteq FrozenNow'
  BY <1>1 DEF FrozenNow, Recording
<1>12. JobOK'
  <2>1. UnitOK(v, r)'
    <3>1. v.t \in UnitTypes \union {"reopened"}
      BY UnitFields
    <3>2. CASE v = u
      <4>1. r' = r /\ StartedIn(ses', u.id) = StartedIn(ses, u.id)
        BY <1>1
      <4>2. u.t = "segment_opened" => r.segs < MaxSegments
        BY <3>2, <1>7, <1>8, BudgetAssumption
      <4>3. u.t # "reopened"
        BY <1>4 DEF UnitTypes
      <4>4. u.t = "operation_started" => ~StartedIn(ses', u.id)
        BY <1>1, <1>6
      <4> QED
        BY <3>1, <3>2, <4>1, <4>2, <4>3, <4>4, <1>4, <1>5, <1>6 DEF UnitOK
    <3>3. CASE u.t = "segment_opened" /\ v.t = "reopened"
      BY <3>3, <1>5 DEF UnitOK
    <3> QED
      BY <3>2, <3>3, <1>8
  <2>2. UnitJob'
    BY <2>1, <1>1, <1>8, <1>9 DEF UnitJob, Recording
  <2>3. AppendJob'
    BY <1>1, <1>4, <1>8, <1>9 DEF AppendJob, UnitTypes
  <2>4. RolloverJob'
    BY <1>1, <1>7, <1>8, <1>9, BudgetAssumption DEF RolloverJob
  <2>5. /\ FollowUpJob' /\ SuccessorJob' /\ AnnounceJob' /\ ContinueJob' /\ StartupJob'
    BY <1>8, <1>9 DEF FollowUpJob, SuccessorJob, AnnounceJob, ContinueJob, StartupJob
  <2> QED
    BY <2>2, <2>3, <2>4, <2>5, <1>1, <1>9 DEF JobOK
<1>13. Owners'
  <2>1. Main = {handle} /\ handle \in Main' /\ \A s \in Main' : s \in DOMAIN ses => s = handle
    BY <1>1, <1>3, <1>9 DEF Main, Rolling
  <2>2. MainOnly' /\ BootEnds'
    BY <2>1, <1>1, <1>5 DEF Owners, MainOnly, BootEnds, Recording
  <2>3. Accounted' /\ EndedOnce'
    BY <1>1, <1>5 DEF Owners, Accounted, EndedOnce
  <2>4. MainOwns'
    BY <2>1, <1>1 DEF Owners, MainOwns, Recording
  <2> QED
    BY <2>2, <2>3, <2>4 DEF Owners
<1> QED
  BY <1>1, <1>10, <1>11, <1>12, <1>13, SameSessions

-----------------------------------------------------------------------------
(***************************************************************************)
(* The steps that end sessions.                                            *)
(***************************************************************************)
LEMMA Updated ==
    ASSUME NEW J \in Seq(SessionT), NEW s \in DOMAIN J, NEW q \in SessionT
    PROVE  LET K == [J EXCEPT ![s] = q]
           IN  /\ K \in Seq(SessionT) /\ DOMAIN K = DOMAIN J /\ K[s] = q
               /\ \A x \in DOMAIN J : x # s => K[x] = J[x]
  OBVIOUS

(* _terminalize_session_locked ends an active session.                     *)
LEMMA TerminalizedEnds ==
    ASSUME NEW r \in SessionT, r.state = "active", \A op \in DOMAIN r.ops : Len(r.ops[op]) > 0,
           NEW state \in {"failed", "completed", "abandoned"}
    PROVE  Terminalized(r, state) \in SessionT /\ EndedFrom(r, Terminalized(r, state))
<1> DEFINE q == Terminalized(r, state)
<1>1. state \in States
  BY DEF States
<1>2. /\ q \in SessionT /\ q.disk = r.disk /\ q.log = r.log /\ q.pred = r.pred /\ q.succ = r.succ
      /\ q.pend = r.pend /\ q.segs = r.segs /\ q.gaps = r.gaps
      /\ q.cut = CutOf(r) /\ q.ops = Empty /\ q.state = state
  BY <1>1, TerminalizedEffect
<1> HIDE DEF q
<1>3. q \in SessionT /\ EndedFrom(r, q)
  BY <1>2 DEF EndedFrom
<1> QED
  BY <1>3 DEF q

(* _fail_active_v2_persistence_locked ends an active session.              *)
LEMMA PersistenceFailedEnds ==
    ASSUME NEW r \in SessionT, r.state = "active", \A op \in DOMAIN r.ops : Len(r.ops[op]) > 0
    PROVE  PersistenceFailed(r) \in SessionT /\ EndedFrom(r, PersistenceFailed(r))
<1> DEFINE q == PersistenceFailed(r)
<1>1. /\ q \in SessionT /\ q.disk = r.disk /\ q.log = r.log /\ q.pred = r.pred /\ q.succ = r.succ
      /\ q.pend = r.pend /\ q.segs = r.segs /\ q.gaps = r.gaps
      /\ q.cut = CutOf(r) /\ q.ops = Empty /\ q.state = "failed"
  BY PersistenceFailedEffect
<1> HIDE DEF q
<1>2. q \in SessionT /\ EndedFrom(r, q)
  BY <1>1 DEF EndedFrom
<1> QED
  BY <1>2 DEF q

(* A session's own operations have at least one range.                     *)
LEMMA OwnedRanges ==
    ASSUME NEW J \in Seq(SessionT), NEW F, RangesIn(J, F), NEW s \in DOMAIN J
    PROVE  /\ J[s] \in SessionT
           /\ \A op \in DOMAIN J[s].ops :
                 /\ op \in Ops /\ J[s].ops[op] \in Seq(RangeT)
                 /\ Len(J[s].ops[op]) > 0 /\ Len(J[s].ops[op]) \in Nat
                 /\ SoundIn(J, F, op, J[s].ops[op]) /\ J[s].ops[op][Len(J[s].ops[op])].s = s
<1>1. J[s] \in SessionT
  OBVIOUS
<1>2. \A op \in DOMAIN J[s].ops : op \in Ops /\ J[s].ops[op] \in Seq(RangeT)
  BY <1>1, SessionFields, OpsElim
<1>3. \A op \in DOMAIN J[s].ops :
         /\ SoundIn(J, F, op, J[s].ops[op]) /\ J[s].ops[op][Len(J[s].ops[op])].s = s
  BY DEF RangesIn, OwnedSound
<1>4. \A op \in DOMAIN J[s].ops : Len(J[s].ops[op]) > 0
  BY <1>3 DEF SoundIn
<1> QED
  BY <1>1, <1>2, <1>3, <1>4

(* Ending one session of the journal.                                      *)
LEMMA EndOne ==
    ASSUME NEW J \in Seq(SessionT), NEW F, RangesIn(J, F), NEW s \in DOMAIN J, ActiveIn(J, s),
           NEW q, q = PersistenceFailed(J[s])
                  \/ \E state \in {"failed", "completed", "abandoned"} : q = Terminalized(J[s], state)
    PROVE  LET K == [J EXCEPT ![s] = q] IN K \in Seq(SessionT) /\ Terminated(J, K, {s})
<1>1. /\ J[s] \in SessionT /\ J[s].state = "active"
      /\ \A op \in DOMAIN J[s].ops : Len(J[s].ops[op]) > 0
  BY OwnedRanges DEF ActiveIn
<1>2. q \in SessionT /\ EndedFrom(J[s], q)
  BY <1>1, TerminalizedEnds, PersistenceFailedEnds
<1> DEFINE K == [J EXCEPT ![s] = q]
<1>3. /\ K \in Seq(SessionT) /\ DOMAIN K = DOMAIN J /\ K[s] = q
      /\ \A x \in DOMAIN J : x # s => K[x] = J[x]
  BY <1>2, Updated
<1> HIDE DEF K
<1>4. Terminated(J, K, {s})
  BY <1>2, <1>3 DEF Terminated
<1> QED
  BY <1>3, <1>4 DEF K

(* A failing write that ends no session.                                   *)
LEMMA EndNone ==
    ASSUME NEW J \in Seq(SessionT)
    PROVE  Terminated(J, J, {})
  BY DEF Terminated

(* Ending another session after some have ended.                           *)
LEMMA EndMore ==
    ASSUME NEW J \in Seq(SessionT), NEW F, RangesIn(J, F), NEW A \in Seq(SessionT), NEW T,
           Terminated(J, A, T), NEW s \in DOMAIN J, ActiveIn(A, s),
           NEW q, q = PersistenceFailed(A[s])
                  \/ \E state \in {"failed", "completed", "abandoned"} : q = Terminalized(A[s], state)
    PROVE  LET K == [A EXCEPT ![s] = q] IN K \in Seq(SessionT) /\ Terminated(J, K, T \union {s})
<1>1. s \notin T /\ A[s] = J[s] /\ ActiveIn(J, s) /\ DOMAIN A = DOMAIN J
  BY TerminatedFacts
<1>2. /\ J[s] \in SessionT /\ J[s].state = "active"
      /\ \A op \in DOMAIN J[s].ops : Len(J[s].ops[op]) > 0
  BY <1>1, OwnedRanges DEF ActiveIn
<1>3. q \in SessionT /\ EndedFrom(J[s], q)
  BY <1>1, <1>2, TerminalizedEnds, PersistenceFailedEnds
<1> DEFINE K == [A EXCEPT ![s] = q]
<1>4. /\ K \in Seq(SessionT) /\ DOMAIN K = DOMAIN J /\ K[s] = q
      /\ \A x \in DOMAIN J : x # s => K[x] = A[x]
  BY <1>1, <1>3, Updated
<1> HIDE DEF K
<1>5. Terminated(J, K, T \union {s})
  BY <1>3, <1>4 DEF Terminated
<1> QED
  BY <1>4, <1>5 DEF K

(* The recorder has stopped: nothing is frozen less, and nothing is active *)
(* that was not.                                                           *)
LEMMA StopKeeps ==
    ASSUME JInv, ses' \in Seq(SessionT), NEW T, Terminated(ses, ses', T),
           phase' = "stopped", handle' = handle, handle \in DOMAIN ses,
           job' = None \/ job' = SweepJob({handle}),
           wire' = wire, baseline' = baseline, lease' = lease, tails' = tails, used' = used,
           spent' \in SpentT, spent'.swallowed = spent.swallowed
    PROVE  JInv'
<1>1. Types /\ SessionsIn(ses) /\ RangesIn(ses, FrozenNow) /\ PendsIn(ses) /\ Owners
  BY DEF JInv
<1>2. ses \in Seq(SessionT) /\ DOMAIN ses \subseteq Nat
  BY <1>1, NamesAreNumbers DEF Types
<1>3. /\ DOMAIN ses' = DOMAIN ses
      /\ \A op : StartedIn(ses', op) <=> StartedIn(ses, op)
      /\ \A op : EndedIn(ses', op) <=> EndedIn(ses, op)
      /\ \A op : InterruptedIn(ses, op) => InterruptedIn(ses', op)
      /\ \A op : InterruptedIn(ses', op) => InterruptedIn(ses, op) \/ OwnedIn(ses, op)
      /\ \A op : OwnedIn(ses', op) => OwnedIn(ses, op)
      /\ \A op : OwnedIn(ses, op) => OwnedIn(ses', op) \/ InterruptedIn(ses', op)
  BY <1>2, TerminatedFacts
<1>4. job' = None \/ (job' \in Jobs /\ job' # None /\ job'.step = "sweep" /\ job'.unit = None)
  BY <1>2, SweepJobTyped
<1>5. Types'
  BY <1>1, <1>3, <1>4 DEF Types
<1>6. FrozenNow' = DOMAIN ses
  BY <1>3 DEF FrozenNow, Recording
<1>7. Kept(ses, ses', FrozenNow')
  <2>1. FrozenNow \subseteq FrozenNow'
    BY <1>6 DEF FrozenNow
  <2> DEFINE G == FrozenNow'
  <2>2. FrozenNow \subseteq G
    BY <2>1
  <2> HIDE DEF G
  <2>3. Kept(ses, ses', G)
    BY <2>2, <1>1, <1>2, TerminatedKept
  <2> QED
    BY <2>3 DEF G
<1>8. JobOK'
  BY <1>3, <1>4 DEF JobOK, StartupJob, Rolling
<1>9. Owners'
  <2>1. MainOnly' /\ BootEnds' /\ MainOwns'
    BY DEF MainOnly, BootEnds, MainOwns, Recording
  <2>2. Accounted' /\ EndedOnce'
    BY <1>1, <1>3 DEF Owners, Accounted, EndedOnce
  <2> QED
    BY <2>1, <2>2 DEF Owners
<1> QED
  BY <1>5, <1>7, <1>8, <1>9 DEF JInv, Kept

(* FailSession and Shutdown, the ends of the session appended to, keep the *)
(* invariant.                                                              *)
LEMMA EndHandleKeeps ==
    ASSUME JInv, FailSession \/ Shutdown
    PROVE  JInv'
<1>1. /\ Types /\ JobOK /\ RangesIn(ses, FrozenNow) /\ phase \in {"running", "failing"}
      /\ ActiveIn(ses, handle) /\ phase' = "stopped" /\ job' = SweepJob({handle})
      /\ handle' = handle /\ wire' = wire /\ baseline' = baseline /\ lease' = lease
      /\ tails' = tails /\ used' = used /\ spent' = spent
      /\ \E state \in {"failed", "completed", "abandoned"} :
            ses' = [ses EXCEPT ![handle] = Terminalized(ses[handle], state)]
  BY DEF JInv, FailSession, Shutdown, ActiveIn, Idle
<1>2. handle \in DOMAIN ses /\ ses \in Seq(SessionT) /\ spent \in SpentT
  BY <1>1 DEF JobOK, Types
<1>3. PICK state \in {"failed", "completed", "abandoned"} :
         ses' = [ses EXCEPT ![handle] = Terminalized(ses[handle], state)]
  BY <1>1
<1>4. ses' \in Seq(SessionT) /\ Terminated(ses, ses', {handle})
  BY <1>1, <1>2, <1>3, EndOne
<1> QED
  BY <1>1, <1>2, <1>4, StopKeeps

(* Abandoning one stale session keeps the invariant.                       *)
LEMMA RecoverSessionKeeps ==
    ASSUME JInv, RecoverSession
    PROVE  JInv'
<1>1. /\ Types /\ SessionsIn(ses) /\ RangesIn(ses, FrozenNow) /\ PendsIn(ses) /\ JobOK /\ Owners
      /\ job # None /\ job.step = "recover" /\ job.succ \in DOMAIN ses
      /\ ses' = IF Stale(job.succ) THEN [ses EXCEPT ![job.succ] = Terminalized(ses[job.succ], "abandoned")]
                ELSE ses
      /\ job' = [job EXCEPT !.succ = @ + 1]
      /\ handle' = handle /\ phase' = phase /\ wire' = wire /\ baseline' = baseline
      /\ lease' = lease /\ tails' = tails /\ used' = used /\ spent' = spent
  BY DEF JInv, RecoverSession
<1>2. /\ ses \in Seq(SessionT) /\ DOMAIN ses = 1..Len(ses) /\ Len(ses) \in Nat
      /\ phase = "boot" /\ job.unit = None /\ job \in Jobs
  BY <1>1, NamesAreNumbers DEF JobOK, StartupJob, Types
<1>3. PICK T : /\ ses' \in Seq(SessionT) /\ Terminated(ses, ses', T)
               /\ ActiveIn(ses, job.succ) => job.succ \in T
  <2>1. CASE Stale(job.succ)
    <3>1. ActiveIn(ses, job.succ)
      BY <2>1 DEF Stale, ActiveIn
    <3>2. ses' = [ses EXCEPT ![job.succ] = Terminalized(ses[job.succ], "abandoned")]
      BY <1>1, <2>1
    <3> DEFINE q == Terminalized(ses[job.succ], "abandoned")
    <3>3. \E state \in {"failed", "completed", "abandoned"} : q = Terminalized(ses[job.succ], state)
      OBVIOUS
    <3> HIDE DEF q
    <3>4. LET K == [ses EXCEPT ![job.succ] = q]
          IN  K \in Seq(SessionT) /\ Terminated(ses, K, {job.succ})
      BY <3>1, <3>3, <1>1, <1>2, EndOne
    <3> QED
      BY <3>2, <3>4 DEF q
  <2>2. CASE ~Stale(job.succ)
    <3>1. ~ActiveIn(ses, job.succ)
      BY <2>2, <1>1 DEF Stale, ActiveIn, SessionsIn, Exists
    <3> QED
      BY <2>2, <3>1, <1>1, <1>2, EndNone
  <2> QED
    BY <2>1, <2>2
<1>4. /\ DOMAIN ses' = DOMAIN ses /\ Len(ses') = Len(ses)
      /\ \A s \in DOMAIN ses : ActiveIn(ses', s) <=> ActiveIn(ses, s) /\ s \notin T
      /\ \A op : StartedIn(ses', op) <=> StartedIn(ses, op)
      /\ \A op : EndedIn(ses', op) <=> EndedIn(ses, op)
      /\ \A op : InterruptedIn(ses, op) => InterruptedIn(ses', op)
      /\ \A op : InterruptedIn(ses', op) => InterruptedIn(ses, op) \/ OwnedIn(ses, op)
      /\ \A op : OwnedIn(ses', op) => OwnedIn(ses, op)
      /\ \A op : OwnedIn(ses, op) => OwnedIn(ses', op) \/ InterruptedIn(ses', op)
  BY <1>2, <1>3, TerminatedFacts
<1>5. /\ job' \in Jobs /\ job' # None /\ job'.step = "recover" /\ job'.unit = None
      /\ job'.succ = job.succ + 1
  <2>1. job.succ + 1 \in Nat
    BY <1>1, <1>2
  <2>2. job' \in Jobs /\ job'.step = job.step /\ job'.unit = job.unit /\ job'.succ = job.succ + 1
    BY <2>1, <1>1, <1>2 DEF Jobs
  <2> QED
    BY <2>2, <1>1, <1>2, JobFields
<1>6. Types'
  BY <1>1, <1>3, <1>4, <1>5 DEF Types
<1>7. Kept(ses, ses', FrozenNow')
  <2> DEFINE G == FrozenNow'
  <2>1. FrozenNow \subseteq G
    BY <1>1, <1>2, <1>4 DEF FrozenNow, Recording
  <2> HIDE DEF G
  <2>2. Kept(ses, ses', G)
    BY <2>1, <1>1, <1>2, <1>3, TerminatedKept
  <2> QED
    BY <2>2 DEF G
<1>8. JobOK'
  BY <1>1, <1>2, <1>4, <1>5 DEF JobOK, StartupJob, Rolling
<1>9. Owners'
  <2>1. MainOnly' /\ MainOwns'
    BY <1>1, <1>2 DEF MainOnly, MainOwns, Recording
  <2>2. BootEnds'
    <3>1. ASSUME NEW s \in DOMAIN ses, ActiveIn(ses', s)
          PROVE  s >= job.succ + 1
      <4>1. ActiveIn(ses, s) /\ s # job.succ
        BY <3>1, <1>3, <1>4
      <4>2. s >= job.succ
        BY <4>1, <1>1, <1>2 DEF Owners, BootEnds
      <4> QED
        BY <4>1, <4>2, <1>1, <1>2
    <3> QED
      BY <3>1, <1>4, <1>5 DEF BootEnds
  <2>3. Accounted' /\ EndedOnce'
    BY <1>1, <1>4 DEF Owners, Accounted, EndedOnce
  <2> QED
    BY <2>1, <2>2, <2>3 DEF Owners
<1> QED
  BY <1>6, <1>7, <1>8, <1>9 DEF JInv, Kept

(* What the recorder does with an error that ends a store call.            *)
LEMMA FatalEnds ==
    ASSUME JInv, NEW A \in Seq(SessionT), NEW T, Terminated(ses, A, T), handle \in DOMAIN ses,
           Fatal(A)
    PROVE  /\ phase' = "stopped" /\ (job' = None \/ job' = SweepJob({handle}))
           /\ ses' \in Seq(SessionT) /\ \E U : Terminated(ses, ses', U)
<1>1. ses \in Seq(SessionT) /\ RangesIn(ses, FrozenNow)
  BY DEF JInv, Types
<1>2. CASE ses' = A /\ job' = None
  BY <1>2 DEF Fatal
<1>3. CASE /\ A[handle].state = "active" /\ job' = SweepJob({handle})
           /\ ses' = [A EXCEPT ![handle] = Terminalized(A[handle], "failed")]
  <2> DEFINE q == Terminalized(A[handle], "failed")
  <2>1. \E state \in {"failed", "completed", "abandoned"} : q = Terminalized(A[handle], state)
    OBVIOUS
  <2>2. ActiveIn(A, handle)
    BY <1>3 DEF ActiveIn
  <2> HIDE DEF q
  <2>3. LET K == [A EXCEPT ![handle] = q]
        IN  K \in Seq(SessionT) /\ Terminated(ses, K, T \union {handle})
    BY <1>1, <2>1, <2>2, EndMore
  <2>4. ses' = [A EXCEPT ![handle] = q]
    BY <1>3 DEF q
  <2>5. phase' = "stopped"
    BY DEF Fatal
  <2> QED
    BY <2>3, <2>4, <2>5, <1>3
<1> QED
  BY <1>2, <1>3 DEF Fatal

(* The failed start of an operation that start_monitor_operation lets      *)
(* through: the recorder goes on.                                          *)
LEMMA LetThroughKeeps ==
    ASSUME JInv, ses' \in Seq(SessionT), NEW T, Terminated(ses, ses', T),
           Rolling, job.unit.t = "operation_started", T = {} \/ job.pred \in T,
           T = {} => job.step # "announce",
           phase' = phase, handle' = handle, job' = None, wire' = wire, baseline' = baseline,
           lease' = lease, tails' = tails, used' = used,
           spent' \in SpentT, spent'.swallowed = 1
    PROVE  JInv'
<1>1. /\ Types /\ SessionsIn(ses) /\ RangesIn(ses, FrozenNow) /\ PendsIn(ses) /\ Owners /\ JobOK
      /\ UnitJob /\ RolloverJob /\ ses \in Seq(SessionT)
  BY DEF JInv, JobOK, Types
<1>2. /\ DOMAIN ses' = DOMAIN ses
      /\ \A s \in DOMAIN ses :
            /\ ses'[s].log = ses[s].log
            /\ ActiveIn(ses', s) <=> ActiveIn(ses, s) /\ s \notin T
            /\ s \notin T => ses'[s] = ses[s]
            /\ s \in T => DOMAIN ses'[s].ops = {}
      /\ \A op : StartedIn(ses', op) <=> StartedIn(ses, op)
      /\ \A op : EndedIn(ses', op) <=> EndedIn(ses, op)
      /\ \A op : InterruptedIn(ses, op) => InterruptedIn(ses', op)
      /\ \A op : OwnedIn(ses, op) => OwnedIn(ses', op) \/ InterruptedIn(ses', op)
  BY <1>1, TerminatedFacts
<1>3. /\ Recording /\ job # None /\ job.unit # None /\ handle \in DOMAIN ses
      /\ ActiveIn(ses, handle) => handle = job.pred
  BY <1>1 DEF UnitJob, Rolling
<1>4. Types'
  BY <1>1, <1>2 DEF Types
<1>5. Kept(ses, ses', FrozenNow')
  <2> DEFINE G == FrozenNow'
  <2>1. ASSUME NEW x \in FrozenNow PROVE x \in G
    <3>1. x \in DOMAIN ses /\ x \in DOMAIN ses'
      BY <2>1, <1>2 DEF FrozenNow
    <3>2. CASE ~ActiveIn(ses, x) \/ Len(ses[x].log) = Budget
      <4>1. ~ActiveIn(ses', x) \/ Len(ses'[x].log) = Budget
        BY <3>1, <3>2, <1>2
      <4> QED
        BY <3>1, <4>1 DEF FrozenNow
    <3>3. CASE job.step \in {"announce", "continue"} /\ job.pred = x
      <4>1. Len(ses[x].log) = Budget
        BY <3>3, <1>1 DEF RolloverJob
      <4> QED
        BY <4>1, <3>1, <1>2 DEF FrozenNow
    <3> QED
      BY <2>1, <3>2, <3>3, <1>3 DEF FrozenNow
  <2> HIDE DEF G
  <2>2. FrozenNow \subseteq G
    BY <2>1
  <2>3. Kept(ses, ses', G)
    BY <2>2, <1>1, TerminatedKept
  <2> QED
    BY <2>3 DEF G
<1>6. JobOK'
  BY <1>1, <1>2, <1>3 DEF JobOK, Rolling, Recording
<1>7. Owners'
  <2>1. MainOnly' /\ BootEnds' /\ EndedOnce'
    BY <1>3 DEF MainOnly, BootEnds, EndedOnce, Recording
  <2>2. Accounted'
    BY <1>1, <1>2 DEF Owners, Accounted
  <2>3. MainOwns'
    <3>1. SUFFICES ASSUME NEW op \in DOMAIN ses'[handle].ops
                   PROVE  ~EndedIn(ses', op) /\ ~InterruptedIn(ses', op)
      BY DEF MainOwns, Main, Rolling
    <3>2. handle \notin T /\ ses'[handle] = ses[handle]
      BY <3>1, <1>2, <1>3
    <3>3. ActiveIn(ses, handle)
      <4>1. ses[handle].ops # Empty
        BY <3>1, <3>2, EmptyMaps
      <4> QED
        BY <4>1, <1>1, <1>3 DEF SessionsIn
    <3>4. T = {} /\ handle = job.pred
      BY <3>2, <3>3, <1>3
    <3>5. \A s \in DOMAIN ses : ses'[s] = ses[s]
      BY <3>4, <1>2
    <3>6. InterruptedIn(ses', op) => InterruptedIn(ses, op)
      BY <3>5, <1>2 DEF InterruptedIn
    <3>7. ~EndedIn(ses, op) /\ ~InterruptedIn(ses, op)
      BY <3>1, <3>2, <3>4, <1>1, <1>3 DEF Owners, MainOwns, Main, Rolling
    <3> QED
      BY <3>6, <3>7, <1>2
  <2> QED
    BY <2>1, <2>2, <2>3 DEF Owners
<1> QED
  BY <1>4, <1>5, <1>6, <1>7 DEF JInv, Kept

(* An error that ends a store call keeps the invariant, whoever called.    *)
LEMMA EndsKeeps ==
    ASSUME JInv, NEW A \in Seq(SessionT), NEW T, Terminated(ses, A, T), Ends(A),
           Rolling, T = {} \/ job.pred \in T, T = {} => job.step # "announce",
           handle' = handle, wire' = wire, baseline' = baseline, lease' = lease,
           tails' = tails, used' = used
    PROVE  JInv'
<1>1. handle \in DOMAIN ses /\ spent \in SpentT
  BY DEF JInv, Types, JobOK, UnitJob
<1>2. CASE job.unit.t = "operation_started"
  <2>1. /\ ses' = A /\ job' = None /\ phase' = phase
        /\ spent' = [spent EXCEPT !.fault = @ + 1, !.swallowed = 1]
    BY <1>2 DEF Ends
  <2>2. spent' \in SpentT /\ spent'.swallowed = 1
    BY <1>1, <2>1, LetThroughTyped
  <2> QED
    BY <1>2, <2>1, <2>2, LetThroughKeeps
<1>3. CASE job.unit.t # "operation_started"
  <2>1. Fatal(A) /\ spent' = [spent EXCEPT !.fault = @ + 1]
    BY <1>3 DEF Ends, Spend
  <2>2. spent' \in SpentT /\ spent'.swallowed = spent.swallowed
    BY <1>1, <2>1, SpentTyped
  <2>3. /\ phase' = "stopped" /\ (job' = None \/ job' = SweepJob({handle}))
        /\ ses' \in Seq(SessionT) /\ \E U : Terminated(ses, ses', U)
    BY <1>1, <2>1, FatalEnds
  <2>4. PICK U : Terminated(ses, ses', U)
    BY <2>3
  <2> QED
    BY <1>1, <2>2, <2>3, <2>4, StopKeeps
<1> QED
  BY <1>2, <1>3

(* What a failing write of an append or a rollover leaves: the sessions    *)
(* the failure was for are failed, or none is.                             *)
Failed(A, T) ==
    /\ A \in Seq(SessionT) /\ Terminated(ses, A, T)
    /\ T = {} \/ job.pred \in T
    /\ T = {} => job.step # "announce"
    /\ T \subseteq Main
    /\ \A s \in T : A[s].state = "failed"

(* A failing append fails its session, or no session.                      *)
LEMMA AppendFailsEnds ==
    ASSUME JInv, AppendFails
    PROVE  Rolling /\ \E A, T : Failed(A, T) /\ Ends(A)
<1>1. /\ Types /\ RangesIn(ses, FrozenNow) /\ JobOK /\ job # None /\ job.step = "append"
      /\ ses \in Seq(SessionT)
  BY DEF JInv, AppendFails, Types
<1>2. Rolling /\ UnitJob
  BY <1>1 DEF JobOK, StartupJob, Rolling
<1>3. job.pred \in DOMAIN ses /\ ActiveIn(ses, job.pred) /\ job.pred \in Main
  BY <1>2 DEF UnitJob, Main
<1>4. CASE Ends(ses)
  <2>1. Terminated(ses, ses, {})
    BY <1>1, EndNone
  <2>2. Failed(ses, {})
    BY <2>1, <1>1 DEF Failed
  <2> QED
    BY <2>2, <1>2, <1>4
<1>5. CASE Ends([ses EXCEPT ![job.pred] = PersistenceFailed(ses[job.pred])])
  <2> DEFINE q == PersistenceFailed(ses[job.pred])
  <2> DEFINE A == [ses EXCEPT ![job.pred] = q]
  <2>1. A \in Seq(SessionT) /\ Terminated(ses, A, {job.pred})
    BY <1>1, <1>3, EndOne
  <2>2. A[job.pred].state = "failed"
    <3>1. q.state = "failed"
      BY <1>1, <1>3, OwnedRanges, PersistenceFailedEffect
    <3> QED
      BY <3>1, <1>3
  <2>3. Ends(A)
    BY <1>5
  <2> HIDE DEF A
  <2>4. Failed(A, {job.pred})
    BY <2>1, <2>2, <1>3 DEF Failed
  <2> QED
    BY <2>3, <2>4, <1>2
<1> QED
  BY <1>4, <1>5 DEF AppendFails

(* A failing write of the rollover fails the sessions it was for, or, at   *)
(* the link, none.                                                         *)
LEMMA RolloverFailsEnds ==
    ASSUME JInv, RolloverFails
    PROVE  Rolling /\ \E A, T : Failed(A, T) /\ Ends(A)
<1>1. /\ Types /\ RangesIn(ses, FrozenNow) /\ JobOK /\ job # None
      /\ job.step \in {"create", "announce", "continue"} /\ ses \in Seq(SessionT)
  BY DEF JInv, RolloverFails, Types
<1>2. Rolling /\ UnitJob /\ SuccessorJob
  BY <1>1 DEF JobOK, StartupJob, Rolling
<1>3. /\ job.pred \in DOMAIN ses /\ ActiveIn(ses, job.pred)
      /\ job.pred \in Main /\ job.succ \in Main
  BY <1>2 DEF UnitJob, Main
<1>4. CASE job.step = "create" /\ Ends([ses EXCEPT ![job.pred] = PersistenceFailed(@)])
  <2> DEFINE q == PersistenceFailed(ses[job.pred])
  <2> DEFINE A == [ses EXCEPT ![job.pred] = q]
  <2>1. A \in Seq(SessionT) /\ Terminated(ses, A, {job.pred})
    BY <1>1, <1>3, EndOne
  <2>2. A[job.pred].state = "failed"
    <3>1. q.state = "failed"
      BY <1>1, <1>3, OwnedRanges, PersistenceFailedEffect
    <3> QED
      BY <3>1, <1>3
  <2>3. Ends(A)
    BY <1>4
  <2> HIDE DEF A
  <2>4. Failed(A, {job.pred})
    BY <2>1, <2>2, <1>3 DEF Failed
  <2> QED
    BY <2>3, <2>4, <1>2
<1>5. CASE /\ job.step \in {"announce", "continue"}
           /\ Ends([ses EXCEPT ![job.succ] = PersistenceFailed(@),
                               ![job.pred] = PersistenceFailed(@)])
  <2>1. job.succ \in DOMAIN ses /\ ActiveIn(ses, job.succ) /\ job.succ # job.pred
    BY <1>2, <1>5 DEF SuccessorJob
  <2> DEFINE p == PersistenceFailed(ses[job.succ])
  <2> DEFINE B == [ses EXCEPT ![job.succ] = p]
  <2>2. B \in Seq(SessionT) /\ Terminated(ses, B, {job.succ})
    BY <1>1, <2>1, EndOne
  <2>3. B[job.pred] = ses[job.pred] /\ ActiveIn(B, job.pred)
    BY <1>3, <2>1 DEF ActiveIn
  <2> DEFINE q == PersistenceFailed(B[job.pred])
  <2> DEFINE A == [B EXCEPT ![job.pred] = q]
  <2>4. [ses EXCEPT ![job.succ] = PersistenceFailed(@), ![job.pred] = PersistenceFailed(@)] = A
    <3> DEFINE C == [ses EXCEPT ![job.succ] = PersistenceFailed(@), ![job.pred] = PersistenceFailed(@)]
    <3>1. /\ DOMAIN C = DOMAIN ses /\ DOMAIN A = DOMAIN ses
          /\ C[job.succ] = p /\ A[job.succ] = p
      BY <2>1, <1>3
    <3>2. C[job.pred] = PersistenceFailed(ses[job.pred]) /\ A[job.pred] = q
      BY <2>1, <1>3
    <3>3. \A x \in DOMAIN ses : x # job.succ /\ x # job.pred => C[x] = ses[x] /\ A[x] = ses[x]
      OBVIOUS
    <3>4. q = PersistenceFailed(ses[job.pred])
      BY <2>3
    <3> QED
      BY <3>1, <3>2, <3>3, <3>4
  <2>7. A[job.pred].state = "failed" /\ A[job.succ].state = "failed"
    <3>1. p.state = "failed" /\ q.state = "failed"
      BY <1>1, <1>3, <2>1, <2>3, OwnedRanges, PersistenceFailedEffect
    <3>2. A[job.pred] = q /\ A[job.succ] = p
      BY <2>1, <1>3
    <3> QED
      BY <3>1, <3>2
  <2> HIDE DEF B
  <2>5. A \in Seq(SessionT) /\ Terminated(ses, A, {job.succ} \union {job.pred})
    BY <1>1, <1>3, <2>2, <2>3, EndMore
  <2>6. Ends(A)
    BY <1>5, <2>4
  <2> HIDE DEF A
  <2>8. Failed(A, {job.succ} \union {job.pred})
    BY <2>5, <2>7, <1>3 DEF Failed
  <2> QED
    BY <2>6, <2>8, <1>2
<1>6. CASE job.step = "continue" /\ Ends(ses)
  <2>1. Terminated(ses, ses, {})
    BY <1>1, EndNone
  <2>2. Failed(ses, {})
    BY <2>1, <1>1, <1>6 DEF Failed
  <2> QED
    BY <2>2, <1>2, <1>6
<1> QED
  BY <1>1, <1>4, <1>5, <1>6 DEF RolloverFails

(* A failing append, and a failure of any of the rollover's writes, keep   *)
(* the invariant.                                                          *)
LEMMA WriteFailsKeeps ==
    ASSUME JInv, AppendFails \/ RolloverFails
    PROVE  JInv'
<1>1. /\ handle' = handle /\ wire' = wire /\ baseline' = baseline /\ lease' = lease
      /\ tails' = tails /\ used' = used
  BY DEF AppendFails, RolloverFails
<1>2. Rolling /\ \E A, T : Failed(A, T) /\ Ends(A)
  BY AppendFailsEnds, RolloverFailsEnds
<1>3. PICK A, T : Failed(A, T) /\ Ends(A)
  BY <1>2
<1>4. /\ A \in Seq(SessionT) /\ Terminated(ses, A, T)
      /\ T = {} \/ job.pred \in T
      /\ T = {} => job.step # "announce"
  BY <1>3 DEF Failed
<1> QED
  BY <1>1, <1>2, <1>3, <1>4, EndsKeeps


-----------------------------------------------------------------------------
(***************************************************************************)
(* The steps that create a session.                                        *)
(***************************************************************************)
LEMMA Extended ==
    ASSUME NEW J \in Seq(SessionT), NEW p \in NameT
    PROVE  LET K == Append(J, NewSession(p)) IN K \in Seq(SessionT) /\ Created(J, K, p)
<1>1. NewSession(p) \in SessionT
  BY NewSessionEffect
<1> DEFINE K == Append(J, NewSession(p))
<1>2. /\ K \in Seq(SessionT) /\ Len(K) = Len(J) + 1 /\ K[Len(J) + 1] = NewSession(p)
      /\ \A i \in 1..Len(J) : K[i] = J[i]
      /\ DOMAIN J = 1..Len(J)
  BY <1>1, AppendFacts
<1> HIDE DEF K
<1>3. Created(J, K, p)
  BY <1>2 DEF Created
<1> QED
  BY <1>2, <1>3 DEF K

(* The first session of a run keeps the invariant.                         *)
LEMMA CreateFirstKeeps ==
    ASSUME JInv, CreateFirst
    PROVE  JInv'
<1>1. /\ Types /\ SessionsIn(ses) /\ RangesIn(ses, FrozenNow) /\ PendsIn(ses) /\ JobOK /\ Owners
      /\ phase = "boot" /\ job = None /\ ses' = Append(ses, NewSession(None))
      /\ handle' = Len(ses) + 1 /\ phase' = "running" /\ wire' = TRUE /\ job' = job
      /\ baseline' = baseline /\ lease' = lease /\ tails' = tails /\ used' = used
      /\ spent' = spent /\ ses \in Seq(SessionT)
  BY DEF JInv, CreateFirst, Types
<1>2. None \in NameT
  BY DEF NameT
<1>3. ses' \in Seq(SessionT) /\ Created(ses, ses', None)
  BY <1>1, <1>2, Extended
<1> DEFINE g == Len(ses) + 1
<1>4. /\ DOMAIN ses' = DOMAIN ses \union {g} /\ g \notin DOMAIN ses
      /\ \A s \in DOMAIN ses : ses'[s] = ses[s] /\ s # g
      /\ DOMAIN ses'[g].ops = {}
      /\ \A op : StartedIn(ses', op) <=> StartedIn(ses, op)
      /\ \A op : EndedIn(ses', op) <=> EndedIn(ses, op)
      /\ \A op : InterruptedIn(ses', op) <=> InterruptedIn(ses, op)
      /\ \A op : OwnedIn(ses', op) <=> OwnedIn(ses, op)
  <2>1. /\ DOMAIN ses' = DOMAIN ses \union {g} /\ g \notin DOMAIN ses
        /\ \A s \in DOMAIN ses : ses'[s] = ses[s] /\ s # g
    BY <1>1, <1>2, <1>3, CreatedFacts
  <2>2. DOMAIN ses'[g].ops = {}
    BY <1>1, <1>2, <1>3, CreatedFacts
  <2>3. /\ \A op : StartedIn(ses', op) <=> StartedIn(ses, op)
        /\ \A op : EndedIn(ses', op) <=> EndedIn(ses, op)
        /\ \A op : InterruptedIn(ses', op) <=> InterruptedIn(ses, op)
        /\ \A op : OwnedIn(ses', op) <=> OwnedIn(ses, op)
    BY <1>1, <1>2, <1>3, CreatedFacts
  <2> QED
    BY <2>1, <2>2, <2>3
<1> HIDE DEF g
<1>5. handle' = g
  BY <1>1 DEF g
<1>6. \A s \in DOMAIN ses : ~ActiveIn(ses, s) /\ ~ActiveIn(ses', s)
  BY <1>1, <1>4 DEF Owners, BootEnds, ActiveIn
<1>7. Types'
  <2>1. lease' \in [Ops -> SUBSET DOMAIN ses'] /\ tails' \subseteq DOMAIN ses'
    BY <1>1, <1>4 DEF Types
  <2> QED
    BY <2>1, <1>1, <1>3, <1>4, <1>5 DEF Types
<1>8. Kept(ses, ses', FrozenNow')
  <2> DEFINE G == FrozenNow'
  <2>1. FrozenNow \subseteq G /\ FrozenNow \subseteq DOMAIN ses
    BY <1>4, <1>6 DEF FrozenNow
  <2> HIDE DEF G
  <2>2. Kept(ses, ses', G)
    BY <2>1, <1>1, <1>2, <1>3, CreatedKept
  <2> QED
    BY <2>2 DEF G
<1>9. JobOK'
  BY <1>1, <1>4, <1>5 DEF JobOK, Rolling
<1>10. Owners'
  <2>1. Main' = {g}
    BY <1>1, <1>5 DEF Main, Rolling
  <2>2. MainOnly' /\ BootEnds' /\ MainOwns'
    BY <2>1, <1>1, <1>4, <1>6 DEF MainOnly, BootEnds, MainOwns
  <2>3. Accounted' /\ EndedOnce'
    BY <1>1, <1>4 DEF Owners, Accounted, EndedOnce
  <2> QED
    BY <2>2, <2>3 DEF Owners
<1> QED
  BY <1>7, <1>8, <1>9, <1>10 DEF JInv, Kept

(* Creating the successor keeps the invariant.                             *)
LEMMA RolloverCreateKeeps ==
    ASSUME JInv, RolloverCreate
    PROVE  JInv'
<1>1. /\ Types /\ SessionsIn(ses) /\ RangesIn(ses, FrozenNow) /\ PendsIn(ses) /\ JobOK /\ Owners
      /\ job # None /\ job.step = "create" /\ ses' = Append(ses, NewSession(job.pred))
      /\ job' = [job EXCEPT !.step = "announce", !.succ = Len(ses) + 1]
      /\ handle' = handle /\ phase' = phase /\ wire' = wire
      /\ baseline' = baseline /\ lease' = lease /\ tails' = tails /\ used' = used
      /\ spent' = spent /\ ses \in Seq(SessionT)
  BY DEF JInv, RolloverCreate, Types
<1>2. /\ Rolling /\ UnitJob /\ RolloverJob /\ job.pred \in DOMAIN ses /\ ActiveIn(ses, job.pred)
      /\ job.succ = None /\ handle = job.pred /\ Recording /\ UnitOK(job.unit, ses[job.pred])
      /\ job.unit.t = "reopened" \/ Len(ses[job.pred].log) = Budget
  BY <1>1 DEF JobOK, StartupJob, Rolling, UnitJob, RolloverJob
<1>3. job.pred \in NameT /\ Len(ses) \in Nat /\ None \notin DOMAIN ses /\ job \in Jobs
  BY <1>1, <1>2, NamesAreNumbers DEF NameT, Types
<1>4. ses' \in Seq(SessionT) /\ Created(ses, ses', job.pred)
  BY <1>1, <1>3, Extended
<1> DEFINE g == Len(ses) + 1
<1>5. /\ DOMAIN ses' = DOMAIN ses \union {g} /\ g \notin DOMAIN ses
      /\ \A s \in DOMAIN ses : ses'[s] = ses[s] /\ s # g
      /\ LET q == ses'[g]
         IN  /\ q.state = "active" /\ q.log = <<>> /\ q.pred = job.pred
             /\ q.ops = Empty /\ q.pend = Empty /\ q.segs = 1 /\ DOMAIN q.ops = {}
      /\ \A op : StartedIn(ses', op) <=> StartedIn(ses, op)
      /\ \A op : EndedIn(ses', op) <=> EndedIn(ses, op)
      /\ \A op : InterruptedIn(ses', op) <=> InterruptedIn(ses, op)
      /\ \A op : OwnedIn(ses', op) <=> OwnedIn(ses, op)
  <2> DEFINE p == job.pred
  <2>0. /\ ses \in Seq(SessionT) /\ ses' \in Seq(SessionT) /\ p \in NameT
        /\ Created(ses, ses', p)
    BY <1>1, <1>3, <1>4
  <2> HIDE DEF p
  <2>1. /\ DOMAIN ses' = DOMAIN ses \union {g} /\ g \notin DOMAIN ses
        /\ \A s \in DOMAIN ses : ses'[s] = ses[s] /\ s # g
    BY <2>0, CreatedFacts
  <2>2. LET q == ses'[g]
         IN  /\ q.state = "active" /\ q.log = <<>> /\ q.pred = p
             /\ q.ops = Empty /\ q.pend = Empty /\ q.segs = 1 /\ DOMAIN q.ops = {}
    <3> DEFINE q == ses'[g]
    <3>1. q = NewSession(p)
      BY <2>0 DEF Created
    <3> HIDE DEF q, g
    <3>2. /\ q.state = "active" /\ q.log = <<>> /\ q.pred = p
          /\ q.ops = Empty /\ q.pend = Empty /\ q.segs = 1
      BY <3>1, <2>0, NewSessionEffect
    <3>3. DOMAIN q.ops = {}
      BY <3>2, EmptyMaps
    <3> QED
      BY <3>2, <3>3 DEF q
  <2>3. /\ \A op : StartedIn(ses', op) <=> StartedIn(ses, op)
        /\ \A op : EndedIn(ses', op) <=> EndedIn(ses, op)
        /\ \A op : InterruptedIn(ses', op) <=> InterruptedIn(ses, op)
        /\ \A op : OwnedIn(ses', op) <=> OwnedIn(ses, op)
    BY <2>0, CreatedFacts
  <2> QED
    BY <2>1, <2>2, <2>3 DEF p
<1>6. /\ job' \in Jobs /\ job' # None /\ job'.step = "announce" /\ job'.unit = job.unit
      /\ job'.pred = job.pred /\ job'.succ = g
  <2>1. g \in Nat
    BY <1>3
  <2>2. job' \in Jobs /\ job'.step = "announce" /\ job'.unit = job.unit
        /\ job'.pred = job.pred /\ job'.succ = g
    BY <2>1, <1>1, <1>3 DEF Jobs
  <2> QED
    BY <2>2, JobFields
<1> HIDE DEF g
<1>7. Types'
  <2>1. lease' \in [Ops -> SUBSET DOMAIN ses'] /\ tails' \subseteq DOMAIN ses'
    BY <1>1, <1>5 DEF Types
  <2> QED
    BY <2>1, <1>1, <1>4, <1>5, <1>6 DEF Types
<1>8. Kept(ses, ses', FrozenNow')
  <2> DEFINE G == FrozenNow'
  <2>1. FrozenNow \subseteq G /\ FrozenNow \subseteq DOMAIN ses
    BY <1>1, <1>5 DEF FrozenNow, ActiveIn, Recording
  <2> HIDE DEF G
  <2>2. Kept(ses, ses', G)
    BY <2>1, <1>1, <1>3, <1>4, CreatedKept
  <2> QED
    BY <2>2 DEF G
<1>9. JobOK'
  <2>1. Rolling' /\ Recording' /\ ses'[job.pred] = ses[job.pred] /\ job.pred # g
    BY <1>1, <1>2, <1>5, <1>6 DEF Rolling, Recording
  <2>2. UnitOK(job.unit, ses[job.pred])'
    BY <2>1, <1>1, <1>2, <1>5, <1>6 DEF UnitOK
  <2>3. UnitJob'
    BY <2>1, <2>2, <1>1, <1>2, <1>5, <1>6 DEF UnitJob, ActiveIn
  <2>4. AppendJob' /\ FollowUpJob' /\ ContinueJob' /\ StartupJob'
    BY <1>2, <1>6 DEF AppendJob, FollowUpJob, ContinueJob, StartupJob, Rolling
  <2>5. RolloverJob'
    BY <2>1, <1>1, <1>2, <1>6 DEF RolloverJob
  <2>6. SuccessorJob' /\ AnnounceJob'
    BY <2>1, <1>5, <1>6 DEF SuccessorJob, AnnounceJob, ActiveIn
  <2> QED
    BY <2>3, <2>4, <2>5, <2>6, <1>1, <1>2, <1>5 DEF JobOK, Recording
<1>10. Owners'
  <2>1. Main' = {job.pred, g} /\ Main = {job.pred, None}
    BY <1>2, <1>6 DEF Main, Rolling
  <2>2. MainOnly' /\ BootEnds'
    BY <2>1, <1>1, <1>2, <1>3, <1>5 DEF Owners, MainOnly, BootEnds, Recording, ActiveIn
  <2>3. MainOwns'
    BY <2>1, <1>1, <1>2, <1>5 DEF Owners, MainOwns, Recording
  <2>4. Accounted' /\ EndedOnce'
    BY <1>1, <1>5 DEF Owners, Accounted, EndedOnce
  <2> QED
    BY <2>2, <2>3, <2>4 DEF Owners
<1> QED
  BY <1>7, <1>8, <1>9, <1>10 DEF JInv, Kept

-----------------------------------------------------------------------------
(***************************************************************************)
(* The retention pass, and what follows it.                                *)
(***************************************************************************)
LEMMA AfterPass ==
    ASSUME JInv, job # None, job.step = "sweep", ses' \in Seq(SessionT),
           NEW D, Deleted(ses, ses', D), handle' = HandleAfterSweep, job' = AfterSweep,
           phase' = phase, wire' = wire, baseline' = baseline, lease' = lease, tails' = tails,
           used' = used, spent' \in SpentT, spent'.swallowed = spent.swallowed
    PROVE  JInv'
<1>1. /\ Types /\ SessionsIn(ses) /\ RangesIn(ses, FrozenNow) /\ PendsIn(ses) /\ JobOK /\ Owners
      /\ ses \in Seq(SessionT) /\ job \in Jobs
  BY DEF JInv, Types
<1>2. /\ DOMAIN ses' = DOMAIN ses
      /\ \A s \in DOMAIN ses :
            /\ ses'[s].state = ses[s].state /\ ses'[s].log = ses[s].log
            /\ ses'[s].ops = ses[s].ops /\ ses'[s].pend = ses[s].pend
            /\ ses'[s].segs = ses[s].segs
            /\ ActiveIn(ses', s) <=> ActiveIn(ses, s)
  BY DEF Deleted, ActiveIn
<1>3. /\ \A op : StartedIn(ses', op) <=> StartedIn(ses, op)
      /\ \A op : EndedIn(ses', op) <=> EndedIn(ses, op)
      /\ \A op : InterruptedIn(ses', op) <=> InterruptedIn(ses, op)
      /\ \A op : OwnedIn(ses', op) <=> OwnedIn(ses, op)
  BY DeletedFacts
<1>4. Rolling => /\ UnitJob /\ FollowUpJob /\ job.succ = job.pred /\ job.pred \in DOMAIN ses
                 /\ ActiveIn(ses, job.pred) /\ Recording /\ handle \in DOMAIN ses
                 /\ ActiveIn(ses, handle) => handle = job.pred
                 /\ UnitOK(job.unit, ses[job.pred])
                 /\ job.unit.t # "reopened" => Len(ses[job.pred].log) < Budget
  BY <1>1 DEF JobOK, UnitJob, FollowUpJob
<1>5. /\ phase = "boot" => \A s \in DOMAIN ses : ~ActiveIn(ses, s)
      /\ phase # "down"
      /\ phase \in {"running", "failing", "stopped"} => handle \in DOMAIN ses
  BY <1>1 DEF Owners, BootEnds, JobOK
<1>6. \/ /\ job' = None /\ handle' = handle /\ ~Rolling
      \/ /\ job' = None /\ handle' = job.pred /\ Rolling
      \/ /\ Rolling /\ handle' = handle /\ job.unit.t # "reopened"
         /\ job' = [job EXCEPT !.step = "append", !.held = {}]
  BY <1>4 DEF Rolling, HandleAfterSweep, AfterSweep
<1>7. job' # None =>
        /\ job' \in Jobs /\ job'.step = "append" /\ job'.unit = job.unit
        /\ job'.pred = job.pred /\ job'.succ = job.succ
  <2>1. SUFFICES ASSUME job' = [job EXCEPT !.step = "append", !.held = {}]
                 PROVE  /\ job' \in Jobs /\ job'.step = "append" /\ job'.unit = job.unit
                        /\ job'.pred = job.pred /\ job'.succ = job.succ
    BY <1>6
  <2> QED
    BY <2>1, <1>1 DEF Jobs
<1>8. handle' \in DOMAIN ses \union {None}
  BY <1>1, <1>4, <1>6 DEF Types
<1>9. Types'
  BY <1>1, <1>2, <1>7, <1>8 DEF Types
<1>10. Kept(ses, ses', FrozenNow')
  <2> DEFINE G == FrozenNow'
  <2>1. FrozenNow \subseteq G /\ FrozenNow \subseteq DOMAIN ses
    BY <1>2 DEF FrozenNow, Recording
  <2> HIDE DEF G
  <2>2. Kept(ses, ses', G)
    BY <2>1, <1>1, DeletedKept
  <2> QED
    BY <2>2 DEF G
<1>11. JobOK'
  <2>1. phase' \in {"running", "failing", "stopped"} => handle' \in DOMAIN ses'
    BY <1>2, <1>4, <1>5, <1>6
  <2>2. CASE job' = None
    BY <2>1, <2>2, <1>5 DEF JobOK, Rolling
  <2>3. CASE job' # None
    <3>1. /\ Rolling /\ handle' = handle /\ job.unit.t # "reopened" /\ job.unit # None
          /\ job'.step = "append" /\ job'.unit = job.unit /\ job'.pred = job.pred
          /\ job'.succ = job.pred
      BY <2>3, <1>4, <1>6, <1>7 DEF Rolling
    <3>2. UnitOK(job.unit, ses[job.pred])'
      BY <3>1, <1>2, <1>3, <1>4 DEF UnitOK
    <3>3. UnitJob'
      BY <3>1, <3>2, <1>2, <1>4 DEF UnitJob, Recording
    <3>4. AppendJob'
      BY <3>1, <1>2, <1>4 DEF AppendJob
    <3>5. /\ FollowUpJob' /\ RolloverJob' /\ SuccessorJob' /\ AnnounceJob' /\ ContinueJob'
          /\ StartupJob'
      BY <3>1 DEF FollowUpJob, RolloverJob, SuccessorJob, AnnounceJob, ContinueJob, StartupJob
    <3> QED
      BY <3>3, <3>4, <3>5, <2>1, <2>3, <1>5 DEF JobOK
  <2> QED
    BY <2>2, <2>3
<1>12. Owners'
  <2>1. Main' = Main
    <3>1. CASE job' = None /\ handle' = handle /\ ~Rolling
      BY <3>1 DEF Main, Rolling
    <3>2. CASE job' = None /\ handle' = job.pred /\ Rolling
      <4>1. Main = {job.pred}
        BY <3>2, <1>4 DEF Main
      <4>2. Main' = {job.pred}
        BY <3>2 DEF Main, Rolling
      <4> QED
        BY <4>1, <4>2
    <3>3. CASE Rolling /\ job' # None
      <4>1. job'.unit # None
        BY <3>3, <1>7 DEF Rolling
      <4>2. Main' = {job.pred, job.succ}
        BY <3>3, <4>1, <1>7 DEF Main, Rolling
      <4> QED
        BY <3>3, <4>2 DEF Main
    <3>4. ASSUME job' = [job EXCEPT !.step = "append", !.held = {}]
          PROVE  job' # None
      <4>1. job' \in Jobs
        BY <3>4, <1>1 DEF Jobs
      <4> QED
        BY <4>1, JobFields
    <3> QED
      BY <3>1, <3>2, <3>3, <3>4, <1>6
  <2>2. MainOnly'
    BY <2>1, <1>1, <1>2 DEF Owners, MainOnly, Recording
  <2>3. BootEnds'
    BY <1>2, <1>5 DEF BootEnds
  <2>4. MainOwns'
    BY <2>1, <1>1, <1>2, <1>3 DEF Owners, MainOwns, Recording
  <2>5. Accounted' /\ EndedOnce'
    BY <1>1, <1>3 DEF Owners, Accounted, EndedOnce
  <2> QED
    BY <2>2, <2>3, <2>4, <2>5 DEF Owners
<1> QED
  BY <1>9, <1>10, <1>11, <1>12 DEF JInv, Kept

(* A pass deletes no active session and no record of a pending attempt.    *)
LEMMA DoomedUnneeded ==
    ASSUME Types, SessionsIn(ses), NEW held
    PROVE  /\ Doomed(held) \subseteq DOMAIN ses
           /\ \A s \in Doomed(held) : ~ActiveIn(ses, s)
           /\ \A s \in DOMAIN ses : ActiveIn(ses, s) =>
                 \A a \in DOMAIN ses[s].pend : ses[s].pend[a].s \notin Doomed(held)
<1>1. Doomed(held) \subseteq Existing \ Protected(held)
  BY DEF Doomed
<1>2. Existing \subseteq DOMAIN ses
  BY DEF Existing
<1>3. ASSUME NEW s \in DOMAIN ses, ActiveIn(ses, s)
      PROVE  s \in Existing /\ ses[s].state = "active"
  BY <1>3 DEF Existing, Exists, ActiveIn, SessionsIn
<1>4. ASSUME NEW s \in DOMAIN ses, ActiveIn(ses, s)
      PROVE  s \in Protected(held)
  BY <1>3, <1>4 DEF Protected
<1>5. ASSUME NEW s \in DOMAIN ses, ActiveIn(ses, s), NEW a \in DOMAIN ses[s].pend
      PROVE  ses[s].pend[a].s \in Protected(held)
  <2>1. ses[s].pend[a].s \in {ses[s].pend[b].s : b \in DOMAIN ses[s].pend}
    OBVIOUS
  <2>2. s \in {x \in Existing : ses[x].state = "active"}
    BY <1>3, <1>5
  <2>3. ses[s].pend[a].s \in ProtectedOrigins
    BY <2>1, <2>2 DEF ProtectedOrigins
  <2> QED
    BY <2>3 DEF Protected
<1> QED
  BY <1>1, <1>2, <1>4, <1>5

(* A retention pass keeps the invariant.                                   *)
LEMMA SweepKeeps ==
    ASSUME JInv, Sweep
    PROVE  JInv'
<1>1. /\ Types /\ SessionsIn(ses) /\ job # None /\ job.step = "sweep"
      /\ ses' = IF RetentionFault THEN ses
                ELSE [s \in DOMAIN ses |-> IF s \in Doomed(job.held) THEN Gone(ses[s])
                                                                     ELSE ses[s]]
      /\ handle' = HandleAfterSweep /\ job' = AfterSweep
      /\ phase' = phase /\ wire' = wire /\ baseline' = baseline /\ lease' = lease
      /\ tails' = tails /\ used' = used /\ spent' = spent /\ ses \in Seq(SessionT)
      /\ spent \in SpentT
  BY DEF JInv, Sweep, Types
<1>2. CASE RetentionFault
  <2>1. ses' = ses
    BY <1>1, <1>2
  <2>2. Deleted(ses, ses, {})
    BY DEF Deleted
  <2> QED
    BY <2>1, <2>2, <1>1, AfterPass
<1>3. CASE ~RetentionFault
  <2> DEFINE D == Doomed(job.held)
  <2>1. /\ D \subseteq DOMAIN ses /\ \A s \in D : ~ActiveIn(ses, s)
        /\ \A s \in DOMAIN ses : ActiveIn(ses, s) =>
              \A a \in DOMAIN ses[s].pend : ses[s].pend[a].s \notin D
    BY <1>1, DoomedUnneeded
  <2>2. ses' = [s \in DOMAIN ses |-> IF s \in D THEN Gone(ses[s]) ELSE ses[s]]
    BY <1>1, <1>3
  <2> HIDE DEF D
  <2>3. \A s \in DOMAIN ses : ses[s] \in SessionT /\ Gone(ses[s]) \in SessionT
    BY <1>1, LogTyped, GoneEffect
  <2>4. ses' \in Seq(SessionT) /\ DOMAIN ses' = DOMAIN ses
    BY <2>2, <2>3, <1>1
  <2>5. ASSUME NEW s \in DOMAIN ses
        PROVE  /\ ses'[s].state = ses[s].state /\ ses'[s].log = ses[s].log
               /\ ses'[s].pred = ses[s].pred
               /\ ses'[s].succ = ses[s].succ /\ ses'[s].ops = ses[s].ops
               /\ ses'[s].cut = ses[s].cut
               /\ ses'[s].pend = ses[s].pend /\ ses'[s].segs = ses[s].segs
               /\ ses'[s].gaps = ses[s].gaps
               /\ ses'[s].fault = ses[s].fault /\ ses'[s].loss = ses[s].loss
               /\ s \notin D => ses'[s].disk = ses[s].disk
    <3>1. CASE s \in D
      BY <3>1, <2>2, <2>3, GoneEffect
    <3>2. CASE s \notin D
      BY <3>2, <2>2
    <3> QED
      BY <3>1, <3>2
  <2>6. Deleted(ses, ses', D)
    BY <2>1, <2>4, <2>5 DEF Deleted
  <2> QED
    BY <2>4, <2>6, <1>1, AfterPass
<1> QED
  BY <1>2, <1>3

(* What a pass cut short deletes: the sessions before the one it fails at, *)
(* and what it had removed of that one.                                    *)
LEMMA CutShortDeletes ==
    ASSUME Types, SessionsIn(ses), SweepFails
    PROVE  /\ ses' \in Seq(SessionT) /\ Deleted(ses, ses', Doomed(job.held))
           /\ \A s \in DOMAIN ses : s \notin Doomed(job.held) => ses'[s] = ses[s]
           /\ \A s \in DOMAIN ses : ses[s].disk # "whole" => ses'[s].disk # "whole"
<1> DEFINE D == Doomed(job.held)
<1>1. /\ ses \in Seq(SessionT)
      /\ D \subseteq DOMAIN ses /\ \A s \in D : ~ActiveIn(ses, s)
      /\ \A s \in DOMAIN ses : ActiveIn(ses, s) =>
            \A a \in DOMAIN ses[s].pend : ses[s].pend[a].s \notin D
  BY DoomedUnneeded DEF Types
<1>2. PICK bad \in D, left \in DiskT :
         ses' = [s \in DOMAIN ses |->
                    IF s = bad THEN [ses[s] EXCEPT !.disk = left]
                    ELSE IF s \in D /\ s < bad THEN Gone(ses[s])
                    ELSE ses[s]]
  BY DEF SweepFails, DiskT
<1>3. ASSUME NEW s \in D
      PROVE  ses[s].disk = "whole"
  <2>1. s \in Existing
    BY <1>3 DEF Doomed
  <2>2. s \in DOMAIN ses /\ ses[s].disk # "gone" /\ ses[s].disk # "damaged"
    BY <2>1 DEF Existing, Exists, SweepFails, RetentionFault
  <2> QED
    BY <2>2, <1>1, LogTyped, SessionFields DEF DiskT
<1> HIDE DEF D
<1>4. \A s \in DOMAIN ses : /\ ses[s] \in SessionT /\ Gone(ses[s]) \in SessionT
                            /\ [ses[s] EXCEPT !.disk = left] \in SessionT
  BY <1>1, LogTyped, GoneEffect, LeftEffect
<1>5. /\ ses' \in Seq(SessionT) /\ DOMAIN ses' = DOMAIN ses
      /\ \A s \in DOMAIN ses : s \notin D => ses'[s] = ses[s]
  <2>1. DOMAIN ses' = DOMAIN ses /\ DOMAIN ses = 1..Len(ses) /\ Len(ses) \in Nat
    BY <1>1, <1>2
  <2>2. \A s \in DOMAIN ses : s \notin D => ses'[s] = ses[s]
    BY <1>2
  <2>3. \A s \in DOMAIN ses : ses'[s] \in SessionT
    BY <1>2, <1>4
  <2>4. ses' = [s \in 1..Len(ses) |-> ses'[s]]
    BY <1>2, <2>1
  <2>5. ses' \in Seq(SessionT)
    BY <2>1, <2>3, <2>4
  <2> QED
    BY <2>1, <2>2, <2>5
<1>6. ASSUME NEW s \in DOMAIN ses
      PROVE  /\ ses'[s].state = ses[s].state /\ ses'[s].log = ses[s].log
             /\ ses'[s].pred = ses[s].pred
             /\ ses'[s].succ = ses[s].succ /\ ses'[s].ops = ses[s].ops
             /\ ses'[s].cut = ses[s].cut
             /\ ses'[s].pend = ses[s].pend /\ ses'[s].segs = ses[s].segs
             /\ ses'[s].gaps = ses[s].gaps
             /\ ses'[s].fault = ses[s].fault /\ ses'[s].loss = ses[s].loss
             /\ s \notin D => ses'[s].disk = ses[s].disk
  <2>1. CASE s = bad
    <3>1. ses'[s] = [ses[s] EXCEPT !.disk = left] /\ s \in D
      BY <2>1, <1>2
    <3> QED
      BY <3>1, <1>4, LeftEffect
  <2>2. CASE s # bad /\ s \in D /\ s < bad
    <3>1. ses'[s] = Gone(ses[s])
      BY <2>2, <1>2
    <3>2. ses[s] \in SessionT /\ s \in D
      BY <2>2, <1>4
    <3> QED
      BY <3>1, <3>2, GoneEffect
  <2>3. CASE s # bad /\ ~(s \in D /\ s < bad)
    BY <2>3, <1>2
  <2> QED
    BY <2>1, <2>2, <2>3
<1>7. Deleted(ses, ses', D)
  BY <1>1, <1>5, <1>6 DEF Deleted
<1>8. \A s \in DOMAIN ses : ses[s].disk # "whole" => ses'[s].disk # "whole"
  BY <1>3, <1>5
<1> QED
  BY <1>5, <1>7, <1>8 DEF D

(* A retention pass cut short keeps the invariant.                         *)
LEMMA SweepFailsKeeps ==
    ASSUME JInv, SweepFails
    PROVE  JInv'
<1>1. /\ Types /\ SessionsIn(ses) /\ job # None /\ job.step = "sweep"
      /\ handle' = HandleAfterSweep /\ job' = AfterSweep
      /\ phase' = phase /\ wire' = wire /\ baseline' = baseline /\ lease' = lease
      /\ tails' = tails /\ used' = used /\ spent' = [spent EXCEPT !.fault = @ + 1]
      /\ spent \in SpentT
  BY DEF JInv, SweepFails, Types, Spend
<1>2. spent' \in SpentT /\ spent'.swallowed = spent.swallowed
  BY <1>1, SpentTyped
<1> DEFINE D == Doomed(job.held)
<1>3. ses' \in Seq(SessionT) /\ Deleted(ses, ses', D)
  BY <1>1, CutShortDeletes
<1> HIDE DEF D
<1> QED
  BY <1>1, <1>2, <1>3, AfterPass

-----------------------------------------------------------------------------
(***************************************************************************)
(* The rollover's own records, and the link.                               *)
(***************************************************************************)
(* What a rollover under way may rely on.                                  *)
LEMMA RolloverFacts ==
    ASSUME JInv, job # None, job.step \in {"announce", "continue"}
    PROVE  /\ Rolling /\ Recording /\ job \in Jobs /\ ses \in Seq(SessionT)
           /\ job.pred \in DOMAIN ses /\ job.succ \in DOMAIN ses /\ job.succ # job.pred
           /\ ActiveIn(ses, job.pred) /\ ActiveIn(ses, job.succ)
           /\ ses[job.pred] \in SessionT /\ ses[job.succ] \in SessionT
           /\ job.pred \in Nat /\ job.succ \in Nat
           /\ ses[job.succ].pred = job.pred /\ ses[job.succ].segs = 1
           /\ UnitOK(job.unit, ses[job.pred]) /\ handle = job.pred
           /\ job.unit.t = "reopened" \/ Len(ses[job.pred].log) = Budget
           /\ job.pred \in FrozenNow
           /\ job.succ \notin FrozenNow \/ Len(ses[job.succ].log) = Budget
           /\ wire \in BOOLEAN
<1>1. /\ Rolling /\ UnitJob /\ RolloverJob /\ SuccessorJob /\ Types
  BY DEF JInv, JobOK, StartupJob, Rolling
<1>2. /\ Recording /\ job.pred \in DOMAIN ses /\ ActiveIn(ses, job.pred)
      /\ UnitOK(job.unit, ses[job.pred]) /\ handle = job.pred
      /\ job.unit.t = "reopened" \/ Len(ses[job.pred].log) = Budget
      /\ job.succ \in DOMAIN ses /\ job.succ # job.pred /\ ActiveIn(ses, job.succ)
      /\ ses[job.succ].pred = job.pred /\ ses[job.succ].segs = 1
  BY <1>1 DEF UnitJob, RolloverJob, SuccessorJob
<1>3. /\ job \in Jobs /\ ses \in Seq(SessionT) /\ wire \in BOOLEAN
      /\ job.pred \in Nat /\ job.succ \in Nat
      /\ ses[job.pred] \in SessionT /\ ses[job.succ] \in SessionT
  BY <1>1, <1>2, NamesAreNumbers DEF Types
<1>4. job.pred \in FrozenNow /\ (job.succ \notin FrozenNow \/ Len(ses[job.succ].log) = Budget)
  BY <1>2 DEF FrozenNow
<1> QED
  BY <1>1, <1>2, <1>3, <1>4

(* Telling the successor where it comes from keeps the invariant.          *)
LEMMA RolloverAnnounceKeeps ==
    ASSUME JInv, RolloverAnnounce
    PROVE  JInv'
<1>1. /\ Types /\ SessionsIn(ses) /\ RangesIn(ses, FrozenNow) /\ PendsIn(ses) /\ JobOK /\ Owners
      /\ job # None /\ job.step = "announce"
      /\ job' = [job EXCEPT !.step = "continue"]
      /\ handle' = handle /\ phase' = phase /\ wire' = wire
      /\ baseline' = baseline /\ lease' = lease /\ tails' = tails /\ used' = used
      /\ spent' = spent
  BY DEF JInv, RolloverAnnounce
<1>2. /\ Rolling /\ Recording /\ job \in Jobs /\ ses \in Seq(SessionT)
      /\ job.pred \in DOMAIN ses /\ job.succ \in DOMAIN ses /\ job.succ # job.pred
      /\ ActiveIn(ses, job.pred) /\ ActiveIn(ses, job.succ)
      /\ ses[job.pred] \in SessionT /\ ses[job.succ] \in SessionT
      /\ ses[job.succ].pred = job.pred /\ ses[job.succ].segs = 1
      /\ UnitOK(job.unit, ses[job.pred]) /\ handle = job.pred
      /\ job.unit.t = "reopened" \/ Len(ses[job.pred].log) = Budget
      /\ wire \in BOOLEAN
      /\ job.succ \notin FrozenNow \/ Len(ses[job.succ].log) = Budget
  BY <1>1, RolloverFacts
<1>3. ses[job.succ].log = <<>> /\ ses[job.succ].ops = Empty /\ ses[job.succ].pend = Empty
  BY <1>1, <1>2 DEF JobOK, AnnounceJob
<1> DEFINE g == job.succ
<1> DEFINE p == job.pred
<1> DEFINE r == ses[job.succ]
<1> DEFINE reopened == job.unit.t = "reopened"
<1> DEFINE q == Announced(r, ses[p], reopened)
<1> DEFINE e == NewEntry("rollover_succeeded", None, None)
<1>4. ses' = [ses EXCEPT ![g] = q]
  BY DEF RolloverAnnounce
<1>5. /\ q \in SessionT /\ q.disk = r.disk /\ q.state = r.state /\ q.pred = r.pred
      /\ q.succ = r.succ /\ q.ops = r.ops /\ q.cut = r.cut /\ q.segs = r.segs
      /\ q.log = Append(r.log, e) /\ q.pend = ses[p].pend
  <2>1. reopened \in BOOLEAN
    OBVIOUS
  <2>2. ASSUME NEW x \in SessionT, NEW y \in SessionT, NEW b \in BOOLEAN
        PROVE  /\ Announced(x, y, b) \in SessionT
               /\ Announced(x, y, b).disk = x.disk
               /\ Announced(x, y, b).state = x.state
               /\ Announced(x, y, b).pred = x.pred
               /\ Announced(x, y, b).succ = x.succ
               /\ Announced(x, y, b).ops = x.ops
               /\ Announced(x, y, b).cut = x.cut
               /\ Announced(x, y, b).segs = x.segs
               /\ Announced(x, y, b).log = Append(x.log, NewEntry("rollover_succeeded", None, None))
               /\ Announced(x, y, b).pend = y.pend
    BY <1>2, AnnouncedEffect
  <2> HIDE DEF reopened
  <2> QED
    BY <2>1, <2>2, <1>2
<1>6. e \in EntryT /\ e.t = "rollover_succeeded"
  <2>1. "rollover_succeeded" \in EntryTypes /\ None \in IdT /\ None \in RefT
    BY TypesListed, RefTyped
  <2>2. e \in EntryT
    BY <2>1, <1>2, EntryTyped
  <2> QED
    BY <2>2 DEF NewEntry
<1> HIDE DEF q, e
<1>7. /\ ses' \in Seq(SessionT) /\ DOMAIN ses' = DOMAIN ses /\ ses'[g] = q
      /\ \A x \in DOMAIN ses : x # g => ses'[x] = ses[x]
  BY <1>2, <1>4, <1>5, Updated
<1>8. GrownBy(ses, ses', g, e)
  BY <1>2, <1>5, <1>6, <1>7 DEF GrownBy
<1>9. /\ Len(ses'[g].log) = 1 /\ Len(r.log) = 0 /\ ses'[g].log[1] = e
      /\ \A s \in DOMAIN ses : ActiveIn(ses', s) <=> ActiveIn(ses, s)
      /\ \A op : StartedIn(ses', op) <=> StartedIn(ses, op)
      /\ \A op : EndedIn(ses', op) <=> EndedIn(ses, op)
      /\ \A op : InterruptedIn(ses', op) <=> InterruptedIn(ses, op)
  <2>1. Len(r.log) = 0
    BY <1>3
  <2>2. /\ Len(ses'[g].log) = Len(r.log) + 1 /\ ses'[g].log[Len(r.log) + 1] = e
        /\ \A s \in DOMAIN ses : ActiveIn(ses', s) <=> ActiveIn(ses, s)
    BY <1>2, <1>7, <1>8, GrownFacts
  <2>3. /\ \A op : StartedIn(ses', op) <=> StartedIn(ses, op) \/ (e.t = "operation_started" /\ e.id = op)
        /\ \A op : EndedIn(ses', op) <=> EndedIn(ses, op) \/ (e.t = "operation_terminal" /\ e.id = op)
        /\ \A op : InterruptedIn(ses', op) <=> InterruptedIn(ses, op)
    BY <1>2, <1>7, <1>8, GrownFacts
  <2> QED
    BY <2>1, <2>2, <2>3, <1>6
<1>10. \A s \in DOMAIN ses : ses'[s].ops = ses[s].ops
  BY <1>5, <1>7
<1>11. Budget \in Nat /\ Budget > 1
  <2>1. Cardinality(Ops) \in Nat
    BY BudgetAssumption, FS_CardinalityType
  <2> QED
    BY <2>1, BudgetAssumption
<1>12. /\ job' \in Jobs /\ job' # None /\ job'.step = "continue" /\ job'.unit = job.unit
       /\ job'.pred = p /\ job'.succ = g
  <2>1. job' \in Jobs /\ job'.step = "continue" /\ job'.unit = job.unit /\ job'.pred = p
        /\ job'.succ = g
    BY <1>1, <1>2 DEF Jobs
  <2> QED
    BY <2>1, JobFields
<1>13. Types'
  BY <1>1, <1>7, <1>12 DEF Types
<1>14. Kept(ses, ses', FrozenNow')
  <2> DEFINE G == FrozenNow'
  <2>1. FrozenNow \subseteq G /\ g \notin FrozenNow
    <3>1. g \notin FrozenNow
      BY <1>2, <1>9, <1>11
    <3>2. ASSUME NEW x \in FrozenNow PROVE x \in G
      <4>1. x \in DOMAIN ses /\ x # g /\ ses'[x] = ses[x]
        BY <3>1, <3>2, <1>7 DEF FrozenNow
      <4> QED
        BY <3>2, <4>1, <1>1, <1>7, <1>9, <1>12 DEF FrozenNow, Recording
    <3> QED
      BY <3>1, <3>2
  <2> HIDE DEF G
  <2>2. ses'[g].segs \in 1..MaxSegments /\ Len(r.log) < Budget
    BY <1>1, <1>2, <1>5, <1>7, <1>9, <1>11 DEF SessionsIn
  <2>3. \A op \in DOMAIN ses'[g].ops : OldOps(ses, ses', g, op) \/ OwnedSound(ses', G, g, op)
    BY <1>2, <1>5, <1>7 DEF OldOps
  <2>4. TerminalSound(ses', G, e) /\ ResultFound(ses', e)
    BY <1>6 DEF TerminalSound, ResultFound
  <2>5. ASSUME NEW a \in DOMAIN ses'[g].pend
        PROVE  PendingFound(ses', g, a) /\ ses'[ses'[g].pend[a].s].disk # "gone"
    <3> DEFINE o == ses[p].pend[a]
    <3>1. a \in DOMAIN ses[p].pend /\ ses'[g].pend[a] = o
      BY <1>5, <1>7
    <3>2. o \in PendT
      BY <3>1, <1>2, SessionFields, PendElim
    <3>3. /\ OriginIn(ses, o, a, AttemptOf(o.kind)) /\ ses[o.s].disk # "gone"
      BY <3>1, <1>1, <1>2 DEF PendsIn, PendingFound
    <3>4. Prolongs(ses, ses')
      BY <1>2, <1>7, <1>8, GrownFacts
    <3>5. OriginIn(ses', o, a, AttemptOf(o.kind))
      BY <3>2, <3>3, <3>4, <1>2, <1>7, OriginStays
    <3>6. ses'[o.s].disk # "gone"
      <4>1. o.s \in DOMAIN ses
        BY <3>3 DEF OriginIn
      <4> QED
        BY <4>1, <3>3, <1>5, <1>7
    <3> QED
      BY <3>1, <3>5, <3>6 DEF PendingFound
  <2>6. Kept(ses, ses', G)
    BY <2>1, <2>2, <2>3, <2>4, <2>5, <1>1, <1>2, <1>7, <1>8, GrownKept
  <2> QED
    BY <2>6 DEF G
<1>15. JobOK'
  <2>1. /\ Rolling' /\ Recording' /\ ses'[p] = ses[p] /\ ses'[g].pred = p /\ ses'[g].segs = 1
        /\ ses'[g].pend = ses[p].pend /\ DOMAIN ses'[g].ops = {}
    BY <1>1, <1>2, <1>3, <1>5, <1>7, <1>12, EmptyMaps DEF Rolling, Recording
  <2>2. UnitOK(job.unit, ses[p])'
    BY <2>1, <1>1, <1>2, <1>9, <1>12 DEF UnitOK
  <2>3. UnitJob'
    BY <2>1, <2>2, <1>1, <1>2, <1>7, <1>9, <1>12 DEF UnitJob
  <2>4. AppendJob' /\ FollowUpJob' /\ AnnounceJob' /\ StartupJob'
    BY <1>2, <1>12 DEF AppendJob, FollowUpJob, AnnounceJob, StartupJob, Rolling
  <2>5. RolloverJob'
    BY <2>1, <1>1, <1>2, <1>12 DEF RolloverJob
  <2>6. SuccessorJob'
    BY <2>1, <1>2, <1>7, <1>9, <1>12 DEF SuccessorJob
  <2>7. ContinueJob'
    <3>1. Cardinality({}) = 0
      BY FS_EmptySet
    <3>2. \A n \in 1..Len(ses'[g].log) : ses'[g].log[n].t \in Bookkeeping
      BY <1>6, <1>9 DEF Bookkeeping
    <3>3. Len(ses'[g].log) = 1 + Cardinality(DOMAIN ses'[g].ops)
      BY <2>1, <3>1, <1>9
    <3> QED
      BY <2>1, <3>2, <3>3, <1>12 DEF ContinueJob
  <2> QED
    BY <2>3, <2>4, <2>5, <2>6, <2>7, <1>1, <1>2, <1>7, <1>12 DEF JobOK, Recording
<1>16. Owners'
  <2>1. Main' = Main
    BY <1>2, <1>12 DEF Main, Rolling
  <2>2. MainOnly' /\ BootEnds'
    BY <2>1, <1>1, <1>2, <1>7, <1>9 DEF Owners, MainOnly, BootEnds, Recording
  <2>3. MainOwns'
    BY <2>1, <1>1, <1>2, <1>7, <1>9, <1>10 DEF Owners, MainOwns
  <2>4. \A op : OwnedIn(ses', op) <=> OwnedIn(ses, op)
    BY <1>7, <1>10 DEF OwnedIn
  <2>5. Accounted' /\ EndedOnce'
    BY <2>4, <1>1, <1>9 DEF Owners, Accounted, EndedOnce
  <2> QED
    BY <2>2, <2>3, <2>5 DEF Owners
<1> QED
  BY <1>13, <1>14, <1>15, <1>16 DEF JInv, Kept

(* The successor's own log is as long as what it has been given, which     *)
(* leaves room for one more record.                                        *)
LEMMA RoomForOne ==
    ASSUME NEW D, D \subseteq Ops
    PROVE  /\ IsFiniteSet(D) /\ Cardinality(D) \in Nat /\ 1 + Cardinality(D) < Budget
           /\ Budget \in Nat
           /\ \A op \in Ops \ D : Cardinality(D \union {op}) = Cardinality(D) + 1
<1>1. /\ IsFiniteSet(Ops) /\ Cardinality(Ops) \in Nat /\ Budget \in Nat
      /\ Budget >= Cardinality(Ops) + 2
  BY BudgetAssumption, FS_CardinalityType
<1>2. IsFiniteSet(D) /\ Cardinality(D) \in Nat /\ Cardinality(D) <= Cardinality(Ops)
  BY <1>1, FS_Subset, FS_CardinalityType
<1>3. ASSUME NEW op \in Ops \ D
      PROVE  Cardinality(D \union {op}) = Cardinality(D) + 1
  BY <1>2, FS_AddElement
<1> QED
  BY <1>1, <1>2, <1>3

(* A continuation, with names for its parts.                               *)
Continuation(r, s, b, o, q, e, ts) ==
    /\ wire \in BOOLEAN /\ r \in SessionT /\ s \in Nat /\ b \in SessionT
    /\ o \in DOMAIN b.ops /\ Len(b.ops[o]) > 0
    /\ q = Continued(r, s, b, o)
    /\ e = NewEntry("operation_continued", o, None)
    /\ ts = Append(ClosedAt(b.ops[o], Len(b.log)), [s |-> s, from |-> Len(r.log), to |-> None])

(* The successor after one operation was carried over.                     *)
LEMMA ContinuedFacts ==
    ASSUME NEW r, NEW s, NEW b, NEW o, NEW q, NEW e, NEW ts, Continuation(r, s, b, o, q, e, ts)
    PROVE  /\ q \in SessionT /\ q.disk = r.disk /\ q.state = r.state /\ q.pred = r.pred
           /\ q.succ = r.succ /\ q.cut = r.cut /\ q.segs = r.segs
           /\ q.log = Append(r.log, e) /\ q.pend = r.pend /\ q.ops = With(r.ops, o, ts)
  BY ContinuedEffect DEF Continuation

(* Carrying one operation over keeps the invariant.                        *)
LEMMA RolloverContinueKeeps ==
    ASSUME JInv, RolloverContinue
    PROVE  JInv'
<1>1. /\ Types /\ SessionsIn(ses) /\ RangesIn(ses, FrozenNow) /\ PendsIn(ses) /\ JobOK /\ Owners
      /\ job # None /\ job.step = "continue" /\ job' = job
      /\ handle' = handle /\ phase' = phase /\ wire' = wire
      /\ baseline' = baseline /\ lease' = lease /\ tails' = tails /\ used' = used
      /\ spent' = spent
  BY DEF JInv, RolloverContinue
<1>2. /\ Rolling /\ Recording /\ job \in Jobs /\ ses \in Seq(SessionT)
      /\ job.pred \in DOMAIN ses /\ job.succ \in DOMAIN ses /\ job.succ # job.pred
      /\ ActiveIn(ses, job.pred) /\ ActiveIn(ses, job.succ)
      /\ ses[job.pred] \in SessionT /\ ses[job.succ] \in SessionT
      /\ job.succ \in Nat /\ job.pred \in FrozenNow
      /\ ses[job.succ].pred = job.pred /\ ses[job.succ].segs = 1
      /\ UnitOK(job.unit, ses[job.pred]) /\ handle = job.pred
      /\ job.unit.t = "reopened" \/ Len(ses[job.pred].log) = Budget
      /\ wire \in BOOLEAN
      /\ job.succ \notin FrozenNow \/ Len(ses[job.succ].log) = Budget
  BY <1>1, RolloverFacts
<1> DEFINE g == job.succ
<1> DEFINE p == job.pred
<1> DEFINE r == ses[job.succ]
<1>3. /\ Len(r.log) = 1 + Cardinality(DOMAIN r.ops)
      /\ DOMAIN r.ops \subseteq DOMAIN ses[p].ops
      /\ r.pend = ses[p].pend
      /\ \A n \in 1..Len(r.log) : r.log[n].t \in Bookkeeping
  BY <1>1, <1>2 DEF JobOK, ContinueJob
<1>4. PICK op \in Uncontinued :
         ses' = [ses EXCEPT ![g] = Continued(r, g, ses[p], op)]
  BY DEF RolloverContinue
<1> DEFINE rs == ses[p].ops[op]
<1> DEFINE x == [s |-> g, from |-> Len(r.log), to |-> None]
<1> DEFINE ts == Append(ClosedAt(rs, Len(ses[p].log)), x)
<1> DEFINE q == Continued(r, g, ses[p], op)
<1> DEFINE e == NewEntry("operation_continued", op, None)
<1>5. /\ op \in DOMAIN ses[p].ops /\ op \notin DOMAIN r.ops /\ op \in Ops
      /\ DOMAIN r.ops \subseteq Ops
      /\ rs \in Seq(RangeT) /\ Len(rs) > 0 /\ SoundIn(ses, FrozenNow, op, rs)
      /\ rs[Len(rs)].s = p
  <2>1. op \in DOMAIN ses[p].ops /\ op \notin DOMAIN r.ops
    BY DEF Uncontinued
  <2> QED
    BY <2>1, <1>1, <1>2, <1>3, OwnedRanges
<1>6. /\ q \in SessionT /\ q.disk = r.disk /\ q.state = r.state /\ q.pred = r.pred
      /\ q.succ = r.succ /\ q.cut = r.cut /\ q.segs = r.segs
      /\ q.log = Append(r.log, e) /\ q.pend = r.pend /\ q.ops = With(r.ops, op, ts)
  <2>1. /\ q = Continued(r, g, ses[p], op) /\ e = NewEntry("operation_continued", op, None)
        /\ ts = Append(ClosedAt(ses[p].ops[op], Len(ses[p].log)),
                       [s |-> g, from |-> Len(r.log), to |-> None])
    OBVIOUS
  <2>2. /\ r \in SessionT /\ g \in Nat /\ ses[p] \in SessionT /\ op \in DOMAIN ses[p].ops
        /\ Len(ses[p].ops[op]) > 0
    BY <1>2, <1>5
  <2>3. wire \in BOOLEAN
    BY <1>2
  <2> DEFINE b == ses[p]
  <2>4. /\ q = Continued(r, g, b, op) /\ b \in SessionT /\ op \in DOMAIN b.ops
        /\ Len(b.ops[op]) > 0
        /\ ts = Append(ClosedAt(b.ops[op], Len(b.log)),
                       [s |-> g, from |-> Len(r.log), to |-> None])
    BY <2>1, <2>2
  <2>5. Continuation(r, g, b, op, q, e, ts)
    BY <2>1, <2>2, <2>3, <2>4 DEF Continuation
  <2> HIDE DEF q, e, ts, r, p, g, b
  <2> QED
    BY <2>5, ContinuedFacts
<1>7. e \in EntryT /\ e.t = "operation_continued" /\ e.id = op
  <2>1. "operation_continued" \in EntryTypes /\ op \in IdT /\ None \in RefT
    BY <1>5, TypesListed, RefTyped
  <2>2. e \in EntryT
    BY <2>1, <1>2, EntryTyped
  <2> QED
    BY <2>2 DEF NewEntry
<1>8. /\ DOMAIN q.ops = DOMAIN r.ops \union {op} /\ q.ops[op] = ts
      /\ \A o \in DOMAIN r.ops : q.ops[o] = r.ops[o]
  <2> HIDE DEF q, ts
  <2>1. /\ DOMAIN With(r.ops, op, ts) = DOMAIN r.ops \union {op}
        /\ With(r.ops, op, ts)[op] = ts
        /\ \A y \in DOMAIN r.ops : y # op => With(r.ops, op, ts)[y] = r.ops[y]
    BY DEF With
  <2> QED
    BY <2>1, <1>5, <1>6
<1>9. ses' = [ses EXCEPT ![g] = q]
  BY <1>4
<1> HIDE DEF q, e, ts
<1>10. /\ ses' \in Seq(SessionT) /\ DOMAIN ses' = DOMAIN ses /\ ses'[g] = q
       /\ \A s \in DOMAIN ses : s # g => ses'[s] = ses[s]
  BY <1>2, <1>6, <1>9, Updated
<1>11. GrownBy(ses, ses', g, e)
  BY <1>2, <1>6, <1>7, <1>10 DEF GrownBy
<1>12. /\ Len(ses'[g].log) = Len(r.log) + 1 /\ ses'[g].log[Len(r.log) + 1] = e
       /\ Len(r.log) \in Nat /\ Prolongs(ses, ses')
       /\ \A n \in 1..Len(r.log) : ses'[g].log[n] = r.log[n]
       /\ \A s \in DOMAIN ses : ActiveIn(ses', s) <=> ActiveIn(ses, s)
  BY <1>2, <1>10, <1>11, GrownFacts
<1>13. /\ \A o : StartedIn(ses', o) <=> StartedIn(ses, o)
       /\ \A o : EndedIn(ses', o) <=> EndedIn(ses, o)
       /\ \A o : InterruptedIn(ses', o) <=> InterruptedIn(ses, o)
  <2>1. /\ \A o : StartedIn(ses', o) <=> StartedIn(ses, o) \/ (e.t = "operation_started" /\ e.id = o)
        /\ \A o : EndedIn(ses', o) <=> EndedIn(ses, o) \/ (e.t = "operation_terminal" /\ e.id = o)
        /\ \A o : InterruptedIn(ses', o) <=> InterruptedIn(ses, o)
    BY <1>2, <1>10, <1>11, GrownFacts
  <2> QED
    BY <2>1, <1>7
<1>14. /\ Len(r.log) < Budget /\ g \notin FrozenNow
       /\ Cardinality(DOMAIN r.ops \union {op}) = Cardinality(DOMAIN r.ops) + 1
       /\ Cardinality(DOMAIN r.ops) \in Nat
  <2>1. /\ Cardinality(DOMAIN r.ops) \in Nat /\ 1 + Cardinality(DOMAIN r.ops) < Budget
        /\ Budget \in Nat
        /\ Cardinality(DOMAIN r.ops \union {op}) = Cardinality(DOMAIN r.ops) + 1
    BY <1>5, RoomForOne
  <2> QED
    BY <2>1, <1>2, <1>3
<1>15. \A s \in DOMAIN ses : DOMAIN ses[s].ops \subseteq DOMAIN ses'[s].ops
  BY <1>8, <1>10
<1>16. \A o : OwnedIn(ses', o) <=> OwnedIn(ses, o)
  BY <1>2, <1>5, <1>8, <1>10 DEF OwnedIn
<1>17. Types'
  BY <1>1, <1>10 DEF Types
<1>18. Kept(ses, ses', FrozenNow')
  <2> DEFINE G == FrozenNow'
  <2>1. FrozenNow \subseteq G
    <3>1. ASSUME NEW y \in FrozenNow PROVE y \in G
      <4>1. y \in DOMAIN ses /\ y # g /\ ses'[y] = ses[y]
        BY <3>1, <1>10, <1>14 DEF FrozenNow
      <4> QED
        BY <3>1, <4>1, <1>1, <1>10, <1>12 DEF FrozenNow, Recording
    <3> QED
      BY <3>1
  <2> HIDE DEF G
  <2>2. ses'[g].segs \in 1..MaxSegments
    BY <1>1, <1>2, <1>6, <1>10 DEF SessionsIn
  <2>3. OwnedSound(ses', G, g, op)
    <3>1. Stays(ses, ses', FrozenNow, G)
      BY <2>1, <1>10, <1>14 DEF Stays
    <3>2. SoundIn(ses', G, op, rs)
      BY <3>1, <1>2, <1>5, <1>10, <1>12, SoundStays
    <3> DEFINE n == Len(r.log)
    <3>3. /\ EntryIn(ses', g, n) = e /\ n \in Nat /\ n < Len(ses'[g].log)
          /\ \A m \in 0..(n - 1) : EntryIn(ses', g, m).t \in Bookkeeping
      <4>1. ASSUME NEW m \in 0..(n - 1) PROVE EntryIn(ses', g, m).t \in Bookkeeping
        <5>1. m + 1 \in 1..n
          BY <1>12
        <5>2. ses'[g].log[m + 1] = r.log[m + 1]
          BY <5>1, <1>12
        <5> QED
          BY <5>1, <5>2, <1>3 DEF EntryIn
      <4> QED
        BY <4>1, <1>12 DEF EntryIn
    <3>4. p \in DOMAIN ses' /\ g \in DOMAIN ses' /\ ses'[g].pred = p /\ p \in G
          /\ Len(ses'[p].log) = Len(ses[p].log)
      BY <2>1, <1>2, <1>6, <1>10
    <3> HIDE DEF n
    <3>5. ts = Append(ClosedAt(rs, Len(ses'[p].log)), [s |-> g, from |-> n, to |-> None])
      BY <3>4 DEF ts, n
    <3>6. SoundIn(ses', G, op, ts) /\ ts[Len(ts)].s = g
      <4>1. rs \in Seq(RangeT) /\ rs[Len(rs)].s = p
        BY <1>5
      <4>2. /\ EntryIn(ses', g, n).t = "operation_continued" /\ EntryIn(ses', g, n).id = op
            /\ n \in Nat /\ n < Len(ses'[g].log)
            /\ \A m \in 0..(n - 1) : EntryIn(ses', g, m).t \in Bookkeeping
        BY <3>3, <1>7
      <4>3. ses' \in Seq(SessionT)
        BY <1>10
      <4>4. CarriedOver(ses', G, op, rs, p, g, n, ts)
        BY <3>2, <3>4, <3>5, <4>1, <4>2, <4>3 DEF CarriedOver
      <4> HIDE DEF rs, g, p
      <4> QED
        BY <4>4, ContinuedSound
    <3> QED
      BY <3>6, <1>8, <1>10 DEF OwnedSound
  <2>4. \A o \in DOMAIN ses'[g].ops : OldOps(ses, ses', g, o) \/ OwnedSound(ses', G, g, o)
    BY <2>3, <1>2, <1>8, <1>10 DEF OldOps
  <2>5. TerminalSound(ses', G, e) /\ ResultFound(ses', e)
    BY <1>7 DEF TerminalSound, ResultFound
  <2>6. ASSUME NEW a \in DOMAIN ses'[g].pend
        PROVE  OldPend(ses, ses', g, a) /\ ses'[ses'[g].pend[a].s].disk # "gone"
    <3>1. a \in DOMAIN r.pend /\ ses'[g].pend[a] = r.pend[a]
      BY <1>6, <1>10
    <3>2. ses[r.pend[a].s].disk # "gone" /\ r.pend[a].s \in DOMAIN ses
      BY <3>1, <1>1, <1>2 DEF PendsIn, PendingFound, OriginIn
    <3>3. ses'[r.pend[a].s].disk = ses[r.pend[a].s].disk
      BY <3>2, <1>6, <1>10
    <3> QED
      BY <3>1, <3>2, <3>3, <1>2 DEF OldPend
  <2>7. Kept(ses, ses', G)
    BY <2>1, <2>2, <2>4, <2>5, <2>6, <1>1, <1>2, <1>10, <1>11, <1>14, GrownKept
  <2> QED
    BY <2>7 DEF G
<1>19. JobOK'
  <2>1. /\ Rolling' /\ Recording' /\ ses'[p] = ses[p] /\ ses'[g].pred = p /\ ses'[g].segs = 1
        /\ ses'[g].pend = ses[p].pend /\ DOMAIN ses'[g].ops = DOMAIN r.ops \union {op}
    BY <1>1, <1>2, <1>3, <1>6, <1>8, <1>10 DEF Rolling, Recording
  <2>2. UnitOK(job.unit, ses[p])'
    BY <2>1, <1>1, <1>2, <1>13 DEF UnitOK
  <2>3. UnitJob'
    BY <2>1, <2>2, <1>1, <1>2, <1>10, <1>12 DEF UnitJob
  <2>4. AppendJob' /\ FollowUpJob' /\ AnnounceJob' /\ StartupJob'
    BY <1>1, <1>2 DEF AppendJob, FollowUpJob, AnnounceJob, StartupJob, Rolling
  <2>5. RolloverJob'
    BY <2>1, <1>1, <1>2 DEF RolloverJob
  <2>6. SuccessorJob'
    BY <2>1, <1>1, <1>2, <1>10, <1>12 DEF SuccessorJob
  <2>7. ContinueJob'
    <3>1. ASSUME NEW n \in 1..Len(ses'[g].log)
          PROVE  ses'[g].log[n].t \in Bookkeeping
      <4>1. CASE n \in 1..Len(r.log)
        BY <4>1, <1>3, <1>12
      <4>2. CASE n = Len(r.log) + 1
        BY <4>2, <1>7, <1>12 DEF Bookkeeping
      <4>3. n \in 1..Len(r.log) \/ n = Len(r.log) + 1
        BY <1>12
      <4> QED
        BY <4>1, <4>2, <4>3
    <3>2. Len(ses'[g].log) = 1 + Cardinality(DOMAIN ses'[g].ops)
      BY <2>1, <1>3, <1>12, <1>14
    <3>3. DOMAIN ses'[g].ops \subseteq DOMAIN ses'[p].ops
      BY <2>1, <1>3, <1>5
    <3> QED
      BY <2>1, <3>1, <3>2, <3>3, <1>1 DEF ContinueJob
  <2> QED
    BY <2>3, <2>4, <2>5, <2>6, <2>7, <1>1, <1>2, <1>10 DEF JobOK, Recording
<1>20. Owners'
  <2>1. Main' = Main /\ p \in Main
    BY <1>1, <1>2 DEF Main, Rolling
  <2>2. MainOnly' /\ BootEnds'
    BY <2>1, <1>1, <1>2, <1>10, <1>12 DEF Owners, MainOnly, BootEnds, Recording
  <2>3. MainOwns'
    <3>1. SUFFICES ASSUME NEW s \in DOMAIN ses', s \in Main, NEW o \in DOMAIN ses'[s].ops
                   PROVE  ~EndedIn(ses, o) /\ ~InterruptedIn(ses, o)
      BY <2>1, <1>13 DEF MainOwns
    <3>2. o \in DOMAIN ses[s].ops \/ o \in DOMAIN ses[p].ops
      BY <3>1, <1>5, <1>8, <1>10
    <3> QED
      BY <2>1, <3>1, <3>2, <1>1, <1>2, <1>10 DEF Owners, MainOwns
  <2>4. Accounted' /\ EndedOnce'
    BY <1>1, <1>13, <1>16 DEF Owners, Accounted, EndedOnce
  <2> QED
    BY <2>2, <2>3, <2>4 DEF Owners
<1> QED
  BY <1>17, <1>18, <1>19, <1>20 DEF JInv, Kept

(* Linking the predecessor keeps the invariant: the successor owns every   *)
(* operation.                                                              *)
LEMMA RolloverLinkKeeps ==
    ASSUME JInv, RolloverLink
    PROVE  JInv'
<1>1. /\ Types /\ SessionsIn(ses) /\ RangesIn(ses, FrozenNow) /\ PendsIn(ses) /\ JobOK /\ Owners
      /\ job # None /\ job.step = "continue" /\ Uncontinued = {}
      /\ ses' = [ses EXCEPT ![job.pred] = Linked(ses[job.pred], job.succ)]
      /\ job' = Job("sweep", job.unit, job.succ, job.succ, {job.succ})
      /\ handle' = handle /\ phase' = phase /\ wire' = wire
      /\ baseline' = baseline /\ lease' = lease /\ tails' = tails /\ used' = used
      /\ spent' = spent
  BY DEF JInv, RolloverLink
<1>2. /\ Rolling /\ Recording /\ job \in Jobs /\ ses \in Seq(SessionT)
      /\ job.pred \in DOMAIN ses /\ job.succ \in DOMAIN ses /\ job.succ # job.pred
      /\ ActiveIn(ses, job.pred) /\ ActiveIn(ses, job.succ)
      /\ ses[job.pred] \in SessionT /\ ses[job.succ] \in SessionT
      /\ job.succ \in Nat
      /\ ses[job.succ].pred = job.pred /\ ses[job.succ].segs = 1
      /\ UnitOK(job.unit, ses[job.pred]) /\ handle = job.pred
  BY <1>1, RolloverFacts
<1> DEFINE g == job.succ
<1> DEFINE p == job.pred
<1> DEFINE r == ses[job.succ]
<1>3. /\ Len(r.log) = 1 + Cardinality(DOMAIN r.ops)
      /\ DOMAIN r.ops = DOMAIN ses[p].ops
      /\ r.pend = ses[p].pend
  <2>1. /\ Len(r.log) = 1 + Cardinality(DOMAIN r.ops)
        /\ DOMAIN r.ops \subseteq DOMAIN ses[p].ops
        /\ r.pend = ses[p].pend
    BY <1>1, <1>2 DEF JobOK, ContinueJob
  <2>2. DOMAIN ses[p].ops \subseteq DOMAIN r.ops
    BY <1>1 DEF Uncontinued
  <2> QED
    BY <2>1, <2>2
<1> DEFINE q == Linked(ses[p], g)
<1>4. /\ q \in SessionT /\ q.disk = ses[p].disk /\ q.log = ses[p].log /\ q.pred = ses[p].pred
      /\ q.cut = ses[p].cut /\ q.segs = ses[p].segs /\ q.gaps = ses[p].gaps
      /\ q.ops = Empty /\ q.pend = Empty /\ q.succ = g /\ q.state = "completed"
  <2>1. g \in NameT
    BY <1>2 DEF NameT
  <2> QED
    BY <2>1, <1>2, LinkedEffect
<1> HIDE DEF q
<1>5. ses' = [ses EXCEPT ![p] = q]
  BY <1>1 DEF q
<1>6. /\ ses' \in Seq(SessionT) /\ DOMAIN ses' = DOMAIN ses /\ ses'[p] = q
      /\ \A s \in DOMAIN ses : s # p => ses'[s] = ses[s]
  BY <1>2, <1>4, <1>5, Updated
<1>7. LinkedTo(ses, ses', p, g)
  BY <1>2, <1>4, <1>6 DEF LinkedTo
<1>8. /\ \A s \in DOMAIN ses :
            /\ ses'[s].log = ses[s].log
            /\ ActiveIn(ses', s) <=> ActiveIn(ses, s) /\ s # p
            /\ s # p => ses'[s] = ses[s]
      /\ DOMAIN ses'[p].ops = {}
      /\ \A op : StartedIn(ses', op) <=> StartedIn(ses, op)
      /\ \A op : EndedIn(ses', op) <=> EndedIn(ses, op)
      /\ \A op : InterruptedIn(ses', op) <=> InterruptedIn(ses, op)
      /\ \A op : OwnedIn(ses', op) <=> OwnedIn(ses, op)
  BY <1>2, <1>3, <1>6, <1>7, LinkedFacts
<1>9. /\ job' \in Jobs /\ job' # None /\ job'.step = "sweep" /\ job'.unit = job.unit
      /\ job'.pred = g /\ job'.succ = g /\ job.unit # None
  <2>1. job' = [step |-> "sweep", unit |-> job.unit, pred |-> g, succ |-> g, held |-> {g}]
    BY <1>1 DEF Job
  <2>2. job.unit \in Units \union {None} /\ {g} \in SUBSET Nat
    BY <1>2, JobFields
  <2>3. job' \in Jobs
    BY <2>1, <2>2, <1>2 DEF Jobs
  <2> QED
    BY <2>1, <2>3, <1>2, JobFields DEF Rolling
<1>10. 1 + Cardinality(DOMAIN r.ops) < Budget
  BY <1>2, SessionFields, OpsElim, RoomForOne
<1>11. Types'
  BY <1>1, <1>6, <1>9 DEF Types
<1>12. Kept(ses, ses', FrozenNow')
  <2> DEFINE G == FrozenNow'
  <2>1. FrozenNow \subseteq G /\ FrozenNow \subseteq DOMAIN ses
    <3>1. ASSUME NEW y \in FrozenNow PROVE y \in G
      BY <3>1, <1>1, <1>6, <1>8 DEF FrozenNow, Recording
    <3> QED
      BY <3>1 DEF FrozenNow
  <2> HIDE DEF G
  <2>2. ses[p].state = "active"
    BY <1>2 DEF ActiveIn
  <2>3. Kept(ses, ses', G)
    BY <2>1, <2>2, <1>1, <1>2, <1>3, <1>6, <1>7, LinkedKept
  <2> QED
    BY <2>3 DEF G
<1>13. JobOK'
  <2>1. Rolling' /\ Recording' /\ ses'[g] = r /\ ActiveIn(ses', g) /\ ~ActiveIn(ses', p)
    BY <1>1, <1>2, <1>8, <1>9 DEF Rolling, Recording
  <2>2. UnitOK(job.unit, ses[g])'
    <3>1. ses[p].segs \in 1..MaxSegments
      BY <1>1, <1>2 DEF SessionsIn
    <3>2. job.unit.t = "segment_opened" => 1 < MaxSegments
      BY <3>1, <1>2, BudgetAssumption DEF UnitOK
    <3> QED
      BY <2>1, <3>2, <1>1, <1>2, <1>3, <1>8, <1>9 DEF UnitOK
  <2>3. UnitJob'
    BY <2>1, <2>2, <1>1, <1>2, <1>6, <1>9 DEF UnitJob
  <2>4. AppendJob' /\ RolloverJob' /\ SuccessorJob' /\ AnnounceJob' /\ ContinueJob' /\ StartupJob'
    BY <1>9 DEF AppendJob, RolloverJob, SuccessorJob, AnnounceJob, ContinueJob, StartupJob
  <2>5. FollowUpJob'
    BY <2>1, <1>3, <1>9, <1>10 DEF FollowUpJob
  <2> QED
    BY <2>3, <2>4, <2>5, <1>1, <1>2, <1>6, <1>9 DEF JobOK, Recording
<1>14. Owners'
  <2>1. Main = {p, g} /\ Main' = {g}
    BY <1>2, <1>9 DEF Main, Rolling
  <2>2. MainOnly' /\ BootEnds'
    BY <2>1, <1>1, <1>2, <1>6, <1>8 DEF Owners, MainOnly, BootEnds, Recording
  <2>3. MainOwns'
    BY <2>1, <1>1, <1>2, <1>6, <1>8 DEF Owners, MainOwns
  <2>4. Accounted' /\ EndedOnce'
    BY <1>1, <1>8 DEF Owners, Accounted, EndedOnce
  <2> QED
    BY <2>2, <2>3, <2>4 DEF Owners
<1> QED
  BY <1>11, <1>12, <1>13, <1>14 DEF JInv, Kept

-----------------------------------------------------------------------------
(***************************************************************************)
(* The unit itself: what its record e makes of the session r it enters.    *)
(***************************************************************************)
Extends(r, q, e) ==
    /\ q \in SessionT /\ e \in EntryT /\ q.log = Append(r.log, e)
    /\ q.disk = r.disk /\ q.state = r.state /\ q.pred = r.pred /\ q.succ = r.succ
    /\ q.cut = r.cut /\ q.segs \in 1..MaxSegments
MovesOps(r, s, q, e) ==
    /\ e.t \notin {"operation_started", "operation_terminal"} => q.ops = r.ops
    /\ e.t = "operation_started" =>
          /\ e.id \in Ops /\ DOMAIN q.ops = DOMAIN r.ops \union {e.id}
          /\ q.ops[e.id] = <<[s |-> s, from |-> Len(r.log), to |-> None]>>
          /\ \A op \in DOMAIN r.ops : op # e.id => q.ops[op] = r.ops[op]
    /\ e.t = "operation_terminal" =>
          /\ e.id \in DOMAIN r.ops /\ DOMAIN q.ops = DOMAIN r.ops \ {e.id}
          /\ \A op \in DOMAIN q.ops : q.ops[op] = r.ops[op]
          /\ e.ref = ClosedAt(r.ops[e.id], Len(r.log) + 1)
MovesPend(r, s, q, e) ==
    /\ \A a \in DOMAIN q.pend :
          \/ a \in DOMAIN r.pend /\ q.pend[a] = r.pend[a]
          \/ /\ q.pend[a].s = s /\ q.pend[a].seq = Len(r.log)
             /\ e.id = a /\ e.t = AttemptOf(q.pend[a].kind)
    /\ e.t = "uart_tx_result" =>
          e.id \in DOMAIN r.pend /\ r.pend[e.id].kind = "uart_tx" /\ e.ref = r.pend[e.id]
    /\ e.t = "control_result" =>
          e.id \in DOMAIN r.pend /\ r.pend[e.id].kind = "control" /\ e.ref = r.pend[e.id]
Enters(r, s, q, e) == Extends(r, q, e) /\ MovesOps(r, s, q, e) /\ MovesPend(r, s, q, e)

(* A receive unit enters its session.                                      *)
LEMMA UartReceiveEnters ==
    ASSUME wire \in BOOLEAN, NEW r \in SessionT, NEW s \in Nat, r.segs \in 1..MaxSegments
    PROVE  \E e : Enters(r, s, UartReceive(r), e) /\ e.t = "uart_rx"
<1> DEFINE q == UartReceive(r)
<1> DEFINE e == NewEntry("uart_rx", None, None)
<1>1. e \in EntryT /\ e.t = "uart_rx"
  <2>1. "uart_rx" \in EntryTypes /\ None \in IdT /\ None \in RefT
    BY RefTyped, TypesListed DEF UnitTypes
  <2>2. e \in EntryT
    BY <2>1, EntryTyped
  <2> QED
    BY <2>2 DEF NewEntry
<1>2. /\ q \in SessionT /\ q.disk = r.disk /\ q.state = r.state /\ q.pred = r.pred
      /\ q.succ = r.succ /\ q.ops = r.ops /\ q.cut = r.cut /\ q.pend = r.pend
      /\ q.segs = r.segs /\ q.log = Append(r.log, e)
  BY UartReceiveEffect
<1> HIDE DEF q, e
<1>3. Extends(r, q, e)
  BY <1>1, <1>2, BudgetAssumption DEF Extends
<1>4. MovesOps(r, s, q, e) /\ MovesPend(r, s, q, e)
  BY <1>1, <1>2 DEF MovesOps, MovesPend
<1>5. Enters(r, s, q, e) /\ e.t = "uart_rx"
  BY <1>1, <1>3, <1>4 DEF Enters
<1> QED
  BY <1>5 DEF q

(* An overflow report enters its session.                                  *)
LEMMA BufferOverflowEnters ==
    ASSUME wire \in BOOLEAN, NEW r \in SessionT, NEW s \in Nat, r.segs \in 1..MaxSegments
    PROVE  \E e : Enters(r, s, BufferOverflow(r), e) /\ e.t = "buffer_overflow"
<1> DEFINE q == BufferOverflow(r)
<1> DEFINE e == NewEntry("buffer_overflow", None, None)
<1>1. e \in EntryT /\ e.t = "buffer_overflow"
  <2>1. "buffer_overflow" \in EntryTypes /\ None \in IdT /\ None \in RefT
    BY RefTyped, TypesListed DEF UnitTypes
  <2>2. e \in EntryT
    BY <2>1, EntryTyped
  <2> QED
    BY <2>2 DEF NewEntry
<1>2. /\ q \in SessionT /\ q.disk = r.disk /\ q.state = r.state /\ q.pred = r.pred
      /\ q.succ = r.succ /\ q.ops = r.ops /\ q.cut = r.cut /\ q.pend = r.pend
      /\ q.segs = r.segs /\ q.log = Append(r.log, e)
  BY BufferOverflowEffect
<1> HIDE DEF q, e
<1>3. Extends(r, q, e)
  BY <1>1, <1>2, BudgetAssumption DEF Extends
<1>4. MovesOps(r, s, q, e) /\ MovesPend(r, s, q, e)
  BY <1>1, <1>2 DEF MovesOps, MovesPend
<1>5. Enters(r, s, q, e) /\ e.t = "buffer_overflow"
  BY <1>1, <1>3, <1>4 DEF Enters
<1> QED
  BY <1>5 DEF q

(* A disconnect enters its session.                                        *)
LEMMA ConnectionGapEnters ==
    ASSUME wire \in BOOLEAN, NEW r \in SessionT, NEW s \in Nat, r.segs \in 1..MaxSegments
    PROVE  \E e : Enters(r, s, ConnectionGap(r), e) /\ e.t = "gap"
<1> DEFINE q == ConnectionGap(r)
<1> DEFINE e == NewEntry("gap", None, None)
<1>1. e \in EntryT /\ e.t = "gap"
  <2>1. "gap" \in EntryTypes /\ None \in IdT /\ None \in RefT
    BY RefTyped, TypesListed DEF UnitTypes
  <2>2. e \in EntryT
    BY <2>1, EntryTyped
  <2> QED
    BY <2>2 DEF NewEntry
<1>2. /\ q \in SessionT /\ q.disk = r.disk /\ q.state = r.state /\ q.pred = r.pred
      /\ q.succ = r.succ /\ q.ops = r.ops /\ q.cut = r.cut /\ q.pend = r.pend
      /\ q.segs = r.segs /\ q.log = Append(r.log, e)
  BY ConnectionGapEffect
<1> HIDE DEF q, e
<1>3. Extends(r, q, e)
  BY <1>1, <1>2, BudgetAssumption DEF Extends
<1>4. MovesOps(r, s, q, e) /\ MovesPend(r, s, q, e)
  BY <1>1, <1>2 DEF MovesOps, MovesPend
<1>5. Enters(r, s, q, e) /\ e.t = "gap"
  BY <1>1, <1>3, <1>4 DEF Enters
<1> QED
  BY <1>5 DEF q

(* A reconnect enters its session.                                         *)
LEMMA PublishSegmentEnters ==
    ASSUME wire \in BOOLEAN, NEW r \in SessionT, NEW s \in Nat, r.segs \in 1..MaxSegments,
           r.segs < MaxSegments
    PROVE  \E e : Enters(r, s, PublishSegment(r), e) /\ e.t = "segment_opened"
<1> DEFINE q == PublishSegment(r)
<1> DEFINE e == NewEntry("segment_opened", None, None)
<1>1. e \in EntryT /\ e.t = "segment_opened"
  <2>1. "segment_opened" \in EntryTypes /\ None \in IdT /\ None \in RefT
    BY RefTyped, TypesListed DEF UnitTypes
  <2>2. e \in EntryT
    BY <2>1, EntryTyped
  <2> QED
    BY <2>2 DEF NewEntry
<1>2. /\ q \in SessionT /\ q.disk = r.disk /\ q.state = r.state /\ q.pred = r.pred
      /\ q.succ = r.succ /\ q.ops = r.ops /\ q.cut = r.cut /\ q.pend = r.pend
      /\ q.segs = r.segs + 1 /\ q.log = Append(r.log, e)
  BY PublishSegmentEffect
<1> HIDE DEF q, e
<1>3. Extends(r, q, e)
  BY <1>1, <1>2, BudgetAssumption DEF Extends
<1>4. MovesOps(r, s, q, e) /\ MovesPend(r, s, q, e)
  BY <1>1, <1>2 DEF MovesOps, MovesPend
<1>5. Enters(r, s, q, e) /\ e.t = "segment_opened"
  BY <1>1, <1>3, <1>4 DEF Enters
<1> QED
  BY <1>5 DEF q

(* The start of an operation enters its session.                           *)
LEMMA StartOperationEnters ==
    ASSUME wire \in BOOLEAN, NEW r \in SessionT, NEW s \in Nat, NEW op \in Ops,
           r.segs \in 1..MaxSegments
    PROVE  \E e : Enters(r, s, StartOperation(r, s, op), e)
                  /\ e.t = "operation_started" /\ e.id = op
<1> DEFINE q == StartOperation(r, s, op)
<1> DEFINE e == NewEntry("operation_started", op, None)
<1> DEFINE v == <<[s |-> s, from |-> Len(r.log), to |-> None]>>
<1>1. e \in EntryT /\ e.t = "operation_started" /\ e.id = op
  <2>1. "operation_started" \in EntryTypes /\ op \in IdT /\ None \in RefT
    BY RefTyped, TypesListed DEF UnitTypes
  <2>2. e \in EntryT
    BY <2>1, EntryTyped
  <2> QED
    BY <2>2 DEF NewEntry
<1>2. /\ q \in SessionT /\ q.disk = r.disk /\ q.state = r.state /\ q.pred = r.pred
      /\ q.succ = r.succ /\ q.cut = r.cut /\ q.pend = r.pend
      /\ q.segs = r.segs /\ q.log = Append(r.log, e) /\ q.ops = With(r.ops, op, v)
  BY StartOperationEffect
<1> HIDE DEF q, e
<1>3. /\ DOMAIN q.ops = DOMAIN r.ops \union {op} /\ q.ops[op] = v
      /\ \A x \in DOMAIN r.ops : x # op => q.ops[x] = r.ops[x]
  <2> HIDE DEF v
  <2>1. /\ DOMAIN With(r.ops, op, v) = DOMAIN r.ops \union {op}
        /\ With(r.ops, op, v)[op] = v
        /\ \A x \in DOMAIN r.ops : x # op => With(r.ops, op, v)[x] = r.ops[x]
    BY DEF With
  <2> QED
    BY <2>1, <1>2
<1>4. Extends(r, q, e)
  BY <1>1, <1>2 DEF Extends
<1>5. MovesOps(r, s, q, e) /\ MovesPend(r, s, q, e)
  BY <1>1, <1>2, <1>3 DEF MovesOps, MovesPend
<1>6. Enters(r, s, q, e) /\ e.t = "operation_started" /\ e.id = op
  BY <1>1, <1>4, <1>5 DEF Enters
<1> QED
  BY <1>6 DEF q

(* The end of an operation enters its session.                             *)
LEMMA CompleteOperationEnters ==
    ASSUME wire \in BOOLEAN, NEW r \in SessionT, NEW s \in Nat, NEW op \in DOMAIN r.ops,
           Len(r.ops[op]) > 0, r.segs \in 1..MaxSegments
    PROVE  \E e : Enters(r, s, CompleteOperation(r, op), e) /\ e.t = "operation_terminal"
<1> DEFINE q == CompleteOperation(r, op)
<1> DEFINE ref == ClosedAt(r.ops[op], Len(r.log) + 1)
<1> DEFINE e == NewEntry("operation_terminal", op, ref)
<1>1. e \in EntryT /\ e.t = "operation_terminal" /\ e.id = op /\ e.ref = ref
  <2>1. op \in Ops /\ r.ops[op] \in Seq(RangeT) /\ Len(r.log) + 1 \in Nat
    BY SessionFields, OpsElim
  <2>2. ref \in Seq(RangeT)
    BY <2>1, ClosedFacts
  <2> HIDE DEF ref
  <2>3. "operation_terminal" \in EntryTypes /\ op \in IdT /\ ref \in RefT
    BY <2>1, <2>2, RefTyped, TypesListed DEF UnitTypes
  <2>4. e \in EntryT
    BY <2>3, EntryTyped
  <2> QED
    BY <2>4 DEF NewEntry
<1>2. /\ q \in SessionT /\ q.disk = r.disk /\ q.state = r.state /\ q.pred = r.pred
      /\ q.succ = r.succ /\ q.cut = r.cut /\ q.pend = r.pend
      /\ q.segs = r.segs /\ q.log = Append(r.log, e) /\ q.ops = Without(r.ops, op)
  BY CompleteOperationEffect
<1> HIDE DEF q, e
<1>3. /\ DOMAIN q.ops = DOMAIN r.ops \ {op}
      /\ \A x \in DOMAIN q.ops : q.ops[x] = r.ops[x]
  BY <1>2 DEF Without, Restrict
<1>4. Extends(r, q, e)
  BY <1>1, <1>2 DEF Extends
<1>5. MovesOps(r, s, q, e) /\ MovesPend(r, s, q, e)
  BY <1>1, <1>2, <1>3 DEF MovesOps, MovesPend
<1>6. Enters(r, s, q, e) /\ e.t = "operation_terminal"
  BY <1>1, <1>4, <1>5 DEF Enters
<1> QED
  BY <1>6 DEF q

(* A UART transmit attempt enters its session.                             *)
LEMMA TxAttemptEnters ==
    ASSUME wire \in BOOLEAN, NEW r \in SessionT, NEW s \in Nat, NEW a \in Attempts,
           r.segs \in 1..MaxSegments
    PROVE  \E e : Enters(r, s, TxAttempt(r, s, a), e) /\ e.t = "uart_tx_attempt"
<1> DEFINE q == TxAttempt(r, s, a)
<1> DEFINE e == NewEntry("uart_tx_attempt", a, None)
<1> DEFINE v == [s |-> s, seq |-> Len(r.log), kind |-> "uart_tx"]
<1>1. e \in EntryT /\ e.t = "uart_tx_attempt" /\ e.id = a
  <2>1. "uart_tx_attempt" \in EntryTypes /\ a \in IdT /\ None \in RefT
    BY RefTyped, TypesListed DEF UnitTypes
  <2>2. e \in EntryT
    BY <2>1, EntryTyped
  <2> QED
    BY <2>2 DEF NewEntry
<1>2. /\ q \in SessionT /\ q.disk = r.disk /\ q.state = r.state /\ q.pred = r.pred
      /\ q.succ = r.succ /\ q.cut = r.cut /\ q.ops = r.ops
      /\ q.segs = r.segs /\ q.log = Append(r.log, e) /\ q.pend = With(r.pend, a, v)
  BY TxAttemptEffect
<1>3. v.s = s /\ v.seq = Len(r.log) /\ v.kind = "uart_tx"
  OBVIOUS
<1> HIDE DEF q, e, v
<1>4. \A x \in DOMAIN q.pend : (x \in DOMAIN r.pend /\ q.pend[x] = r.pend[x])
                              \/ (x = a /\ q.pend[x] = v)
  BY <1>2 DEF With
<1>5. Extends(r, q, e)
  BY <1>1, <1>2 DEF Extends
<1>6. MovesOps(r, s, q, e)
  BY <1>1, <1>2 DEF MovesOps
<1>7. MovesPend(r, s, q, e)
  BY <1>1, <1>3, <1>4 DEF MovesPend, AttemptOf
<1>8. Enters(r, s, q, e) /\ e.t = "uart_tx_attempt"
  BY <1>1, <1>5, <1>6, <1>7 DEF Enters
<1> QED
  BY <1>8 DEF q

(* A control attempt enters its session.                                   *)
LEMMA ControlAttemptEnters ==
    ASSUME wire \in BOOLEAN, NEW r \in SessionT, NEW s \in Nat, NEW a \in Attempts,
           r.segs \in 1..MaxSegments
    PROVE  \E e : Enters(r, s, ControlAttempt(r, s, a), e) /\ e.t = "control_attempt"
<1> DEFINE q == ControlAttempt(r, s, a)
<1> DEFINE e == NewEntry("control_attempt", a, None)
<1> DEFINE v == [s |-> s, seq |-> Len(r.log), kind |-> "control"]
<1>1. e \in EntryT /\ e.t = "control_attempt" /\ e.id = a
  <2>1. "control_attempt" \in EntryTypes /\ a \in IdT /\ None \in RefT
    BY RefTyped, TypesListed DEF UnitTypes
  <2>2. e \in EntryT
    BY <2>1, EntryTyped
  <2> QED
    BY <2>2 DEF NewEntry
<1>2. /\ q \in SessionT /\ q.disk = r.disk /\ q.state = r.state /\ q.pred = r.pred
      /\ q.succ = r.succ /\ q.cut = r.cut /\ q.ops = r.ops
      /\ q.segs = r.segs /\ q.log = Append(r.log, e) /\ q.pend = With(r.pend, a, v)
  BY ControlAttemptEffect
<1>3. v.s = s /\ v.seq = Len(r.log) /\ v.kind = "control"
  OBVIOUS
<1> HIDE DEF q, e, v
<1>4. \A x \in DOMAIN q.pend : (x \in DOMAIN r.pend /\ q.pend[x] = r.pend[x])
                              \/ (x = a /\ q.pend[x] = v)
  BY <1>2 DEF With
<1>5. Extends(r, q, e)
  BY <1>1, <1>2 DEF Extends
<1>6. MovesOps(r, s, q, e)
  BY <1>1, <1>2 DEF MovesOps
<1>7. MovesPend(r, s, q, e)
  BY <1>1, <1>3, <1>4 DEF MovesPend, AttemptOf
<1>8. Enters(r, s, q, e) /\ e.t = "control_attempt"
  BY <1>1, <1>5, <1>6, <1>7 DEF Enters
<1> QED
  BY <1>8 DEF q

(* A UART transmit result enters its session.                              *)
LEMMA TxResultEnters ==
    ASSUME wire \in BOOLEAN, NEW r \in SessionT, NEW s \in Nat, NEW a \in DOMAIN r.pend,
           r.pend[a].kind = "uart_tx", r.segs \in 1..MaxSegments
    PROVE  \E e : Enters(r, s, TxResult(r, a), e) /\ e.t = "uart_tx_result"
<1> DEFINE q == TxResult(r, a)
<1> DEFINE e == NewEntry("uart_tx_result", a, r.pend[a])
<1>1. e \in EntryT /\ e.t = "uart_tx_result" /\ e.id = a /\ e.ref = r.pend[a]
  <2>1. a \in Attempts /\ r.pend[a] \in PendT
    BY SessionFields, PendElim
  <2>2. "uart_tx_result" \in EntryTypes /\ a \in IdT /\ r.pend[a] \in RefT
    BY <2>1, RefTyped, TypesListed DEF UnitTypes
  <2>3. e \in EntryT
    BY <2>2, EntryTyped
  <2> QED
    BY <2>3 DEF NewEntry
<1>2. /\ q \in SessionT /\ q.disk = r.disk /\ q.state = r.state /\ q.pred = r.pred
      /\ q.succ = r.succ /\ q.cut = r.cut /\ q.ops = r.ops
      /\ q.segs = r.segs /\ q.log = Append(r.log, e) /\ q.pend = Without(r.pend, a)
  BY TxResultEffect
<1> HIDE DEF q, e
<1>3. \A x \in DOMAIN q.pend : x \in DOMAIN r.pend /\ q.pend[x] = r.pend[x]
  BY <1>2 DEF Without, Restrict
<1>4. Extends(r, q, e)
  BY <1>1, <1>2 DEF Extends
<1>5. MovesOps(r, s, q, e)
  BY <1>1, <1>2 DEF MovesOps
<1>6. MovesPend(r, s, q, e)
  BY <1>1, <1>3 DEF MovesPend
<1>7. Enters(r, s, q, e) /\ e.t = "uart_tx_result"
  BY <1>1, <1>4, <1>5, <1>6 DEF Enters
<1> QED
  BY <1>7 DEF q

(* A control result enters its session.                                    *)
LEMMA ControlResultEnters ==
    ASSUME wire \in BOOLEAN, NEW r \in SessionT, NEW s \in Nat, NEW a \in DOMAIN r.pend,
           r.pend[a].kind = "control", r.segs \in 1..MaxSegments
    PROVE  \E e : Enters(r, s, ControlResult(r, a), e) /\ e.t = "control_result"
<1> DEFINE q == ControlResult(r, a)
<1> DEFINE e == NewEntry("control_result", a, r.pend[a])
<1>1. e \in EntryT /\ e.t = "control_result" /\ e.id = a /\ e.ref = r.pend[a]
  <2>1. a \in Attempts /\ r.pend[a] \in PendT
    BY SessionFields, PendElim
  <2>2. "control_result" \in EntryTypes /\ a \in IdT /\ r.pend[a] \in RefT
    BY <2>1, RefTyped, TypesListed DEF UnitTypes
  <2>3. e \in EntryT
    BY <2>2, EntryTyped
  <2> QED
    BY <2>3 DEF NewEntry
<1>2. /\ q \in SessionT /\ q.disk = r.disk /\ q.state = r.state /\ q.pred = r.pred
      /\ q.succ = r.succ /\ q.cut = r.cut /\ q.ops = r.ops
      /\ q.segs = r.segs /\ q.log = Append(r.log, e) /\ q.pend = Without(r.pend, a)
  BY ControlResultEffect
<1> HIDE DEF q, e
<1>3. \A x \in DOMAIN q.pend : x \in DOMAIN r.pend /\ q.pend[x] = r.pend[x]
  BY <1>2 DEF Without, Restrict
<1>4. Extends(r, q, e)
  BY <1>1, <1>2 DEF Extends
<1>5. MovesOps(r, s, q, e)
  BY <1>1, <1>2 DEF MovesOps
<1>6. MovesPend(r, s, q, e)
  BY <1>1, <1>3 DEF MovesPend
<1>7. Enters(r, s, q, e) /\ e.t = "control_result"
  BY <1>1, <1>4, <1>5, <1>6 DEF Enters
<1> QED
  BY <1>7 DEF q

(* Whatever the unit, its record enters the session.                       *)
LEMMA AdmittedEnters ==
    ASSUME wire \in BOOLEAN, NEW r \in SessionT, NEW s \in Nat, NEW u \in Units,
           UnitOK(u, r), u.t # "reopened",
           \A op \in DOMAIN r.ops : Len(r.ops[op]) > 0, r.segs \in 1..MaxSegments
    PROVE  \E e : /\ Enters(r, s, Admitted(r, s, u), e)
                  /\ e.t = "operation_started" =>
                        e.id \in used /\ ~StartedIn(ses, e.id)
<1>1. CASE u.t = "uart_rx"
  <2>1. Admitted(r, s, u) = UartReceive(r)
    BY <1>1 DEF Admitted
  <2> QED
    BY <2>1, UartReceiveEnters
<1>2. CASE u.t = "buffer_overflow"
  <2>1. Admitted(r, s, u) = BufferOverflow(r)
    BY <1>2 DEF Admitted
  <2> QED
    BY <2>1, BufferOverflowEnters
<1>3. CASE u.t = "gap"
  <2>1. Admitted(r, s, u) = ConnectionGap(r)
    BY <1>3 DEF Admitted
  <2> QED
    BY <2>1, ConnectionGapEnters
<1>4. CASE u.t = "segment_opened"
  <2>1. Admitted(r, s, u) = PublishSegment(r) /\ r.segs < MaxSegments
    BY <1>4 DEF Admitted, UnitOK
  <2> QED
    BY <2>1, PublishSegmentEnters
<1>5. CASE u.t = "operation_started"
  <2>1. /\ Admitted(r, s, u) = StartOperation(r, s, u.id)
        /\ u.id \in Ops /\ u.id \in used /\ ~StartedIn(ses, u.id)
    BY <1>5 DEF Admitted, UnitOK
  <2>2. PICK e : /\ Enters(r, s, StartOperation(r, s, u.id), e)
                 /\ e.t = "operation_started" /\ e.id = u.id
    BY <2>1, StartOperationEnters
  <2> QED
    BY <2>1, <2>2
<1>6. CASE u.t = "operation_terminal"
  <2>1. Admitted(r, s, u) = CompleteOperation(r, u.id) /\ u.id \in DOMAIN r.ops
    BY <1>6 DEF Admitted, UnitOK
  <2> QED
    BY <2>1, CompleteOperationEnters
<1>7. CASE u.t = "uart_tx_attempt"
  <2>1. Admitted(r, s, u) = TxAttempt(r, s, u.id) /\ u.id \in Attempts
    BY <1>7 DEF Admitted, UnitOK
  <2> QED
    BY <2>1, TxAttemptEnters
<1>8. CASE u.t = "control_attempt"
  <2>1. Admitted(r, s, u) = ControlAttempt(r, s, u.id) /\ u.id \in Attempts
    BY <1>8 DEF Admitted, UnitOK
  <2> QED
    BY <2>1, ControlAttemptEnters
<1>9. CASE u.t = "uart_tx_result"
  <2>1. /\ Admitted(r, s, u) = TxResult(r, u.id)
        /\ u.id \in DOMAIN r.pend /\ r.pend[u.id].kind = "uart_tx"
    BY <1>9 DEF Admitted, UnitOK
  <2> QED
    BY <2>1, TxResultEnters
<1>10. CASE u.t = "control_result"
  <2>1. /\ Admitted(r, s, u) = ControlResult(r, u.id)
        /\ u.id \in DOMAIN r.pend /\ r.pend[u.id].kind = "control"
    BY <1>10 DEF Admitted, UnitOK
  <2> QED
    BY <2>1, ControlResultEnters
<1>11. u.t \in UnitTypes
  BY DEF UnitOK
<1> QED
  BY <1>1, <1>2, <1>3, <1>4, <1>5, <1>6, <1>7, <1>8, <1>9, <1>10, <1>11 DEF UnitTypes

(* An operation something claims evidence for was started.                 *)
LEMMA SoundStarted ==
    ASSUME NEW J \in Seq(SessionT), NEW F, NEW op, NEW rs \in Seq(RangeT), SoundIn(J, F, op, rs)
    PROVE  StartedIn(J, op)
<1>1. 1 \in 1..Len(rs) /\ rs[1] \in RangeT
  <2>1. Len(rs) > 0 /\ Len(rs) \in Nat
    BY DEF SoundIn
  <2> QED
    BY <2>1
<1>2. /\ rs[1].s \in DOMAIN J /\ rs[1].from < Len(J[rs[1].s].log) /\ rs[1].from \in Nat
      /\ J[rs[1].s].log[rs[1].from + 1].t = "operation_started"
      /\ J[rs[1].s].log[rs[1].from + 1].id = op
  BY <1>1 DEF SoundIn, EntryIn, RangeT
<1>3. rs[1].from + 1 \in DOMAIN J[rs[1].s].log
  BY <1>2, LogTyped
<1> QED
  BY <1>2, <1>3 DEF StartedIn

(* An operation that ended, was interrupted or is owned was started.       *)
LEMMA ClaimedStarted ==
    ASSUME NEW J \in Seq(SessionT), NEW F, RangesIn(J, F), NEW op
    PROVE  /\ EndedIn(J, op) => StartedIn(J, op)
           /\ InterruptedIn(J, op) => StartedIn(J, op)
           /\ OwnedIn(J, op) => StartedIn(J, op)
<1>1. ASSUME EndedIn(J, op) PROVE StartedIn(J, op)
  <2>0. PICK s \in DOMAIN J : \E n \in DOMAIN J[s].log :
           J[s].log[n].t = "operation_terminal" /\ J[s].log[n].id = op
    BY <1>1 DEF EndedIn
  <2>1. PICK n \in DOMAIN J[s].log :
           J[s].log[n].t = "operation_terminal" /\ J[s].log[n].id = op
    BY <2>0
  <2>2. n \in 1..Len(J[s].log)
    BY LogTyped
  <2>3. TerminalSound(J, F, J[s].log[n])
    BY <2>2 DEF RangesIn
  <2>4. J[s].log[n].ref \in Seq(RangeT) /\ SoundIn(J, F, op, J[s].log[n].ref)
    BY <2>1, <2>3 DEF TerminalSound
  <2> QED
    BY <2>4, SoundStarted
<1>2. ASSUME InterruptedIn(J, op) PROVE StartedIn(J, op)
  <2>1. PICK s \in DOMAIN J : op \in DOMAIN J[s].cut
    BY <1>2 DEF InterruptedIn
  <2>2. J[s].cut[op] \in Seq(RangeT)
    BY <2>1, LogTyped, SessionFields, OpsElim
  <2>3. SoundIn(J, F, op, J[s].cut[op])
    BY <2>1 DEF RangesIn, CutSound
  <2> QED
    BY <2>2, <2>3, SoundStarted
<1>3. ASSUME OwnedIn(J, op) PROVE StartedIn(J, op)
  <2>1. PICK s \in DOMAIN J : op \in DOMAIN J[s].ops
    BY <1>3 DEF OwnedIn
  <2>2. J[s].ops[op] \in Seq(RangeT) /\ SoundIn(J, F, op, J[s].ops[op])
    BY <2>1, OwnedRanges
  <2> QED
    BY <2>2, SoundStarted
<1> QED
  BY <1>1, <1>2, <1>3

(* What the sessions keep when a unit enters one of them.                  *)
LEMMA EnteredKept ==
    ASSUME NEW J \in Seq(SessionT), NEW K \in Seq(SessionT), NEW s \in DOMAIN J, NEW q, NEW e,
           Enters(J[s], s, q, e), DOMAIN K = DOMAIN J, K[s] = q,
           \A x \in DOMAIN J : x # s => K[x] = J[x],
           NEW F, NEW G, F \subseteq G, s \notin F, ActiveIn(J, s),
           SessionsIn(J), RangesIn(J, F), PendsIn(J), Len(J[s].log) < Budget
    PROVE  GrownBy(J, K, s, e) /\ Kept(J, K, G)
<1> DEFINE r == J[s]
<1>1. /\ q \in SessionT /\ e \in EntryT /\ q.log = Append(r.log, e)
      /\ q.disk = r.disk /\ q.state = r.state /\ q.pred = r.pred /\ q.succ = r.succ
      /\ q.cut = r.cut /\ q.segs \in 1..MaxSegments
  BY DEF Enters, Extends
<1>2. MovesOps(r, s, q, e) /\ MovesPend(r, s, q, e)
  BY DEF Enters
<1>3. r \in SessionT /\ s \in Nat /\ Len(r.log) \in Nat
  BY LogTyped
<1>4. GrownBy(J, K, s, e)
  BY <1>1 DEF GrownBy
<1>5. /\ Len(K[s].log) = Len(r.log) + 1 /\ K[s].log[Len(r.log) + 1] = e /\ Prolongs(J, K)
      /\ EntryIn(K, s, Len(r.log)) = e /\ Len(r.log) < Len(K[s].log)
  <2>1. /\ Len(K[s].log) = Len(r.log) + 1 /\ K[s].log[Len(r.log) + 1] = e /\ Prolongs(J, K)
    BY <1>4, GrownFacts
  <2> QED
    BY <2>1, <1>3 DEF EntryIn
<1>6. Stays(J, K, F, G)
  BY DEF Stays
<1>7. ASSUME NEW op \in DOMAIN q.ops
      PROVE  OldOps(J, K, s, op) \/ OwnedSound(K, G, s, op)
  <2>1. CASE op \in DOMAIN r.ops /\ q.ops[op] = r.ops[op]
    BY <2>1 DEF OldOps
  <2>2. CASE /\ e.t = "operation_started" /\ op = e.id
             /\ q.ops[op] = <<[s |-> s, from |-> Len(r.log), to |-> None]>>
    <3> DEFINE n == Len(r.log)
    <3>1. EntryIn(K, s, n).t = "operation_started" /\ EntryIn(K, s, n).id = op
          /\ n \in Nat /\ n < Len(K[s].log)
      BY <2>2, <1>3, <1>5
    <3> HIDE DEF n
    <3>2. SoundIn(K, G, op, <<[s |-> s, from |-> n, to |-> None]>>)
      BY <3>1, FirstSound
    <3>3. SoundIn(K, G, op, q.ops[op])
      BY <2>2, <3>2 DEF n
    <3>4. q.ops[op][Len(q.ops[op])].s = s
      <4> DEFINE x == [s |-> s, from |-> Len(r.log), to |-> None]
      <4>1. x.s = s /\ q.ops[op] = <<x>>
        BY <2>2
      <4> HIDE DEF x
      <4> QED
        BY <4>1
    <3> QED
      BY <3>3, <3>4 DEF OwnedSound
  <2> QED
    BY <2>1, <2>2, <1>2 DEF MovesOps
<1>8. ASSUME NEW a \in DOMAIN q.pend
      PROVE  OldPend(J, K, s, a) \/ PendingFound(K, s, a)
  <2>1. CASE a \in DOMAIN r.pend /\ q.pend[a] = r.pend[a]
    BY <2>1 DEF OldPend
  <2>2. CASE /\ q.pend[a].s = s /\ q.pend[a].seq = Len(r.log)
             /\ e.id = a /\ e.t = AttemptOf(q.pend[a].kind)
    BY <2>2, <1>5 DEF PendingFound, OriginIn
  <2> QED
    BY <2>1, <2>2, <1>2 DEF MovesPend
<1>9. ASSUME NEW a \in DOMAIN q.pend
      PROVE  K[q.pend[a].s].disk # "gone"
  <2>1. CASE a \in DOMAIN r.pend /\ q.pend[a] = r.pend[a]
    <3>1. J[r.pend[a].s].disk # "gone" /\ r.pend[a].s \in DOMAIN J
      BY <2>1 DEF PendsIn, PendingFound, OriginIn
    <3>2. K[r.pend[a].s].disk = J[r.pend[a].s].disk
      BY <3>1, <1>1
    <3> QED
      BY <2>1, <3>1, <3>2
  <2>2. CASE q.pend[a].s = s
    BY <2>2, <1>1 DEF SessionsIn
  <2> QED
    BY <2>1, <2>2, <1>2 DEF MovesPend
<1>10. TerminalSound(K, G, e)
  <2>1. SUFFICES ASSUME e.t = "operation_terminal"
                 PROVE  e.id \in Ops /\ e.ref \in Seq(RangeT) /\ SoundIn(K, G, e.id, e.ref)
    BY DEF TerminalSound
  <2> DEFINE op == e.id
  <2> DEFINE rs == r.ops[op]
  <2>2. op \in DOMAIN r.ops /\ e.ref = ClosedAt(rs, Len(r.log) + 1)
    BY <2>1, <1>2 DEF MovesOps
  <2>3. op \in Ops /\ rs \in Seq(RangeT) /\ Len(rs) > 0 /\ SoundIn(J, F, op, rs)
    BY <2>2, OwnedRanges
  <2>4. SoundIn(K, G, op, rs)
    BY <2>3, <1>5, <1>6, SoundStays
  <2> DEFINE m == Len(r.log) + 1
  <2>5. m \in Nat
    BY <1>3
  <2> HIDE DEF m, rs
  <2>6. ClosedAt(rs, m) \in Seq(RangeT) /\ SoundIn(K, G, op, ClosedAt(rs, m))
    BY <2>3, <2>4, <2>5, ClosedFacts, ClosedSound
  <2> QED
    BY <2>2, <2>3, <2>6 DEF m
<1>11. ResultFound(K, e)
  <2>1. ASSUME NEW a \in DOMAIN r.pend
        PROVE  r.pend[a] \in PendT /\ OriginIn(K, r.pend[a], a, AttemptOf(r.pend[a].kind))
    <3>1. r.pend[a] \in PendT
      BY <1>3, SessionFields, PendElim
    <3>2. OriginIn(J, r.pend[a], a, AttemptOf(r.pend[a].kind))
      BY DEF PendsIn, PendingFound
    <3> QED
      BY <3>1, <3>2, <1>5, OriginStays
  <2>2. ASSUME e.t = "uart_tx_result"
        PROVE  e.ref \in PendT /\ OriginIn(K, e.ref, e.id, "uart_tx_attempt")
    BY <2>1, <2>2, <1>2 DEF MovesPend, AttemptOf
  <2>3. ASSUME e.t = "control_result"
        PROVE  e.ref \in PendT /\ OriginIn(K, e.ref, e.id, "control_attempt")
    BY <2>1, <2>3, <1>2 DEF MovesPend, AttemptOf
  <2> QED
    BY <2>2, <2>3 DEF ResultFound
<1>12. Kept(J, K, G)
  BY <1>1, <1>4, <1>7, <1>8, <1>9, <1>10, <1>11, GrownKept
<1> QED
  BY <1>4, <1>12

(* The reader of an operation holds sessions that exist.                   *)
LEMMA LeasesTyped ==
    ASSUME Types, RangesIn(ses, FrozenNow), NEW s \in DOMAIN ses, NEW u \in Units,
           UnitOK(u, ses[s])
    PROVE  LeasesAfter(u, s, ses[s]) \in [Ops -> SUBSET DOMAIN ses]
<1>1. lease \in [Ops -> SUBSET DOMAIN ses] /\ ses \in Seq(SessionT)
  BY DEF Types
<1>2. CASE u.t = "operation_started"
  <2>1. LeasesAfter(u, s, ses[s]) = [lease EXCEPT ![u.id] = {s}]
    BY <1>2 DEF LeasesAfter
  <2> QED
    BY <2>1, <1>1
<1>3. CASE u.t = "operation_terminal"
  <2> DEFINE R == TerminalSessions(ses[s], u.id)
  <2>1. R \subseteq DOMAIN ses
    <3> DEFINE rs == ses[s].ops[u.id]
    <3>1. u.id \in DOMAIN ses[s].ops
      BY <1>3 DEF UnitOK
    <3>2. rs \in Seq(RangeT) /\ SoundIn(ses, FrozenNow, u.id, rs)
      BY <3>1, <1>1, OwnedRanges
    <3>3. \A i \in 1..Len(rs) : rs[i].s \in DOMAIN ses
      BY <3>2 DEF SoundIn
    <3>4. DOMAIN rs = 1..Len(rs)
      BY <3>2
    <3> QED
      BY <3>3, <3>4 DEF TerminalSessions, RangeSessions
  <2> HIDE DEF R
  <2>2. LeasesAfter(u, s, ses[s])
          = [lease EXCEPT ![u.id] = IF lease[u.id] = {} THEN lease[u.id] ELSE lease[u.id] \union R]
    BY <1>3 DEF LeasesAfter, R
  <2>3. \/ LeasesAfter(u, s, ses[s]) = [lease EXCEPT ![u.id] = lease[u.id]]
        \/ LeasesAfter(u, s, ses[s]) = [lease EXCEPT ![u.id] = lease[u.id] \union R]
    BY <2>2
  <2> QED
    BY <2>1, <2>3, <1>1
<1>4. CASE u.t # "operation_started" /\ u.t # "operation_terminal"
  <2>1. LeasesAfter(u, s, ses[s]) = lease
    BY <1>4 DEF LeasesAfter
  <2> QED
    BY <2>1, <1>1
<1> QED
  BY <1>2, <1>3, <1>4

(* The commit of a unit keeps the invariant, whatever the unit.            *)
LEMMA AppendUnitKeeps ==
    ASSUME JInv, AppendUnit
    PROVE  JInv'
<1> DEFINE s == job.pred
<1> DEFINE u == job.unit
<1> DEFINE r == ses[s]
<1>1. /\ Types /\ SessionsIn(ses) /\ RangesIn(ses, FrozenNow) /\ PendsIn(ses) /\ JobOK /\ Owners
      /\ job # None /\ job.step = "append" /\ ses' = [ses EXCEPT ![s] = Admitted(r, s, u)]
      /\ lease' = LeasesAfter(u, s, r) /\ handle' = s
      /\ job' = None \/ job' = SweepJob({s})
      /\ phase' = phase /\ wire' = wire /\ baseline' = baseline /\ tails' = tails
      /\ used' = used /\ spent' = spent /\ ses \in Seq(SessionT)
  BY DEF JInv, AppendUnit, Types
<1>2. /\ Rolling /\ UnitJob /\ AppendJob
  BY <1>1 DEF JobOK, StartupJob, Rolling
<1>3. /\ Recording /\ s \in DOMAIN ses /\ ActiveIn(ses, s) /\ UnitOK(u, r)
      /\ u.t # "reopened" /\ Len(r.log) < Budget /\ job.succ \in {None, s}
  BY <1>1, <1>2 DEF UnitJob, AppendJob
<1>4. /\ r \in SessionT /\ s \in Nat /\ wire \in BOOLEAN /\ r.segs \in 1..MaxSegments
      /\ u \in Units /\ None \notin DOMAIN ses /\ Len(r.log) \in Nat
  <2>1. u \in Units
    BY <1>1, <1>2, JobFields DEF Types, Rolling
  <2> QED
    BY <2>1, <1>1, <1>3, NamesAreNumbers, LogTyped DEF Types, SessionsIn
<1>5. \A op \in DOMAIN r.ops : Len(r.ops[op]) > 0
  BY <1>1, <1>3, OwnedRanges
<1> DEFINE q == Admitted(r, s, u)
<1>6. PICK e : /\ Enters(r, s, q, e)
               /\ e.t = "operation_started" => e.id \in used /\ ~StartedIn(ses, e.id)
  BY <1>3, <1>4, <1>5, AdmittedEnters
<1>7. q \in SessionT /\ MovesOps(r, s, q, e)
  BY <1>6 DEF Enters, Extends
<1> HIDE DEF q
<1>8. ses' = [ses EXCEPT ![s] = q]
  BY <1>1 DEF q
<1>9. /\ ses' \in Seq(SessionT) /\ DOMAIN ses' = DOMAIN ses /\ ses'[s] = q
      /\ \A x \in DOMAIN ses : x # s => ses'[x] = ses[x]
  BY <1>1, <1>3, <1>7, <1>8, Updated
<1>10. job' = None \/ (job' \in Jobs /\ job' # None /\ job'.step = "sweep" /\ job'.unit = None)
  <2>1. {s} \in SUBSET Nat
    BY <1>4
  <2> QED
    BY <2>1, <1>1, SweepJobTyped
<1>11. ~Rolling' /\ Recording'
  BY <1>1, <1>3, <1>10 DEF Rolling, Recording
<1>12. FrozenNow \subseteq FrozenNow' /\ s \notin FrozenNow
  <2>1. s \notin FrozenNow
    BY <1>1, <1>3, <1>4 DEF FrozenNow
  <2>2. ASSUME NEW x \in FrozenNow PROVE x \in FrozenNow'
    <3>1. x \in DOMAIN ses /\ x # s /\ ses'[x] = ses[x]
      BY <2>1, <2>2, <1>9 DEF FrozenNow
    <3> QED
      BY <2>2, <3>1, <1>1, <1>9 DEF FrozenNow, Recording, ActiveIn
  <2> QED
    BY <2>1, <2>2
<1>13. GrownBy(ses, ses', s, e) /\ Kept(ses, ses', FrozenNow')
  <2> DEFINE G == FrozenNow'
  <2>1. FrozenNow \subseteq G
    BY <1>12
  <2> HIDE DEF G
  <2>2. GrownBy(ses, ses', s, e) /\ Kept(ses, ses', G)
    BY <2>1, <1>1, <1>3, <1>6, <1>9, <1>12, EnteredKept
  <2> QED
    BY <2>2 DEF G
<1>14. Types'
  <2>1. lease' \in [Ops -> SUBSET DOMAIN ses]
    BY <1>1, <1>3, <1>4, LeasesTyped
  <2> QED
    BY <2>1, <1>1, <1>3, <1>9, <1>10 DEF Types
<1>15. JobOK'
  BY <1>1, <1>3, <1>9, <1>10, <1>11 DEF JobOK, StartupJob, Recording
<1>16. Owners'
  <2>1. /\ \A op : StartedIn(ses', op) <=> StartedIn(ses, op) \/ (e.t = "operation_started" /\ e.id = op)
        /\ \A op : EndedIn(ses', op) <=> EndedIn(ses, op) \/ (e.t = "operation_terminal" /\ e.id = op)
        /\ \A op : InterruptedIn(ses', op) <=> InterruptedIn(ses, op)
        /\ \A x \in DOMAIN ses : ActiveIn(ses', x) <=> ActiveIn(ses, x)
    <3>1. ses \in Seq(SessionT) /\ ses' \in Seq(SessionT) /\ GrownBy(ses, ses', s, e)
      BY <1>1, <1>9, <1>13
    <3>2. \A op : StartedIn(ses', op) <=> StartedIn(ses, op) \/ (e.t = "operation_started" /\ e.id = op)
      BY <3>1, GrownFacts
    <3>3. \A op : EndedIn(ses', op) <=> EndedIn(ses, op) \/ (e.t = "operation_terminal" /\ e.id = op)
      BY <3>1, GrownFacts
    <3>4. \A op : InterruptedIn(ses', op) <=> InterruptedIn(ses, op)
      BY <3>1, GrownFacts
    <3>5. \A x \in DOMAIN ses : ActiveIn(ses', x) <=> ActiveIn(ses, x)
      BY <3>1, GrownFacts
    <3> QED
      BY <3>2, <3>3, <3>4, <3>5
  <2>2. /\ \A op : EndedIn(ses, op) => StartedIn(ses, op)
        /\ \A op : InterruptedIn(ses, op) => StartedIn(ses, op)
        /\ \A op : OwnedIn(ses, op) => StartedIn(ses, op)
    BY <1>1, ClaimedStarted
  <2>3. /\ \A op \in DOMAIN q.ops : op \in DOMAIN r.ops \/ (e.t = "operation_started" /\ op = e.id)
        /\ \A op \in DOMAIN r.ops : op \in DOMAIN q.ops \/ (e.t = "operation_terminal" /\ op = e.id)
        /\ e.t = "operation_terminal" => e.id \in DOMAIN r.ops /\ e.id \notin DOMAIN q.ops
        /\ e.t = "operation_started" => e.id \in DOMAIN q.ops /\ e.id \in used /\ ~StartedIn(ses, e.id)
    BY <1>6, <1>7 DEF MovesOps
  <2>4. s \in Main /\ Main' = {s} /\ (\A x \in Main : x \in DOMAIN ses => x = s)
    BY <1>1, <1>2, <1>3, <1>4, <1>11 DEF Main
  <2>5. \A op \in DOMAIN r.ops : ~EndedIn(ses, op) /\ ~InterruptedIn(ses, op)
    BY <2>4, <1>1, <1>3 DEF Owners, MainOwns
  <2>6. MainOnly' /\ BootEnds'
    BY <2>1, <2>4, <1>1, <1>3, <1>9 DEF Owners, MainOnly, BootEnds, Recording
  <2>7. Accounted'
    <3>1. ASSUME NEW op \in Ops, StartedIn(ses', op)
          PROVE  op \in used /\ (EndedIn(ses', op) \/ InterruptedIn(ses', op) \/ OwnedIn(ses', op))
      <4>1. CASE e.t = "operation_started" /\ op = e.id
        <5>1. OwnedIn(ses', op)
          BY <4>1, <2>3, <1>3, <1>9 DEF OwnedIn
        <5> QED
          BY <4>1, <5>1, <2>3
      <4>2. CASE StartedIn(ses, op)
        <5>1. op \in used /\ (EndedIn(ses, op) \/ InterruptedIn(ses, op) \/ OwnedIn(ses, op))
          BY <4>2, <1>1 DEF Owners, Accounted
        <5>2. ASSUME OwnedIn(ses, op)
              PROVE  OwnedIn(ses', op) \/ EndedIn(ses', op)
          <6>1. PICK x \in DOMAIN ses : op \in DOMAIN ses[x].ops
            BY <5>2 DEF OwnedIn
          <6>2. CASE x = s
            BY <6>1, <6>2, <2>1, <2>3, <1>3, <1>9 DEF OwnedIn
          <6>3. CASE x # s
            BY <6>1, <6>3, <1>9 DEF OwnedIn
          <6> QED
            BY <6>2, <6>3
        <5> QED
          BY <5>1, <5>2, <2>1
      <4> QED
        BY <3>1, <4>1, <4>2, <2>1
    <3> QED
      BY <3>1, <1>1 DEF Accounted
  <2>8. MainOwns'
    <3>1. ASSUME NEW op \in DOMAIN q.ops
          PROVE  ~EndedIn(ses', op) /\ ~InterruptedIn(ses', op)
      <4>1. CASE op \in DOMAIN r.ops
        BY <3>1, <4>1, <2>1, <2>3, <2>5
      <4>2. CASE e.t = "operation_started" /\ op = e.id
        BY <3>1, <4>2, <2>1, <2>2, <2>3
      <4> QED
        BY <4>1, <4>2, <2>3
    <3> QED
      BY <3>1, <2>4, <1>9 DEF MainOwns
  <2>9. EndedOnce'
    <3>1. SUFFICES ASSUME spent.swallowed = 0, NEW op \in Ops, EndedIn(ses', op)
                   PROVE  ~InterruptedIn(ses', op) /\ ~OwnedIn(ses', op)
      BY <1>1 DEF EndedOnce
    <3>2. CASE EndedIn(ses, op)
      <4>1. ~InterruptedIn(ses, op) /\ ~OwnedIn(ses, op)
        BY <3>1, <3>2, <1>1 DEF Owners, EndedOnce
      <4>2. ~OwnedIn(ses', op)
        <5>1. ASSUME OwnedIn(ses', op) PROVE FALSE
          <6>1. PICK x \in DOMAIN ses' : op \in DOMAIN ses'[x].ops
            BY <5>1 DEF OwnedIn
          <6>2. op \in DOMAIN ses[x].ops \/ (e.t = "operation_started" /\ op = e.id)
            BY <6>1, <2>3, <1>9
          <6> QED
            BY <6>1, <6>2, <4>1, <3>2, <2>2, <2>3, <1>9 DEF OwnedIn
        <5> QED
          BY <5>1
      <4> QED
        BY <4>1, <4>2, <2>1
    <3>3. CASE e.t = "operation_terminal" /\ e.id = op
      <4>1. op \in DOMAIN r.ops /\ op \notin DOMAIN q.ops
        BY <3>3, <2>3
      <4>2. ASSUME NEW x \in DOMAIN ses, x # s PROVE op \notin DOMAIN ses'[x].ops
        <5>1. ~ActiveIn(ses, x)
          BY <4>2, <3>1, <2>4, <1>1, <1>3 DEF Owners, MainOnly
        <5>2. ses'[x].ops = Empty
          BY <4>2, <5>1, <1>1, <1>9 DEF SessionsIn
        <5> QED
          BY <5>2, EmptyMaps
      <4>3. ~OwnedIn(ses', op)
        BY <4>1, <4>2, <1>9 DEF OwnedIn
      <4> QED
        BY <4>1, <4>3, <2>1, <2>5
    <3> QED
      BY <3>1, <3>2, <3>3, <2>1
  <2> QED
    BY <2>6, <2>7, <2>8, <2>9 DEF Owners
<1> QED
  BY <1>13, <1>14, <1>15, <1>16 DEF JInv, Kept

-----------------------------------------------------------------------------
(***************************************************************************)
(* The invariant holds throughout, and what it says of the journal.        *)
(***************************************************************************)
(* A service that has never run: no session, recovery about to look.       *)
LEMMA InitKeeps ==
    ASSUME Init
    PROVE  JInv
<1>1. /\ ses = <<>> /\ handle = None /\ phase = "boot" /\ wire = TRUE /\ baseline = None
      /\ job = Job("recover", None, None, 1, {}) /\ lease = [op \in Ops |-> {}]
      /\ tails = {} /\ used = {}
      /\ spent = [uart |-> 0, gap |-> 0, loss |-> 0, mark |-> 0, fault |-> 0, crash |-> 0,
                  swallowed |-> 0]
  BY DEF Init
<1>2. /\ job \in Jobs /\ job # None /\ job.step = "recover" /\ job.unit = None /\ job.succ = 1
  BY <1>1, RecoverJobTyped
<1>3. DOMAIN ses = {} /\ ses \in Seq(SessionT) /\ Len(ses) = 0
  BY <1>1
<1>4. spent \in SpentT /\ spent.swallowed = 0
  BY <1>1 DEF SpentT
<1>5. Types
  BY <1>1, <1>2, <1>3, <1>4 DEF Types
<1>6. SessionsIn(ses) /\ RangesIn(ses, FrozenNow) /\ PendsIn(ses)
  BY <1>3 DEF SessionsIn, RangesIn, PendsIn
<1>7. JobOK
  BY <1>1, <1>2, <1>3 DEF JobOK, StartupJob, Rolling
<1>8. Owners
  BY <1>1, <1>3 DEF Owners, MainOnly, BootEnds, Accounted, MainOwns, EndedOnce, Recording,
                    StartedIn, EndedIn
<1> QED
  BY <1>5, <1>6, <1>7, <1>8 DEF JInv

(* Every step of the journal keeps the invariant.                          *)
LEMMA StepKeeps ==
    ASSUME JInv, [JournalNext]_vars
    PROVE  JInv'
<1>1. CASE JournalNext
  <2>1. CASE RecoverSession \/ RecoveryDone \/ RecoveryFails \/ CreateFirst
    BY <2>1, RecoverSessionKeeps, RecoveryDoneKeeps, RecoveryFailsKeeps, CreateFirstKeeps
  <2>2. CASE Offer \/ AppendUnit \/ AppendFails \/ FindEnded \/ InputError \/ FailSession
    BY <2>2, OfferKeeps, AppendUnitKeeps, WriteFailsKeeps, FindEndedKeeps, InputErrorKeeps,
       EndHandleKeeps
  <2>3. CASE RolloverCreate \/ RolloverAnnounce \/ RolloverContinue \/ RolloverLink \/ RolloverFails
    BY <2>3, RolloverCreateKeeps, RolloverAnnounceKeeps, RolloverContinueKeeps,
       RolloverLinkKeeps, WriteFailsKeeps
  <2>4. CASE Sweep \/ SweepFails \/ CloseReader \/ MarkBaseline \/ ClearBaseline
    BY <2>4, SweepKeeps, SweepFailsKeeps, CloseReaderKeeps, BaselineKeeps
  <2>5. CASE Shutdown \/ Restart
    BY <2>5, EndHandleKeeps, RestartKeeps
  <2> QED
    BY <1>1, <2>1, <2>2, <2>3, <2>4, <2>5 DEF JournalNext
<1>2. CASE UNCHANGED vars
  <2>1. /\ ses' = ses /\ handle' = handle /\ phase' = phase /\ job' = job /\ wire' = wire
        /\ baseline' = baseline /\ lease' = lease /\ tails' = tails /\ used' = used
        /\ spent' = spent
    BY <1>2 DEF vars
  <2>2. Types /\ JobOK /\ Owners
    BY DEF JInv
  <2>3. Types'
    BY <2>1, <2>2 DEF Types
  <2>4. FrozenNow' = FrozenNow
    BY <2>1 DEF FrozenNow, Recording
  <2>5. Main' = Main /\ Rolling' = Rolling /\ Recording' = Recording
    BY <2>1 DEF Main, Rolling, Recording
  <2>6. JobOK'
    BY <2>1, <2>2, <2>5 DEF JobOK, StartupJob, UnitJob, UnitOK, AppendJob, FollowUpJob,
                            RolloverJob, SuccessorJob, AnnounceJob, ContinueJob
  <2>7. Owners'
    BY <2>1, <2>2, <2>5 DEF Owners, MainOnly, BootEnds, Accounted, MainOwns, EndedOnce
  <2> QED
    BY <2>1, <2>3, <2>4, <2>6, <2>7, SameSessions
<1> QED
  BY <1>1, <1>2

(* The invariant gives the shape of the state.                             *)
LEMMA TypesHold == JInv => TypeOK
<1>1. SUFFICES ASSUME JInv PROVE TypeOK
  OBVIOUS
<1>2. Types /\ SessionsIn(ses) /\ RangesIn(ses, FrozenNow) /\ ses \in Seq(SessionT)
  BY <1>1 DEF JInv, Types
<1>3. ASSUME NEW s \in DOMAIN ses
      PROVE  /\ ses[s].state \in States /\ ses[s].disk \in {"whole", "damaged", "gone"}
             /\ Len(ses[s].log) <= Budget /\ ses[s].segs \in 1..MaxSegments
  BY <1>2, LogTyped, SessionFields DEF SessionsIn, DiskT
<1>4. ASSUME NEW s \in DOMAIN ses, NEW op \in DOMAIN ses[s].ops
      PROVE  ses[s].ops[op] \in Seq(EvidenceRange)
  <2> DEFINE rs == ses[s].ops[op]
  <2>1. rs \in Seq(RangeT) /\ Len(rs) \in Nat /\ SoundIn(ses, FrozenNow, op, rs)
    BY <1>2, <1>4, OwnedRanges
  <2> HIDE DEF rs
  <2>2. ASSUME NEW i \in 1..Len(rs)
        PROVE  rs[i] \in EvidenceRange
    <3>1. rs[i] \in RangeT /\ rs[i].s \in DOMAIN ses
      BY <2>1 DEF SoundIn
    <3> QED
      BY <3>1 DEF RangeT, EvidenceRange
  <2>3. rs \in Seq(EvidenceRange)
    BY <2>1, <2>2
  <2> QED
    BY <2>3 DEF rs
<1> QED
  BY <1>2, <1>3, <1>4 DEF TypeOK, Types

(* Whoever claims evidence for an operation claims sound ranges.           *)
LEMMA ClaimsSound ==
    ASSUME JInv, NEW op \in Ops, NEW rs \in ClaimedRanges(op)
    PROVE  SoundIn(ses, FrozenNow, op, rs)
<1>1. Types /\ RangesIn(ses, FrozenNow) /\ ses \in Seq(SessionT)
  BY DEF JInv, Types
<1>2. CASE \E s \in DOMAIN ses : op \in DOMAIN ses[s].ops /\ rs = ses[s].ops[op]
  BY <1>1, <1>2 DEF RangesIn, OwnedSound
<1>3. CASE \E s \in DOMAIN ses : op \in DOMAIN ses[s].cut /\ rs = ses[s].cut[op]
  BY <1>1, <1>3 DEF RangesIn, CutSound
<1>4. CASE \E s \in DOMAIN ses : \E m \in 0..(Budget - 1) :
              /\ m < Len(ses[s].log) /\ Entry(s, m).t = "operation_terminal"
              /\ Entry(s, m).id = op /\ rs = Entry(s, m).ref
  <2>1. PICK s \in DOMAIN ses, m \in 0..(Budget - 1) :
              /\ m < Len(ses[s].log) /\ Entry(s, m).t = "operation_terminal"
              /\ Entry(s, m).id = op /\ rs = Entry(s, m).ref
    BY <1>4
  <2>2. m + 1 \in 1..Len(ses[s].log)
    BY <2>1, <1>1, LogTyped
  <2>3. TerminalSound(ses, FrozenNow, ses[s].log[m + 1])
    BY <2>2, <1>1 DEF RangesIn
  <2> QED
    BY <2>1, <2>3 DEF TerminalSound, Entry
<1> QED
  BY <1>2, <1>3, <1>4 DEF ClaimedRanges

(* The invariant gives contiguous ranges, wherever they are claimed.       *)
LEMMA RangesHold == JInv => RangesContiguous
<1>1. SUFFICES ASSUME JInv, NEW op \in Ops, NEW rs \in ClaimedRanges(op)
               PROVE  /\ Entry(rs[1].s, rs[1].from).t = "operation_started"
                      /\ Entry(rs[1].s, rs[1].from).id = op
                      /\ \A i \in 2..Len(rs) :
                            /\ ses[rs[i].s].pred = rs[i - 1].s
                            /\ rs[i - 1].to = Len(ses[rs[i - 1].s].log)
                            /\ Entry(rs[i].s, rs[i].from).t = "operation_continued"
                            /\ Entry(rs[i].s, rs[i].from).id = op
                            /\ \A n \in 0..(rs[i].from - 1) : Entry(rs[i].s, n).t \in Bookkeeping
  BY DEF RangesContiguous
<1>2. SoundIn(ses, FrozenNow, op, rs)
  BY <1>1, ClaimsSound
<1> QED
  BY <1>2 DEF SoundIn, EntryIn, Entry

(* The invariant gives every started operation one owner or one end.       *)
LEMMA OwnersHold == JInv => OneOwner
<1>1. SUFFICES ASSUME JInv, phase = "running", job = None, spent.swallowed # 1
               PROVE  /\ \A s \in Existing : ses[s].state = "active" => s = handle
                      /\ \A op \in Ops : Started(op) =>
                            /\ op \in DOMAIN ses[handle].ops => ~Ended(op) /\ ~Interrupted(op)
                            /\ op \notin DOMAIN ses[handle].ops => Ended(op) \/ Interrupted(op)
                            /\ spent.swallowed = 0 => ~(Ended(op) /\ Interrupted(op))
  BY DEF OneOwner
<1>2. /\ SessionsIn(ses) /\ Owners /\ Recording /\ ~Rolling /\ Main = {handle}
      /\ handle \in DOMAIN ses
  BY <1>1 DEF JInv, JobOK, Recording, Rolling, Main
<1>3. \A s \in DOMAIN ses : ActiveIn(ses, s) => s = handle
  BY <1>1, <1>2 DEF Owners, MainOnly
<1>4. ASSUME NEW op \in Ops, StartedIn(ses, op)
      PROVE  /\ op \in DOMAIN ses[handle].ops => ~EndedIn(ses, op) /\ ~InterruptedIn(ses, op)
             /\ op \notin DOMAIN ses[handle].ops => EndedIn(ses, op) \/ InterruptedIn(ses, op)
             /\ spent.swallowed = 0 => ~(EndedIn(ses, op) /\ InterruptedIn(ses, op))
  <2>1. op \in DOMAIN ses[handle].ops => ~EndedIn(ses, op) /\ ~InterruptedIn(ses, op)
    BY <1>2 DEF Owners, MainOwns
  <2>2. OwnedIn(ses, op) => op \in DOMAIN ses[handle].ops
    BY <1>2, <1>3, EmptyMaps DEF OwnedIn, SessionsIn
  <2>3. EndedIn(ses, op) \/ InterruptedIn(ses, op) \/ OwnedIn(ses, op)
    BY <1>2, <1>4 DEF Owners, Accounted
  <2>4. spent.swallowed = 0 => ~(EndedIn(ses, op) /\ InterruptedIn(ses, op))
    BY <1>2 DEF Owners, EndedOnce
  <2> QED
    BY <2>1, <2>2, <2>3, <2>4
<1>5. \A op : /\ Started(op) <=> StartedIn(ses, op)
              /\ Ended(op) <=> EndedIn(ses, op)
              /\ Interrupted(op) <=> InterruptedIn(ses, op)
  BY DEF Started, StartedIn, Ended, EndedIn, Interrupted, InterruptedIn
<1> QED
  BY <1>3, <1>4, <1>5 DEF ActiveIn, Existing

(* The invariant gives mutual links that end their session.                *)
LEMMA LinksHold == JInv => LinksFormPaths
<1>1. SUFFICES ASSUME JInv, NEW s \in DOMAIN ses, ses[s].succ # None
               PROVE  /\ ses[s].state = "completed" /\ ses[ses[s].succ].pred = s
                      /\ ses[s].ops = Empty /\ ses[s].pend = Empty
  BY DEF LinksFormPaths
<1>2. /\ ses[s].state = "completed" /\ ses[ses[s].succ].pred = s /\ ses[s].pend = Empty
  BY <1>1 DEF JInv, SessionsIn
<1>3. ~ActiveIn(ses, s)
  BY <1>2 DEF ActiveIn
<1>4. ses[s].ops = Empty
  BY <1>1, <1>3 DEF JInv, SessionsIn
<1> QED
  BY <1>2, <1>4

(* The invariant gives every result, and every pending attempt, its        *)
(* record.                                                                 *)
LEMMA ResultsHold == JInv => ResultsResolve
<1>1. SUFFICES ASSUME JInv, NEW s \in DOMAIN ses
      PROVE  /\ \A n \in DOMAIN ses[s].log :
                   ses[s].log[n].t \in {"uart_tx_result", "control_result"} =>
                   LET ref == ses[s].log[n].ref
                   IN  Entry(ref.s, ref.seq).t = (IF ses[s].log[n].t = "uart_tx_result"
                                                    THEN "uart_tx_attempt" ELSE "control_attempt")
                       /\ Entry(ref.s, ref.seq).id = ses[s].log[n].id
             /\ Exists(s) /\ ses[s].state = "active" =>
                   \A a \in DOMAIN ses[s].pend :
                      Exists(ses[s].pend[a].s)
                      /\ Entry(ses[s].pend[a].s, ses[s].pend[a].seq).id = a
  BY DEF ResultsResolve
<1>2. PendsIn(ses) /\ ses \in Seq(SessionT)
  BY <1>1 DEF JInv, Types
<1>3. ASSUME NEW n \in DOMAIN ses[s].log
      PROVE  ResultFound(ses, ses[s].log[n])
  BY <1>2, <1>3, LogTyped DEF PendsIn
<1>4. ASSUME NEW a \in DOMAIN ses[s].pend, ses[s].state = "active"
      PROVE  Exists(ses[s].pend[a].s) /\ Entry(ses[s].pend[a].s, ses[s].pend[a].seq).id = a
  BY <1>2, <1>4 DEF PendsIn, PendingFound, OriginIn, ActiveIn, Exists, Entry, EntryIn
<1> QED
  BY <1>3, <1>4 DEF ResultFound, OriginIn, Entry, EntryIn

(* However rollovers, failures, crashes and recovery interleave, the       *)
(* sessions form one journal: every operation keeps its whole evidence     *)
(* across rollovers, has one owner, links are mutual and results find the  *)
(* attempt they answer (store.py: the rollover, recovery and the admission *)
(* of every unit).                                                         *)
THEOREM JournalWhole == JournalSpec => []JournalIsWhole
<1>1. Init => JInv
  BY InitKeeps
<1>2. JInv /\ [JournalNext]_vars => JInv'
  BY StepKeeps
<1>3. JInv => JournalIsWhole
  BY TypesHold, RangesHold, OwnersHold, LinksHold, ResultsHold DEF JournalIsWhole
<1> QED
  BY <1>1, <1>2, <1>3, PTL DEF JournalSpec

-----------------------------------------------------------------------------
(***************************************************************************)
(* The retention pass: it deletes nothing that is needed and everything    *)
(* that may go, and offers as the baseline only a session without an       *)
(* unobserved interval (RetentionIsSound).                                 *)
(*                                                                         *)
(* The argument adds two parts to the inductive invariant JInv.  Needed    *)
(* says which sessions are whole, and that the reader of an operation that *)
(* ended holds all of its evidence.                                        *)
(* Watched follows the interval in which the source was away: while the    *)
(* recorder appends to a session that has no gap on record, all its        *)
(* records were made with the source connected, and once the source is     *)
(* gone the session has a gap on record, or its record is on the way.      *)
(***************************************************************************)
(***************************************************************************)
(* What is needed, of any list of sessions J, leases L, tail leases V and  *)
(* baseline b.                                                             *)
(***************************************************************************)
WholeIn(J, X) == \A x \in X : J[x].disk = "whole"
OpsWhole(J, s) == \A op \in DOMAIN J[s].ops : WholeIn(J, RangeSessions(J[s].ops[op]))
TerminalHeld(J, L, op) ==
    \A s \in DOMAIN J : \A n \in 1..Len(J[s].log) :
        J[s].log[n].t = "operation_terminal" /\ J[s].log[n].id = op =>
            RangeSessions(J[s].log[n].ref) \subseteq L[op]
ReaderHolds(J, L) ==
    \A op \in Ops : L[op] # {} /\ EndedIn(J, op) =>
        ~InterruptedIn(J, op) /\ TerminalHeld(J, L, op)
NeededIn(J, L, V, b) ==
    /\ \A s \in DOMAIN J : OpsWhole(J, s)
    /\ \A op \in Ops : WholeIn(J, L[op])
    /\ ReaderHolds(J, L)
    /\ WholeIn(J, V)
    /\ b # None => J[b].disk = "whole"

Needed ==
    /\ NeededIn(ses, lease, tails, baseline)
    /\ phase \in {"boot", "down"} => \A op \in Ops : lease[op] = {}

(* The sessions of the ranges an operation's owner claims exist.           *)
LEMMA RangesExist ==
    ASSUME NEW J \in Seq(SessionT), NEW F, RangesIn(J, F), NEW s \in DOMAIN J,
           NEW op \in DOMAIN J[s].ops
    PROVE  /\ RangeSessions(J[s].ops[op]) \subseteq DOMAIN J
           /\ J[s].ops[op] \in Seq(RangeT) /\ Len(J[s].ops[op]) > 0
<1> DEFINE rs == J[s].ops[op]
<1>1. rs \in Seq(RangeT) /\ Len(rs) > 0 /\ SoundIn(J, F, op, rs)
  BY OwnedRanges
<1>2. DOMAIN rs = 1..Len(rs)
  BY <1>1
<1>3. \A i \in 1..Len(rs) : rs[i].s \in DOMAIN J
  BY <1>1 DEF SoundIn
<1> HIDE DEF rs
<1>4. RangeSessions(rs) \subseteq DOMAIN J
  BY <1>2, <1>3 DEF RangeSessions
<1> QED
  BY <1>1, <1>4 DEF rs

(* Closing the last range changes none of the sessions it lies in.         *)
LEMMA ClosedSessions ==
    ASSUME NEW rs \in Seq(RangeT), Len(rs) > 0, NEW n \in Nat
    PROVE  RangeSessions(ClosedAt(rs, n)) = RangeSessions(rs)
<1> DEFINE ts == ClosedAt(rs, n)
<1>1. DOMAIN ts = DOMAIN rs /\ \A i \in 1..Len(rs) : ts[i].s = rs[i].s
  BY ClosedFacts
<1>2. DOMAIN rs = 1..Len(rs)
  OBVIOUS
<1> HIDE DEF ts
<1>3. RangeSessions(ts) = RangeSessions(rs)
  BY <1>1, <1>2 DEF RangeSessions
<1> QED
  BY <1>3 DEF ts

(* Sessions whose files stay whole.                                        *)
LEMMA WholeStays ==
    ASSUME NEW J, NEW K, NEW X, WholeIn(J, X), \A x \in X : K[x].disk = J[x].disk
    PROVE  WholeIn(K, X)
  BY DEF WholeIn

(* What a session's operations need stays whole.                           *)
LEMMA OpsWholeStays ==
    ASSUME NEW J \in Seq(SessionT), NEW K, NEW F, RangesIn(J, F), NEW s \in DOMAIN J,
           K[s].ops = J[s].ops, OpsWhole(J, s),
           \A op \in DOMAIN J[s].ops : \A x \in RangeSessions(J[s].ops[op]) :
               x \in DOMAIN J => K[x].disk = J[x].disk
    PROVE  OpsWhole(K, s)
<1>1. ASSUME NEW op \in DOMAIN K[s].ops
      PROVE  WholeIn(K, RangeSessions(K[s].ops[op]))
  <2>1. op \in DOMAIN J[s].ops
    OBVIOUS
  <2>2. RangeSessions(J[s].ops[op]) \subseteq DOMAIN J
    BY <2>1, RangesExist
  <2>3. WholeIn(J, RangeSessions(J[s].ops[op]))
    BY <2>1 DEF OpsWhole
  <2>4. WholeIn(K, RangeSessions(J[s].ops[op]))
    BY <2>1, <2>2, <2>3, WholeStays
  <2> QED
    BY <2>4
<1> QED
  BY <1>1 DEF OpsWhole

-----------------------------------------------------------------------------
(***************************************************************************)
(* What each way of changing the sessions leaves of it.                    *)
(***************************************************************************)
(* Ending sessions whose operations have not ended.                        *)
LEMMA TerminatedNeeded ==
    ASSUME NEW J \in Seq(SessionT), NEW K \in Seq(SessionT), NEW T, Terminated(J, K, T),
           NEW F, RangesIn(J, F), NEW L \in [Ops -> SUBSET DOMAIN J], NEW V \in SUBSET DOMAIN J,
           NEW b, b # None => b \in DOMAIN J, NeededIn(J, L, V, b),
           \A op \in Ops : L[op] # {} => \A s \in T : op \in DOMAIN J[s].ops => ~EndedIn(J, op)
    PROVE  NeededIn(K, L, V, b)
<1>1. /\ DOMAIN K = DOMAIN J
      /\ \A s \in DOMAIN J :
            /\ K[s].disk = J[s].disk /\ K[s].log = J[s].log
            /\ s \in T => DOMAIN K[s].ops = {}
            /\ s \notin T => K[s] = J[s]
  BY TerminatedFacts
<1>2. \A op : EndedIn(K, op) <=> EndedIn(J, op)
  BY TerminatedFacts
<1>3. ASSUME NEW s \in DOMAIN K PROVE OpsWhole(K, s)
  <2>1. CASE s \in T
    BY <2>1, <1>1 DEF OpsWhole
  <2>2. CASE s \notin T
    <3>1. s \in DOMAIN J /\ OpsWhole(J, s) /\ K[s] = J[s]
      BY <2>2, <1>1 DEF NeededIn
    <3> QED
      BY <3>1, <1>1, OpsWholeStays
  <2> QED
    BY <2>1, <2>2
<1>4. ASSUME NEW op \in Ops PROVE WholeIn(K, L[op])
  BY <1>1, WholeStays DEF NeededIn
<1>5. ReaderHolds(K, L)
  <2>1. SUFFICES ASSUME NEW op \in Ops, L[op] # {}, EndedIn(K, op)
                 PROVE  ~InterruptedIn(K, op) /\ TerminalHeld(K, L, op)
    BY DEF ReaderHolds
  <2>2. EndedIn(J, op) /\ ~InterruptedIn(J, op) /\ TerminalHeld(J, L, op)
    BY <2>1, <1>2 DEF NeededIn, ReaderHolds
  <2>3. TerminalHeld(K, L, op)
    BY <2>2, <1>1 DEF TerminalHeld
  <2>4. ASSUME NEW s \in DOMAIN J, op \in DOMAIN K[s].cut PROVE FALSE
    <3>1. op \notin DOMAIN J[s].cut
      BY <2>2 DEF InterruptedIn
    <3>2. s \in T
      BY <2>4, <3>1, <1>1
    <3>3. K[s].cut = CutOf(J[s])
      BY <3>2 DEF Terminated, EndedFrom
    <3>4. op \in DOMAIN J[s].ops
      BY <2>4, <3>1, <3>3 DEF CutOf
    <3> QED
      BY <2>1, <2>2, <3>2, <3>4
  <2>5. ~InterruptedIn(K, op)
    BY <2>4, <1>1 DEF InterruptedIn
  <2> QED
    BY <2>3, <2>5
<1>6. WholeIn(K, V)
  BY <1>1, WholeStays DEF NeededIn
<1>7. b # None => K[b].disk = "whole"
  BY <1>1 DEF NeededIn
<1> QED
  BY <1>3, <1>4, <1>5, <1>6, <1>7 DEF NeededIn

(* A session that begins owns nothing yet.                                 *)
LEMMA CreatedNeeded ==
    ASSUME NEW J \in Seq(SessionT), NEW K \in Seq(SessionT), NEW p \in NameT, Created(J, K, p),
           NEW F, RangesIn(J, F), NEW L \in [Ops -> SUBSET DOMAIN J], NEW V \in SUBSET DOMAIN J,
           NEW b, b # None => b \in DOMAIN J, NeededIn(J, L, V, b)
    PROVE  NeededIn(K, L, V, b)
<1> DEFINE g == Len(J) + 1
<1>1. /\ DOMAIN K = DOMAIN J \union {g} /\ g \notin DOMAIN J
      /\ \A s \in DOMAIN J : K[s] = J[s] /\ s # g
  BY CreatedFacts
<1>2. DOMAIN K[g].ops = {} /\ Len(K[g].log) = 0
  BY CreatedFacts
<1>3. /\ \A op : EndedIn(K, op) <=> EndedIn(J, op)
      /\ \A op : InterruptedIn(K, op) <=> InterruptedIn(J, op)
  BY CreatedFacts
<1> HIDE DEF g
<1>4. ASSUME NEW s \in DOMAIN K PROVE OpsWhole(K, s)
  <2>1. CASE s = g
    BY <2>1, <1>2 DEF OpsWhole
  <2>2. CASE s # g
    <3>1. s \in DOMAIN J /\ OpsWhole(J, s) /\ K[s] = J[s]
      BY <2>2, <1>1 DEF NeededIn
    <3> QED
      BY <3>1, <1>1, OpsWholeStays
  <2> QED
    BY <2>1, <2>2
<1>5. ASSUME NEW op \in Ops PROVE WholeIn(K, L[op])
  BY <1>1, WholeStays DEF NeededIn
<1>6. ReaderHolds(K, L)
  <2>1. SUFFICES ASSUME NEW op \in Ops, L[op] # {}, EndedIn(K, op)
                 PROVE  ~InterruptedIn(K, op) /\ TerminalHeld(K, L, op)
    BY DEF ReaderHolds
  <2>2. ~InterruptedIn(J, op) /\ TerminalHeld(J, L, op)
    BY <2>1, <1>3 DEF NeededIn, ReaderHolds
  <2>3. ASSUME NEW s \in DOMAIN K, NEW n \in 1..Len(K[s].log)
        PROVE  s \in DOMAIN J /\ K[s] = J[s]
    BY <1>1, <1>2
  <2>4. TerminalHeld(K, L, op)
    BY <2>2, <2>3 DEF TerminalHeld
  <2> QED
    BY <2>2, <2>4, <1>3
<1>7. WholeIn(K, V)
  BY <1>1, WholeStays DEF NeededIn
<1>8. b # None => K[b].disk = "whole"
  BY <1>1 DEF NeededIn
<1> QED
  BY <1>4, <1>5, <1>6, <1>7, <1>8 DEF NeededIn

(* The predecessor of a rollover gives its operations up.                  *)
LEMMA LinkedNeeded ==
    ASSUME NEW J \in Seq(SessionT), NEW K \in Seq(SessionT), NEW p, NEW q, LinkedTo(J, K, p, q),
           DOMAIN J[p].ops \subseteq DOMAIN J[q].ops,
           NEW F, RangesIn(J, F), NEW L \in [Ops -> SUBSET DOMAIN J], NEW V \in SUBSET DOMAIN J,
           NEW b, b # None => b \in DOMAIN J, NeededIn(J, L, V, b)
    PROVE  NeededIn(K, L, V, b)
<1>1. /\ DOMAIN K = DOMAIN J
      /\ \A s \in DOMAIN J :
            /\ K[s].disk = J[s].disk /\ K[s].log = J[s].log
            /\ s # p => K[s] = J[s]
      /\ DOMAIN K[p].ops = {}
  BY LinkedFacts
<1>2. /\ \A op : EndedIn(K, op) <=> EndedIn(J, op)
      /\ \A op : InterruptedIn(K, op) <=> InterruptedIn(J, op)
  BY LinkedFacts
<1>3. ASSUME NEW s \in DOMAIN K PROVE OpsWhole(K, s)
  <2>1. CASE s = p
    BY <2>1, <1>1 DEF OpsWhole
  <2>2. CASE s # p
    <3>1. s \in DOMAIN J /\ OpsWhole(J, s) /\ K[s] = J[s]
      BY <2>2, <1>1 DEF NeededIn
    <3> QED
      BY <3>1, <1>1, OpsWholeStays
  <2> QED
    BY <2>1, <2>2
<1>4. ASSUME NEW op \in Ops PROVE WholeIn(K, L[op])
  BY <1>1, WholeStays DEF NeededIn
<1>5. ReaderHolds(K, L)
  BY <1>1, <1>2 DEF NeededIn, ReaderHolds, TerminalHeld
<1>6. WholeIn(K, V)
  BY <1>1, WholeStays DEF NeededIn
<1>7. b # None => K[b].disk = "whole"
  BY <1>1 DEF NeededIn
<1> QED
  BY <1>3, <1>4, <1>5, <1>6, <1>7 DEF NeededIn

(* A pass that keeps what is protected keeps what is needed.               *)
LEMMA DeletedNeeded ==
    ASSUME NEW J \in Seq(SessionT), NEW K \in Seq(SessionT), NEW D, Deleted(J, K, D),
           NEW F, RangesIn(J, F), NEW L \in [Ops -> SUBSET DOMAIN J], NEW V \in SUBSET DOMAIN J,
           NEW b, b # None => b \in DOMAIN J /\ b \notin D, NeededIn(J, L, V, b),
           \A s \in DOMAIN J : \A op \in DOMAIN J[s].ops :
               RangeSessions(J[s].ops[op]) \cap D = {},
           \A op \in Ops : L[op] \cap D = {}, V \cap D = {}
    PROVE  NeededIn(K, L, V, b)
<1>1. /\ DOMAIN K = DOMAIN J
      /\ \A s \in DOMAIN J :
            /\ K[s].log = J[s].log /\ K[s].ops = J[s].ops
            /\ s \notin D => K[s].disk = J[s].disk
  BY DEF Deleted
<1>2. /\ \A op : EndedIn(K, op) <=> EndedIn(J, op)
      /\ \A op : InterruptedIn(K, op) <=> InterruptedIn(J, op)
  BY DeletedFacts
<1>3. ASSUME NEW s \in DOMAIN K PROVE OpsWhole(K, s)
  <2>1. s \in DOMAIN J /\ OpsWhole(J, s) /\ K[s].ops = J[s].ops
    BY <1>1 DEF NeededIn
  <2>2. \A op \in DOMAIN J[s].ops : \A x \in RangeSessions(J[s].ops[op]) :
            x \in DOMAIN J => K[x].disk = J[x].disk
    BY <2>1, <1>1
  <2> QED
    BY <2>1, <2>2, OpsWholeStays
<1>4. ASSUME NEW op \in Ops PROVE WholeIn(K, L[op])
  <2>1. WholeIn(J, L[op]) /\ \A x \in L[op] : K[x].disk = J[x].disk
    BY <1>1 DEF NeededIn
  <2> QED
    BY <2>1, WholeStays
<1>5. ReaderHolds(K, L)
  BY <1>1, <1>2 DEF NeededIn, ReaderHolds, TerminalHeld
<1>6. WholeIn(K, V)
  <2>1. WholeIn(J, V) /\ \A x \in V : K[x].disk = J[x].disk
    BY <1>1 DEF NeededIn
  <2> QED
    BY <2>1, WholeStays
<1>7. b # None => K[b].disk = "whole"
  BY <1>1 DEF NeededIn
<1> QED
  BY <1>3, <1>4, <1>5, <1>6, <1>7 DEF NeededIn

(* One record more: what the session owns afterwards, and the leases that  *)
(* go with it, decide.                                                     *)
LEMMA GrownNeeded ==
    ASSUME NEW J \in Seq(SessionT), NEW K \in Seq(SessionT), NEW g, NEW e, GrownBy(J, K, g, e),
           NEW F, RangesIn(J, F), NEW L, NEW M, NEW V \in SUBSET DOMAIN J,
           NEW b, b # None => b \in DOMAIN J, NeededIn(J, L, V, b),
           \A op \in DOMAIN K[g].ops : WholeIn(J, RangeSessions(K[g].ops[op])),
           \A op \in DOMAIN K[g].ops : RangeSessions(K[g].ops[op]) \subseteq DOMAIN J,
           M \in [Ops -> SUBSET DOMAIN J], \A op \in Ops : WholeIn(J, M[op]), ReaderHolds(K, M)
    PROVE  NeededIn(K, M, V, b)
<1>1. /\ DOMAIN K = DOMAIN J
      /\ \A s \in DOMAIN J : K[s].disk = J[s].disk
      /\ \A s \in DOMAIN J : s # g => K[s] = J[s]
  BY GrownFacts
<1>2. ASSUME NEW s \in DOMAIN K PROVE OpsWhole(K, s)
  <2>1. CASE s = g
    <3>1. ASSUME NEW op \in DOMAIN K[s].ops
          PROVE  WholeIn(K, RangeSessions(K[s].ops[op]))
      BY <2>1, <1>1, WholeStays
    <3> QED
      BY <3>1 DEF OpsWhole
  <2>2. CASE s # g
    <3>1. s \in DOMAIN J /\ OpsWhole(J, s) /\ K[s] = J[s]
      BY <2>2, <1>1 DEF NeededIn
    <3> QED
      BY <3>1, <1>1, OpsWholeStays
  <2> QED
    BY <2>1, <2>2
<1>3. ASSUME NEW op \in Ops PROVE WholeIn(K, M[op])
  BY <1>1, WholeStays
<1>4. WholeIn(K, V)
  BY <1>1, WholeStays DEF NeededIn
<1>5. b # None => K[b].disk = "whole"
  BY <1>1 DEF NeededIn
<1> QED
  BY <1>2, <1>3, <1>4, <1>5 DEF NeededIn

(* A record that ends no operation leaves its readers what they hold.      *)
LEMMA ReadersStay ==
    ASSUME NEW J \in Seq(SessionT), NEW K \in Seq(SessionT), NEW g, NEW e, GrownBy(J, K, g, e),
           e.t # "operation_terminal", NEW L, NEW M, ReaderHolds(J, L),
           \A op \in Ops : EndedIn(J, op) => M[op] = L[op]
    PROVE  ReaderHolds(K, M)
<1>1. /\ DOMAIN K = DOMAIN J
      /\ \A s \in DOMAIN J : \A n \in DOMAIN K[s].log :
            (n \in DOMAIN J[s].log /\ K[s].log[n] = J[s].log[n]) \/ K[s].log[n] = e
  BY GrownFacts
<1>2. \A op : EndedIn(K, op) <=> EndedIn(J, op)
  BY GrownFacts
<1>3. \A op : InterruptedIn(K, op) <=> InterruptedIn(J, op)
  BY GrownFacts
<1>4. SUFFICES ASSUME NEW op \in Ops, M[op] # {}, EndedIn(K, op)
               PROVE  ~InterruptedIn(K, op) /\ TerminalHeld(K, M, op)
  BY DEF ReaderHolds
<1>5. M[op] = L[op] /\ ~InterruptedIn(J, op) /\ TerminalHeld(J, L, op)
  BY <1>2, <1>4 DEF ReaderHolds
<1>6. ASSUME NEW s \in DOMAIN K, NEW n \in 1..Len(K[s].log),
             K[s].log[n].t = "operation_terminal", K[s].log[n].id = op
      PROVE  RangeSessions(K[s].log[n].ref) \subseteq M[op]
  <2>1. n \in DOMAIN K[s].log
    BY LogTyped
  <2>2. n \in DOMAIN J[s].log /\ K[s].log[n] = J[s].log[n] /\ s \in DOMAIN J
    BY <2>1, <1>1, <1>6
  <2>3. n \in 1..Len(J[s].log)
    BY <2>2, LogTyped
  <2> QED
    BY <2>2, <2>3, <1>5, <1>6 DEF TerminalHeld
<1> QED
  BY <1>3, <1>5, <1>6 DEF TerminalHeld

-----------------------------------------------------------------------------
(***************************************************************************)
(* The unobserved interval.                                                *)
(***************************************************************************)
LiveIn(J, s) == \A n \in 1..Len(J[s].log) : J[s].log[n].live
CompletedLive(J) ==
    \A s \in DOMAIN J : J[s].state = "completed" /\ J[s].gaps = 0 => LiveIn(J, s)
\* The session's record says that the source is away.
AwayIn(J, s) == J[s].gaps > 0 /\ ~J[s].open

(* The session the recorder appends to next, and a gap on its way there.   *)
Tip == IF Rolling THEN job.pred ELSE handle
GapComing == Rolling /\ job.unit.t = "gap"

TipWatched ==
    Recording /\ ActiveIn(ses, Tip) =>
        /\ ses[Tip].gaps = 0 /\ ~(GapComing /\ job.step \in {"append", "sweep"})
             => LiveIn(ses, Tip)
        /\ ~wire /\ ~GapComing => AwayIn(ses, Tip)
SuccessorWatched ==
    job # None /\ job.step = "continue" /\ job.unit.t # "gap" =>
        /\ ses[job.succ].gaps = 0 => LiveIn(ses, job.succ)
        /\ ~wire => AwayIn(ses, job.succ)
Watched == CompletedLive(ses) /\ TipWatched /\ SuccessorWatched

RInv == Needed /\ Watched

-----------------------------------------------------------------------------
(***************************************************************************)
(* The failing writes, once more: which sessions they end, and how.        *)
(***************************************************************************)
FailedSessions(U) ==
    /\ ses' \in Seq(SessionT) /\ Terminated(ses, ses', U) /\ U \subseteq Main
    /\ \A s \in U : ses'[s].state = "failed"
LetThrough(U) ==
    /\ phase' = phase /\ job' = None /\ job.unit.t = "operation_started"
    /\ U = {} \/ job.pred \in U
Stopped == phase' = "stopped" /\ (job' = None \/ job' = SweepJob({handle}))

(* The recorder stops for good, or lets the failed start of an operation   *)
(* through.                                                                *)
LEMMA FailedEnds ==
    ASSUME JInv, Rolling, NEW A, NEW T, Failed(A, T), Ends(A)
    PROVE  \E U : FailedSessions(U) /\ (Stopped \/ LetThrough(U))
<1>1. /\ ses \in Seq(SessionT) /\ RangesIn(ses, FrozenNow) /\ UnitJob
      /\ A \in Seq(SessionT) /\ Terminated(ses, A, T) /\ T \subseteq Main
      /\ T = {} \/ job.pred \in T
      /\ \A s \in T : A[s].state = "failed"
  BY DEF JInv, Types, JobOK, Failed
<1>2. CASE ses' = A /\ (Stopped \/ LetThrough(T))
  <2>1. FailedSessions(T)
    BY <1>1, <1>2 DEF FailedSessions
  <2> QED
    BY <2>1, <1>2
<1>3. CASE /\ A[handle].state = "active" /\ phase' = "stopped" /\ job' = SweepJob({handle})
           /\ ses' = [A EXCEPT ![handle] = Terminalized(A[handle], "failed")]
  <2> DEFINE q == Terminalized(A[handle], "failed")
  <2>1. handle \in DOMAIN ses /\ DOMAIN A = DOMAIN ses
    BY <1>1 DEF UnitJob, Terminated
  <2>2. \E state \in {"failed", "completed", "abandoned"} : q = Terminalized(A[handle], state)
    OBVIOUS
  <2>3. ActiveIn(A, handle) /\ A[handle] \in SessionT
    BY <1>1, <1>3, <2>1 DEF ActiveIn
  <2>4. handle \notin T /\ A[handle] = ses[handle] /\ ActiveIn(ses, handle)
    BY <1>1, <2>1, <2>3, TerminatedFacts
  <2>5. handle \in Main
    BY <1>1, <2>4 DEF UnitJob, Main
  <2>6. q.state = "failed"
    <3>1. \A op \in DOMAIN A[handle].ops : Len(A[handle].ops[op]) > 0
      BY <1>1, <2>1, <2>4, OwnedRanges
    <3>2. "failed" \in States
      BY DEF States
    <3> QED
      BY <2>3, <3>1, <3>2, TerminalizedEffect
  <2> HIDE DEF q
  <2>7. LET K == [A EXCEPT ![handle] = q]
        IN  K \in Seq(SessionT) /\ Terminated(ses, K, T \union {handle})
    BY <1>1, <2>1, <2>2, <2>3, EndMore
  <2>8. ses' = [A EXCEPT ![handle] = q]
    BY <1>3 DEF q
  <2>9. \A s \in T \union {handle} : ses'[s].state = "failed"
    BY <1>1, <2>1, <2>4, <2>6, <2>8
  <2>10. FailedSessions(T \union {handle})
    BY <1>1, <2>5, <2>7, <2>8, <2>9 DEF FailedSessions
  <2>11. Stopped
    BY <1>3 DEF Stopped
  <2> QED
    BY <2>10, <2>11
<1>4. CASE job.unit.t = "operation_started"
  <2>1. ses' = A /\ LetThrough(T)
    BY <1>1, <1>4 DEF Ends, LetThrough
  <2> QED
    BY <2>1, <1>2
<1>5. CASE job.unit.t # "operation_started"
  <2>1. Fatal(A)
    BY <1>5 DEF Ends
  <2>2. CASE ses' = A /\ job' = None
    <3>1. Stopped
      BY <2>1, <2>2 DEF Fatal, Stopped
    <3> QED
      BY <3>1, <2>2, <1>2
  <2>3. CASE /\ A[handle].state = "active" /\ job' = SweepJob({handle})
             /\ ses' = [A EXCEPT ![handle] = Terminalized(A[handle], "failed")]
    <3>1. phase' = "stopped"
      BY <2>1 DEF Fatal
    <3> QED
      BY <3>1, <2>3, <1>3
  <2> QED
    BY <2>1, <2>2, <2>3 DEF Fatal
<1> QED
  BY <1>4, <1>5

(* A failing append, and a failure of any of the rollover's writes.        *)
LEMMA WriteFailsEnds ==
    ASSUME JInv, AppendFails \/ RolloverFails
    PROVE  /\ Rolling
           /\ \E U : FailedSessions(U) /\ (Stopped \/ LetThrough(U))
<1>1. Rolling /\ \E A, T : Failed(A, T) /\ Ends(A)
  BY AppendFailsEnds, RolloverFailsEnds
<1>2. PICK A, T : Failed(A, T) /\ Ends(A)
  BY <1>1
<1> QED
  BY <1>1, <1>2, FailedEnds

-----------------------------------------------------------------------------
(***************************************************************************)
(* What is needed stays whole, action by action.                           *)
(***************************************************************************)
LEMMA NeededTypes ==
    ASSUME JInv
    PROVE  /\ ses \in Seq(SessionT) /\ RangesIn(ses, FrozenNow)
           /\ lease \in [Ops -> SUBSET DOMAIN ses] /\ tails \in SUBSET DOMAIN ses
           /\ baseline # None => baseline \in DOMAIN ses
           /\ \A op \in Ops : lease[op] \subseteq DOMAIN ses
  BY DEF JInv, Types

(* Sessions, leases and the baseline stay as they are.                     *)
LEMMA SameNeeded ==
    ASSUME Needed, ses' = ses, lease' = lease, tails' = tails, baseline' = baseline,
           phase' \in {"boot", "down"} => phase \in {"boot", "down"}
    PROVE  Needed'
  BY DEF Needed

(* Ending sessions of the recorder, or sessions found at startup.          *)
LEMMA EndsNeeded ==
    ASSUME JInv, Needed, NEW T, ses' \in Seq(SessionT), Terminated(ses, ses', T),
           (Recording /\ T \subseteq Main) \/ phase = "boot",
           phase' \in {"boot", "down"} => phase \in {"boot", "down"},
           lease' = lease, tails' = tails, baseline' = baseline
    PROVE  Needed'
<1>1. /\ ses \in Seq(SessionT) /\ RangesIn(ses, FrozenNow)
      /\ lease \in [Ops -> SUBSET DOMAIN ses] /\ tails \in SUBSET DOMAIN ses
      /\ baseline # None => baseline \in DOMAIN ses
  BY NeededTypes
<1>2. T \subseteq DOMAIN ses
  BY DEF Terminated
<1>3. \A op \in Ops : lease[op] # {} => \A s \in T : op \in DOMAIN ses[s].ops => ~EndedIn(ses, op)
  <2>1. CASE Recording /\ T \subseteq Main
    BY <2>1, <1>2 DEF JInv, Owners, MainOwns
  <2>2. CASE phase = "boot"
    BY <2>2 DEF Needed
  <2> QED
    BY <2>1, <2>2
<1>4. NeededIn(ses, lease, tails, baseline)
  BY DEF Needed
<1>5. NeededIn(ses', lease, tails, baseline)
  BY <1>1, <1>3, <1>4, TerminatedNeeded
<1> QED
  BY <1>5 DEF Needed

(* RecoverSession abandons sessions while no reader is open.               *)
LEMMA RecoverSessionNeeded ==
    ASSUME JInv, Needed, RecoverSession
    PROVE  Needed'
<1>1. /\ job # None /\ job.step = "recover" /\ job.succ \in DOMAIN ses
      /\ ses' = IF Stale(job.succ) THEN [ses EXCEPT ![job.succ] = Terminalized(ses[job.succ], "abandoned")]
                ELSE ses
      /\ phase' = phase /\ baseline' = baseline /\ lease' = lease /\ tails' = tails
      /\ ses \in Seq(SessionT) /\ RangesIn(ses, FrozenNow) /\ phase = "boot"
  BY DEF JInv, Types, JobOK, StartupJob, RecoverSession
<1>2. CASE ~Stale(job.succ)
  BY <1>1, <1>2, SameNeeded
<1>3. CASE Stale(job.succ)
  <2> DEFINE q == Terminalized(ses[job.succ], "abandoned")
  <2>1. \E state \in {"failed", "completed", "abandoned"} : q = Terminalized(ses[job.succ], state)
    OBVIOUS
  <2>2. ActiveIn(ses, job.succ)
    BY <1>3 DEF Stale, ActiveIn
  <2>3. ses' = [ses EXCEPT ![job.succ] = q]
    BY <1>1, <1>3
  <2> HIDE DEF q
  <2>4. LET K == [ses EXCEPT ![job.succ] = q]
        IN  K \in Seq(SessionT) /\ Terminated(ses, K, {job.succ})
    BY <1>1, <2>1, <2>2, EndOne
  <2>5. ses' \in Seq(SessionT) /\ Terminated(ses, ses', {job.succ})
    BY <2>3, <2>4
  <2> QED
    BY <1>1, <2>5, EndsNeeded
<1> QED
  BY <1>2, <1>3

(* FailSession and Shutdown end the recorder's session.                    *)
LEMMA EndHandleNeeded ==
    ASSUME JInv, Needed, FailSession \/ Shutdown
    PROVE  Needed'
<1>1. /\ phase \in {"running", "failing"} /\ phase' = "stopped" /\ job = None
      /\ ActiveIn(ses, handle) /\ handle \in DOMAIN ses
      /\ baseline' = baseline /\ lease' = lease /\ tails' = tails
      /\ \E state \in {"failed", "completed", "abandoned"} :
            ses' = [ses EXCEPT ![handle] = Terminalized(ses[handle], state)]
  BY DEF JInv, JobOK, FailSession, Shutdown, ActiveIn, Idle
<1>2. ses \in Seq(SessionT) /\ RangesIn(ses, FrozenNow)
  BY NeededTypes
<1>3. PICK state \in {"failed", "completed", "abandoned"} :
         ses' = [ses EXCEPT ![handle] = Terminalized(ses[handle], state)]
  BY <1>1
<1>4. ses' \in Seq(SessionT) /\ Terminated(ses, ses', {handle})
  BY <1>1, <1>2, <1>3, EndOne
<1>5. Recording /\ {handle} \subseteq Main
  BY <1>1 DEF Recording, Main, Rolling
<1> QED
  BY <1>1, <1>4, <1>5, EndsNeeded

(* Failing writes end sessions of the recorder.                            *)
LEMMA WriteFailsNeeded ==
    ASSUME JInv, Needed, AppendFails \/ RolloverFails
    PROVE  Needed'
<1>1. /\ baseline' = baseline /\ lease' = lease /\ tails' = tails
  BY DEF AppendFails, RolloverFails
<1>2. Rolling /\ \E U : FailedSessions(U) /\ (Stopped \/ LetThrough(U))
  BY WriteFailsEnds
<1>3. PICK U : FailedSessions(U) /\ (Stopped \/ LetThrough(U))
  BY <1>2
<1>4. Recording
  BY <1>2 DEF JInv, JobOK, UnitJob
<1>5. phase' \in {"boot", "down"} => phase \in {"boot", "down"}
  BY <1>3 DEF Stopped, LetThrough
<1>6. /\ ses' \in Seq(SessionT) /\ Terminated(ses, ses', U) /\ U \subseteq Main
  BY <1>3 DEF FailedSessions
<1> QED
  BY <1>1, <1>4, <1>5, <1>6, EndsNeeded

-----------------------------------------------------------------------------
(***************************************************************************)
(* What the rollover's own records make of the successor, and what the     *)
(* unit makes of its session.                                              *)
(***************************************************************************)
Announces(e) ==
    /\ ses' \in Seq(SessionT) /\ GrownBy(ses, ses', job.succ, e)
    /\ e.t = "rollover_succeeded" /\ e.live = wire
    /\ ses'[job.succ].ops = ses[job.succ].ops /\ Len(ses[job.succ].log) = 0
    /\ job.unit.t # "reopened" /\ ~ses[job.pred].open => AwayIn(ses', job.succ)
Continues(op, e) ==
    /\ ses' \in Seq(SessionT) /\ GrownBy(ses, ses', job.succ, e)
    /\ e.t = "operation_continued" /\ e.live = wire
    /\ op \in DOMAIN ses[job.pred].ops
    /\ DOMAIN ses'[job.succ].ops = DOMAIN ses[job.succ].ops \union {op}
    /\ \A o \in DOMAIN ses[job.succ].ops : ses'[job.succ].ops[o] = ses[job.succ].ops[o]
    /\ RangeSessions(ses'[job.succ].ops[op])
         = RangeSessions(ses[job.pred].ops[op]) \union {job.succ}
    /\ ses'[job.succ].gaps = ses[job.succ].gaps /\ ses'[job.succ].open = ses[job.succ].open

(* RolloverAnnounce: the successor's first record, and a closed connection *)
(* carried over.                                                           *)
LEMMA AnnouncedStep ==
    ASSUME JInv, RolloverAnnounce
    PROVE  \E e : Announces(e)
<1>1. job # None /\ job.step = "announce"
  BY DEF RolloverAnnounce
<1>2. /\ Rolling /\ ses \in Seq(SessionT)
      /\ job.pred \in DOMAIN ses /\ job.succ \in DOMAIN ses
      /\ ses[job.pred] \in SessionT /\ ses[job.succ] \in SessionT /\ wire \in BOOLEAN
  BY <1>1, RolloverFacts
<1>3. ses[job.succ].log = <<>>
  BY <1>1, <1>2 DEF JInv, JobOK, AnnounceJob
<1> DEFINE g == job.succ
<1> DEFINE p == ses[job.pred]
<1> DEFINE r == ses[job.succ]
<1> DEFINE reopened == job.unit.t = "reopened"
<1> DEFINE q == Announced(r, p, reopened)
<1> DEFINE e == NewEntry("rollover_succeeded", None, None)
<1>4. ses' = [ses EXCEPT ![g] = q]
  BY DEF RolloverAnnounce
<1>5. /\ q \in SessionT /\ q.disk = r.disk /\ q.state = r.state /\ q.pred = r.pred
      /\ q.succ = r.succ /\ q.ops = r.ops /\ q.cut = r.cut
      /\ q.log = Append(r.log, e)
      /\ ~reopened /\ ~p.open => q.gaps > 0 /\ ~q.open
  <2>1. reopened \in BOOLEAN
    OBVIOUS
  <2>2. ASSUME NEW x \in SessionT, NEW y \in SessionT, NEW b \in BOOLEAN
        PROVE  /\ Announced(x, y, b) \in SessionT
               /\ Announced(x, y, b).disk = x.disk
               /\ Announced(x, y, b).state = x.state
               /\ Announced(x, y, b).pred = x.pred
               /\ Announced(x, y, b).succ = x.succ
               /\ Announced(x, y, b).ops = x.ops
               /\ Announced(x, y, b).cut = x.cut
               /\ Announced(x, y, b).log = Append(x.log, NewEntry("rollover_succeeded", None, None))
               /\ ~b /\ ~y.open => Announced(x, y, b).gaps > 0 /\ ~Announced(x, y, b).open
    <3>1. /\ Announced(x, y, b).open = (~(~b /\ ~y.open))
          /\ Announced(x, y, b).gaps = (IF ~b /\ ~y.open THEN 1 ELSE 0)
      BY <1>2, AnnouncedEffect
    <3>2. ~b /\ ~y.open => Announced(x, y, b).gaps > 0
      BY <3>1
    <3>3. ~b /\ ~y.open => ~Announced(x, y, b).open
      BY <3>1, Zenon
    <3>4. /\ Announced(x, y, b) \in SessionT
          /\ Announced(x, y, b).disk = x.disk
          /\ Announced(x, y, b).state = x.state
          /\ Announced(x, y, b).pred = x.pred
          /\ Announced(x, y, b).succ = x.succ
          /\ Announced(x, y, b).ops = x.ops
          /\ Announced(x, y, b).cut = x.cut
          /\ Announced(x, y, b).log = Append(x.log, NewEntry("rollover_succeeded", None, None))
      BY <1>2, AnnouncedEffect
    <3> QED
      BY <3>2, <3>3, <3>4
  <2> HIDE DEF reopened
  <2> QED
    BY <2>1, <2>2, <1>2
<1>6. e \in EntryT /\ e.t = "rollover_succeeded" /\ e.live = wire
  <2>1. "rollover_succeeded" \in EntryTypes /\ None \in IdT /\ None \in RefT
    BY TypesListed, RefTyped
  <2>2. e \in EntryT
    BY <2>1, <1>2, EntryTyped
  <2> QED
    BY <2>2 DEF NewEntry
<1> HIDE DEF q, e
<1>7. /\ ses' \in Seq(SessionT) /\ DOMAIN ses' = DOMAIN ses /\ ses'[g] = q
      /\ \A x \in DOMAIN ses : x # g => ses'[x] = ses[x]
  BY <1>2, <1>4, <1>5, Updated
<1>8. GrownBy(ses, ses', g, e)
  BY <1>2, <1>5, <1>6, <1>7 DEF GrownBy
<1>9. Len(r.log) = 0
  BY <1>3
<1>10. Announces(e)
  BY <1>5, <1>6, <1>7, <1>8, <1>9 DEF Announces, AwayIn
<1> QED
  BY <1>10

(* RolloverContinue: the ranges carried over, and one more of the          *)
(* successor's.                                                            *)
LEMMA ContinuedStep ==
    ASSUME JInv, RolloverContinue
    PROVE  \E op, e : Continues(op, e)
<1>1. job # None /\ job.step = "continue" /\ RangesIn(ses, FrozenNow)
  BY DEF JInv, RolloverContinue
<1>2. /\ Rolling /\ ses \in Seq(SessionT)
      /\ job.pred \in DOMAIN ses /\ job.succ \in DOMAIN ses /\ job.succ \in Nat
      /\ ses[job.pred] \in SessionT /\ ses[job.succ] \in SessionT /\ wire \in BOOLEAN
  BY <1>1, RolloverFacts
<1> DEFINE g == job.succ
<1> DEFINE b == ses[job.pred]
<1> DEFINE r == ses[job.succ]
<1>3. PICK op \in Uncontinued : ses' = [ses EXCEPT ![g] = Continued(r, g, b, op)]
  BY DEF RolloverContinue
<1> DEFINE rs == b.ops[op]
<1> DEFINE y == [s |-> g, from |-> Len(r.log), to |-> None]
<1> DEFINE ts == Append(ClosedAt(rs, Len(b.log)), y)
<1> DEFINE q == Continued(r, g, b, op)
<1> DEFINE e == NewEntry("operation_continued", op, None)
<1>4. op \in DOMAIN b.ops /\ op \notin DOMAIN r.ops
  BY DEF Uncontinued
<1>5. op \in Ops /\ rs \in Seq(RangeT) /\ Len(rs) > 0
  BY <1>1, <1>2, <1>4, OwnedRanges
<1>6. /\ Continued(r, g, b, op) \in SessionT
      /\ q.disk = r.disk /\ q.state = r.state /\ q.pred = r.pred
      /\ q.succ = r.succ /\ q.cut = r.cut /\ q.gaps = r.gaps /\ q.open = r.open
      /\ q.log = Append(r.log, e) /\ q.ops = With(r.ops, op, ts)
  <2>1. ASSUME NEW u \in SessionT, NEW t \in Nat, NEW v \in SessionT,
               NEW o \in DOMAIN v.ops, Len(v.ops[o]) > 0
        PROVE  /\ Continued(u, t, v, o) \in SessionT
               /\ Continued(u, t, v, o).disk = u.disk
               /\ Continued(u, t, v, o).state = u.state
               /\ Continued(u, t, v, o).pred = u.pred
               /\ Continued(u, t, v, o).succ = u.succ
               /\ Continued(u, t, v, o).cut = u.cut
               /\ Continued(u, t, v, o).gaps = u.gaps
               /\ Continued(u, t, v, o).open = u.open
               /\ Continued(u, t, v, o).log = Append(u.log, NewEntry("operation_continued", o, None))
               /\ Continued(u, t, v, o).ops
                    = With(u.ops, o, Append(ClosedAt(v.ops[o], Len(v.log)),
                                            [s |-> t, from |-> Len(u.log), to |-> None]))
    BY <1>2, <2>1, ContinuedEffect
  <2>2. r \in SessionT /\ g \in Nat /\ b \in SessionT /\ op \in DOMAIN b.ops /\ Len(b.ops[op]) > 0
    BY <1>2, <1>4, <1>5
  <2> HIDE DEF r, g, b
  <2>3. /\ Continued(r, g, b, op) \in SessionT
        /\ Continued(r, g, b, op).disk = r.disk
        /\ Continued(r, g, b, op).state = r.state
        /\ Continued(r, g, b, op).pred = r.pred
        /\ Continued(r, g, b, op).succ = r.succ
        /\ Continued(r, g, b, op).cut = r.cut
        /\ Continued(r, g, b, op).gaps = r.gaps
        /\ Continued(r, g, b, op).open = r.open
        /\ Continued(r, g, b, op).log = Append(r.log, NewEntry("operation_continued", op, None))
        /\ Continued(r, g, b, op).ops
             = With(r.ops, op, Append(ClosedAt(b.ops[op], Len(b.log)),
                                      [s |-> g, from |-> Len(r.log), to |-> None]))
    BY <2>1, <2>2
  <2> QED
    BY <2>3
<1>7. e \in EntryT /\ e.t = "operation_continued" /\ e.live = wire
  <2>1. "operation_continued" \in EntryTypes /\ op \in IdT /\ None \in RefT
    BY <1>5, TypesListed, RefTyped
  <2>2. e \in EntryT
    BY <2>1, <1>2, EntryTyped
  <2> QED
    BY <2>2 DEF NewEntry
<1>8. RangeSessions(ts) = RangeSessions(rs) \union {g}
  <2> DEFINE m == Len(b.log)
  <2> DEFINE z == ClosedAt(rs, m)
  <2>1. m \in Nat /\ Len(r.log) \in Nat
    BY <1>2, SessionFields
  <2> HIDE DEF m, rs
  <2>2. z \in Seq(RangeT) /\ RangeSessions(z) = RangeSessions(rs)
    BY <1>5, <2>1, ClosedFacts, ClosedSessions
  <2>3. y \in RangeT /\ y.s = g
    BY <1>2, <2>1 DEF RangeT
  <2> HIDE DEF z, y
  <2> DEFINE w == Append(z, y)
  <2>4. /\ DOMAIN w = 1..(Len(z) + 1) /\ DOMAIN z = 1..Len(z) /\ Len(z) \in Nat
        /\ w[Len(z) + 1] = y /\ \A i \in 1..Len(z) : w[i] = z[i]
    BY <2>2, <2>3, AppendFacts
  <2> HIDE DEF w
  <2>5. RangeSessions(w) = RangeSessions(z) \union {g}
    BY <2>3, <2>4 DEF RangeSessions
  <2> QED
    BY <2>2, <2>5 DEF w, z, m, rs
<1> HIDE DEF q, e, ts, rs
<1>9. /\ DOMAIN q.ops = DOMAIN r.ops \union {op} /\ q.ops[op] = ts
      /\ \A o \in DOMAIN r.ops : q.ops[o] = r.ops[o]
  <2>1. /\ DOMAIN With(r.ops, op, ts) = DOMAIN r.ops \union {op}
        /\ With(r.ops, op, ts)[op] = ts
        /\ \A o \in DOMAIN r.ops : o # op => With(r.ops, op, ts)[o] = r.ops[o]
    BY DEF With
  <2> QED
    BY <2>1, <1>4, <1>6
<1>10. ses' = [ses EXCEPT ![g] = q] /\ q \in SessionT
  BY <1>3, <1>6 DEF q
<1>11. /\ ses' \in Seq(SessionT) /\ DOMAIN ses' = DOMAIN ses /\ ses'[g] = q
       /\ \A s \in DOMAIN ses : s # g => ses'[s] = ses[s]
  BY <1>2, <1>10, Updated
<1>12. GrownBy(ses, ses', g, e)
  BY <1>2, <1>6, <1>7, <1>11 DEF GrownBy
<1>13. Continues(op, e)
  BY <1>4, <1>6, <1>7, <1>8, <1>9, <1>11, <1>12 DEF Continues, rs
<1> QED
  BY <1>13

(* RolloverLink completes the predecessor, whose operations the successor  *)
(* owns.                                                                   *)
LEMMA LinkedStep ==
    ASSUME JInv, RolloverLink
    PROVE  /\ ses' \in Seq(SessionT) /\ LinkedTo(ses, ses', job.pred, job.succ)
           /\ DOMAIN ses[job.pred].ops \subseteq DOMAIN ses[job.succ].ops
<1>1. /\ job # None /\ job.step = "continue" /\ Uncontinued = {}
      /\ ses' = [ses EXCEPT ![job.pred] = Linked(ses[job.pred], job.succ)]
  BY DEF RolloverLink
<1>2. /\ ses \in Seq(SessionT)
      /\ job.pred \in DOMAIN ses /\ job.succ \in DOMAIN ses /\ job.succ # job.pred
      /\ ses[job.pred] \in SessionT /\ job.succ \in Nat
  BY <1>1, RolloverFacts
<1> DEFINE g == job.succ
<1> DEFINE p == job.pred
<1> DEFINE q == Linked(ses[p], g)
<1>3. /\ q \in SessionT /\ q.disk = ses[p].disk /\ q.log = ses[p].log /\ q.pred = ses[p].pred
      /\ q.cut = ses[p].cut /\ q.segs = ses[p].segs /\ q.gaps = ses[p].gaps
      /\ q.ops = Empty /\ q.pend = Empty /\ q.succ = g /\ q.state = "completed"
  <2>1. g \in NameT
    BY <1>2 DEF NameT
  <2> QED
    BY <2>1, <1>2, LinkedEffect
<1> HIDE DEF q
<1>4. ses' = [ses EXCEPT ![p] = q]
  BY <1>1 DEF q
<1>5. /\ ses' \in Seq(SessionT) /\ DOMAIN ses' = DOMAIN ses /\ ses'[p] = q
      /\ \A s \in DOMAIN ses : s # p => ses'[s] = ses[s]
  BY <1>2, <1>3, <1>4, Updated
<1>6. LinkedTo(ses, ses', p, g)
  BY <1>2, <1>3, <1>5 DEF LinkedTo
<1> QED
  BY <1>1, <1>5, <1>6 DEF Uncontinued


-----------------------------------------------------------------------------
(* A new session needs nothing yet.                                        *)
LEMMA CreatesNeeded ==
    ASSUME JInv, Needed, CreateFirst \/ RolloverCreate
    PROVE  Needed'
<1>1. /\ ses \in Seq(SessionT) /\ RangesIn(ses, FrozenNow)
      /\ lease \in [Ops -> SUBSET DOMAIN ses] /\ tails \in SUBSET DOMAIN ses
      /\ baseline # None => baseline \in DOMAIN ses
      /\ NeededIn(ses, lease, tails, baseline)
  BY NeededTypes DEF Needed
<1>2. \E p \in NameT : ses' = Append(ses, NewSession(p))
  <2>1. CASE CreateFirst
    <3>1. None \in NameT
      BY DEF NameT
    <3> QED
      BY <2>1, <3>1 DEF CreateFirst
  <2>2. CASE RolloverCreate
    <3>1. job # None /\ job \in Jobs
      BY <2>2 DEF RolloverCreate, JInv, Types
    <3>2. job.pred \in NameT
      BY <3>1, JobFields DEF NameT
    <3> QED
      BY <2>2, <3>2 DEF RolloverCreate
  <2> QED
    BY <2>1, <2>2
<1>3. PICK p \in NameT : ses' = Append(ses, NewSession(p))
  BY <1>2
<1>4. ses' \in Seq(SessionT) /\ Created(ses, ses', p)
  BY <1>1, <1>3, Extended
<1>5. NeededIn(ses', lease, tails, baseline)
  BY <1>1, <1>4, CreatedNeeded
<1>6. /\ lease' = lease /\ tails' = tails /\ baseline' = baseline
      /\ phase' \in {"boot", "down"} => phase \in {"boot", "down"}
  BY DEF CreateFirst, RolloverCreate
<1> QED
  BY <1>5, <1>6 DEF Needed

(* The rollover's records end no operation and move none away.             *)
LEMMA SuccessorNeeded ==
    ASSUME JInv, Needed, RolloverAnnounce \/ RolloverContinue
    PROVE  Needed'
<1>1. /\ ses \in Seq(SessionT) /\ RangesIn(ses, FrozenNow)
      /\ lease \in [Ops -> SUBSET DOMAIN ses] /\ tails \in SUBSET DOMAIN ses
      /\ baseline # None => baseline \in DOMAIN ses
      /\ NeededIn(ses, lease, tails, baseline)
  BY NeededTypes DEF Needed
<1>2. /\ lease' = lease /\ tails' = tails /\ baseline' = baseline /\ phase' = phase
      /\ job # None /\ job.step \in {"announce", "continue"}
  BY DEF RolloverAnnounce, RolloverContinue
<1>3. /\ job.pred \in DOMAIN ses /\ job.succ \in DOMAIN ses
      /\ ActiveIn(ses, job.succ)
  BY <1>2, RolloverFacts
<1>4. ses[job.succ].disk = "whole"
  BY <1>3 DEF JInv, SessionsIn
<1>5. ASSUME NEW s \in DOMAIN ses, NEW op \in DOMAIN ses[s].ops
      PROVE  /\ WholeIn(ses, RangeSessions(ses[s].ops[op]))
             /\ RangeSessions(ses[s].ops[op]) \subseteq DOMAIN ses
  <2>1. RangeSessions(ses[s].ops[op]) \subseteq DOMAIN ses
    BY <1>1, RangesExist
  <2> QED
    BY <2>1, <1>1 DEF NeededIn, OpsWhole
<1>6. \E e : /\ ses' \in Seq(SessionT) /\ GrownBy(ses, ses', job.succ, e)
             /\ e.t # "operation_terminal"
             /\ \A op \in DOMAIN ses'[job.succ].ops :
                   /\ WholeIn(ses, RangeSessions(ses'[job.succ].ops[op]))
                   /\ RangeSessions(ses'[job.succ].ops[op]) \subseteq DOMAIN ses
  <2>1. CASE RolloverAnnounce
    <3>1. PICK e : Announces(e)
      BY <2>1, AnnouncedStep
    <3>2. /\ ses' \in Seq(SessionT) /\ GrownBy(ses, ses', job.succ, e)
          /\ e.t = "rollover_succeeded" /\ ses'[job.succ].ops = ses[job.succ].ops
      BY <3>1 DEF Announces
    <3> QED
      BY <3>2, <1>3, <1>5
  <2>2. CASE RolloverContinue
    <3>1. PICK op, e : Continues(op, e)
      BY <2>2, ContinuedStep
    <3>2. /\ ses' \in Seq(SessionT) /\ GrownBy(ses, ses', job.succ, e)
          /\ e.t = "operation_continued" /\ op \in DOMAIN ses[job.pred].ops
          /\ DOMAIN ses'[job.succ].ops = DOMAIN ses[job.succ].ops \union {op}
          /\ \A o \in DOMAIN ses[job.succ].ops : ses'[job.succ].ops[o] = ses[job.succ].ops[o]
          /\ RangeSessions(ses'[job.succ].ops[op])
               = RangeSessions(ses[job.pred].ops[op]) \union {job.succ}
      BY <3>1 DEF Continues
    <3>3. ASSUME NEW o \in DOMAIN ses'[job.succ].ops
          PROVE  /\ WholeIn(ses, RangeSessions(ses'[job.succ].ops[o]))
                 /\ RangeSessions(ses'[job.succ].ops[o]) \subseteq DOMAIN ses
      <4>1. CASE o \in DOMAIN ses[job.succ].ops
        BY <4>1, <3>2, <1>3, <1>5
      <4>2. CASE o = op
        <5>1. /\ WholeIn(ses, RangeSessions(ses[job.pred].ops[op]))
              /\ RangeSessions(ses[job.pred].ops[op]) \subseteq DOMAIN ses
          BY <3>2, <1>3, <1>5
        <5> QED
          BY <4>2, <5>1, <3>2, <1>3, <1>4 DEF WholeIn
      <4> QED
        BY <4>1, <4>2, <3>2
    <3> QED
      BY <3>2, <3>3
  <2> QED
    BY <2>1, <2>2
<1>7. PICK e : /\ ses' \in Seq(SessionT) /\ GrownBy(ses, ses', job.succ, e)
               /\ e.t # "operation_terminal"
               /\ \A op \in DOMAIN ses'[job.succ].ops :
                     /\ WholeIn(ses, RangeSessions(ses'[job.succ].ops[op]))
                     /\ RangeSessions(ses'[job.succ].ops[op]) \subseteq DOMAIN ses
  BY <1>6
<1>8. \A op \in Ops : WholeIn(ses, lease[op])
  BY <1>1 DEF NeededIn
<1>9. ReaderHolds(ses', lease)
  <2>1. ReaderHolds(ses, lease)
    BY <1>1 DEF NeededIn
  <2> QED
    BY <2>1, <1>1, <1>7, ReadersStay
<1>10. NeededIn(ses', lease, tails, baseline)
  BY <1>1, <1>7, <1>8, <1>9, GrownNeeded
<1> QED
  BY <1>2, <1>10 DEF Needed

(* The link moves no operation: the successor owns them all already.       *)
LEMMA RolloverLinkNeeded ==
    ASSUME JInv, Needed, RolloverLink
    PROVE  Needed'
<1>1. /\ ses \in Seq(SessionT) /\ RangesIn(ses, FrozenNow)
      /\ lease \in [Ops -> SUBSET DOMAIN ses] /\ tails \in SUBSET DOMAIN ses
      /\ baseline # None => baseline \in DOMAIN ses
      /\ NeededIn(ses, lease, tails, baseline)
  BY NeededTypes DEF Needed
<1>2. /\ ses' \in Seq(SessionT) /\ LinkedTo(ses, ses', job.pred, job.succ)
      /\ DOMAIN ses[job.pred].ops \subseteq DOMAIN ses[job.succ].ops
  BY LinkedStep
<1>3. NeededIn(ses', lease, tails, baseline)
  BY <1>1, <1>2, LinkedNeeded
<1>4. lease' = lease /\ tails' = tails /\ baseline' = baseline /\ phase' = phase
  BY DEF RolloverLink
<1> QED
  BY <1>3, <1>4 DEF Needed

(* A session that owns an operation, a session a reader holds and the      *)
(* baseline are protected.                                                 *)
LEMMA DoomedSpares ==
    ASSUME JInv, NEW held
    PROVE  /\ baseline # None => baseline \notin Doomed(held)
           /\ \A s \in DOMAIN ses : \A op \in DOMAIN ses[s].ops :
                 RangeSessions(ses[s].ops[op]) \cap Doomed(held) = {}
           /\ \A op \in Ops : lease[op] \cap Doomed(held) = {}
           /\ tails \cap Doomed(held) = {}
<1>1. /\ Types /\ SessionsIn(ses) /\ RangesIn(ses, FrozenNow) /\ ses \in Seq(SessionT)
  BY DEF JInv, Types
<1>2. Doomed(held) \subseteq Existing \ Protected(held)
  BY DEF Doomed
<1>3. baseline \notin Doomed(held)
  BY <1>2 DEF Protected, IsBaseline
<1>4. ASSUME NEW s \in DOMAIN ses, NEW op \in DOMAIN ses[s].ops
      PROVE  RangeSessions(ses[s].ops[op]) \cap Doomed(held) = {}
  <2>1. ActiveIn(ses, s)
    BY <1>1, EmptyMaps DEF SessionsIn
  <2>2. s \in Existing
    BY <2>1, <1>1 DEF SessionsIn, Existing, Exists
  <2>3. RangeSessions(ses[s].ops[op]) \in {RangeSessions(ses[s].ops[o]) : o \in DOMAIN ses[s].ops}
    OBVIOUS
  <2>4. RangeSessions(ses[s].ops[op]) \subseteq ProtectedRanges
    BY <2>2, <2>3 DEF ProtectedRanges
  <2> QED
    BY <2>4, <1>2 DEF Protected
<1>5. ASSUME NEW op \in Ops
      PROVE  lease[op] \cap Doomed(held) = {}
  <2>1. lease[op] \subseteq Leased
    BY DEF Leased
  <2> QED
    BY <2>1, <1>2 DEF Protected
<1>6. tails \cap Doomed(held) = {}
  BY <1>2 DEF Protected, Leased
<1> QED
  BY <1>3, <1>4, <1>5, <1>6

(* What a pass deletes.                                                    *)
LEMMA PassDeletes ==
    ASSUME JInv, Sweep \/ SweepFails
    PROVE  /\ ses' \in Seq(SessionT) /\ Deleted(ses, ses', Doomed(job.held))
           /\ \A s \in DOMAIN ses : s \notin Doomed(job.held) => ses'[s] = ses[s]
<1> DEFINE D == Doomed(job.held)
<1>1. /\ Types /\ SessionsIn(ses) /\ ses \in Seq(SessionT)
      /\ D \subseteq DOMAIN ses /\ \A s \in D : ~ActiveIn(ses, s)
      /\ \A s \in DOMAIN ses : ActiveIn(ses, s) =>
            \A a \in DOMAIN ses[s].pend : ses[s].pend[a].s \notin D
  <2>1. Types /\ SessionsIn(ses) /\ ses \in Seq(SessionT)
    BY DEF JInv, Types
  <2> QED
    BY <2>1, DoomedUnneeded
<1>2. CASE Sweep /\ RetentionFault
  <2>1. ses' = ses
    BY <1>2 DEF Sweep
  <2> HIDE DEF D
  <2>2. Deleted(ses, ses', D)
    BY <2>1, <1>1 DEF Deleted
  <2> QED
    BY <2>1, <2>2, <1>1 DEF D
<1>3. CASE Sweep /\ ~RetentionFault
  <2>2. ses' = [s \in DOMAIN ses |-> IF s \in D THEN Gone(ses[s]) ELSE ses[s]]
    BY <1>3 DEF Sweep
  <2> HIDE DEF D
  <2>3. \A s \in DOMAIN ses : ses[s] \in SessionT /\ Gone(ses[s]) \in SessionT
    BY <1>1, LogTyped, GoneEffect
  <2>4. /\ ses' \in Seq(SessionT) /\ DOMAIN ses' = DOMAIN ses
        /\ \A s \in DOMAIN ses : s \notin D => ses'[s] = ses[s]
    BY <2>2, <2>3, <1>1
  <2>5. ASSUME NEW s \in DOMAIN ses
        PROVE  /\ ses'[s].state = ses[s].state /\ ses'[s].log = ses[s].log
               /\ ses'[s].pred = ses[s].pred
               /\ ses'[s].succ = ses[s].succ /\ ses'[s].ops = ses[s].ops
               /\ ses'[s].cut = ses[s].cut
               /\ ses'[s].pend = ses[s].pend /\ ses'[s].segs = ses[s].segs
               /\ ses'[s].gaps = ses[s].gaps
               /\ ses'[s].fault = ses[s].fault /\ ses'[s].loss = ses[s].loss
               /\ s \notin D => ses'[s].disk = ses[s].disk
    <3>1. CASE s \in D
      BY <3>1, <2>2, <2>3, GoneEffect
    <3>2. CASE s \notin D
      BY <3>2, <2>2
    <3> QED
      BY <3>1, <3>2
  <2>6. Deleted(ses, ses', D)
    BY <1>1, <2>4, <2>5 DEF Deleted
  <2> QED
    BY <2>4, <2>6 DEF D
<1>4. CASE SweepFails
  BY <1>1, <1>4, CutShortDeletes
<1> QED
  BY <1>2, <1>3, <1>4

(* A pass, whole or cut short, keeps what is needed.                       *)
LEMMA SweepNeeded ==
    ASSUME JInv, Needed, Sweep \/ SweepFails
    PROVE  Needed'
<1>1. /\ ses \in Seq(SessionT) /\ RangesIn(ses, FrozenNow)
      /\ lease \in [Ops -> SUBSET DOMAIN ses] /\ tails \in SUBSET DOMAIN ses
      /\ baseline # None => baseline \in DOMAIN ses
      /\ NeededIn(ses, lease, tails, baseline)
  BY NeededTypes DEF Needed
<1> DEFINE D == Doomed(job.held)
<1>2. ses' \in Seq(SessionT) /\ Deleted(ses, ses', D)
  BY PassDeletes
<1>3. /\ baseline # None => baseline \notin D
      /\ \A s \in DOMAIN ses : \A op \in DOMAIN ses[s].ops :
            RangeSessions(ses[s].ops[op]) \cap D = {}
      /\ \A op \in Ops : lease[op] \cap D = {}
      /\ tails \cap D = {}
  BY DoomedSpares
<1>4. lease' = lease /\ tails' = tails /\ baseline' = baseline /\ phase' = phase
  BY DEF Sweep, SweepFails
<1> HIDE DEF D
<1>5. NeededIn(ses', lease, tails, baseline)
  BY <1>1, <1>2, <1>3, DeletedNeeded
<1> QED
  BY <1>4, <1>5 DEF Needed

(***************************************************************************)
(* What a unit makes of its session: the record it leaves, the operations  *)
(* it moves, and the connection it puts on record.                         *)
(***************************************************************************)
RecordedAs(r, q, u) ==
    /\ \E id \in IdT, ref \in RefT :
          /\ q.log = Append(r.log, NewEntry(u.t, id, ref))
          /\ u.t \in {"operation_started", "operation_terminal"} => id = u.id
    /\ u.t = "gap" => q.gaps = r.gaps + 1 /\ ~q.open
    /\ u.t # "gap" => q.gaps = r.gaps
    /\ u.t = "segment_opened" => q.open
    /\ u.t \notin {"gap", "segment_opened"} => q.open = r.open
Admits(e) ==
    /\ ses' \in Seq(SessionT) /\ GrownBy(ses, ses', job.pred, e)
    /\ MovesOps(ses[job.pred], job.pred, ses'[job.pred], e)
    /\ e.t = job.unit.t /\ e.live = wire
    /\ e.t \in {"operation_started", "operation_terminal"} => e.id = job.unit.id
    /\ e.t = "gap" => ses'[job.pred].gaps = ses[job.pred].gaps + 1 /\ ~ses'[job.pred].open
    /\ e.t # "gap" => ses'[job.pred].gaps = ses[job.pred].gaps
    /\ e.t = "segment_opened" => ses'[job.pred].open
    /\ e.t \notin {"gap", "segment_opened"} => ses'[job.pred].open = ses[job.pred].open

(* Each unit leaves a record of its own kind; only a disconnect and a new  *)
(* segment change what the session says of the connection.                 *)
LEMMA AdmittedAs ==
    ASSUME wire \in BOOLEAN, NEW r \in SessionT, NEW s \in Nat, NEW u \in Units,
           UnitOK(u, r), u.t # "reopened", \A op \in DOMAIN r.ops : Len(r.ops[op]) > 0
    PROVE  RecordedAs(r, Admitted(r, s, u), u)
<1>0. /\ None \in IdT /\ None \in RefT /\ Ops \subseteq IdT /\ Attempts \subseteq IdT
      /\ DOMAIN r.ops \subseteq Ops /\ DOMAIN r.pend \subseteq Attempts
  BY RefTyped, SessionFields, OpsElim, PendElim DEF IdT
<1>1. CASE u.t = "uart_rx"
  <2>1. Admitted(r, s, u) = UartReceive(r)
    BY <1>1 DEF Admitted, UnitOK
  <2> DEFINE q == UartReceive(r)
  <2> DEFINE ref == None
  <2>3. q.log = Append(r.log, NewEntry("uart_rx", None, ref))
    BY <2>1, <1>0, UartReceiveEffect
  <2>4. q.open = r.open
    BY <2>1, <1>0, UartReceiveEffect
  <2>5. q.gaps = r.gaps
    BY <2>1, <1>0, UartReceiveEffect
  <2>6. ref \in RefT
    BY <1>0
  <2> HIDE DEF q, ref
  <2>7. None \in IdT
    BY <2>1, <1>0
  <2>8. RecordedAs(r, q, u)
    BY <2>3, <2>4, <2>5, <2>6, <2>7, <1>1 DEF RecordedAs
  <2> QED
    BY <2>1, <2>8 DEF q
<1>2. CASE u.t = "buffer_overflow"
  <2>1. Admitted(r, s, u) = BufferOverflow(r)
    BY <1>2 DEF Admitted, UnitOK
  <2> DEFINE q == BufferOverflow(r)
  <2> DEFINE ref == None
  <2>3. q.log = Append(r.log, NewEntry("buffer_overflow", None, ref))
    BY <2>1, <1>0, BufferOverflowEffect
  <2>4. q.open = r.open
    BY <2>1, <1>0, BufferOverflowEffect
  <2>5. q.gaps = r.gaps
    BY <2>1, <1>0, BufferOverflowEffect
  <2>6. ref \in RefT
    BY <1>0
  <2> HIDE DEF q, ref
  <2>7. None \in IdT
    BY <2>1, <1>0
  <2>8. RecordedAs(r, q, u)
    BY <2>3, <2>4, <2>5, <2>6, <2>7, <1>2 DEF RecordedAs
  <2> QED
    BY <2>1, <2>8 DEF q
<1>3. CASE u.t = "gap"
  <2>1. Admitted(r, s, u) = ConnectionGap(r)
    BY <1>3 DEF Admitted, UnitOK
  <2> DEFINE q == ConnectionGap(r)
  <2> DEFINE ref == None
  <2>3. q.log = Append(r.log, NewEntry("gap", None, ref))
    BY <2>1, <1>0, ConnectionGapEffect
  <2>4. ~q.open
    BY <2>1, <1>0, ConnectionGapEffect
  <2>5. q.gaps = r.gaps + 1
    BY <2>1, <1>0, ConnectionGapEffect
  <2>6. ref \in RefT
    BY <1>0
  <2> HIDE DEF q, ref
  <2>7. None \in IdT
    BY <2>1, <1>0
  <2>8. RecordedAs(r, q, u)
    BY <2>3, <2>4, <2>5, <2>6, <2>7, <1>3 DEF RecordedAs
  <2> QED
    BY <2>1, <2>8 DEF q
<1>4. CASE u.t = "segment_opened"
  <2>1. Admitted(r, s, u) = PublishSegment(r)
    BY <1>4 DEF Admitted, UnitOK
  <2> DEFINE q == PublishSegment(r)
  <2> DEFINE ref == None
  <2>3. q.log = Append(r.log, NewEntry("segment_opened", None, ref))
    BY <2>1, <1>0, PublishSegmentEffect
  <2>4. q.open
    BY <2>1, <1>0, PublishSegmentEffect
  <2>5. q.gaps = r.gaps
    BY <2>1, <1>0, PublishSegmentEffect
  <2>6. ref \in RefT
    BY <1>0
  <2> HIDE DEF q, ref
  <2>7. None \in IdT
    BY <2>1, <1>0
  <2>8. RecordedAs(r, q, u)
    BY <2>3, <2>4, <2>5, <2>6, <2>7, <1>4 DEF RecordedAs
  <2> QED
    BY <2>1, <2>8 DEF q
<1>5. CASE u.t = "operation_started"
  <2>1. Admitted(r, s, u) = StartOperation(r, s, u.id) /\ u.id \in Ops
    BY <1>5 DEF Admitted, UnitOK
  <2> DEFINE q == StartOperation(r, s, u.id)
  <2> DEFINE ref == None
  <2>3. q.log = Append(r.log, NewEntry("operation_started", u.id, ref))
    BY <2>1, <1>0, StartOperationEffect
  <2>4. q.open = r.open
    BY <2>1, <1>0, StartOperationEffect
  <2>5. q.gaps = r.gaps
    BY <2>1, <1>0, StartOperationEffect
  <2>6. ref \in RefT
    BY <1>0
  <2> HIDE DEF q, ref
  <2>7. u.id \in IdT
    BY <2>1, <1>0
  <2>8. RecordedAs(r, q, u)
    BY <2>3, <2>4, <2>5, <2>6, <2>7, <1>5 DEF RecordedAs
  <2> QED
    BY <2>1, <2>8 DEF q
<1>6. CASE u.t = "operation_terminal"
  <2>1. Admitted(r, s, u) = CompleteOperation(r, u.id) /\ u.id \in DOMAIN r.ops
    BY <1>6 DEF Admitted, UnitOK
  <2> DEFINE q == CompleteOperation(r, u.id)
  <2> DEFINE ref == ClosedAt(r.ops[u.id], Len(r.log) + 1)
  <2>2. Len(r.ops[u.id]) > 0
    BY <2>1
  <2>3. q.log = Append(r.log, NewEntry("operation_terminal", u.id, ref))
    BY <2>1, <2>2, CompleteOperationEffect
  <2>4. q.open = r.open
    BY <2>1, <2>2, CompleteOperationEffect
  <2>5. q.gaps = r.gaps
    BY <2>1, <2>2, CompleteOperationEffect
  <2>6. ref \in RefT
    <3>1. r.ops[u.id] \in Seq(RangeT) /\ Len(r.log) + 1 \in Nat
      BY <2>1, SessionFields, OpsElim
    <3>2. ref \in Seq(RangeT)
      BY <3>1, <2>2, ClosedFacts
    <3> QED
      BY <3>2, RefTyped
  <2> HIDE DEF q, ref
  <2>7. u.id \in IdT
    BY <2>1, <1>0
  <2>8. RecordedAs(r, q, u)
    BY <2>3, <2>4, <2>5, <2>6, <2>7, <1>6 DEF RecordedAs
  <2> QED
    BY <2>1, <2>8 DEF q
<1>7. CASE u.t = "uart_tx_attempt"
  <2>1. Admitted(r, s, u) = TxAttempt(r, s, u.id) /\ u.id \in Attempts
    BY <1>7 DEF Admitted, UnitOK
  <2> DEFINE q == TxAttempt(r, s, u.id)
  <2> DEFINE ref == None
  <2>3. q.log = Append(r.log, NewEntry("uart_tx_attempt", u.id, ref))
    BY <2>1, <1>0, TxAttemptEffect
  <2>4. q.open = r.open
    BY <2>1, <1>0, TxAttemptEffect
  <2>5. q.gaps = r.gaps
    BY <2>1, <1>0, TxAttemptEffect
  <2>6. ref \in RefT
    BY <1>0
  <2> HIDE DEF q, ref
  <2>7. u.id \in IdT
    BY <2>1, <1>0
  <2>8. RecordedAs(r, q, u)
    BY <2>3, <2>4, <2>5, <2>6, <2>7, <1>7 DEF RecordedAs
  <2> QED
    BY <2>1, <2>8 DEF q
<1>8. CASE u.t = "control_attempt"
  <2>1. Admitted(r, s, u) = ControlAttempt(r, s, u.id) /\ u.id \in Attempts
    BY <1>8 DEF Admitted, UnitOK
  <2> DEFINE q == ControlAttempt(r, s, u.id)
  <2> DEFINE ref == None
  <2>3. q.log = Append(r.log, NewEntry("control_attempt", u.id, ref))
    BY <2>1, <1>0, ControlAttemptEffect
  <2>4. q.open = r.open
    BY <2>1, <1>0, ControlAttemptEffect
  <2>5. q.gaps = r.gaps
    BY <2>1, <1>0, ControlAttemptEffect
  <2>6. ref \in RefT
    BY <1>0
  <2> HIDE DEF q, ref
  <2>7. u.id \in IdT
    BY <2>1, <1>0
  <2>8. RecordedAs(r, q, u)
    BY <2>3, <2>4, <2>5, <2>6, <2>7, <1>8 DEF RecordedAs
  <2> QED
    BY <2>1, <2>8 DEF q
<1>9. CASE u.t = "uart_tx_result"
  <2>1. Admitted(r, s, u) = TxResult(r, u.id) /\ u.id \in DOMAIN r.pend
    BY <1>9 DEF Admitted, UnitOK
  <2> DEFINE q == TxResult(r, u.id)
  <2> DEFINE ref == r.pend[u.id]
  <2>3. q.log = Append(r.log, NewEntry("uart_tx_result", u.id, ref))
    BY <2>1, <1>0, TxResultEffect
  <2>4. q.open = r.open
    BY <2>1, <1>0, TxResultEffect
  <2>5. q.gaps = r.gaps
    BY <2>1, <1>0, TxResultEffect
  <2>6. ref \in RefT
    BY <2>1, SessionFields, PendElim, RefTyped
  <2> HIDE DEF q, ref
  <2>7. u.id \in IdT
    BY <2>1, <1>0
  <2>8. RecordedAs(r, q, u)
    BY <2>3, <2>4, <2>5, <2>6, <2>7, <1>9 DEF RecordedAs
  <2> QED
    BY <2>1, <2>8 DEF q
<1>10. CASE u.t = "control_result"
  <2>1. Admitted(r, s, u) = ControlResult(r, u.id) /\ u.id \in DOMAIN r.pend
    BY <1>10 DEF Admitted, UnitOK
  <2> DEFINE q == ControlResult(r, u.id)
  <2> DEFINE ref == r.pend[u.id]
  <2>3. q.log = Append(r.log, NewEntry("control_result", u.id, ref))
    BY <2>1, <1>0, ControlResultEffect
  <2>4. q.open = r.open
    BY <2>1, <1>0, ControlResultEffect
  <2>5. q.gaps = r.gaps
    BY <2>1, <1>0, ControlResultEffect
  <2>6. ref \in RefT
    BY <2>1, SessionFields, PendElim, RefTyped
  <2> HIDE DEF q, ref
  <2>7. u.id \in IdT
    BY <2>1, <1>0
  <2>8. RecordedAs(r, q, u)
    BY <2>3, <2>4, <2>5, <2>6, <2>7, <1>10 DEF RecordedAs
  <2> QED
    BY <2>1, <2>8 DEF q
<1>11. u.t \in UnitTypes
  BY DEF UnitOK
<1> QED
  BY <1>1, <1>2, <1>3, <1>4, <1>5, <1>6, <1>7, <1>8, <1>9, <1>10, <1>11 DEF UnitTypes

(* AppendUnit: the record, and what it changes.                            *)
LEMMA AdmittedStep ==
    ASSUME JInv, AppendUnit
    PROVE  \E e : Admits(e)
<1> DEFINE s == job.pred
<1> DEFINE u == job.unit
<1> DEFINE r == ses[s]
<1> DEFINE q == Admitted(r, s, u)
<1>1. /\ Types /\ SessionsIn(ses) /\ RangesIn(ses, FrozenNow) /\ JobOK
      /\ job # None /\ job.step = "append" /\ ses' = [ses EXCEPT ![s] = q]
      /\ ses \in Seq(SessionT)
  BY DEF JInv, AppendUnit, Types
<1>2. /\ Rolling /\ UnitJob /\ AppendJob
  BY <1>1 DEF JobOK, StartupJob, Rolling
<1>3. /\ s \in DOMAIN ses /\ UnitOK(u, r) /\ u.t # "reopened"
  BY <1>1, <1>2 DEF UnitJob, AppendJob
<1>4. /\ r \in SessionT /\ s \in Nat /\ wire \in BOOLEAN /\ r.segs \in 1..MaxSegments
      /\ u \in Units
  <2>1. u \in Units
    BY <1>1, <1>2, JobFields DEF Types, Rolling
  <2> QED
    BY <2>1, <1>1, <1>3, NamesAreNumbers, LogTyped DEF Types, SessionsIn
<1>5. \A op \in DOMAIN r.ops : Len(r.ops[op]) > 0
  BY <1>1, <1>3, OwnedRanges
<1>6. PICK e : Enters(r, s, q, e)
  BY <1>3, <1>4, <1>5, AdmittedEnters
<1>7. RecordedAs(r, q, u)
  BY <1>3, <1>4, <1>5, AdmittedAs
<1>8. /\ q \in SessionT /\ e \in EntryT /\ q.log = Append(r.log, e)
      /\ q.disk = r.disk /\ q.state = r.state /\ q.pred = r.pred /\ q.succ = r.succ
      /\ q.cut = r.cut /\ MovesOps(r, s, q, e)
  BY <1>6 DEF Enters, Extends
<1> HIDE DEF q
<1>9. /\ ses' \in Seq(SessionT) /\ DOMAIN ses' = DOMAIN ses /\ ses'[s] = q
      /\ \A x \in DOMAIN ses : x # s => ses'[x] = ses[x]
  BY <1>1, <1>3, <1>8, Updated
<1>10. GrownBy(ses, ses', s, e)
  BY <1>3, <1>8, <1>9 DEF GrownBy
<1>11. e.t = u.t /\ e.live = wire
       /\ (u.t \in {"operation_started", "operation_terminal"} => e.id = u.id)
  <2>1. PICK id \in IdT, ref \in RefT :
            /\ q.log = Append(r.log, NewEntry(u.t, id, ref))
            /\ u.t \in {"operation_started", "operation_terminal"} => id = u.id
    BY <1>7 DEF RecordedAs
  <2> DEFINE f == NewEntry(u.t, id, ref)
  <2>2. u.t \in EntryTypes
    BY <1>3 DEF UnitOK, EntryTypes
  <2>3. f \in EntryT
    BY <2>1, <2>2, <1>4, EntryTyped
  <2>4. r.log \in Seq(EntryT)
    BY <1>4, SessionFields
  <2>5. f.t = u.t /\ f.live = wire /\ f.id = id
    BY DEF NewEntry
  <2> HIDE DEF f
  <2>6. Append(r.log, f)[Len(r.log) + 1] = f /\ Append(r.log, e)[Len(r.log) + 1] = e
    BY <2>3, <2>4, <1>8, AppendFacts
  <2>7. q.log = Append(r.log, f)
    BY <2>1 DEF f
  <2>8. e = f
    BY <2>6, <2>7, <1>8
  <2> QED
    BY <2>1, <2>5, <2>8
<1>12. /\ u.t = "gap" => q.gaps = r.gaps + 1 /\ ~q.open
       /\ u.t # "gap" => q.gaps = r.gaps
       /\ u.t = "segment_opened" => q.open
       /\ u.t \notin {"gap", "segment_opened"} => q.open = r.open
  BY <1>7 DEF RecordedAs
<1>13. Admits(e)
  BY <1>8, <1>9, <1>10, <1>11, <1>12 DEF Admits
<1> QED
  BY <1>13

(* A unit that enters its session keeps what is needed: a start record     *)
(* opens a reader on the session it is in, and a terminal record extends   *)
(* the reader to every range it names.                                     *)
LEMMA AppendUnitNeeded ==
    ASSUME JInv, Needed, AppendUnit
    PROVE  Needed'
<1> DEFINE s == job.pred
<1> DEFINE u == job.unit
<1> DEFINE r == ses[s]
<1>1. /\ ses \in Seq(SessionT) /\ RangesIn(ses, FrozenNow)
      /\ lease \in [Ops -> SUBSET DOMAIN ses] /\ tails \in SUBSET DOMAIN ses
      /\ baseline # None => baseline \in DOMAIN ses
      /\ NeededIn(ses, lease, tails, baseline)
  BY NeededTypes DEF Needed
<1>2. /\ Types /\ SessionsIn(ses) /\ JobOK /\ Owners /\ job # None /\ job.step = "append"
      /\ lease' = LeasesAfter(u, s, r) /\ tails' = tails /\ baseline' = baseline
      /\ phase' = phase
  BY DEF JInv, AppendUnit
<1>3. Rolling /\ UnitJob /\ AppendJob
  BY <1>2 DEF JobOK, StartupJob, Rolling
<1>4. /\ Recording /\ s \in DOMAIN ses /\ ActiveIn(ses, s) /\ UnitOK(u, r) /\ u \in Units
      /\ r.disk = "whole" /\ s \in Main
  <2>1. u \in Units
    BY <1>2, <1>3, JobFields DEF Types, Rolling
  <2> QED
    BY <2>1, <1>2, <1>3 DEF UnitJob, SessionsIn, Main
<1>5. PICK e : Admits(e)
  BY AdmittedStep
<1>6. /\ ses' \in Seq(SessionT) /\ GrownBy(ses, ses', s, e)
      /\ MovesOps(r, s, ses'[s], e) /\ e.t = u.t
      /\ e.t \in {"operation_started", "operation_terminal"} => e.id = u.id
  BY <1>5 DEF Admits
<1>7. ASSUME NEW op \in DOMAIN r.ops
      PROVE  /\ WholeIn(ses, RangeSessions(r.ops[op]))
             /\ RangeSessions(r.ops[op]) \subseteq DOMAIN ses
             /\ r.ops[op] \in Seq(RangeT) /\ Len(r.ops[op]) > 0
             /\ op \in Ops /\ ~EndedIn(ses, op) /\ ~InterruptedIn(ses, op)
  <2>1. /\ RangeSessions(r.ops[op]) \subseteq DOMAIN ses
        /\ r.ops[op] \in Seq(RangeT) /\ Len(r.ops[op]) > 0
    BY <1>1, <1>4, RangesExist
  <2>2. WholeIn(ses, RangeSessions(r.ops[op]))
    BY <1>1, <1>4 DEF NeededIn, OpsWhole
  <2>3. ~EndedIn(ses, op) /\ ~InterruptedIn(ses, op)
    BY <1>2, <1>4 DEF Owners, MainOwns
  <2>4. op \in Ops
    BY <1>1, <1>4, OwnedRanges
  <2> QED
    BY <2>1, <2>2, <2>3, <2>4
<1>8. ASSUME NEW op \in DOMAIN ses'[s].ops
      PROVE  /\ WholeIn(ses, RangeSessions(ses'[s].ops[op]))
             /\ RangeSessions(ses'[s].ops[op]) \subseteq DOMAIN ses
  <2>1. CASE op \in DOMAIN r.ops /\ ses'[s].ops[op] = r.ops[op]
    BY <2>1, <1>7
  <2>2. CASE /\ e.t = "operation_started" /\ op = e.id
             /\ ses'[s].ops[e.id] = <<[s |-> s, from |-> Len(r.log), to |-> None]>>
    <3>1. RangeSessions(ses'[s].ops[op]) = {s}
      BY <2>2 DEF RangeSessions
    <3> QED
      BY <3>1, <1>4 DEF WholeIn
  <2> QED
    BY <2>1, <2>2, <1>6 DEF MovesOps
<1>9. lease' \in [Ops -> SUBSET DOMAIN ses]
  BY <1>1, <1>2, <1>4, LeasesTyped
<1>10. CASE e.t = "operation_started"
  <2>1. /\ u.id \in Ops /\ ~StartedIn(ses, u.id) /\ lease' = [lease EXCEPT ![u.id] = {s}]
    BY <1>2, <1>4, <1>6, <1>10 DEF UnitOK, LeasesAfter
  <2>2. ~EndedIn(ses, u.id)
    BY <2>1, <1>1, ClaimedStarted
  <2>3. \A op \in Ops : EndedIn(ses, op) => lease'[op] = lease[op]
    BY <2>1, <2>2, <1>1
  <2>4. \A op \in Ops : lease'[op] = lease[op] \/ lease'[op] = {s}
    BY <2>1, <1>1
  <2>5. \A op \in Ops : WholeIn(ses, lease'[op])
    BY <2>4, <1>1, <1>4 DEF NeededIn, WholeIn
  <2>6. ReaderHolds(ses, lease)
    BY <1>1 DEF NeededIn
  <2> DEFINE M == lease'
  <2> HIDE DEF M
  <2>7. ReaderHolds(ses', M)
    <3>1. \A op \in Ops : EndedIn(ses, op) => M[op] = lease[op]
      BY <2>3 DEF M
    <3>2. e.t # "operation_terminal"
      BY <1>10
    <3> QED
      BY <3>1, <3>2, <2>6, <1>1, <1>6, ReadersStay
  <2>8. \A op \in Ops : WholeIn(ses, M[op])
    BY <2>5 DEF M
  <2>9. M \in [Ops -> SUBSET DOMAIN ses]
    BY <1>9 DEF M
  <2>10. NeededIn(ses', M, tails, baseline)
    BY <2>7, <2>8, <2>9, <1>1, <1>6, <1>8, GrownNeeded
  <2> QED
    BY <2>10, <1>2, <1>4 DEF Needed, Recording, M
<1>11. CASE e.t = "operation_terminal"
  <2> DEFINE o == u.id
  <2> DEFINE R == RangeSessions(r.ops[o])
  <2>1. /\ o \in DOMAIN r.ops /\ e.id = o /\ e.ref = ClosedAt(r.ops[o], Len(r.log) + 1)
        /\ lease' = [lease EXCEPT ![o] = IF lease[o] = {} THEN lease[o] ELSE lease[o] \union R]
    <3>1. e.id = o
      BY <1>6, <1>11
    <3>2. o \in DOMAIN r.ops /\ e.ref = ClosedAt(r.ops[o], Len(r.log) + 1)
      BY <3>1, <1>6, <1>11 DEF MovesOps
    <3>3. lease' = [lease EXCEPT ![o] = IF lease[o] = {} THEN lease[o] ELSE lease[o] \union R]
      BY <1>2, <1>6, <1>11 DEF LeasesAfter, TerminalSessions
    <3> QED
      BY <3>1, <3>2, <3>3
  <2>2. /\ WholeIn(ses, R) /\ o \in Ops /\ ~EndedIn(ses, o) /\ ~InterruptedIn(ses, o)
    BY <2>1, <1>7
  <2>3. RangeSessions(e.ref) = R
    <3>1. Len(r.log) + 1 \in Nat
      BY <1>1, <1>4, LogTyped
    <3> QED
      BY <3>1, <2>1, <1>7, ClosedSessions
  <2> HIDE DEF R, o
  <2>4. /\ \A op \in Ops : op # o => lease'[op] = lease[op]
        /\ lease'[o] = {} \/ lease'[o] = lease[o] \union R
    BY <2>1, <2>2, <1>1
  <2> DEFINE M == lease'
  <2>5. /\ \A op \in Ops : op # o => M[op] = lease[op]
        /\ M[o] = {} \/ M[o] = lease[o] \union R
        /\ M \in [Ops -> SUBSET DOMAIN ses]
    BY <2>4, <1>9
  <2> HIDE DEF M
  <2>6. \A op \in Ops : WholeIn(ses, M[op])
    <3>1. ASSUME NEW op \in Ops PROVE WholeIn(ses, M[op])
      <4>1. WholeIn(ses, lease[op])
        BY <1>1 DEF NeededIn
      <4> QED
        BY <4>1, <2>2, <2>5 DEF WholeIn
    <3> QED
      BY <3>1
  <2>7. ReaderHolds(ses', M)
    <3>1. \A op : EndedIn(ses', op) <=> EndedIn(ses, op) \/ (e.t = "operation_terminal" /\ e.id = op)
      BY <1>1, <1>6, GrownFacts
    <3>2. \A op : InterruptedIn(ses', op) <=> InterruptedIn(ses, op)
      BY <1>1, <1>6, GrownFacts
    <3>3. /\ DOMAIN ses' = DOMAIN ses
          /\ \A x \in DOMAIN ses : \A n \in DOMAIN ses'[x].log :
                (n \in DOMAIN ses[x].log /\ ses'[x].log[n] = ses[x].log[n]) \/ ses'[x].log[n] = e
      BY <1>1, <1>6, GrownFacts
    <3>4. \A x \in DOMAIN ses : /\ DOMAIN ses'[x].log = 1..Len(ses'[x].log)
                                /\ DOMAIN ses[x].log = 1..Len(ses[x].log)
      BY <3>3, <1>1, <1>6, LogTyped
    <3>5. SUFFICES ASSUME NEW op \in Ops, M[op] # {}, EndedIn(ses', op)
                   PROVE  ~InterruptedIn(ses', op) /\ TerminalHeld(ses', M, op)
      BY DEF ReaderHolds
    <3>6. CASE op = o
      <4>1. R \subseteq M[op]
        BY <3>5, <3>6, <2>5
      <4>2. ASSUME NEW x \in DOMAIN ses', NEW n \in 1..Len(ses'[x].log),
                   ses'[x].log[n].t = "operation_terminal", ses'[x].log[n].id = op
            PROVE  RangeSessions(ses'[x].log[n].ref) \subseteq M[op]
        <5>1. CASE ses'[x].log[n] = e
          BY <5>1, <4>1, <2>3
        <5>2. CASE n \in DOMAIN ses[x].log /\ ses'[x].log[n] = ses[x].log[n]
          <6>1. EndedIn(ses, op)
            BY <5>2, <4>2, <3>3 DEF EndedIn
          <6> QED
            BY <6>1, <3>6, <2>2
        <5> QED
          BY <5>1, <5>2, <3>3, <3>4
      <4> QED
        BY <4>2, <3>2, <3>6, <2>2 DEF TerminalHeld
    <3>7. CASE op # o
      <4>1. EndedIn(ses, op) /\ M[op] = lease[op]
        BY <3>1, <3>5, <3>7, <2>1, <2>5
      <4>2. ~InterruptedIn(ses, op) /\ TerminalHeld(ses, lease, op)
        BY <4>1, <3>5, <1>1 DEF NeededIn, ReaderHolds
      <4>3. ASSUME NEW x \in DOMAIN ses', NEW n \in 1..Len(ses'[x].log),
                   ses'[x].log[n].t = "operation_terminal", ses'[x].log[n].id = op
            PROVE  RangeSessions(ses'[x].log[n].ref) \subseteq M[op]
        <5>1. n \in DOMAIN ses[x].log /\ ses'[x].log[n] = ses[x].log[n] /\ x \in DOMAIN ses
          BY <4>3, <3>3, <3>4, <3>7, <2>1
        <5>2. n \in 1..Len(ses[x].log)
          BY <5>1, <3>4
        <5> QED
          BY <5>1, <5>2, <4>1, <4>2, <4>3 DEF TerminalHeld
      <4> QED
        BY <4>2, <4>3, <3>2 DEF TerminalHeld
    <3> QED
      BY <3>6, <3>7
  <2>8. NeededIn(ses', M, tails, baseline)
    BY <2>5, <2>6, <2>7, <1>1, <1>6, <1>8, GrownNeeded
  <2> QED
    BY <2>8, <1>2, <1>4 DEF Needed, Recording, M
<1>12. CASE e.t # "operation_started" /\ e.t # "operation_terminal"
  <2>1. lease' = lease
    BY <1>2, <1>6, <1>12 DEF LeasesAfter
  <2>2. ReaderHolds(ses', lease)
    <3>1. ReaderHolds(ses, lease)
      BY <1>1 DEF NeededIn
    <3> QED
      BY <3>1, <1>1, <1>6, <1>12, ReadersStay
  <2>3. \A op \in Ops : WholeIn(ses, lease[op])
    BY <1>1 DEF NeededIn
  <2>4. NeededIn(ses', lease, tails, baseline)
    BY <2>2, <2>3, <1>1, <1>6, <1>8, GrownNeeded
  <2> QED
    BY <2>1, <2>4, <1>2, <1>4 DEF Needed, Recording
<1> QED
  BY <1>10, <1>11, <1>12

(* Closing a reader, marking and clearing the baseline, and a restart.     *)
LEMMA HoldersNeeded ==
    ASSUME JInv, Needed, CloseReader \/ MarkBaseline \/ ClearBaseline \/ Restart
    PROVE  Needed'
<1>1. NeededIn(ses, lease, tails, baseline) /\ lease \in [Ops -> SUBSET DOMAIN ses]
  BY NeededTypes DEF Needed
<1>2. CASE CloseReader
  <2>1. /\ ses' = ses /\ tails' = tails /\ baseline' = baseline /\ phase' = phase
        /\ \E op \in Ops : lease' = [lease EXCEPT ![op] = {}]
    BY <1>2 DEF CloseReader
  <2>2. \A op \in Ops : lease'[op] = lease[op] \/ lease'[op] = {}
    BY <2>1, <1>1
  <2> DEFINE M == lease'
  <2> HIDE DEF M
  <2>3. \A op \in Ops : M[op] = lease[op] \/ M[op] = {}
    BY <2>2 DEF M
  <2>4. \A op \in Ops : WholeIn(ses, M[op])
    BY <2>3, <1>1 DEF NeededIn, WholeIn
  <2>5. ReaderHolds(ses, M)
    BY <2>3, <1>1 DEF NeededIn, ReaderHolds, TerminalHeld
  <2>6. NeededIn(ses, M, tails, baseline)
    BY <2>4, <2>5, <1>1 DEF NeededIn
  <2> QED
    BY <2>1, <2>2, <2>6 DEF Needed, M
<1>3. CASE MarkBaseline \/ ClearBaseline
  <2>1. /\ ses' = ses /\ tails' = tails /\ lease' = lease /\ phase' = phase
        /\ baseline' = None \/ ses[baseline'].disk = "whole"
    BY <1>3 DEF MarkBaseline, ClearBaseline, Eligible
  <2> DEFINE b == baseline'
  <2> HIDE DEF b
  <2>2. b # None => ses[b].disk = "whole"
    BY <2>1 DEF b
  <2>3. NeededIn(ses, lease, tails, b)
    BY <2>2, <1>1 DEF NeededIn
  <2> QED
    BY <2>1, <2>3 DEF Needed, b
<1>4. CASE Restart
  <2>1. /\ ses' = ses /\ tails' = {} /\ baseline' = baseline
        /\ lease' = [op \in Ops |-> {}]
    BY <1>4 DEF Restart
  <2>2. \A op \in Ops : lease'[op] = {}
    BY <2>1
  <2> DEFINE M == lease'
  <2> HIDE DEF M
  <2>3. \A op \in Ops : M[op] = {}
    BY <2>2 DEF M
  <2>4. NeededIn(ses, M, {}, baseline)
    BY <2>3, <1>1 DEF NeededIn, WholeIn, ReaderHolds
  <2> QED
    BY <2>1, <2>2, <2>4 DEF Needed, M
<1> QED
  BY <1>2, <1>3, <1>4

(* Nothing is needed before the first session.                             *)
LEMMA InitNeeded ==
    ASSUME Init
    PROVE  Needed
<1>1. /\ ses = <<>> /\ baseline = None /\ lease = [op \in Ops |-> {}] /\ tails = {}
  BY DEF Init
<1>2. DOMAIN ses = {} /\ \A op \in Ops : lease[op] = {}
  BY <1>1
<1> QED
  BY <1>1, <1>2 DEF Needed, NeededIn, WholeIn, ReaderHolds

(* Every step keeps what is needed.                                        *)
LEMMA StepNeeded ==
    ASSUME JInv, Needed, [JournalNext]_vars
    PROVE  Needed'
<1>1. CASE RecoverSession \/ CreateFirst \/ AppendUnit \/ AppendFails \/ FailSession \/ Shutdown
  BY <1>1, RecoverSessionNeeded, CreatesNeeded, AppendUnitNeeded, WriteFailsNeeded,
     EndHandleNeeded
<1>2. CASE RolloverCreate \/ RolloverAnnounce \/ RolloverContinue \/ RolloverLink \/ RolloverFails
  BY <1>2, CreatesNeeded, SuccessorNeeded, RolloverLinkNeeded, WriteFailsNeeded
<1>3. CASE Sweep \/ SweepFails \/ CloseReader \/ MarkBaseline \/ ClearBaseline \/ Restart
  BY <1>3, SweepNeeded, HoldersNeeded
<1>4. CASE RecoveryDone \/ Offer \/ FindEnded \/ InputError \/ UNCHANGED vars
  <2>1. /\ ses' = ses /\ lease' = lease /\ tails' = tails /\ baseline' = baseline
        /\ phase' \in {"boot", "down"} => phase \in {"boot", "down"}
    BY <1>4 DEF RecoveryDone, Offer, FindEnded, InputError, vars
  <2> QED
    BY <2>1, SameNeeded
<1>5. CASE RecoveryFails
  <2>1. /\ ses' = ses /\ lease' = lease /\ tails' = tails /\ baseline' = baseline
        /\ phase = "boot"
    BY <1>5 DEF RecoveryFails, JInv, JobOK, StartupJob
  <2> QED
    BY <2>1, SameNeeded
<1> QED
  BY <1>1, <1>2, <1>3, <1>4, <1>5 DEF JournalNext

-----------------------------------------------------------------------------
(***************************************************************************)
(* The unobserved interval, action by action.                              *)
(***************************************************************************)
(* A session that is completed now either was already, or had no gap.      *)
LEMMA CompletedStays ==
    ASSUME NEW J, NEW K, CompletedLive(J),
           \A s \in DOMAIN K : K[s].state = "completed" =>
               /\ s \in DOMAIN J /\ K[s].gaps = J[s].gaps /\ K[s].log = J[s].log
               /\ J[s].state = "completed" \/ (J[s].gaps = 0 => LiveIn(J, s))
    PROVE  CompletedLive(K)
  BY DEF CompletedLive, LiveIn

(* A record made while the source is connected.                            *)
LEMMA LiveGrown ==
    ASSUME NEW J \in Seq(SessionT), NEW K \in Seq(SessionT), NEW g, NEW e, GrownBy(J, K, g, e),
           LiveIn(J, g), e.live
    PROVE  LiveIn(K, g)
<1>1. /\ Len(J[g].log) \in Nat /\ Len(K[g].log) = Len(J[g].log) + 1
      /\ K[g].log[Len(J[g].log) + 1] = e
      /\ \A n \in 1..Len(J[g].log) : K[g].log[n] = J[g].log[n]
  BY GrownFacts
<1>2. ASSUME NEW n \in 1..Len(K[g].log) PROVE K[g].log[n].live
  <2>1. CASE n \in 1..Len(J[g].log)
    BY <2>1, <1>1 DEF LiveIn
  <2>2. CASE n = Len(J[g].log) + 1
    BY <2>2, <1>1
  <2> QED
    BY <2>1, <2>2, <1>1
<1> QED
  BY <1>2 DEF LiveIn

(* Growing an active session completes none.                               *)
LEMMA GrownCompleted ==
    ASSUME NEW J \in Seq(SessionT), NEW K \in Seq(SessionT), NEW g, NEW e, GrownBy(J, K, g, e),
           ActiveIn(J, g), CompletedLive(J)
    PROVE  CompletedLive(K)
<1>1. /\ DOMAIN K = DOMAIN J /\ \A s \in DOMAIN J : s # g => K[s] = J[s]
      /\ K[g].state = "active"
  BY DEF GrownBy, ActiveIn
<1> QED
  BY <1>1, CompletedStays

(* The recorder between two calls stays where it is, or is not recording.  *)
LEMMA IdleWatched ==
    ASSUME Watched, CompletedLive(ses'), ~Rolling', job' # None => job'.step # "continue",
           Recording' => /\ Recording /\ ~Rolling /\ handle' = handle /\ wire' = wire
                         /\ ses' = ses
    PROVE  Watched'
<1>1. TipWatched'
  <2>1. CASE Recording'
    <3>1. /\ Recording /\ ~Rolling /\ handle' = handle /\ wire' = wire /\ ses' = ses
      BY <2>1
    <3>2. Tip = handle /\ Tip' = handle /\ ~GapComing /\ ~GapComing'
      BY <3>1 DEF Tip, GapComing
    <3>3. TipWatched
      BY DEF Watched
    <3>4. ActiveIn(ses, handle) =>
            /\ ses[handle].gaps = 0 => LiveIn(ses, handle)
            /\ ~wire => AwayIn(ses, handle)
      BY <3>1, <3>2, <3>3 DEF TipWatched
    <3> QED
      BY <3>1, <3>2, <3>4 DEF TipWatched
  <2>2. CASE ~Recording'
    BY <2>2 DEF TipWatched
  <2> QED
    BY <2>1, <2>2
<1>2. SuccessorWatched'
  BY DEF SuccessorWatched
<1> QED
  BY <1>1, <1>2 DEF Watched

(* Steps that change no session.                                           *)
LEMMA QuietWatched ==
    ASSUME JInv, Watched,
           RecoveryDone \/ RecoveryFails \/ FindEnded \/ InputError \/ CloseReader
           \/ MarkBaseline \/ ClearBaseline \/ Restart
    PROVE  Watched'
<1>1. ses' = ses /\ CompletedLive(ses)
  BY DEF RecoveryDone, RecoveryFails, FindEnded, InputError, CloseReader, MarkBaseline,
         ClearBaseline, Restart, Watched
<1>2. SweepJob({}).step = "sweep" /\ SweepJob({}).unit = None
  BY SweepJobTyped
<1>3. LET j == Job("recover", None, None, 1, {}) IN j.step = "recover" /\ j.unit = None
  BY RecoverJobTyped
<1>4. ~Rolling' /\ (job' # None => job'.step # "continue")
  <2>1. job' = None \/ (job'.unit = None /\ job'.step \in {"sweep", "recover"})
    BY <1>2, <1>3 DEF RecoveryDone, RecoveryFails, FindEnded, InputError, CloseReader,
                      MarkBaseline, ClearBaseline, Restart, Idle
  <2> QED
    BY <2>1 DEF Rolling
<1>5. Recording' => Recording /\ ~Rolling /\ handle' = handle /\ wire' = wire
  <2>1. CASE RecoveryDone \/ RecoveryFails
    <3>1. phase = "boot"
      BY <2>1 DEF JInv, JobOK, StartupJob, RecoveryDone, RecoveryFails
    <3> QED
      BY <2>1, <3>1 DEF RecoveryDone, RecoveryFails, Recording
  <2>2. CASE FindEnded \/ Restart
    BY <2>2 DEF FindEnded, Restart, Recording
  <2>3. CASE InputError \/ CloseReader \/ MarkBaseline \/ ClearBaseline
    BY <2>3 DEF InputError, CloseReader, MarkBaseline, ClearBaseline, Idle, Recording, Rolling
  <2> QED
    BY <2>1, <2>2, <2>3
<1> QED
  BY <1>1, <1>4, <1>5, IdleWatched

(* What recovery and the end of a session leave behind.                    *)
LEMMA EndsWatched ==
    ASSUME JInv, Watched, RecoverSession \/ FailSession \/ Shutdown
    PROVE  Watched'
<1>1. ses \in Seq(SessionT) /\ RangesIn(ses, FrozenNow) /\ CompletedLive(ses) /\ job \in Jobs \union {None}
  BY DEF JInv, Types, Watched
<1>2. CASE RecoverSession
  <2>1. /\ job # None /\ job \in Jobs /\ job.step = "recover" /\ job.unit = None /\ phase = "boot"
        /\ job.succ \in DOMAIN ses /\ job' = [job EXCEPT !.succ = @ + 1] /\ phase' = phase
        /\ ses' = IF Stale(job.succ)
                    THEN [ses EXCEPT ![job.succ] = Terminalized(ses[job.succ], "abandoned")]
                    ELSE ses
    BY <1>1, <1>2 DEF JInv, JobOK, StartupJob, RecoverSession
  <2>2. job'.step = "recover" /\ job'.unit = None
    BY <2>1 DEF Jobs
  <2>3. CompletedLive(ses')
    <3>1. CASE ~Stale(job.succ)
      BY <3>1, <2>1, <1>1
    <3>2. CASE Stale(job.succ)
      <4> DEFINE q == Terminalized(ses[job.succ], "abandoned")
      <4>1. q.state = "abandoned"
        <5>1. \A op \in DOMAIN ses[job.succ].ops : Len(ses[job.succ].ops[op]) > 0
          BY <1>1, <2>1, OwnedRanges
        <5>2. "abandoned" \in States /\ ses[job.succ] \in SessionT
          BY <1>1, <2>1, LogTyped DEF States
        <5> QED
          BY <5>1, <5>2, TerminalizedEffect
      <4> HIDE DEF q
      <4>2. ses' = [ses EXCEPT ![job.succ] = q]
        BY <3>2, <2>1 DEF q
      <4>3. /\ DOMAIN ses' = DOMAIN ses /\ ses'[job.succ] = q
            /\ \A s \in DOMAIN ses : s # job.succ => ses'[s] = ses[s]
        BY <4>2, <2>1, <1>1
      <4> QED
        BY <4>1, <4>3, <1>1, CompletedStays
    <3> QED
      BY <3>1, <3>2
  <2> QED
    BY <2>1, <2>2, <2>3, IdleWatched DEF Rolling, Recording
<1>3. CASE FailSession \/ Shutdown
  <2>1. /\ phase \in {"running", "failing"} /\ phase' = "stopped" /\ job = None
        /\ ActiveIn(ses, handle) /\ handle \in DOMAIN ses /\ handle \in Nat
        /\ job' = SweepJob({handle})
        /\ \E state \in {"failed", "completed"} :
              ses' = [ses EXCEPT ![handle] = Terminalized(ses[handle], state)]
    BY <1>3, NamesAreNumbers DEF JInv, JobOK, FailSession, Shutdown, ActiveIn, Idle
  <2>2. job'.step = "sweep" /\ job'.unit = None
    <3>1. {handle} \in SUBSET Nat
      BY <2>1
    <3> QED
      BY <3>1, <2>1, SweepJobTyped
  <2>3. PICK state \in {"failed", "completed"} :
           ses' = [ses EXCEPT ![handle] = Terminalized(ses[handle], state)]
    BY <2>1
  <2> DEFINE q == Terminalized(ses[handle], state)
  <2>4. q.gaps = ses[handle].gaps /\ q.log = ses[handle].log
    <3>1. \A op \in DOMAIN ses[handle].ops : Len(ses[handle].ops[op]) > 0
      BY <1>1, <2>1, OwnedRanges
    <3>2. state \in States /\ ses[handle] \in SessionT
      BY <1>1, <2>1, LogTyped DEF States
    <3> QED
      BY <3>1, <3>2, TerminalizedEffect
  <2> HIDE DEF q
  <2>5. ses' = [ses EXCEPT ![handle] = q]
    BY <2>3 DEF q
  <2>6. /\ DOMAIN ses' = DOMAIN ses /\ ses'[handle] = q
        /\ \A s \in DOMAIN ses : s # handle => ses'[s] = ses[s]
    BY <2>5, <2>1, <1>1
  <2>7. ses[handle].gaps = 0 => LiveIn(ses, handle)
    <3>1. Recording /\ ~Rolling /\ Tip = handle /\ ~GapComing
      BY <2>1 DEF Recording, Rolling, Tip, GapComing
    <3> QED
      BY <3>1, <2>1 DEF Watched, TipWatched
  <2>8. CompletedLive(ses')
    BY <2>4, <2>6, <2>7, <1>1, CompletedStays
  <2> QED
    BY <2>1, <2>2, <2>8, IdleWatched DEF Rolling, Recording
<1> QED
  BY <1>2, <1>3

(* The first session of a run is connected.                                *)
LEMMA CreateFirstWatched ==
    ASSUME JInv, Watched, CreateFirst
    PROVE  Watched'
<1>1. /\ ses \in Seq(SessionT) /\ CompletedLive(ses) /\ job' = None /\ wire' = TRUE
      /\ ses' = Append(ses, NewSession(None)) /\ handle' = Len(ses) + 1
  BY DEF JInv, Types, Watched, CreateFirst
<1>2. None \in NameT
  BY DEF NameT
<1>3. ses' \in Seq(SessionT) /\ Created(ses, ses', None)
  BY <1>1, <1>2, Extended
<1> DEFINE g == Len(ses) + 1
<1>4. /\ DOMAIN ses' = DOMAIN ses \union {g}
      /\ \A s \in DOMAIN ses : ses'[s] = ses[s]
  BY <1>1, <1>2, <1>3, CreatedFacts
<1>5. ses'[g].state = "active" /\ ses'[g].log = <<>>
  BY <1>2, <1>3, NewSessionEffect DEF Created
<1> HIDE DEF g
<1>6. CompletedLive(ses')
  BY <1>1, <1>4, <1>5, CompletedStays
<1>7. Tip' = g /\ ~Rolling'
  BY <1>1 DEF Tip, Rolling, g
<1>8. LiveIn(ses', g)
  BY <1>5 DEF LiveIn
<1>9. TipWatched'
  BY <1>1, <1>7, <1>8 DEF TipWatched
<1>10. SuccessorWatched'
  BY <1>1 DEF SuccessorWatched
<1> QED
  BY <1>6, <1>9, <1>10 DEF Watched

(* A disconnect on its way leaves the source away, and a new segment finds *)
(* it back.                                                                *)
LEMMA OfferWatched ==
    ASSUME JInv, Watched, Offer
    PROVE  Watched'
<1>1. /\ Types /\ JobOK /\ ses' = ses /\ phase' = phase /\ handle' = handle /\ Idle
      /\ phase # "stopped" /\ ses \in Seq(SessionT)
  BY DEF JInv, Types, Offer
<1>2. /\ Recording /\ ~Rolling /\ Tip = handle /\ ~GapComing /\ handle \in DOMAIN ses
      /\ handle \in Nat /\ ses[handle] \in SessionT
  BY <1>1, NamesAreNumbers DEF Idle, Recording, Rolling, Tip, GapComing, JobOK
<1>3. PICK u \in Offers(ses[handle]) :
          /\ Issued(u)
          /\ \/ job' = Job("create", [u EXCEPT !.t = "reopened"], handle, None, {})
                /\ u.t = "segment_opened"
             \/ job' = Job("create", u, handle, None, {})
             \/ job' = Job("append", u, handle, None, {})
  BY DEF Offer
<1>4. u \in Units /\ u.t \in UnitTypes
  BY <1>1, <1>2, OfferedUnit
<1>5. wire' = CASE u.t = "gap" -> FALSE [] u.t = "segment_opened" -> TRUE [] OTHER -> wire
  BY <1>3 DEF Issued
<1>6. /\ job' # None /\ job'.unit # None /\ job'.pred = handle
      /\ job'.step \in {"create", "append"}
      /\ u.t = "gap" => job'.unit.t = "gap"
  <2> DEFINE v == [u EXCEPT !.t = "reopened"]
  <2>1. v \in Units
    BY <1>4 DEF Units
  <2>2. {} \in SUBSET Nat /\ handle \in Nat \union {None} /\ None \in Nat \union {None}
        /\ "create" \in Steps /\ "append" \in Steps
    BY <1>2 DEF Steps
  <2>3. u # None /\ v # None
    BY <2>1, <1>4, UnitFields
  <2> HIDE DEF v
  <2>4. ASSUME NEW step \in {"create", "append"}, NEW w \in Units, w # None
        PROVE  LET j == Job(step, w, handle, None, {})
               IN  j # None /\ j.unit = w /\ j.pred = handle /\ j.step = step
    BY <2>2, JobTyped
  <2>5. CASE job' = Job("create", v, handle, None, {}) /\ u.t = "segment_opened"
    <3>1. job' # None /\ job'.unit = v /\ job'.pred = handle /\ job'.step = "create"
      BY <2>1, <2>3, <2>4, <2>5
    <3> QED
      BY <3>1, <2>3, <2>5
  <2>6. CASE job' = Job("create", u, handle, None, {})
    <3>1. job' # None /\ job'.unit = u /\ job'.pred = handle /\ job'.step = "create"
      BY <1>4, <2>3, <2>4, <2>6
    <3> QED
      BY <3>1, <2>3
  <2>7. CASE job' = Job("append", u, handle, None, {})
    <3>1. job' # None /\ job'.unit = u /\ job'.pred = handle /\ job'.step = "append"
      BY <1>4, <2>3, <2>4, <2>7
    <3> QED
      BY <3>1, <2>3
  <2> QED
    BY <1>3, <2>5, <2>6, <2>7 DEF v
<1>7. Rolling' /\ Tip' = handle
  BY <1>6 DEF Rolling, Tip
<1>8. ActiveIn(ses, handle) =>
        /\ ses[handle].gaps = 0 => LiveIn(ses, handle)
        /\ ~wire => AwayIn(ses, handle)
  BY <1>2 DEF Watched, TipWatched
<1>9. ~wire' /\ ~GapComing' => ~wire
  <2>1. u.t = "gap" => GapComing'
    BY <1>6, <1>7 DEF GapComing
  <2>2. u.t # "gap" => wire' \/ wire' = wire
    BY <1>5
  <2> QED
    BY <2>1, <2>2
<1>10. TipWatched'
  BY <1>1, <1>7, <1>8, <1>9 DEF TipWatched
<1>11. SuccessorWatched'
  BY <1>6 DEF SuccessorWatched
<1> QED
  BY <1>1, <1>10, <1>11 DEF Watched

(* A unit enters the recorder's session: the gap goes on record, and any   *)
(* other record that closes no gap is made while connected.                *)
LEMMA AppendUnitWatched ==
    ASSUME JInv, Watched, AppendUnit
    PROVE  Watched'
<1> DEFINE s == job.pred
<1> DEFINE u == job.unit
<1>1. /\ Types /\ SessionsIn(ses) /\ JobOK /\ job # None /\ job.step = "append"
      /\ handle' = s /\ wire' = wire /\ phase' = phase /\ ses \in Seq(SessionT)
      /\ job' = None \/ job' = SweepJob({s})
  BY DEF JInv, Types, AppendUnit
<1>2. /\ Rolling /\ UnitJob /\ AppendJob
  BY <1>1 DEF JobOK, StartupJob, Rolling
<1>3. /\ Recording /\ s \in DOMAIN ses /\ ActiveIn(ses, s) /\ UnitOK(u, ses[s]) /\ s \in Nat
      /\ ses[s].gaps \in Nat
  BY <1>1, <1>2, NamesAreNumbers, SessionFields DEF UnitJob
<1>4. PICK e : Admits(e)
  BY AdmittedStep
<1>5. /\ ses' \in Seq(SessionT) /\ GrownBy(ses, ses', s, e) /\ e.t = u.t /\ e.live = wire
      /\ e.t = "gap" => ses'[s].gaps = ses[s].gaps + 1 /\ ~ses'[s].open
      /\ e.t # "gap" => ses'[s].gaps = ses[s].gaps
      /\ e.t \notin {"gap", "segment_opened"} => ses'[s].open = ses[s].open
  BY <1>4 DEF Admits
<1>6. ~Rolling' /\ (job' # None => job'.step # "continue")
  <2>1. {s} \in SUBSET Nat
    BY <1>3
  <2> QED
    BY <2>1, <1>1, SweepJobTyped DEF Rolling
<1>7. Tip = s /\ Tip' = s
  BY <1>1, <1>2, <1>6 DEF Tip
<1>8. /\ ses[s].gaps = 0 /\ u.t # "gap" => LiveIn(ses, s)
      /\ ~wire /\ u.t # "gap" => AwayIn(ses, s)
  BY <1>3, <1>7 DEF Watched, TipWatched, GapComing
<1>9. ASSUME ses'[s].gaps = 0 PROVE LiveIn(ses', s)
  <2>1. u.t # "gap" /\ ses[s].gaps = 0
    BY <1>3, <1>5, <1>9
  <2>2. wire
    BY <2>1, <1>3, <1>8 DEF AwayIn
  <2>3. LiveIn(ses, s) /\ e.live
    BY <2>1, <2>2, <1>5, <1>8
  <2> QED
    BY <2>3, <1>1, <1>5, LiveGrown
<1>10. ASSUME ~wire PROVE AwayIn(ses', s)
  <2>1. CASE u.t = "gap"
    BY <2>1, <1>3, <1>5 DEF AwayIn
  <2>2. CASE u.t # "gap"
    <3>1. u.t # "segment_opened"
      BY <1>3, <1>10 DEF UnitOK
    <3> QED
      BY <2>2, <3>1, <1>5, <1>8, <1>10 DEF AwayIn
  <2> QED
    BY <2>1, <2>2
<1>11. TipWatched'
  BY <1>1, <1>7, <1>9, <1>10 DEF TipWatched
<1>12. CompletedLive(ses')
  BY <1>1, <1>3, <1>5, GrownCompleted DEF Watched
<1>13. SuccessorWatched'
  BY <1>6 DEF SuccessorWatched
<1> QED
  BY <1>11, <1>12, <1>13 DEF Watched

(* The rollover's own records: a closed connection is carried over, and    *)
(* otherwise the source is there.                                          *)
LEMMA RolloverCreateWatched ==
    ASSUME JInv, Watched, RolloverCreate
    PROVE  Watched'
<1>1. /\ Types /\ JobOK /\ job # None /\ job.step = "create" /\ ses \in Seq(SessionT)
      /\ job \in Jobs /\ ses' = Append(ses, NewSession(job.pred))
      /\ job' = [job EXCEPT !.step = "announce", !.succ = Len(ses) + 1]
      /\ handle' = handle /\ phase' = phase /\ wire' = wire
  BY DEF JInv, Types, RolloverCreate
<1>2. /\ Rolling /\ UnitJob /\ job.pred \in DOMAIN ses /\ Recording /\ job.pred \in NameT
  BY <1>1, NamesAreNumbers DEF JobOK, StartupJob, Rolling, UnitJob, NameT
<1>3. job'.step = "announce" /\ job'.unit = job.unit /\ job'.pred = job.pred /\ job' \in Jobs
  <2>1. Len(ses) + 1 \in Nat
    BY <1>1, NamesAreNumbers
  <2> QED
    BY <2>1, <1>1 DEF Jobs
<1>4. job' # None
  BY <1>3, JobFields
<1>5. ses' \in Seq(SessionT) /\ Created(ses, ses', job.pred)
  BY <1>1, <1>2, Extended
<1> DEFINE g == Len(ses) + 1
<1>6. /\ DOMAIN ses' = DOMAIN ses \union {g}
      /\ \A s \in DOMAIN ses : ses'[s] = ses[s]
  BY <1>1, <1>2, <1>5, CreatedFacts
<1>7. ses'[g].state = "active"
  BY <1>2, <1>5, NewSessionEffect DEF Created
<1> HIDE DEF g
<1>8. CompletedLive(ses')
  BY <1>6, <1>7, CompletedStays DEF Watched
<1>9. Rolling' /\ Tip = job.pred /\ Tip' = job.pred /\ (GapComing' <=> GapComing)
  BY <1>2, <1>3, <1>4 DEF Rolling, Tip, GapComing
<1>10. ActiveIn(ses, job.pred) =>
        /\ ses[job.pred].gaps = 0 => LiveIn(ses, job.pred)
        /\ ~wire /\ ~GapComing => AwayIn(ses, job.pred)
  BY <1>1, <1>2, <1>9 DEF Watched, TipWatched
<1>11. TipWatched'
  BY <1>1, <1>2, <1>6, <1>9, <1>10 DEF TipWatched, ActiveIn, LiveIn, AwayIn
<1>12. SuccessorWatched'
  BY <1>3 DEF SuccessorWatched
<1> QED
  BY <1>8, <1>11, <1>12 DEF Watched

(* The successor's records.                                                *)
LEMMA SuccessorGrownWatched ==
    ASSUME JInv, Watched, job # None, job.step \in {"announce", "continue"},
           ses' \in Seq(SessionT), NEW e, GrownBy(ses, ses', job.succ, e),
           job' # None, job'.step = "continue", job'.unit = job.unit, job'.pred = job.pred,
           job'.succ = job.succ, wire' = wire, phase' = phase,
           job.unit.t # "gap" =>
               /\ ses'[job.succ].gaps = 0 => LiveIn(ses', job.succ)
               /\ ~wire => AwayIn(ses', job.succ)
    PROVE  Watched'
<1>1. /\ Rolling /\ ses \in Seq(SessionT) /\ job.pred \in DOMAIN ses /\ job.succ # job.pred
      /\ ActiveIn(ses, job.succ) /\ Recording
  BY RolloverFacts
<1>2. ses'[job.pred] = ses[job.pred]
  BY <1>1 DEF GrownBy
<1>3. CompletedLive(ses')
  BY <1>1, GrownCompleted DEF Watched
<1>4. Rolling' /\ Tip = job.pred /\ Tip' = job.pred /\ (GapComing' <=> GapComing)
  BY <1>1 DEF Rolling, Tip, GapComing
<1>5. ActiveIn(ses, job.pred) =>
        /\ ses[job.pred].gaps = 0 => LiveIn(ses, job.pred)
        /\ ~wire /\ ~GapComing => AwayIn(ses, job.pred)
  BY <1>1, <1>4 DEF Watched, TipWatched
<1>6. TipWatched'
  BY <1>2, <1>4, <1>5 DEF TipWatched, ActiveIn, LiveIn, AwayIn
<1>7. SuccessorWatched'
  BY DEF SuccessorWatched
<1> QED
  BY <1>3, <1>6, <1>7 DEF Watched

(* RolloverAnnounce and RolloverContinue.                                  *)
LEMMA SuccessorStepsWatched ==
    ASSUME JInv, Watched, RolloverAnnounce \/ RolloverContinue
    PROVE  Watched'
<1>1. /\ job # None /\ job.step \in {"announce", "continue"} /\ wire' = wire /\ phase' = phase
      /\ Types /\ job \in Jobs
  BY DEF RolloverAnnounce, RolloverContinue, JInv, Types
<1>2. /\ Rolling /\ ses \in Seq(SessionT) /\ job.pred \in DOMAIN ses /\ job.succ \in DOMAIN ses
      /\ ActiveIn(ses, job.pred) /\ Recording /\ UnitOK(job.unit, ses[job.pred])
  BY <1>1, RolloverFacts
<1>3. Tip = job.pred /\ (GapComing <=> job.unit.t = "gap")
  BY <1>2 DEF Tip, GapComing
<1>4. CASE RolloverAnnounce
  <2>1. PICK e : Announces(e)
    BY <1>4, AnnouncedStep
  <2>2. /\ ses' \in Seq(SessionT) /\ GrownBy(ses, ses', job.succ, e) /\ e.live = wire
        /\ Len(ses[job.succ].log) = 0
        /\ job.unit.t # "reopened" /\ ~ses[job.pred].open => AwayIn(ses', job.succ)
    BY <2>1 DEF Announces
  <2>3. /\ job' # None /\ job'.step = "continue" /\ job'.unit = job.unit /\ job'.pred = job.pred
        /\ job'.succ = job.succ
    <3>1. job' = [job EXCEPT !.step = "continue"]
      BY <1>4 DEF RolloverAnnounce
    <3>2. job' \in Jobs
      BY <3>1, <1>1 DEF Jobs
    <3> QED
      BY <3>1, <3>2, <1>1, JobFields DEF Jobs
  <2>4. ASSUME job.unit.t # "gap", ~wire PROVE AwayIn(ses', job.succ)
    <3>1. AwayIn(ses, job.pred)
      BY <2>4, <1>2, <1>3 DEF Watched, TipWatched
    <3>2. job.unit.t # "reopened"
      BY <2>4, <1>2 DEF UnitOK
    <3> QED
      BY <3>1, <3>2, <2>2 DEF AwayIn
  <2>5. ASSUME job.unit.t # "gap", ses'[job.succ].gaps = 0 PROVE LiveIn(ses', job.succ)
    <3>1. wire
      BY <2>4, <2>5 DEF AwayIn
    <3>2. LiveIn(ses, job.succ)
      BY <2>2 DEF LiveIn
    <3>3. e.live
      BY <3>1, <2>2
    <3> QED
      BY <3>2, <3>3, <2>2, <1>2, LiveGrown
  <2> QED
    BY <2>2, <2>3, <2>4, <2>5, <1>1, SuccessorGrownWatched
<1>5. CASE RolloverContinue
  <2>1. PICK op, e : Continues(op, e)
    BY <1>5, ContinuedStep
  <2>2. /\ ses' \in Seq(SessionT) /\ GrownBy(ses, ses', job.succ, e) /\ e.live = wire
        /\ ses'[job.succ].gaps = ses[job.succ].gaps /\ ses'[job.succ].open = ses[job.succ].open
    BY <2>1 DEF Continues
  <2>3. job' = job /\ job.step = "continue"
    BY <1>5 DEF RolloverContinue
  <2>4. job.unit.t # "gap" =>
          /\ ses[job.succ].gaps = 0 => LiveIn(ses, job.succ)
          /\ ~wire => AwayIn(ses, job.succ)
    BY <2>3, <1>1 DEF Watched, SuccessorWatched
  <2>5. ASSUME job.unit.t # "gap", ~wire PROVE AwayIn(ses', job.succ)
    BY <2>2, <2>4, <2>5 DEF AwayIn
  <2>6. ASSUME job.unit.t # "gap", ses'[job.succ].gaps = 0 PROVE LiveIn(ses', job.succ)
    <3>1. wire /\ LiveIn(ses, job.succ)
      BY <2>2, <2>4, <2>6 DEF AwayIn
    <3>2. e.live
      BY <3>1, <2>2
    <3> QED
      BY <3>1, <3>2, <2>2, <1>2, LiveGrown
  <2> QED
    BY <2>2, <2>3, <2>5, <2>6, <1>1, SuccessorGrownWatched
<1> QED
  BY <1>4, <1>5

(* The predecessor is completed without a gap only if it was connected.    *)
LEMMA RolloverLinkWatched ==
    ASSUME JInv, Watched, RolloverLink
    PROVE  Watched'
<1>1. /\ job # None /\ job.step = "continue" /\ wire' = wire /\ phase' = phase
      /\ Types /\ job \in Jobs /\ handle' = handle
      /\ job' = Job("sweep", job.unit, job.succ, job.succ, {job.succ})
  BY DEF RolloverLink, JInv, Types
<1>2. /\ Rolling /\ ses \in Seq(SessionT) /\ job.pred \in DOMAIN ses /\ job.succ \in DOMAIN ses
      /\ ActiveIn(ses, job.pred) /\ Recording /\ job.succ # job.pred /\ job.succ \in Nat
  BY <1>1, RolloverFacts
<1>3. /\ ses' \in Seq(SessionT) /\ LinkedTo(ses, ses', job.pred, job.succ)
  BY LinkedStep
<1>4. /\ DOMAIN ses' = DOMAIN ses /\ ses'[job.succ] = ses[job.succ]
      /\ \A s \in DOMAIN ses : s # job.pred => ses'[s] = ses[s]
      /\ ses'[job.pred].gaps = ses[job.pred].gaps /\ ses'[job.pred].log = ses[job.pred].log
  BY <1>2, <1>3 DEF LinkedTo
<1>5. Tip = job.pred /\ (GapComing <=> job.unit.t = "gap")
  BY <1>2 DEF Tip, GapComing
<1>6. ses[job.pred].gaps = 0 => LiveIn(ses, job.pred)
  BY <1>1, <1>2, <1>5 DEF Watched, TipWatched
<1>7. CompletedLive(ses')
  BY <1>4, <1>6, CompletedStays DEF Watched
<1>8. /\ job' # None /\ job'.step = "sweep" /\ job'.unit = job.unit /\ job'.pred = job.succ
  <2>1. /\ "sweep" \in Steps /\ job.unit \in Units \union {None}
        /\ job.succ \in Nat \union {None} /\ {job.succ} \in SUBSET Nat
    BY <1>1, <1>2, JobFields DEF Steps
  <2> QED
    BY <2>1, <1>1, JobTyped
<1>9. /\ Rolling' /\ Tip' = job.succ /\ (GapComing' <=> job.unit.t = "gap")
  BY <1>2, <1>8 DEF Rolling, Tip, GapComing
<1>10. job.unit.t # "gap" =>
        /\ ses[job.succ].gaps = 0 => LiveIn(ses, job.succ)
        /\ ~wire => AwayIn(ses, job.succ)
  BY <1>1 DEF Watched, SuccessorWatched
<1>11. TipWatched'
  BY <1>1, <1>4, <1>8, <1>9, <1>10 DEF TipWatched, LiveIn, AwayIn
<1>12. SuccessorWatched'
  BY <1>8 DEF SuccessorWatched
<1> QED
  BY <1>7, <1>11, <1>12 DEF Watched

(* A pass leaves the session the recorder appends to as it is.             *)
LEMMA SweepWatched ==
    ASSUME JInv, Watched, Sweep \/ SweepFails
    PROVE  Watched'
<1>1. /\ job # None /\ job.step = "sweep" /\ wire' = wire /\ phase' = phase
      /\ Types /\ job \in Jobs /\ handle' = HandleAfterSweep /\ job' = AfterSweep
      /\ SessionsIn(ses) /\ JobOK
  BY DEF Sweep, SweepFails, JInv, Types
<1> DEFINE D == Doomed(job.held)
<1>2. /\ ses' \in Seq(SessionT) /\ Deleted(ses, ses', D)
      /\ \A s \in DOMAIN ses : s \notin D => ses'[s] = ses[s]
      /\ \A s \in D : ~ActiveIn(ses, s)
  BY <1>1, PassDeletes, DoomedUnneeded
<1> HIDE DEF D
<1>3. CompletedLive(ses')
  BY <1>2, CompletedStays DEF Deleted, Watched
<1>4. \A s \in DOMAIN ses : ActiveIn(ses', s) => ActiveIn(ses, s) /\ ses'[s] = ses[s]
  BY <1>2 DEF Deleted, ActiveIn
<1>5. Rolling => UnitJob /\ job.succ = job.pred
  BY <1>1 DEF JobOK, FollowUpJob
<1>6. job' # None =>
        /\ Rolling /\ job' \in Jobs /\ job'.step = "append" /\ job'.unit = job.unit
        /\ job'.pred = job.pred
  <2>1. SUFFICES ASSUME job' = [job EXCEPT !.step = "append", !.held = {}]
                 PROVE  /\ job' \in Jobs /\ job'.step = "append" /\ job'.unit = job.unit
                        /\ job'.pred = job.pred
    BY <1>1 DEF AfterSweep, Rolling
  <2> QED
    BY <2>1, <1>1 DEF Jobs
<1>7. CASE job' = None
  <2>1. Tip' = handle' /\ ~Rolling' /\ ~GapComing'
    BY <1>7 DEF Tip, Rolling, GapComing
  <2>2. Tip = handle' /\ ~GapComing
    <3>1. CASE Rolling
      <4>1. job.unit.t = "reopened"
        <5>1. ASSUME job.unit.t # "reopened" PROVE FALSE
          <6>1. job' = [job EXCEPT !.step = "append", !.held = {}]
            BY <3>1, <5>1, <1>1 DEF AfterSweep, Rolling
          <6>2. job' \in Jobs
            BY <6>1, <1>1 DEF Jobs
          <6> QED
            BY <6>2, <1>7, JobFields
        <5> QED
          BY <5>1
      <4>2. handle' = job.succ
        BY <4>1, <3>1, <1>1 DEF HandleAfterSweep, Rolling
      <4> QED
        BY <4>1, <4>2, <3>1, <1>5 DEF Tip, GapComing
    <3>2. CASE ~Rolling
      BY <3>2, <1>1 DEF HandleAfterSweep, Rolling, Tip, GapComing
    <3> QED
      BY <3>1, <3>2
  <2>3. Recording => Tip \in DOMAIN ses
    BY <1>1, <1>5 DEF Tip, JobOK, Recording, UnitJob
  <2>4. Recording /\ ActiveIn(ses, Tip) =>
          /\ ses[Tip].gaps = 0 => LiveIn(ses, Tip)
          /\ ~wire => AwayIn(ses, Tip)
    BY <2>2 DEF Watched, TipWatched
  <2>5. Tip' = Tip
    BY <2>1, <2>2
  <2> DEFINE t == Tip
  <2> HIDE DEF t
  <2>6. Recording => t \in DOMAIN ses
    BY <2>3 DEF t
  <2>7. Recording /\ ActiveIn(ses, t) =>
          /\ ses[t].gaps = 0 => LiveIn(ses, t)
          /\ ~wire => AwayIn(ses, t)
    BY <2>4 DEF t
  <2>8. Recording' <=> Recording
    BY <1>1 DEF Recording
  <2>9. Recording /\ ActiveIn(ses', t) =>
          /\ ses'[t].gaps = 0 => LiveIn(ses', t)
          /\ ~wire' => AwayIn(ses', t)
    BY <2>6, <2>7, <1>1, <1>4 DEF LiveIn, AwayIn
  <2>10. Tip' = t
    BY <2>5 DEF t
  <2>11. TipWatched'
    BY <2>8, <2>9, <2>10 DEF TipWatched
  <2>12. SuccessorWatched'
    BY <1>7 DEF SuccessorWatched
  <2> QED
    BY <2>11, <2>12, <1>3 DEF Watched
<1>8. CASE job' # None
  <2>1. /\ Rolling /\ Rolling' /\ Tip' = job.pred /\ Tip = job.pred
        /\ (GapComing' <=> job.unit.t = "gap") /\ (GapComing <=> job.unit.t = "gap")
        /\ job'.step = "append" /\ job.pred \in DOMAIN ses
    BY <1>5, <1>6, <1>8 DEF Rolling, Tip, GapComing, UnitJob
  <2>2. Recording /\ ActiveIn(ses, job.pred) =>
          /\ ses[job.pred].gaps = 0 /\ job.unit.t # "gap" => LiveIn(ses, job.pred)
          /\ ~wire /\ job.unit.t # "gap" => AwayIn(ses, job.pred)
    BY <2>1 DEF Watched, TipWatched
  <2>3. TipWatched'
    BY <2>1, <2>2, <1>1, <1>4 DEF TipWatched, Recording, LiveIn, AwayIn
  <2>4. SuccessorWatched'
    BY <2>1 DEF SuccessorWatched
  <2> QED
    BY <2>3, <2>4, <1>3 DEF Watched
<1> QED
  BY <1>7, <1>8

(* A failing write fails its sessions; where the recorder goes on, its     *)
(* session is the one it had.                                              *)
LEMMA WriteFailsWatched ==
    ASSUME JInv, Watched, AppendFails \/ RolloverFails
    PROVE  Watched'
<1>1. handle' = handle /\ wire' = wire
  BY DEF AppendFails, RolloverFails
<1>2. Rolling /\ \E U : FailedSessions(U) /\ (Stopped \/ LetThrough(U))
  BY WriteFailsEnds
<1>3. PICK U : FailedSessions(U) /\ (Stopped \/ LetThrough(U))
  BY <1>2
<1>4. /\ UnitJob /\ ses \in Seq(SessionT) /\ handle \in Nat
      /\ handle \in DOMAIN ses /\ (ActiveIn(ses, handle) => handle = job.pred)
  <2>1. UnitJob /\ Types
    BY <1>2 DEF JInv, JobOK
  <2> QED
    BY <2>1, NamesAreNumbers DEF UnitJob, Types
<1>5. /\ ses' \in Seq(SessionT) /\ Terminated(ses, ses', U)
      /\ \A s \in U : ses'[s].state = "failed"
  BY <1>3 DEF FailedSessions
<1>6. /\ DOMAIN ses' = DOMAIN ses
      /\ \A s \in DOMAIN ses :
            /\ s \notin U => ses'[s] = ses[s]
            /\ ActiveIn(ses', s) <=> ActiveIn(ses, s) /\ s \notin U
  BY <1>4, <1>5, TerminatedFacts
<1>7. CompletedLive(ses')
  BY <1>5, <1>6, CompletedStays DEF Watched
<1>8. CASE Stopped
  <2>1. {handle} \in SUBSET Nat
    BY <1>4
  <2>2. ~Recording' /\ ~Rolling' /\ (job' # None => job'.step # "continue")
    BY <2>1, <1>8, SweepJobTyped DEF Stopped, Recording, Rolling
  <2> QED
    BY <2>2, <1>7, IdleWatched
<1>9. CASE LetThrough(U)
  <2>1. /\ job' = None /\ phase' = phase /\ job.unit.t = "operation_started"
    BY <1>9 DEF LetThrough
  <2>2. Tip = job.pred /\ ~GapComing /\ Recording
    BY <2>1, <1>2, <1>4 DEF Tip, GapComing, UnitJob
  <2>3. ActiveIn(ses, job.pred) =>
          /\ ses[job.pred].gaps = 0 => LiveIn(ses, job.pred)
          /\ ~wire => AwayIn(ses, job.pred)
    BY <2>2 DEF Watched, TipWatched
  <2>4. Tip' = handle
    BY <2>1, <1>1 DEF Tip, Rolling
  <2>5. ActiveIn(ses', handle) => ses'[handle] = ses[handle] /\ handle = job.pred
    BY <1>4, <1>6
  <2>6. TipWatched'
    BY <2>3, <2>4, <2>5, <1>1 DEF TipWatched, ActiveIn, LiveIn, AwayIn
  <2>7. SuccessorWatched'
    BY <2>1 DEF SuccessorWatched
  <2> QED
    BY <2>6, <2>7, <1>7 DEF Watched
<1> QED
  BY <1>3, <1>8, <1>9

(* Nothing is watched before the first session.                            *)
LEMMA InitWatched ==
    ASSUME Init
    PROVE  Watched
<1>1. ses = <<>> /\ phase = "boot" /\ job.step = "recover"
  BY RecoverJobTyped DEF Init
<1> QED
  BY <1>1 DEF Watched, CompletedLive, TipWatched, SuccessorWatched, Recording

(* Every step watches on.                                                  *)
LEMMA StepWatched ==
    ASSUME JInv, Watched, [JournalNext]_vars
    PROVE  Watched'
<1>1. CASE RecoverSession \/ CreateFirst \/ AppendUnit \/ AppendFails \/ FailSession \/ Shutdown
           \/ Offer
  BY <1>1, EndsWatched, CreateFirstWatched, AppendUnitWatched, WriteFailsWatched, OfferWatched
<1>2. CASE RolloverCreate \/ RolloverAnnounce \/ RolloverContinue \/ RolloverLink \/ RolloverFails
  BY <1>2, RolloverCreateWatched, SuccessorStepsWatched, RolloverLinkWatched, WriteFailsWatched
<1>3. CASE Sweep \/ SweepFails \/ CloseReader \/ MarkBaseline \/ ClearBaseline \/ Restart
  BY <1>3, SweepWatched, QuietWatched
<1>4. CASE RecoveryDone \/ RecoveryFails \/ FindEnded \/ InputError
  BY <1>4, QuietWatched
<1>5. CASE UNCHANGED vars
  <2>1. ses' = ses /\ job' = job /\ handle' = handle /\ phase' = phase /\ wire' = wire
    BY <1>5 DEF vars
  <2>2. Tip' = Tip /\ (GapComing' <=> GapComing) /\ (Recording' <=> Recording)
    BY <2>1 DEF Tip, Rolling, GapComing, Recording
  <2>3. TipWatched'
    BY <2>1, <2>2 DEF Watched, TipWatched
  <2> QED
    BY <2>1, <2>3 DEF Watched, SuccessorWatched
<1> QED
  BY <1>1, <1>2, <1>3, <1>4, <1>5 DEF JournalNext

-----------------------------------------------------------------------------
(***************************************************************************)
(* What a pass deletes is enough.                                          *)
(***************************************************************************)
(* Every non-empty set of session names has an oldest one.                 *)
LEMMA OldestOf ==
    ASSUME NEW S \in SUBSET Nat, S # {}
    PROVE  \E n \in S : \A m \in S : n <= m
<1>1. IsWellFoundedOn(OpToRel(<, Nat), Nat)
  BY NatLessThanWellFounded, Zenon
<1>2. PICK n \in S : \A m \in S : ~(<<m, n>> \in OpToRel(<, Nat))
  BY <1>1, WFMin, Zenon
<1>3. \A m \in S : <<m, n>> \in Nat \X Nat
  OBVIOUS
<1>4. \A m \in S : ~(m < n)
  BY <1>2, <1>3 DEF OpToRel
<1> QED
  BY <1>4

(* The oldest k of a set of names are all of it, or at least k.            *)
LEMMA OldestSuffice ==
    ASSUME NEW G \in SUBSET Nat, IsFiniteSet(G), NEW k \in Nat, NEW D,
           D = {s \in G : Cardinality({x \in G : x < s}) < k}
    PROVE  G \subseteq D \/ Cardinality(D) >= k
<1>1. SUFFICES ASSUME ~(G \subseteq D)
               PROVE  Cardinality(D) >= k
  OBVIOUS
<1>2. G \ D # {} /\ G \ D \in SUBSET Nat
  BY <1>1
<1>3. PICK n \in G \ D : \A m \in G \ D : n <= m
  BY <1>2, OldestOf
<1> DEFINE B == {x \in G : x < n}
<1>4. IsFiniteSet(B) /\ Cardinality(B) \in Nat
  <2>1. B \in SUBSET G
    OBVIOUS
  <2>2. IsFiniteSet(B)
    BY <2>1, FS_Subset
  <2> QED
    BY <2>2, FS_CardinalityType
<1>5. Cardinality(B) >= k
  <2>1. ~(Cardinality(B) < k)
    BY <1>3
  <2> HIDE DEF B
  <2> QED
    BY <2>1, <1>4
<1>6. B \in SUBSET D
  <2>1. ASSUME NEW x \in G, x < n PROVE x \in D
    <3>1. x \in Nat /\ n \in Nat
      BY <1>3
    <3>2. ~(n <= x)
      BY <2>1, <3>1
    <3> HIDE DEF B
    <3> QED
      BY <3>2, <1>3
  <2> QED
    BY <2>1
<1>7. IsFiniteSet(D) /\ Cardinality(D) \in Nat
  <2>1. D \in SUBSET G
    OBVIOUS
  <2>2. IsFiniteSet(D)
    BY <2>1, FS_Subset
  <2> QED
    BY <2>2, FS_CardinalityType
<1> HIDE DEF B
<1>8. Cardinality(B) <= Cardinality(D)
  BY <1>6, <1>7, FS_Subset
<1> QED
  BY <1>4, <1>5, <1>7, <1>8

(* After a pass that found every session readable, the count is within the *)
(* limit or only protected sessions are left.                              *)
LEMMA SweepEnough ==
    ASSUME JInv, Sweep, ~RetentionFault
    PROVE  Cardinality(Existing') <= MaxCount \/ Existing' \subseteq Protected(job.held)
<1> DEFINE E == Existing
<1> DEFINE P == Protected(job.held)
<1> DEFINE D == Doomed(job.held)
<1>1. Types /\ ses \in Seq(SessionT) /\ DOMAIN ses = 1..Len(ses) /\ Len(ses) \in Nat
  BY NamesAreNumbers DEF JInv, Types
<1>2. E \in SUBSET (1..Len(ses))
  BY <1>1 DEF Existing
<1>3. IsFiniteSet(E) /\ Cardinality(E) \in Nat /\ E \in SUBSET Nat
  <2>1. IsFiniteSet(1..Len(ses))
    BY <1>1, FS_Interval
  <2>2. IsFiniteSet(E)
    BY <2>1, <1>2, FS_Subset
  <2> QED
    BY <2>2, <1>2, FS_CardinalityType
<1>4. D = {s \in E \ P : Cardinality({x \in E \ P : x < s}) < Excess}
  BY DEF Doomed
<1>5. E' = E \ D
  <2>1. ses' = [s \in DOMAIN ses |-> IF s \in D THEN Gone(ses[s]) ELSE ses[s]]
    BY DEF Sweep
  <2>2. D \subseteq DOMAIN ses
    BY <1>1, <1>2, <1>4
  <2> HIDE DEF D
  <2>3. \A s \in D : ses'[s].disk = "gone"
    BY <2>1, <2>2, <1>1, LogTyped, GoneEffect
  <2>4. DOMAIN ses' = DOMAIN ses /\ \A s \in DOMAIN ses : s \notin D => ses'[s] = ses[s]
    BY <2>1
  <2> QED
    BY <2>3, <2>4 DEF Existing, Exists
<1>6. MaxCount \in Nat
  BY BudgetAssumption
<1>7. Excess = IF Cardinality(E) > MaxCount THEN Cardinality(E) - MaxCount ELSE 0
  BY DEF Excess
<1> HIDE DEF E, P, D
<1>8. Excess \in Nat /\ Cardinality(E) - Excess <= MaxCount
  BY <1>3, <1>6, <1>7
<1>9. E \ P \in SUBSET Nat /\ IsFiniteSet(E \ P)
  <2>1. E \ P \in SUBSET E
    OBVIOUS
  <2> QED
    BY <2>1, <1>3, FS_Subset
<1>10. E \ P \subseteq D \/ Cardinality(D) >= Excess
  BY <1>4, <1>8, <1>9, OldestSuffice
<1>11. CASE E \ P \subseteq D
  BY <1>5, <1>11 DEF E, P
<1>12. CASE Cardinality(D) >= Excess
  <2>1. D \in SUBSET E
    BY <1>4
  <2>2. IsFiniteSet(D) /\ Cardinality(D) \in Nat /\ E \cap D = D
    <3>1. IsFiniteSet(D)
      BY <2>1, <1>3, FS_Subset
    <3> QED
      BY <3>1, <2>1, FS_CardinalityType
  <2>3. Cardinality(E \ D) = Cardinality(E) - Cardinality(D)
    BY <2>2, <1>3, FS_Difference
  <2>4. Cardinality(E \ D) <= MaxCount
    BY <2>2, <2>3, <1>3, <1>6, <1>8, <1>12
  <2> QED
    BY <2>4, <1>5 DEF E
<1> QED
  BY <1>10, <1>11, <1>12

(* Only a pass that is not cut short leaves a pass behind unspent.         *)
LEMMA StepEnough ==
    ASSUME JInv, JournalNext, job # None, job.step = "sweep", ~RetentionFault, spent' = spent
    PROVE  Cardinality(Existing') <= MaxCount \/ Existing' \subseteq Protected(job.held)
<1>1. spent \in SpentT /\ JobOK
  BY DEF JInv, Types
<1>2. [spent EXCEPT !["fault"] = @ + 1] # spent
  <2>1. spent.fault \in Nat /\ [spent EXCEPT !["fault"] = @ + 1].fault = spent.fault + 1
    BY <1>1 DEF SpentT
  <2> QED
    BY <2>1
<1>3. ~SweepFails
  BY <1>2 DEF SweepFails, Spend
<1>4. ~Restart
  <2>1. ASSUME Restart PROVE FALSE
    <3>1. spent' = [spent EXCEPT !.crash = @ + 1, !.swallowed = IF @ = 0 THEN 0 ELSE 2]
      BY <2>1 DEF Restart
    <3>2. spent'.crash = spent.crash + 1 /\ spent.crash \in Nat
      BY <3>1, <1>1 DEF SpentT
    <3> QED
      BY <3>2
  <2> QED
    BY <2>1
<1>5. /\ ~RecoverSession /\ ~RecoveryDone /\ ~RecoveryFails /\ ~CreateFirst
  BY DEF RecoverSession, RecoveryDone, RecoveryFails, CreateFirst
<1>6. /\ ~Offer /\ ~AppendUnit /\ ~AppendFails /\ ~FindEnded /\ ~InputError /\ ~FailSession
  BY DEF Offer, AppendUnit, AppendFails, FindEnded, InputError, FailSession, Idle
<1>7. /\ ~RolloverCreate /\ ~RolloverAnnounce /\ ~RolloverContinue /\ ~RolloverLink /\ ~RolloverFails
  BY DEF RolloverCreate, RolloverAnnounce, RolloverContinue, RolloverLink, RolloverFails
<1>8. /\ ~CloseReader /\ ~MarkBaseline /\ ~ClearBaseline /\ ~Shutdown
  BY DEF CloseReader, MarkBaseline, ClearBaseline, Shutdown, Idle
<1>9. Sweep
  BY <1>3, <1>4, <1>5, <1>6, <1>7, <1>8 DEF JournalNext
<1> QED
  BY <1>9, SweepEnough

-----------------------------------------------------------------------------
(* What is needed is kept: the ranges of an operation that is active, or   *)
(* ended while its reader is open, are whole.                              *)
LEMMA NeededKept == JInv /\ Needed => NeededSessionsKept
<1>1. SUFFICES ASSUME JInv, Needed PROVE NeededSessionsKept
  OBVIOUS
<1>2. /\ ses \in Seq(SessionT) /\ RangesIn(ses, FrozenNow)
      /\ NeededIn(ses, lease, tails, baseline)
  BY <1>1, NeededTypes DEF Needed
<1>3. ASSUME NEW s \in DOMAIN ses, NEW op \in DOMAIN ses[s].ops
      PROVE  /\ WholeIn(ses, RangeSessions(ses[s].ops[op]))
             /\ RangeSessions(ses[s].ops[op]) \subseteq DOMAIN ses
  <2>1. RangeSessions(ses[s].ops[op]) \subseteq DOMAIN ses
    BY <1>2, RangesExist
  <2> QED
    BY <2>1, <1>2 DEF NeededIn, OpsWhole
<1>4. \A s \in Existing : ses[s].state = "active" =>
          \A op \in DOMAIN ses[s].ops : \A x \in RangeSessions(ses[s].ops[op]) :
             Exists(x) /\ ses[x].disk = "whole"
  BY <1>3 DEF WholeIn, Exists, Existing
<1>5. ASSUME NEW op \in Ops, lease[op] # {}, Ended(op), NEW rs \in ClaimedRanges(op),
             NEW x \in RangeSessions(rs)
      PROVE  ses[x].disk = "whole"
  <2>1. EndedIn(ses, op)
    BY <1>5 DEF Ended, EndedIn
  <2>2. ~InterruptedIn(ses, op) /\ TerminalHeld(ses, lease, op) /\ WholeIn(ses, lease[op])
    BY <2>1, <1>2, <1>5 DEF NeededIn, ReaderHolds
  <2>3. CASE \E s \in DOMAIN ses : op \in DOMAIN ses[s].ops /\ rs = ses[s].ops[op]
    BY <2>3, <1>3, <1>5 DEF WholeIn
  <2>4. CASE \E s \in DOMAIN ses : op \in DOMAIN ses[s].cut /\ rs = ses[s].cut[op]
    BY <2>2, <2>4 DEF InterruptedIn
  <2>5. CASE \E s \in DOMAIN ses : \E m \in 0..(Budget - 1) :
                /\ m < Len(ses[s].log) /\ Entry(s, m).t = "operation_terminal"
                /\ Entry(s, m).id = op /\ rs = Entry(s, m).ref
    <3>1. PICK s \in DOMAIN ses, m \in 0..(Budget - 1) :
                /\ m < Len(ses[s].log) /\ Entry(s, m).t = "operation_terminal"
                /\ Entry(s, m).id = op /\ rs = Entry(s, m).ref
      BY <2>5
    <3>2. m + 1 \in 1..Len(ses[s].log)
      BY <3>1, <1>2, LogTyped
    <3>3. RangeSessions(rs) \subseteq lease[op]
      BY <3>1, <3>2, <2>2 DEF TerminalHeld, Entry
    <3> QED
      BY <3>3, <2>2, <1>5 DEF WholeIn
  <2> QED
    BY <2>3, <2>4, <2>5, <1>5 DEF ClaimedRanges
<1>6. \A s \in tails : ses[s].disk = "whole"
  BY <1>2 DEF NeededIn, WholeIn
<1>7. baseline # None => ses[baseline].disk = "whole"
  BY <1>2 DEF NeededIn
<1> QED
  BY <1>4, <1>5, <1>6, <1>7 DEF NeededSessionsKept

(* A session that may serve as the baseline was connected throughout.      *)
LEMMA ConnectedHolds == JInv /\ Watched => EligibleWasConnected
<1>1. SUFFICES ASSUME JInv, Watched, NEW s \in Existing, Eligible(s), NEW n \in DOMAIN ses[s].log
               PROVE  ses[s].log[n].live
  BY DEF EligibleWasConnected
<1>2. s \in DOMAIN ses /\ ses \in Seq(SessionT)
  BY <1>1 DEF Existing, JInv, Types
<1>3. n \in 1..Len(ses[s].log)
  BY <1>1, <1>2, LogTyped
<1>4. LiveIn(ses, s)
  BY <1>1, <1>2 DEF Watched, CompletedLive, Eligible
<1> QED
  BY <1>3, <1>4 DEF LiveIn

(* Retention deletes nothing that is needed: no evidence of an active      *)
(* operation, none that an open reader or a snapshot holds, no baseline    *)
(* (retention.py: the protections of a pass); it deletes all that may go   *)
(* beyond the limit; and a session that baseline.py finds eligible was     *)
(* connected for as long as it was written, however rollovers, disconnects *)
(* and crashes interleave.                                                 *)
THEOREM RetentionSound == JournalSpec => RetentionIsSound
<1>1. Init => JInv /\ RInv
  BY InitKeeps, InitNeeded, InitWatched DEF RInv
<1>2. (JInv /\ RInv) /\ [JournalNext]_vars => (JInv /\ RInv)'
  BY StepKeeps, StepNeeded, StepWatched DEF RInv
<1>3. JInv /\ RInv => NeededSessionsKept /\ EligibleWasConnected
  BY NeededKept, ConnectedHolds DEF RInv
<1>4. JInv /\ [JournalNext]_vars
        => [(job # None /\ job.step = "sweep" /\ ~RetentionFault /\ spent' = spent)
              => Cardinality(Existing') <= MaxCount \/ Existing' \subseteq Protected(job.held)]_vars
  BY StepEnough
<1> QED
  BY <1>1, <1>2, <1>3, <1>4, PTL DEF JournalSpec, RetentionIsSound, SweepIsComplete
=============================================================================
