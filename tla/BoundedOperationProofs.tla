----------------------- MODULE BoundedOperationProofs -----------------------
(***************************************************************************)
(* Bounded operations exclude each other, device actions and changes of    *)
(* ownership as the mutation lock and its owner promise, and a call        *)
(* returns what the journal holds: for every set of operations, every      *)
(* input, and every bound.                                                 *)
(*                                                                         *)
(* The invariant is what the threads of runtime.py rely on.  A thread      *)
(* inside _mutation holds the lock, and an Interact that has claimed the   *)
(* device is its owner until it returns (LockOK).  Whoever changes the     *)
(* ownership waits for operations that no new one can join (WaitsOK).  An  *)
(* operation that is no longer active before it has completed itself was   *)
(* ended by the recorder, and its terminal record, unless a fault kept it  *)
(* from being written, is in the session that ended (EndedOK).             *)
(***************************************************************************)
EXTENDS BoundedOperation, SequenceTheorems, TLAPS

(* Inside _mutation, with the lock; an Interact between its claim and its   *)
(* return; an operation that is registered; one that has yet to complete.   *)
InMutation == {"claim", "attempt", "send", "result"}
Watching == {"act", "attempt", "send", "result", "loop", "clock", "wait", "complete", "raised"}
Registered == Watching \union {"finally"}
Owning == {"start", "return"} \union Registered

States == {"connected", "reconnecting", "disconnected", "released", "reacquiring", "faulted",
           "closed"}

(* The labels a thread of each kind can be at.                              *)
LabelsOf(t) ==
    IF t = Sender THEN {"idle", "attempt", "send", "result", "done"}
    ELSE IF t \in Interacts THEN Labels
    ELSE Labels \ {"claim", "act", "attempt", "send", "result", "return"}

(* A log record: its session and segment, and its bytes.                    *)
Records == [key : Nat \X Nat, data : Seq({"n", "P", "x"})]

RecShape ==
    /\ DOMAIN rec = {"state", "ses", "seg", "gen", "live", "open", "ending"}
    /\ rec.state \in States /\ rec.ses \in Nat /\ rec.seg \in Nat
    /\ rec.live \in BOOLEAN /\ rec.ending \in BOOLEAN
    /\ DOMAIN spent = {"load", "faults", "split"} /\ spent.faults \in Nat

ThreadShape ==
    /\ DOMAIN pc = Clients /\ \A t \in Clients : pc[t] \in LabelsOf(t)
    /\ DOMAIN res = Clients
    /\ DOMAIN tx = Clients /\ \A t \in Clients : DOMAIN tx[t] = {"st", "gen", "cut"}
    /\ DOMAIN term = Ops

OpShape == DOMAIN op = Ops /\ \A t \in Ops : DOMAIN op[t] = DOMAIN NewOp

LogShape == log \in Seq(Records) /\ input \in Inputs

OtherShape ==
    /\ active \subseteq Ops /\ mon \subseteq Ops /\ cancel \subseteq Ops /\ expired \subseteq Ops
    /\ DOMAIN mut = {"lock", "count", "owner"}
    /\ DOMAIN lc = {"pc", "kind", "active", "waits"}
    /\ DOMAIN cl = {"pc", "waits", "closing", "closed"}

ShapesOK == RecShape /\ ThreadShape /\ OpShape /\ LogShape /\ OtherShape

LockOK ==
    /\ mut.lock \in Clients \union {None, "lifecycle", "closer"}
    /\ mut.owner \in Interacts \union {None}
    /\ mut.count = IF mut.lock \in Clients THEN 1 ELSE 0
    /\ \A t \in Clients : /\ pc[t] \in InMutation <=> mut.lock = t
                          /\ pc[t] \in InMutation => mut.owner \in {None, t}
    /\ \A t \in Interacts : pc[t] \in Owning <=> mut.owner = t
    /\ cl.pc = "recorder" => mut.lock = "closer"

(* A change of ownership and shutdown have the device, and then the         *)
(* operations, to themselves.                                               *)
WaitsOK ==
    /\ lc.pc # "idle" => lc.active /\ mut.owner = None /\ mut.count = 0
    /\ \A t \in Ops : pc[t] \in Registered => t \in mon
    /\ lc.pc = "waiting" => mon \subseteq lc.waits
    /\ lc.pc \in {"reacquire", "opening"} => mon = {}
    /\ cl.pc # "idle" => cl.closing
    /\ cl.pc = "waiting" => mon \subseteq cl.waits
    /\ cl.pc \in {"recorder", "done"} => mon = {}

Faulted == spent.faults > 0

(* A session that is no longer live has no operations; a fault is counted.  *)
RecorderOK ==
    /\ ~rec.live => active = {}
    /\ rec.state = "faulted" \/ rec.ending => Faulted
    /\ rec.state = "faulted" => rec.ending \/ ~rec.live
    /\ rec.state = "disconnected" => ~rec.live
    /\ \A t \in Clients : tx[t].st = "input" => Faulted
    /\ \A t \in active : pc[t] \in Watching \/ rec.ending

(* The recorder has ended operation t, and its record tells.                *)
EndedBy(t) == /\ term[t] # None /\ ~rec.live
              /\ spent.split \/ term[t].ses = rec.ses

EndedOK ==
    \A t \in Ops :
        /\ pc[t] \notin {"finally", "return", "done"} /\ term[t] # None =>
               term[t].outcome \in {"disconnected", "error"}
        /\ pc[t] \in Watching /\ t \notin active => Faulted \/ EndedBy(t)
        /\ pc[t] = "raised" => op[t].outcome = None \/ spent.split \/ Faulted

(* What a thread has decided, and what it will return.                      *)
DecidedOK ==
    \A t \in Ops :
        /\ op[t].start \in Nat /\ op[t].cursor \in Nat
        /\ op[t].start <= op[t].cursor /\ op[t].cursor <= Len(log)
        /\ op[t].outcome \in Outcomes \union {None}
        /\ pc[t] \notin {"complete", "raised", "finally"} => op[t].outcome = None
        /\ pc[t] = "complete" => op[t].outcome # None
        /\ op[t].outcome = "matched" => op[t].match # None
        /\ term[t] # None => term[t].outcome \in Outcomes

ReturnedOK ==
    /\ \A t \in Clients : res[t] \in Outcomes \union {None, "refused", "raised", "sent"}
    /\ \A t \in Ops :
        /\ res[t] \in Outcomes => pc[t] = "finally" /\ t \notin active
        /\ pc[t] = "finally" /\ res[t] = "raised" => Faulted \/ t \notin active

(* An Interact watches for an answer only to what it has sent.              *)
Answered(t) == tx[t].st = "sent" \/ (tx[t].st = "failed" /\ tx[t].cut)

AnsweredOK ==
    \A t \in Interacts :
        /\ pc[t] = "loop" => Answered(t) \/ t \in cancel \/ rec.state = "disconnected"
        /\ pc[t] \in {"clock", "wait"} => Answered(t)
        /\ op[t].outcome \in {"matched", "timeout", "released"} => Answered(t)
        /\ res[t] \in {"matched", "timeout", "released"} => Answered(t)

IInv ==
    /\ ShapesOK /\ LockOK /\ WaitsOK /\ RecorderOK /\ EndedOK /\ DecidedOK /\ ReturnedOK
    /\ ResultIsRecord /\ AnsweredOK

-----------------------------------------------------------------------------
(* What the operators of the model do, field by field.                      *)

\* A unit of load is counted; faults and split sessions are not.
LEMMA SpendFacts ==
  ASSUME RecShape, Spend
  PROVE  /\ DOMAIN spent' = DOMAIN spent /\ spent'.faults = spent.faults
         /\ spent'.split = spent.split
  BY DEF RecShape, Spend

\* A fault is counted.
LEMMA SpendFaultFacts ==
  ASSUME RecShape, SpendFault
  PROVE  /\ DOMAIN spent' = DOMAIN spent /\ spent'.faults \in Nat /\ spent'.faults > 0
         /\ spent'.split = spent.split
  BY DEF RecShape, SpendFault

(* A unit is admitted, to the session or to its successor.                  *)
GoesOn == /\ DOMAIN rec' = DOMAIN rec /\ rec'.ses \in Nat /\ rec'.seg \in Nat
          /\ rec'.state = rec.state /\ rec'.live = rec.live /\ rec'.ending = rec.ending
          /\ DOMAIN spent' = DOMAIN spent /\ spent'.faults = spent.faults
          /\ spent'.split = spent.split

LEMMA RollGoesOn ==
  ASSUME RecShape, NEW roll \in BOOLEAN, Rolls(roll), rec' = RolledOver(rec, roll)
  PROVE  GoesOn
<1>1. /\ DOMAIN spent' = DOMAIN spent /\ spent'.faults = spent.faults
      /\ spent'.split = spent.split
  BY SpendFacts DEF Rolls
<1> QED
  BY <1>1 DEF GoesOn, RolledOver, RecShape

(* Received bytes are a record of the log.                                  *)
Received ==
    /\ GoesOn /\ rec.live
    /\ \E record \in Records : log' = Append(log, record)
    /\ UNCHANGED <<active, term, threadVars, mut, mon, cancel, expired, lc, cl, input>>

LEMMA ReceiveFacts ==
  ASSUME ShapesOK, Receive
  PROVE  Received
<1>1. PICK roll \in BOOLEAN :
        /\ Rolls(roll)
        /\ LET r    == RolledOver(rec, roll)
               data == input[Len(log) + 1]
           IN  /\ log' = Append(log, [key |-> Key(r), data |-> data])
               /\ rec' = [r EXCEPT !.open = Last(data) # "n"]
  BY DEF Receive
<1> DEFINE r == RolledOver(rec, roll)
           data == input[Len(log) + 1]
<1>2. /\ DOMAIN spent' = DOMAIN spent /\ spent'.faults = spent.faults
      /\ spent'.split = spent.split
  BY <1>1, SpendFacts DEF Rolls, ShapesOK
<1>3. DOMAIN r = DOMAIN rec /\ r.ses \in Nat /\ r.seg \in Nat /\ r.state = rec.state
      /\ r.live = rec.live /\ r.ending = rec.ending
  BY DEF RolledOver, ShapesOK, RecShape
<1>4. GoesOn
  BY <1>1, <1>2, <1>3 DEF GoesOn, ShapesOK, RecShape
<1>5. data \in Seq({"n", "P", "x"})
  <2>1. input \in Seq(Seq({"n", "P", "x"})) /\ Len(log) + 1 \in 1 .. Len(input)
    BY InputsAssumption DEF Receive, ShapesOK, LogShape
  <2> QED
    BY <2>1
<1>6. Key(r) \in Nat \X Nat
  BY <1>3 DEF Key
<1>7. [key |-> Key(r), data |-> data] \in Records
  BY <1>5, <1>6 DEF Records
<1> QED
  BY <1>1, <1>4, <1>7 DEF Receive, Received

(* What an operation has when it starts.                                    *)
Fresh(o) == /\ DOMAIN o = DOMAIN NewOp /\ o.start = Len(log) /\ o.cursor = Len(log)
            /\ o.outcome = None

(* An operation starts in the session that is recorded.                     *)
HasStarted(t) ==
    /\ GoesOn /\ rec.live /\ pc[t] = "start" /\ ~cl.closing /\ ~lc.active
    /\ rec.state \in {"connected", "reconnecting"}
    /\ op' = op \/ \E o : op' = [op EXCEPT ![t] = o] /\ Fresh(o)
    /\ active' = active \union {t} /\ mon' = mon \union {t}
    /\ pc' = [pc EXCEPT ![t] = IF t \in Interacts /\ t \notin cancel THEN "act" ELSE "loop"]
    /\ UNCHANGED <<log, term, res, tx, mut, cancel, expired, lc, cl, input>>

LEMMA StartFacts ==
  ASSUME ShapesOK, NEW t \in Ops, Start(t)
  PROVE  HasStarted(t)
<1>1. GoesOn
  BY RollGoesOn DEF Start, ShapesOK
<1>2. \A r : Fresh(Started(t, r))
  BY DEF Fresh, Started, NewOp
<1>3. op' = op \/ \E o : op' = [op EXCEPT ![t] = o] /\ Fresh(o)
  BY <1>2 DEF Start
<1> QED
  BY <1>1, <1>3 DEF Start, Startable, Register, Goto, HasStarted

(* An operation completes itself, finds the record of who ended it, or none. *)
HasCompleted(t) ==
    /\ GoesOn /\ pc[t] = "complete"
    /\ UNCHANGED <<log, op, tx, mut, mon, cancel, expired, lc, cl, input>>
    /\ \/ /\ t \in active /\ active' = active \ {t}
          /\ term' = [term EXCEPT ![t] = [outcome |-> op[t].outcome, ses |-> rec'.ses]]
          /\ pc' = [pc EXCEPT ![t] = "finally"] /\ res' = [res EXCEPT ![t] = op[t].outcome]
       \/ /\ t \notin active /\ term[t] # None
          /\ pc' = [pc EXCEPT ![t] = "finally"] /\ res' = [res EXCEPT ![t] = term[t].outcome]
          /\ UNCHANGED <<spent, rec, term, active>>
       \/ /\ t \notin active /\ ~(term[t] # None /\ term[t].ses = rec.ses)
          /\ pc' = [pc EXCEPT ![t] = "raised"]
          /\ UNCHANGED <<spent, rec, term, active, res>>

LEMMA CompleteFacts ==
  ASSUME ShapesOK, NEW t \in Ops, Complete(t)
  PROVE  HasCompleted(t)
<1>1. UNCHANGED <<spent, rec>> => GoesOn
  BY DEF GoesOn, ShapesOK, RecShape
<1>2. GoesOn
  BY <1>1, RollGoesOn DEF Complete, ShapesOK
<1> QED
  BY <1>2 DEF Complete, Terminal, TerminalStored, Finish, Goto, HasCompleted

(* An operation that raised is completed as an error, or left as it is.     *)
HasFailed(t) ==
    /\ GoesOn /\ pc[t] = "raised"
    /\ UNCHANGED <<log, op, tx, mut, mon, cancel, expired, lc, cl, input>>
    /\ \/ /\ rec.state # "faulted" /\ t \in active /\ active' = active \ {t}
          /\ term' = [term EXCEPT ![t] = [outcome |-> "error", ses |-> rec'.ses]]
       \/ /\ rec.state = "faulted" \/ t \notin active
          /\ UNCHANGED <<spent, rec, term, active>>
    /\ pc' = [pc EXCEPT ![t] = "finally"] /\ res' = [res EXCEPT ![t] = "raised"]

LEMMA CompleteErrorFacts ==
  ASSUME ShapesOK, NEW t \in Ops, CompleteError(t)
  PROVE  HasFailed(t)
<1>1. UNCHANGED <<spent, rec>> => GoesOn
  BY DEF GoesOn, ShapesOK, RecShape
<1>2. GoesOn
  BY <1>1, RollGoesOn DEF CompleteError, ShapesOK
<1> QED
  BY <1>2 DEF CompleteError, Terminal, Finish, Goto, HasFailed

(* A send that is refused inside the mutation leaves it.                    *)
IsRefused(t) ==
    /\ pc[t] = "attempt"
    /\ \/ t \in Ops /\ pc' = [pc EXCEPT ![t] = "raised"] /\ UNCHANGED res
       \/ /\ t \notin Ops /\ pc' = [pc EXCEPT ![t] = "done"]
          /\ res' = [res EXCEPT ![t] = "raised"]
    /\ mut' = LeftMutation
    /\ UNCHANGED <<rec, log, active, term, op, tx, mon, cancel, expired, lc, cl, input, spent>>

LEMMA RefusedFacts ==
  ASSUME NEW t \in Clients, SendRefused(t)
  PROVE  IsRefused(t)
<1>1. CASE t \in Ops
  BY <1>1 DEF SendRefused, LeaveMutation, Goto, IsRefused
<1>2. CASE t \notin Ops
  BY <1>2 DEF SendRefused, LeaveMutation, Goto, Finish, IsRefused
<1> QED
  BY <1>1, <1>2

(* The recorder ends the operations that are active, and the session.       *)
Ends(outcome) ==
    /\ DOMAIN term' = Ops
    /\ \A t \in Ops :
          IF t \in active
          THEN /\ term'[t] # None /\ term'[t].outcome = outcome
               /\ spent'.split \/ term'[t].ses = rec'.ses
          ELSE term'[t] = term[t]
    /\ active' = {}
    /\ DOMAIN rec' = DOMAIN rec /\ rec'.state = rec.state /\ rec'.ses \in Nat /\ rec'.seg \in Nat
    /\ rec'.live = FALSE /\ rec'.ending = FALSE
    /\ rec'.ses = rec.ses \/ spent'.split
    /\ DOMAIN spent' = DOMAIN spent /\ spent'.faults = spent.faults
    /\ spent.split => spent'.split

LEMMA EndOperationsFacts ==
  ASSUME ShapesOK, NEW outcome \in {"disconnected", "error"}, EndOperations(outcome)
  PROVE  Ends(outcome)
<1>1. PICK late \in ((SUBSET active) \ {active}) \union {{}} :
        /\ term' = Terminals(outcome, late)
        /\ active' = {}
        /\ spent' = [spent EXCEPT !.split = @ \/ late # {}]
        /\ rec' = [RolledOver(rec, late # {}) EXCEPT !.live = FALSE, !.ending = FALSE]
  BY DEF EndOperations
<1>2. /\ DOMAIN spent' = DOMAIN spent /\ spent'.faults = spent.faults
      /\ spent.split => spent'.split
      /\ late # {} => spent'.split
  BY <1>1 DEF ShapesOK, RecShape
<1>3. /\ DOMAIN rec' = DOMAIN rec /\ rec'.state = rec.state /\ rec'.ses \in Nat /\ rec'.seg \in Nat
      /\ rec'.live = FALSE /\ rec'.ending = FALSE
      /\ late = {} => rec'.ses = rec.ses
  BY <1>1 DEF RolledOver, ShapesOK, RecShape
<1>4. ASSUME NEW t \in Ops, t \in active
      PROVE  /\ term'[t] # None /\ term'[t].outcome = outcome
             /\ spent'.split \/ term'[t].ses = rec'.ses
  <2> DEFINE s == IF t \in late THEN rec.ses + 1 ELSE rec.ses
  <2>1. term'[t] = [outcome |-> outcome, ses |-> s]
    BY <1>1, <1>4 DEF Terminals
  <2>2. s \in Nat
    BY DEF ShapesOK, RecShape
  <2>3. [outcome |-> outcome, ses |-> s] \in TerminalRecords
    BY <2>2 DEF TerminalRecords, Outcomes
  <2>4. late = {} => s = rec.ses
    OBVIOUS
  <2> QED
    BY <1>2, <1>3, <2>1, <2>3, <2>4, NamesAssumption
<1>5. DOMAIN term' = Ops /\ \A t \in Ops \ active : term'[t] = term[t]
  BY <1>1 DEF Terminals
<1> QED
  BY <1>1, <1>2, <1>3, <1>4, <1>5 DEF Ends

Elsewhere == UNCHANGED <<log, op, pc, res, tx, mut, mon, cancel, expired, lc, cl, input>>

(* The reconnect timeout and a fault end the session.                       *)
TimedOut == rec.state = "reconnecting" /\ rec.live /\ Ends("disconnected") /\ Elsewhere

LEMMA TimedOutFacts ==
  ASSUME ShapesOK, ReconnectTimedOut
  PROVE  TimedOut
<1>1. EndOperations("disconnected")
  BY DEF ReconnectTimedOut
<1>2. Ends("disconnected")
  BY <1>1, EndOperationsFacts
<1> QED
  BY <1>2 DEF ReconnectTimedOut, TimedOut, Elsewhere, threadVars

FatalEnded ==
    /\ rec.ending /\ Elsewhere
    /\ \/ Ends("error")
       \/ /\ DOMAIN rec' = DOMAIN rec /\ rec'.state = rec.state /\ rec'.ses = rec.ses
          /\ rec'.seg = rec.seg /\ rec'.live = FALSE /\ rec'.ending = FALSE
          /\ active' = {} /\ UNCHANGED <<term, spent>>

LEMMA FatalEndFacts ==
  ASSUME ShapesOK, FatalEnd
  PROVE  FatalEnded
<1>1. CASE EndOperations("error")
  <2>1. Ends("error")
    BY <1>1, EndOperationsFacts
  <2> QED
    BY <2>1 DEF FatalEnd, FatalEnded, Elsewhere, threadVars
<1>2. CASE ~EndOperations("error")
  BY <1>2 DEF FatalEnd, FatalEnded, Elsewhere, threadVars, ShapesOK, RecShape
<1> QED
  BY <1>1, <1>2

(* A thread enters the mutation, or is refused.                             *)
Enters(t, owner, entered, refused) ==
    \/ /\ ~lc.active /\ mut.owner \in {None, owner} /\ mut.lock = None
       /\ DOMAIN mut' = DOMAIN mut /\ mut'.lock = t /\ mut'.count = mut.count + 1
       /\ mut'.owner = mut.owner
       /\ pc' = [pc EXCEPT ![t] = entered] /\ UNCHANGED res
    \/ /\ pc' = [pc EXCEPT ![t] = refused] /\ res' = [res EXCEPT ![t] = "refused"]
       /\ UNCHANGED mut

LEMMA EnterFacts ==
  ASSUME OtherShape, NEW t, NEW owner, NEW entered, NEW refused,
         EnterMutation(t, owner, entered, refused)
  PROVE  Enters(t, owner, entered, refused)
<1>1. CASE /\ OwnerAllows(owner) /\ mut.lock = None
           /\ mut' = [mut EXCEPT !.lock = t, !.count = @ + 1]
           /\ Goto(t, entered) /\ UNCHANGED res
  BY <1>1 DEF OwnerAllows, Enters, OtherShape, Goto
<1>2. CASE Finish(t, refused, "refused") /\ UNCHANGED mut
  BY <1>2 DEF Enters, Finish, Goto
<1> QED
  BY <1>1, <1>2 DEF EnterMutation

(* The lock is taken by a thread outside the mutation, or nothing happens.  *)
LEMMA EntersLock ==
  ASSUME IInv, NEW t \in Clients, NEW owner \in {None, t}, NEW entered \in InMutation,
         NEW refused, refused \notin InMutation, Enters(t, owner, entered, refused),
         pc[t] \notin InMutation, UNCHANGED cl,
         t \in Interacts => /\ entered \in Owning <=> pc[t] \in Owning
                            /\ refused \in Owning <=> pc[t] \in Owning
  PROVE  LockOK'
<1> USE DEF IInv, ShapesOK, ThreadShape
<1>1. t # None /\ t \notin {"lifecycle", "closer"}
  BY OpsAssumption, NamesAssumption DEF Clients
<1>2. Interacts \subseteq Clients
  BY DEF Clients, Ops
<1>3. CASE pc' = [pc EXCEPT ![t] = refused] /\ UNCHANGED mut
  BY <1>2, <1>3 DEF LockOK
<1>4. CASE /\ mut.owner \in {None, owner} /\ mut.lock = None
           /\ mut'.lock = t /\ mut'.count = mut.count + 1 /\ mut'.owner = mut.owner
           /\ pc' = [pc EXCEPT ![t] = entered]
  <2>1. mut.lock \notin Clients /\ mut'.count = 1 /\ None \notin Clients
    BY <1>4, OpsAssumption, NamesAssumption DEF LockOK, Clients
  <2>2. ASSUME NEW u \in Clients
        PROVE  /\ pc'[u] \in InMutation <=> mut'.lock = u
               /\ pc'[u] \in InMutation => mut'.owner \in {None, u}
    <3>1. CASE u = t
      BY <1>4, <3>1
    <3>2. CASE u # t
      BY <1>4, <2>1, <3>2 DEF LockOK
    <3> QED
      BY <3>1, <3>2
  <2>3. ASSUME NEW u \in Interacts
        PROVE  pc'[u] \in Owning <=> mut'.owner = u
    <3>1. pc[u] \in Owning <=> mut.owner = u
      BY DEF LockOK
    <3>2. pc'[u] = IF u = t THEN entered ELSE pc[u]
      BY <1>2, <1>4
    <3> QED
      BY <1>4, <3>1, <3>2
  <2>4. cl'.pc # "recorder"
    BY <1>4, NamesAssumption DEF LockOK
  <2> QED
    BY <1>4, <2>1, <2>2, <2>3, <2>4 DEF LockOK
<1> QED
  BY <1>3, <1>4 DEF Enters

(* The lock is given back by the thread that has it.                        *)
LEMMA LeavesLock ==
  ASSUME IInv, NEW t \in Clients, pc[t] \in {"attempt", "result"}, UNCHANGED cl,
         NEW label \in {"raised", "loop"}, NEW what, LeaveMutation(t, label, what)
  PROVE  LockOK'
<1> USE DEF IInv, ShapesOK, ThreadShape
<1>1. t # None /\ t \notin {"lifecycle", "closer"}
  BY OpsAssumption, NamesAssumption DEF Clients
<1>2. Interacts \subseteq Clients /\ Sender \notin Interacts
  BY OpsAssumption DEF Clients, Ops
<1>3. mut'.lock = None /\ mut'.count = mut.count - 1 /\ mut'.owner = mut.owner
  BY DEF LeaveMutation, LeftMutation, OtherShape
<1>4. PICK l \in {"raised", "loop", "done"} :
        pc' = [pc EXCEPT ![t] = l] /\ (t \in Interacts => l # "done")
  BY <1>2 DEF LeaveMutation, Goto, Finish, Ops
<1>5. mut.lock = t /\ mut.count = 1
  BY DEF LockOK, InMutation
<1>6. mut'.lock \notin Clients /\ mut'.count = 0 /\ None \notin Clients
  BY <1>3, <1>5, OpsAssumption DEF Clients
<1>7. ASSUME NEW u \in Clients
      PROVE  pc'[u] \notin InMutation /\ mut'.lock # u
  <2>1. CASE u = t
    BY <1>3, <1>4, <1>6, <2>1 DEF InMutation
  <2>2. CASE u # t
    BY <1>3, <1>4, <1>5, <1>6, <2>2 DEF LockOK
  <2> QED
    BY <2>1, <2>2
<1>8. ASSUME NEW u \in Interacts
      PROVE  pc'[u] \in Owning <=> mut'.owner = u
  <2>1. pc[u] \in Owning <=> mut.owner = u
    BY DEF LockOK
  <2>2. pc'[u] = IF u = t THEN l ELSE pc[u]
    BY <1>2, <1>4
  <2>3. u = t => l \in Owning /\ pc[u] \in Owning
    BY <1>4 DEF Owning, Registered, Watching
  <2> QED
    BY <1>3, <2>1, <2>2, <2>3
<1>9. cl'.pc # "recorder"
  BY <1>1, <1>5 DEF LockOK
<1> QED
  BY <1>3, <1>6, <1>7, <1>8, <1>9 DEF LockOK

(* A reacquire opens the connection, or leaves it as it was before.         *)
Reopened ==
    /\ DOMAIN rec' = DOMAIN rec /\ rec'.ses \in Nat /\ rec'.seg \in Nat
    /\ rec'.ending = rec.ending /\ rec'.live \in BOOLEAN
    /\ \/ rec'.state = "connected" /\ rec'.live
       \/ /\ rec'.live = rec.live
          /\ rec'.state = IF rec.live THEN "released" ELSE "disconnected"

LEMMA ReacquiredFacts ==
  ASSUME RecShape, Reacquired
  PROVE  Reopened
<1>1. rec.ses + 1 \in Nat /\ rec.seg + 1 \in Nat
  BY DEF RecShape
<1>2. CASE rec.live /\ rec' = [rec EXCEPT !.state = "connected", !.seg = @ + 1, !.gen = @ + 1]
  <2>1. rec'.seg = rec.seg + 1 /\ rec'.ses = rec.ses /\ rec'.live = rec.live
    BY <1>2 DEF RecShape
  <2> QED
    BY <1>1, <1>2, <2>1 DEF RecShape, Reopened
<1>3. CASE rec' = [rec EXCEPT !.state = "connected", !.ses = @ + 1, !.seg = 0,
                              !.gen = @ + 1, !.live = TRUE]
  <2>1. rec'.seg = 0 /\ rec'.ses = rec.ses + 1 /\ rec'.live = TRUE
    BY <1>3 DEF RecShape
  <2> QED
    BY <1>1, <1>3, <2>1 DEF RecShape, Reopened
<1>4. CASE rec' = [rec EXCEPT !.state = IF rec.live THEN "released" ELSE "disconnected"]
  BY <1>4 DEF RecShape, Reopened
<1> QED
  BY <1>2, <1>3, <1>4 DEF Reacquired

(* ResultIsRecord, of one operation.                                        *)
Told(t) ==
    /\ res[t] \in Outcomes => /\ term[t] # None /\ term[t].outcome = res[t]
                              /\ res[t] = "matched" => op[t].match # None
    /\ res[t] = "raised" =>
          \/ Faulted
          \/ term[t] # None /\ (term[t].outcome = "disconnected" =>
                                   op[t].outcome = None \/ spent.split)
    /\ rec.live /\ ~rec.ending => t \notin active

\* An operation that acts, or has acted, has decided nothing yet.
LEMMA ActingEnded ==
  ASSUME IInv, NEW t \in Clients, pc[t] \in {"act", "attempt", "result"},
         NEW l \in {"attempt", "send", "loop", "raised", "done"}, t \in Ops => l # "done",
         pc' = [pc EXCEPT ![t] = l], UNCHANGED <<rec, active, term, op, spent>>
  PROVE  EndedOK'
<1>1. ASSUME NEW u \in Ops, u # t
      PROVE  pc'[u] = pc[u]
  BY <1>1 DEF IInv, ShapesOK, ThreadShape, Clients
<1>2. CASE t \in Ops
  <2>1. pc'[t] = l /\ l # "done"
    BY <1>2 DEF IInv, ShapesOK, ThreadShape
  <2>2. op[t].outcome = None
    BY <1>2 DEF IInv, DecidedOK
  <2> QED
    BY <1>1, <1>2, <2>1, <2>2 DEF IInv, EndedOK, EndedBy, Faulted, Watching
<1>3. CASE t \notin Ops
  BY <1>1, <1>3 DEF IInv, EndedOK, EndedBy, Faulted
<1> QED
  BY <1>2, <1>3

(* A step while an Interact holds the right to act, and a step that gives   *)
(* the connection a new owner or ends recording.                            *)
Exclusive ==
    mut.owner # None /\ mut'.owner = mut.owner =>
        /\ \A t \in Clients \ {mut.owner} : tx'[t].st = "tried" => tx[t].st = "tried"
        /\ rec'.state \in {"released", "reacquiring"} => rec'.state = rec.state

Waited ==
    rec'.state # rec.state /\ rec'.state \in {"reacquiring", "closed"} => mon = {}

-----------------------------------------------------------------------------
(* One lemma per part of the invariant, one step per action.                *)

(* Every step keeps the recorder's fields, and the bounds used up, in      *)
(* shape.                                                                  *)
LEMMA RecStep ==
  ASSUME IInv, [Next]_vars
  PROVE  RecShape'
<1>1. ASSUME Receive
      PROVE  RecShape'
  <2>1. Received
    BY <1>1, ReceiveFacts DEF IInv
  <2> QED
    BY <2>1 DEF IInv, ShapesOK, RecShape, Received, GoesOn, threadVars
<1>2. ASSUME Disconnect
      PROVE  RecShape'
  BY <1>2, SpendFacts, OpsAssumption, NamesAssumption DEF IInv, ShapesOK, RecShape, States,
     Disconnect, threadVars
<1>3. ASSUME Fatal
      PROVE  RecShape'
  BY <1>3, SpendFaultFacts, OpsAssumption, NamesAssumption DEF IInv, ShapesOK, RecShape, States,
     Fatal, threadVars
<1>4. ASSUME Reconnected
      PROVE  RecShape'
  <2>1. rec.seg + 1 \in Nat
    BY DEF IInv, ShapesOK, RecShape
  <2>2. rec' = [rec EXCEPT !.state = "connected", !.seg = rec.seg + 1, !.gen = rec.gen + 1]
    BY <1>4 DEF Reconnected
  <2>3. /\ DOMAIN rec' = DOMAIN rec /\ rec'.state = "connected" /\ rec'.seg = rec.seg + 1
        /\ rec'.ses = rec.ses /\ rec'.live = rec.live /\ rec'.ending = rec.ending
    BY <2>2 DEF IInv, ShapesOK, RecShape
  <2> QED
    BY <1>4, <2>1, <2>3 DEF Reconnected, IInv, ShapesOK, RecShape, States, Reconnected,
       threadVars
<1>5. ASSUME ReconnectTimedOut
      PROVE  RecShape'
  <2>1. TimedOut
    BY <1>5, TimedOutFacts DEF IInv
  <2> QED
    BY <2>1 DEF IInv, ShapesOK, RecShape, TimedOut, Elsewhere, Ends
<1>6. ASSUME ReconnectGivenUp
      PROVE  RecShape'
  BY <1>6, OpsAssumption, NamesAssumption DEF IInv, ShapesOK, RecShape, States,
     ReconnectGivenUp, threadVars
<1>7. ASSUME FatalEnd
      PROVE  RecShape'
  <2>1. FatalEnded
    BY <1>7, FatalEndFacts DEF IInv
  <2> QED
    BY <2>1 DEF IInv, ShapesOK, RecShape, FatalEnded, Elsewhere, Ends
<1>8. ASSUME CallSend
      PROVE  RecShape'
  BY <1>8, SpendFacts DEF IInv, ShapesOK, RecShape, CallSend, EnterMutation, OwnerAllows, Goto,
     Finish
<1>9. ASSUME NEW t \in Ops, CallMonitor(t)
      PROVE  RecShape'
  BY <1>9, SpendFacts DEF IInv, ShapesOK, RecShape, CallMonitor, Goto
<1>10. ASSUME NEW t \in Ops, CallInteract(t)
       PROVE  RecShape'
  BY <1>10, SpendFacts DEF IInv, ShapesOK, RecShape, CallInteract, EnterMutation, OwnerAllows,
     Goto, Finish
<1>11. ASSUME NEW t \in Ops,
              \/ ClaimOwner(t) \/ StartRefused(t) \/ EnterSend(t) \/ CheckState(t)
              \/ CheckDeadline(t)
       PROVE  RecShape'
  BY <1>11 DEF IInv, ShapesOK, RecShape, ClaimOwner, LeftMutation, Goto, StartRefused, Leaves,
     EnterSend, EnterMutation, OwnerAllows, Finish, CheckState, Decide, CheckDeadline
<1>12. ASSUME NEW t \in Ops, Start(t)
       PROVE  RecShape'
  <2>1. HasStarted(t)
    BY <1>12, StartFacts DEF IInv
  <2> QED
    BY <2>1 DEF IInv, ShapesOK, RecShape, HasStarted, Fresh, GoesOn
<1>13. ASSUME NEW t \in Ops,
              \/ WaitTimesOut(t) \/ ReadEvidence(t) \/ Finally(t) \/ Return(t)
              \/ Expire(t)
       PROVE  RecShape'
  BY <1>13 DEF IInv, ShapesOK, RecShape, WaitTimesOut, Goto, ReadEvidence, Matcher, Finally,
     NewOp, NoSend, Leaves, Return, Expire, threadVars
<1>14. ASSUME NEW t \in Ops, Complete(t)
       PROVE  RecShape'
  <2>1. HasCompleted(t)
    BY <1>14, CompleteFacts DEF IInv
  <2> QED
    BY <2>1 DEF IInv, ShapesOK, RecShape, HasCompleted, GoesOn
<1>15. ASSUME NEW t \in Ops, CompleteError(t)
       PROVE  RecShape'
  <2>1. HasFailed(t)
    BY <1>15, CompleteErrorFacts DEF IInv
  <2> QED
    BY <2>1 DEF IInv, ShapesOK, RecShape, HasFailed, GoesOn
<1>16. ASSUME NEW t \in Ops, Cancel(t)
       PROVE  RecShape'
  BY <1>16, SpendFacts DEF IInv, ShapesOK, RecShape, Cancel, threadVars
<1>17. ASSUME NEW t \in Clients,
              SendAttempt(t) \/ SendResult(t)
       PROVE  RecShape'
  BY <1>17 DEF IInv, ShapesOK, RecShape, SendAttempt, LeaveMutation, LeftMutation, Goto, Finish,
     SendResult
<1>18. ASSUME NEW t \in Clients, SendReturns(t)
       PROVE  RecShape'
  BY <1>18, SpendFaultFacts DEF IInv, ShapesOK, RecShape, SendReturns, Goto
<1>19. ASSUME NEW t \in Clients, SendInputFailed(t)
       PROVE  RecShape'
  BY <1>19, OpsAssumption, NamesAssumption DEF IInv, ShapesOK, RecShape, States,
     SendInputFailed, LeaveMutation, LeftMutation, Goto, Finish
<1>20. ASSUME NEW kind \in {"release", "reacquire"}, BeginOwnership(kind)
       PROVE  RecShape'
  BY <1>20, SpendFacts DEF IInv, ShapesOK, RecShape, BeginOwnership, OwnerAllows, clientVars,
     threadVars
<1>21. ASSUME \/ TryMutation \/ CollectMonitors \/ MonitorsCompleted \/ EndOwnership
              \/ CloseWaited
       PROVE  RecShape'
  BY <1>21 DEF IInv, ShapesOK, RecShape, TryMutation, LifecycleGoto, clientVars, threadVars,
     CollectMonitors, MonitorsCompleted, EndOwnership, CloseWaited
<1>22. ASSUME Release
       PROVE  RecShape'
  BY <1>22, OpsAssumption, NamesAssumption DEF IInv, ShapesOK, RecShape, States, Release,
     LifecycleGoto, clientVars, threadVars
<1>23. ASSUME BeginReacquire
       PROVE  RecShape'
  BY <1>23, OpsAssumption, NamesAssumption DEF IInv, ShapesOK, RecShape, States, BeginReacquire,
     LifecycleGoto, clientVars, threadVars
<1>24. ASSUME Reacquired
       PROVE  RecShape'
  <2>1. Reopened /\ UNCHANGED spent
    BY <1>24, ReacquiredFacts DEF IInv, ShapesOK, Reacquired
  <2> QED
    BY <2>1 DEF Reopened, IInv, ShapesOK, RecShape, States, Reacquired, LifecycleGoto,
       clientVars, threadVars
<1>25. ASSUME CloseBegin
       PROVE  RecShape'
  BY <1>25, SpendFacts DEF IInv, ShapesOK, RecShape, CloseBegin, threadVars
<1>26. ASSUME CloseRecorder
       PROVE  RecShape'
  BY <1>26, OpsAssumption, NamesAssumption DEF IInv, ShapesOK, RecShape, States, CloseRecorder,
     threadVars
<1>27. ASSUME NEW t \in Clients, SendRefused(t)
       PROVE  RecShape'
  <2>1. IsRefused(t)
    BY <1>27, RefusedFacts DEF IInv
  <2> QED
    BY <2>1 DEF IInv, ShapesOK, RecShape, IsRefused, LeftMutation
<1>28. ASSUME UNCHANGED vars
       PROVE  RecShape'
  BY <1>28 DEF IInv, ShapesOK, RecShape, vars, threadVars
<1> QED
  BY <1>1, <1>2, <1>3, <1>4, <1>5, <1>6, <1>7, <1>8, <1>9, <1>10, <1>11, <1>12, <1>13, <1>14,
     <1>15, <1>16, <1>17, <1>18, <1>19, <1>20, <1>21, <1>22, <1>23, <1>24, <1>25, <1>26, <1>27,
     <1>28 DEF Next, Operation, Send, Lifecycle, Recorder, Finished

(* Every step keeps every thread at a label of its kind.                   *)
LEMMA ThreadStep ==
  ASSUME IInv, [Next]_vars
  PROVE  ThreadShape'
<1> USE OpsAssumption, NamesAssumption DEF IInv, ShapesOK, ThreadShape, LockOK, LabelsOf,
     Labels, Clients, Ops
<1>1. ASSUME Receive
      PROVE  ThreadShape'
  <2>1. Received
    BY <1>1, ReceiveFacts DEF IInv
  <2> QED
    BY <2>1 DEF Received, GoesOn, threadVars
<1>2. ASSUME Disconnect
      PROVE  ThreadShape'
  BY <1>2, SpendFacts DEF Disconnect, threadVars
<1>3. ASSUME Fatal
      PROVE  ThreadShape'
  BY <1>3, SpendFaultFacts DEF Fatal, threadVars
<1>4. ASSUME \/ Reconnected \/ ReconnectGivenUp \/ TryMutation \/ Release
             \/ CollectMonitors
      PROVE  ThreadShape'
  BY <1>4 DEF Reconnected, threadVars, ReconnectGivenUp, TryMutation, LifecycleGoto, clientVars,
     Release, CollectMonitors
<1>5. ASSUME ReconnectTimedOut
      PROVE  ThreadShape'
  <2>1. TimedOut
    BY <1>5, TimedOutFacts DEF IInv
  <2> QED
    BY <2>1 DEF TimedOut, Elsewhere, Ends
<1>6. ASSUME FatalEnd
      PROVE  ThreadShape'
  <2>1. FatalEnded
    BY <1>6, FatalEndFacts DEF IInv
  <2> QED
    BY <2>1 DEF FatalEnded, Elsewhere, Ends
<1>7. ASSUME CallSend
      PROVE  ThreadShape'
  BY <1>7, SpendFacts DEF CallSend, EnterMutation, OwnerAllows, Goto, Finish
<1>8. ASSUME NEW t \in Ops, CallMonitor(t)
      PROVE  ThreadShape'
  BY <1>8, SpendFacts DEF CallMonitor, Goto
<1>9. ASSUME NEW t \in Ops, CallInteract(t)
      PROVE  ThreadShape'
  BY <1>9, SpendFacts DEF CallInteract, EnterMutation, OwnerAllows, Goto, Finish
<1>10. ASSUME NEW t \in Ops, ClaimOwner(t)
       PROVE  ThreadShape'
  BY <1>10 DEF ClaimOwner, LeftMutation, Goto
<1>11. ASSUME NEW t \in Ops, Start(t)
       PROVE  ThreadShape'
  <2>1. HasStarted(t)
    BY <1>11, StartFacts DEF IInv
  <2> QED
    BY <2>1 DEF HasStarted, Fresh, GoesOn
<1>12. ASSUME NEW t \in Ops, StartRefused(t)
       PROVE  ThreadShape'
  BY <1>12 DEF StartRefused, Leaves, Goto
<1>13. ASSUME NEW t \in Ops, EnterSend(t)
       PROVE  ThreadShape'
  BY <1>13 DEF EnterSend, EnterMutation, OwnerAllows, Goto, Finish
<1>14. ASSUME NEW t \in Ops, CheckState(t)
       PROVE  ThreadShape'
  BY <1>14 DEF CheckState, Decide, Goto
<1>15. ASSUME NEW t \in Ops, CheckDeadline(t)
       PROVE  ThreadShape'
  BY <1>15 DEF CheckDeadline, Decide, Goto
<1>16. ASSUME NEW t \in Ops, WaitTimesOut(t)
       PROVE  ThreadShape'
  BY <1>16 DEF WaitTimesOut, Goto
<1>17. ASSUME NEW t \in Ops, ReadEvidence(t)
       PROVE  ThreadShape'
  BY <1>17 DEF ReadEvidence, Matcher, Goto
<1>18. ASSUME NEW t \in Ops, Complete(t)
       PROVE  ThreadShape'
  <2>1. HasCompleted(t)
    BY <1>18, CompleteFacts DEF IInv
  <2> QED
    BY <2>1 DEF HasCompleted, GoesOn
<1>19. ASSUME NEW t \in Ops, CompleteError(t)
       PROVE  ThreadShape'
  <2>1. HasFailed(t)
    BY <1>19, CompleteErrorFacts DEF IInv
  <2> QED
    BY <2>1 DEF HasFailed, GoesOn
<1>20. ASSUME NEW t \in Ops, Finally(t)
       PROVE  ThreadShape'
  BY <1>20 DEF Finally, NewOp, NoSend, Leaves, Goto
<1>21. ASSUME NEW t \in Ops, Return(t)
       PROVE  ThreadShape'
  BY <1>21 DEF Return, Goto
<1>22. ASSUME NEW t \in Ops, Cancel(t)
       PROVE  ThreadShape'
  BY <1>22, SpendFacts DEF Cancel, threadVars
<1>23. ASSUME NEW t \in Ops, Expire(t)
       PROVE  ThreadShape'
  BY <1>23 DEF Expire, threadVars
<1>24. ASSUME NEW t \in Clients, SendAttempt(t)
       PROVE  ThreadShape'
  BY <1>24 DEF SendAttempt, LeaveMutation, LeftMutation, Goto, Finish
<1>25. ASSUME NEW t \in Clients, SendReturns(t)
       PROVE  ThreadShape'
  BY <1>25, SpendFaultFacts DEF SendReturns, Goto
<1>26. ASSUME NEW t \in Clients, SendResult(t)
       PROVE  ThreadShape'
  BY <1>26 DEF SendResult, LeaveMutation, LeftMutation, Goto, Finish
<1>27. ASSUME NEW t \in Clients, SendInputFailed(t)
       PROVE  ThreadShape'
  BY <1>27 DEF SendInputFailed, LeaveMutation, LeftMutation, Goto, Finish
<1>28. ASSUME NEW kind \in {"release", "reacquire"}, BeginOwnership(kind)
       PROVE  ThreadShape'
  BY <1>28, SpendFacts DEF BeginOwnership, OwnerAllows, clientVars, threadVars
<1>29. ASSUME \/ MonitorsCompleted \/ BeginReacquire \/ Reacquired \/ EndOwnership
              \/ CloseWaited
       PROVE  ThreadShape'
  BY <1>29 DEF MonitorsCompleted, LifecycleGoto, clientVars, threadVars, BeginReacquire,
     Reacquired, EndOwnership, CloseWaited
<1>30. ASSUME CloseBegin
       PROVE  ThreadShape'
  BY <1>30, SpendFacts DEF CloseBegin, threadVars
<1>31. ASSUME CloseRecorder
       PROVE  ThreadShape'
  BY <1>31 DEF CloseRecorder, threadVars
<1>32. ASSUME NEW t \in Clients, SendRefused(t)
       PROVE  ThreadShape'
  <2>1. IsRefused(t)
    BY <1>32, RefusedFacts DEF IInv
  <2> QED
    BY <2>1 DEF IsRefused, LeftMutation
<1>33. ASSUME UNCHANGED vars
       PROVE  ThreadShape'
  BY <1>33 DEF vars, threadVars
<1> QED
  BY <1>1, <1>2, <1>3, <1>4, <1>5, <1>6, <1>7, <1>8, <1>9, <1>10, <1>11, <1>12, <1>13, <1>14,
     <1>15, <1>16, <1>17, <1>18, <1>19, <1>20, <1>21, <1>22, <1>23, <1>24, <1>25, <1>26, <1>27,
     <1>28, <1>29, <1>30, <1>31, <1>32, <1>33 DEF Next, Operation, Send, Lifecycle, Recorder,
     Finished

(* Every step keeps the fields of every operation.                         *)
LEMMA OpStep ==
  ASSUME IInv, [Next]_vars
  PROVE  OpShape'
<1>1. ASSUME Receive
      PROVE  OpShape'
  <2>1. Received
    BY <1>1, ReceiveFacts DEF IInv
  <2> QED
    BY <2>1 DEF IInv, ShapesOK, OpShape, Received, GoesOn, threadVars
<1>2. ASSUME Disconnect
      PROVE  OpShape'
  BY <1>2, SpendFacts DEF IInv, ShapesOK, OpShape, Disconnect, threadVars
<1>3. ASSUME Fatal
      PROVE  OpShape'
  BY <1>3, SpendFaultFacts DEF IInv, ShapesOK, OpShape, Fatal, threadVars
<1>4. ASSUME \/ Reconnected \/ ReconnectGivenUp \/ TryMutation \/ Release
             \/ CollectMonitors
      PROVE  OpShape'
  BY <1>4 DEF IInv, ShapesOK, OpShape, Reconnected, threadVars, ReconnectGivenUp, TryMutation,
     LifecycleGoto, clientVars, Release, CollectMonitors
<1>5. ASSUME ReconnectTimedOut
      PROVE  OpShape'
  <2>1. TimedOut
    BY <1>5, TimedOutFacts DEF IInv
  <2> QED
    BY <2>1 DEF IInv, ShapesOK, OpShape, TimedOut, Elsewhere, Ends
<1>6. ASSUME FatalEnd
      PROVE  OpShape'
  <2>1. FatalEnded
    BY <1>6, FatalEndFacts DEF IInv
  <2> QED
    BY <2>1 DEF IInv, ShapesOK, OpShape, FatalEnded, Elsewhere, Ends
<1>7. ASSUME CallSend
      PROVE  OpShape'
  BY <1>7, SpendFacts DEF IInv, ShapesOK, OpShape, CallSend, EnterMutation, OwnerAllows, Goto,
     Finish
<1>8. ASSUME NEW t \in Ops, CallMonitor(t)
      PROVE  OpShape'
  BY <1>8, SpendFacts DEF IInv, ShapesOK, OpShape, CallMonitor, Goto
<1>9. ASSUME NEW t \in Ops, CallInteract(t)
      PROVE  OpShape'
  BY <1>9, SpendFacts DEF IInv, ShapesOK, OpShape, CallInteract, EnterMutation, OwnerAllows,
     Goto, Finish
<1>10. ASSUME NEW t \in Ops,
              \/ ClaimOwner(t) \/ StartRefused(t) \/ EnterSend(t) \/ CheckState(t)
              \/ CheckDeadline(t)
       PROVE  OpShape'
  BY <1>10 DEF IInv, ShapesOK, OpShape, ClaimOwner, LeftMutation, Goto, StartRefused, Leaves,
     EnterSend, EnterMutation, OwnerAllows, Finish, CheckState, Decide, CheckDeadline
<1>11. ASSUME NEW t \in Ops, Start(t)
       PROVE  OpShape'
  <2>1. HasStarted(t)
    BY <1>11, StartFacts DEF IInv
  <2> QED
    BY <2>1 DEF IInv, ShapesOK, OpShape, HasStarted, Fresh, GoesOn
<1>12. ASSUME NEW t \in Ops,
              \/ WaitTimesOut(t) \/ ReadEvidence(t) \/ Finally(t) \/ Return(t)
              \/ Expire(t)
       PROVE  OpShape'
  BY <1>12 DEF IInv, ShapesOK, OpShape, WaitTimesOut, Goto, ReadEvidence, Matcher, Finally,
     NewOp, NoSend, Leaves, Return, Expire, threadVars
<1>13. ASSUME NEW t \in Ops, Complete(t)
       PROVE  OpShape'
  <2>1. HasCompleted(t)
    BY <1>13, CompleteFacts DEF IInv
  <2> QED
    BY <2>1 DEF IInv, ShapesOK, OpShape, HasCompleted, GoesOn
<1>14. ASSUME NEW t \in Ops, CompleteError(t)
       PROVE  OpShape'
  <2>1. HasFailed(t)
    BY <1>14, CompleteErrorFacts DEF IInv
  <2> QED
    BY <2>1 DEF IInv, ShapesOK, OpShape, HasFailed, GoesOn
<1>15. ASSUME NEW t \in Ops, Cancel(t)
       PROVE  OpShape'
  BY <1>15, SpendFacts DEF IInv, ShapesOK, OpShape, Cancel, threadVars
<1>16. ASSUME NEW t \in Clients,
              SendAttempt(t) \/ SendResult(t) \/ SendInputFailed(t)
       PROVE  OpShape'
  BY <1>16 DEF IInv, ShapesOK, OpShape, SendAttempt, LeaveMutation, LeftMutation, Goto, Finish,
     SendResult, SendInputFailed
<1>17. ASSUME NEW t \in Clients, SendReturns(t)
       PROVE  OpShape'
  BY <1>17, SpendFaultFacts DEF IInv, ShapesOK, OpShape, SendReturns, Goto
<1>18. ASSUME NEW kind \in {"release", "reacquire"}, BeginOwnership(kind)
       PROVE  OpShape'
  BY <1>18, SpendFacts DEF IInv, ShapesOK, OpShape, BeginOwnership, OwnerAllows, clientVars,
     threadVars
<1>19. ASSUME \/ MonitorsCompleted \/ BeginReacquire \/ Reacquired \/ EndOwnership
              \/ CloseWaited
       PROVE  OpShape'
  BY <1>19 DEF IInv, ShapesOK, OpShape, MonitorsCompleted, LifecycleGoto, clientVars,
     threadVars, BeginReacquire, Reacquired, EndOwnership, CloseWaited
<1>20. ASSUME CloseBegin
       PROVE  OpShape'
  BY <1>20, SpendFacts DEF IInv, ShapesOK, OpShape, CloseBegin, threadVars
<1>21. ASSUME CloseRecorder
       PROVE  OpShape'
  BY <1>21 DEF IInv, ShapesOK, OpShape, CloseRecorder, threadVars
<1>22. ASSUME NEW t \in Clients, SendRefused(t)
       PROVE  OpShape'
  <2>1. IsRefused(t)
    BY <1>22, RefusedFacts DEF IInv
  <2> QED
    BY <2>1 DEF IInv, ShapesOK, OpShape, IsRefused, LeftMutation
<1>23. ASSUME UNCHANGED vars
       PROVE  OpShape'
  BY <1>23 DEF IInv, ShapesOK, OpShape, vars, threadVars
<1> QED
  BY <1>1, <1>2, <1>3, <1>4, <1>5, <1>6, <1>7, <1>8, <1>9, <1>10, <1>11, <1>12, <1>13, <1>14,
     <1>15, <1>16, <1>17, <1>18, <1>19, <1>20, <1>21, <1>22, <1>23 DEF Next, Operation, Send,
     Lifecycle, Recorder, Finished

(* Every step appends records of the input to the log, or leaves it.       *)
LEMMA LogStep ==
  ASSUME IInv, [Next]_vars
  PROVE  LogShape'
<1>1. ASSUME Receive
      PROVE  LogShape'
  <2>1. Received
    BY <1>1, ReceiveFacts DEF IInv
  <2> QED
    BY <2>1 DEF IInv, ShapesOK, LogShape, Received, GoesOn, threadVars
<1>2. ASSUME Disconnect
      PROVE  LogShape'
  BY <1>2, SpendFacts DEF IInv, ShapesOK, LogShape, Disconnect, threadVars
<1>3. ASSUME Fatal
      PROVE  LogShape'
  BY <1>3, SpendFaultFacts DEF IInv, ShapesOK, LogShape, Fatal, threadVars
<1>4. ASSUME \/ Reconnected \/ ReconnectGivenUp \/ TryMutation \/ Release
             \/ CollectMonitors
      PROVE  LogShape'
  BY <1>4 DEF IInv, ShapesOK, LogShape, Reconnected, threadVars, ReconnectGivenUp, TryMutation,
     LifecycleGoto, clientVars, Release, CollectMonitors
<1>5. ASSUME ReconnectTimedOut
      PROVE  LogShape'
  <2>1. TimedOut
    BY <1>5, TimedOutFacts DEF IInv
  <2> QED
    BY <2>1 DEF IInv, ShapesOK, LogShape, TimedOut, Elsewhere, Ends
<1>6. ASSUME FatalEnd
      PROVE  LogShape'
  <2>1. FatalEnded
    BY <1>6, FatalEndFacts DEF IInv
  <2> QED
    BY <2>1 DEF IInv, ShapesOK, LogShape, FatalEnded, Elsewhere, Ends
<1>7. ASSUME CallSend
      PROVE  LogShape'
  BY <1>7, SpendFacts DEF IInv, ShapesOK, LogShape, CallSend, EnterMutation, OwnerAllows, Goto,
     Finish
<1>8. ASSUME NEW t \in Ops, CallMonitor(t)
      PROVE  LogShape'
  BY <1>8, SpendFacts DEF IInv, ShapesOK, LogShape, CallMonitor, Goto
<1>9. ASSUME NEW t \in Ops, CallInteract(t)
      PROVE  LogShape'
  BY <1>9, SpendFacts DEF IInv, ShapesOK, LogShape, CallInteract, EnterMutation, OwnerAllows,
     Goto, Finish
<1>10. ASSUME NEW t \in Ops,
              \/ ClaimOwner(t) \/ StartRefused(t) \/ EnterSend(t) \/ CheckState(t)
              \/ CheckDeadline(t)
       PROVE  LogShape'
  BY <1>10 DEF IInv, ShapesOK, LogShape, ClaimOwner, LeftMutation, Goto, StartRefused, Leaves,
     EnterSend, EnterMutation, OwnerAllows, Finish, CheckState, Decide, CheckDeadline
<1>11. ASSUME NEW t \in Ops, Start(t)
       PROVE  LogShape'
  <2>1. HasStarted(t)
    BY <1>11, StartFacts DEF IInv
  <2> QED
    BY <2>1 DEF IInv, ShapesOK, LogShape, HasStarted, Fresh, GoesOn
<1>12. ASSUME NEW t \in Ops,
              \/ WaitTimesOut(t) \/ ReadEvidence(t) \/ Finally(t) \/ Return(t)
              \/ Expire(t)
       PROVE  LogShape'
  BY <1>12 DEF IInv, ShapesOK, LogShape, WaitTimesOut, Goto, ReadEvidence, Matcher, Finally,
     NewOp, NoSend, Leaves, Return, Expire, threadVars
<1>13. ASSUME NEW t \in Ops, Complete(t)
       PROVE  LogShape'
  <2>1. HasCompleted(t)
    BY <1>13, CompleteFacts DEF IInv
  <2> QED
    BY <2>1 DEF IInv, ShapesOK, LogShape, HasCompleted, GoesOn
<1>14. ASSUME NEW t \in Ops, CompleteError(t)
       PROVE  LogShape'
  <2>1. HasFailed(t)
    BY <1>14, CompleteErrorFacts DEF IInv
  <2> QED
    BY <2>1 DEF IInv, ShapesOK, LogShape, HasFailed, GoesOn
<1>15. ASSUME NEW t \in Ops, Cancel(t)
       PROVE  LogShape'
  BY <1>15, SpendFacts DEF IInv, ShapesOK, LogShape, Cancel, threadVars
<1>16. ASSUME NEW t \in Clients,
              SendAttempt(t) \/ SendResult(t) \/ SendInputFailed(t)
       PROVE  LogShape'
  BY <1>16 DEF IInv, ShapesOK, LogShape, SendAttempt, LeaveMutation, LeftMutation, Goto, Finish,
     SendResult, SendInputFailed
<1>17. ASSUME NEW t \in Clients, SendReturns(t)
       PROVE  LogShape'
  BY <1>17, SpendFaultFacts DEF IInv, ShapesOK, LogShape, SendReturns, Goto
<1>18. ASSUME NEW kind \in {"release", "reacquire"}, BeginOwnership(kind)
       PROVE  LogShape'
  BY <1>18, SpendFacts DEF IInv, ShapesOK, LogShape, BeginOwnership, OwnerAllows, clientVars,
     threadVars
<1>19. ASSUME \/ MonitorsCompleted \/ BeginReacquire \/ Reacquired \/ EndOwnership
              \/ CloseWaited
       PROVE  LogShape'
  BY <1>19 DEF IInv, ShapesOK, LogShape, MonitorsCompleted, LifecycleGoto, clientVars,
     threadVars, BeginReacquire, Reacquired, EndOwnership, CloseWaited
<1>20. ASSUME CloseBegin
       PROVE  LogShape'
  BY <1>20, SpendFacts DEF IInv, ShapesOK, LogShape, CloseBegin, threadVars
<1>21. ASSUME CloseRecorder
       PROVE  LogShape'
  BY <1>21 DEF IInv, ShapesOK, LogShape, CloseRecorder, threadVars
<1>22. ASSUME NEW t \in Clients, SendRefused(t)
       PROVE  LogShape'
  <2>1. IsRefused(t)
    BY <1>22, RefusedFacts DEF IInv
  <2> QED
    BY <2>1 DEF IInv, ShapesOK, LogShape, IsRefused, LeftMutation
<1>23. ASSUME UNCHANGED vars
       PROVE  LogShape'
  BY <1>23 DEF IInv, ShapesOK, LogShape, vars, threadVars
<1> QED
  BY <1>1, <1>2, <1>3, <1>4, <1>5, <1>6, <1>7, <1>8, <1>9, <1>10, <1>11, <1>12, <1>13, <1>14,
     <1>15, <1>16, <1>17, <1>18, <1>19, <1>20, <1>21, <1>22, <1>23 DEF Next, Operation, Send,
     Lifecycle, Recorder, Finished

(* Every step registers, cancels and expires operations only.              *)
LEMMA OtherStep ==
  ASSUME IInv, [Next]_vars
  PROVE  OtherShape'
<1>1. ASSUME Receive
      PROVE  OtherShape'
  <2>1. Received
    BY <1>1, ReceiveFacts DEF IInv
  <2> QED
    BY <2>1 DEF IInv, ShapesOK, OtherShape, Received, GoesOn, threadVars
<1>2. ASSUME Disconnect
      PROVE  OtherShape'
  BY <1>2, SpendFacts DEF IInv, ShapesOK, OtherShape, Disconnect, threadVars
<1>3. ASSUME Fatal
      PROVE  OtherShape'
  BY <1>3, SpendFaultFacts DEF IInv, ShapesOK, OtherShape, Fatal, threadVars
<1>4. ASSUME \/ Reconnected \/ ReconnectGivenUp \/ TryMutation \/ Release
             \/ CollectMonitors
      PROVE  OtherShape'
  BY <1>4 DEF IInv, ShapesOK, OtherShape, Reconnected, threadVars, ReconnectGivenUp,
     TryMutation, LifecycleGoto, clientVars, Release, CollectMonitors
<1>5. ASSUME ReconnectTimedOut
      PROVE  OtherShape'
  <2>1. TimedOut
    BY <1>5, TimedOutFacts DEF IInv
  <2> QED
    BY <2>1 DEF IInv, ShapesOK, OtherShape, TimedOut, Elsewhere, Ends
<1>6. ASSUME FatalEnd
      PROVE  OtherShape'
  <2>1. FatalEnded
    BY <1>6, FatalEndFacts DEF IInv
  <2> QED
    BY <2>1 DEF IInv, ShapesOK, OtherShape, FatalEnded, Elsewhere, Ends
<1>7. ASSUME CallSend
      PROVE  OtherShape'
  BY <1>7, SpendFacts DEF IInv, ShapesOK, OtherShape, CallSend, EnterMutation, OwnerAllows,
     Goto, Finish
<1>8. ASSUME NEW t \in Ops, CallMonitor(t)
      PROVE  OtherShape'
  BY <1>8, SpendFacts DEF IInv, ShapesOK, OtherShape, CallMonitor, Goto
<1>9. ASSUME NEW t \in Ops, CallInteract(t)
      PROVE  OtherShape'
  BY <1>9, SpendFacts DEF IInv, ShapesOK, OtherShape, CallInteract, EnterMutation, OwnerAllows,
     Goto, Finish
<1>10. ASSUME NEW t \in Ops,
              \/ ClaimOwner(t) \/ StartRefused(t) \/ EnterSend(t) \/ CheckState(t)
              \/ CheckDeadline(t)
       PROVE  OtherShape'
  BY <1>10 DEF IInv, ShapesOK, OtherShape, ClaimOwner, LeftMutation, Goto, StartRefused, Leaves,
     EnterSend, EnterMutation, OwnerAllows, Finish, CheckState, Decide, CheckDeadline
<1>11. ASSUME NEW t \in Ops, Start(t)
       PROVE  OtherShape'
  <2>1. HasStarted(t)
    BY <1>11, StartFacts DEF IInv
  <2> QED
    BY <2>1 DEF IInv, ShapesOK, OtherShape, HasStarted, Fresh, GoesOn
<1>12. ASSUME NEW t \in Ops,
              \/ WaitTimesOut(t) \/ ReadEvidence(t) \/ Finally(t) \/ Return(t)
              \/ Expire(t)
       PROVE  OtherShape'
  BY <1>12 DEF IInv, ShapesOK, OtherShape, WaitTimesOut, Goto, ReadEvidence, Matcher, Finally,
     NewOp, NoSend, Leaves, Return, Expire, threadVars
<1>13. ASSUME NEW t \in Ops, Complete(t)
       PROVE  OtherShape'
  <2>1. HasCompleted(t)
    BY <1>13, CompleteFacts DEF IInv
  <2> QED
    BY <2>1 DEF IInv, ShapesOK, OtherShape, HasCompleted, GoesOn
<1>14. ASSUME NEW t \in Ops, CompleteError(t)
       PROVE  OtherShape'
  <2>1. HasFailed(t)
    BY <1>14, CompleteErrorFacts DEF IInv
  <2> QED
    BY <2>1 DEF IInv, ShapesOK, OtherShape, HasFailed, GoesOn
<1>15. ASSUME NEW t \in Ops, Cancel(t)
       PROVE  OtherShape'
  BY <1>15, SpendFacts DEF IInv, ShapesOK, OtherShape, Cancel, threadVars
<1>16. ASSUME NEW t \in Clients,
              SendAttempt(t) \/ SendResult(t) \/ SendInputFailed(t)
       PROVE  OtherShape'
  BY <1>16 DEF IInv, ShapesOK, OtherShape, SendAttempt, LeaveMutation, LeftMutation, Goto,
     Finish, SendResult, SendInputFailed
<1>17. ASSUME NEW t \in Clients, SendReturns(t)
       PROVE  OtherShape'
  BY <1>17, SpendFaultFacts DEF IInv, ShapesOK, OtherShape, SendReturns, Goto
<1>18. ASSUME NEW kind \in {"release", "reacquire"}, BeginOwnership(kind)
       PROVE  OtherShape'
  BY <1>18, SpendFacts DEF IInv, ShapesOK, OtherShape, BeginOwnership, OwnerAllows, clientVars,
     threadVars
<1>19. ASSUME \/ MonitorsCompleted \/ BeginReacquire \/ Reacquired \/ EndOwnership
              \/ CloseWaited
       PROVE  OtherShape'
  BY <1>19 DEF IInv, ShapesOK, OtherShape, MonitorsCompleted, LifecycleGoto, clientVars,
     threadVars, BeginReacquire, Reacquired, EndOwnership, CloseWaited
<1>20. ASSUME CloseBegin
       PROVE  OtherShape'
  BY <1>20, SpendFacts DEF IInv, ShapesOK, OtherShape, CloseBegin, threadVars
<1>21. ASSUME CloseRecorder
       PROVE  OtherShape'
  BY <1>21 DEF IInv, ShapesOK, OtherShape, CloseRecorder, threadVars
<1>22. ASSUME NEW t \in Clients, SendRefused(t)
       PROVE  OtherShape'
  <2>1. IsRefused(t)
    BY <1>22, RefusedFacts DEF IInv
  <2> QED
    BY <2>1 DEF IInv, ShapesOK, OtherShape, IsRefused, LeftMutation
<1>23. ASSUME UNCHANGED vars
       PROVE  OtherShape'
  BY <1>23 DEF IInv, ShapesOK, OtherShape, vars, threadVars
<1> QED
  BY <1>1, <1>2, <1>3, <1>4, <1>5, <1>6, <1>7, <1>8, <1>9, <1>10, <1>11, <1>12, <1>13, <1>14,
     <1>15, <1>16, <1>17, <1>18, <1>19, <1>20, <1>21, <1>22, <1>23 DEF Next, Operation, Send,
     Lifecycle, Recorder, Finished

(* The mutation lock is held by the thread inside the mutation, and its    *)
(* owner is the Interact that claimed it.                                  *)
LEMMA LockStep ==
  ASSUME IInv, [Next]_vars
  PROVE  LockOK'
<1> USE OpsAssumption, NamesAssumption DEF IInv, ShapesOK, ThreadShape, OtherShape, LockOK,
     WaitsOK, InMutation, Owning, Registered, Watching, Clients, Ops, LabelsOf
<1>1. ASSUME Receive
      PROVE  LockOK'
  <2>1. Received
    BY <1>1, ReceiveFacts DEF IInv
  <2> QED
    BY <2>1 DEF Received, GoesOn, threadVars
<1>2. ASSUME Disconnect
      PROVE  LockOK'
  BY <1>2, SpendFacts DEF Disconnect, threadVars
<1>3. ASSUME Fatal
      PROVE  LockOK'
  BY <1>3, SpendFaultFacts DEF Fatal, threadVars
<1>4. ASSUME \/ Reconnected \/ ReconnectGivenUp \/ Release \/ CollectMonitors
             \/ MonitorsCompleted
      PROVE  LockOK'
  BY <1>4 DEF Reconnected, threadVars, ReconnectGivenUp, Release, LifecycleGoto, clientVars,
     CollectMonitors, MonitorsCompleted
<1>5. ASSUME ReconnectTimedOut
      PROVE  LockOK'
  <2>1. TimedOut
    BY <1>5, TimedOutFacts DEF IInv
  <2> QED
    BY <2>1 DEF TimedOut, Elsewhere, Ends
<1>6. ASSUME FatalEnd
      PROVE  LockOK'
  <2>1. FatalEnded
    BY <1>6, FatalEndFacts DEF IInv
  <2> QED
    BY <2>1 DEF FatalEnded, Elsewhere, Ends
<1>7. ASSUME CallSend
      PROVE  LockOK'
  <2>1. Enters(Sender, None, "attempt", "done") /\ pc[Sender] = "idle" /\ UNCHANGED cl
    BY <1>7, EnterFacts DEF CallSend, IInv, ShapesOK
  <2>2. Sender \in Clients /\ Sender \notin Interacts
    BY OpsAssumption DEF Clients, Ops
  <2> QED
    BY <2>1, <2>2, EntersLock DEF InMutation
<1>8. ASSUME NEW t \in Ops, CallMonitor(t)
      PROVE  LockOK'
  BY <1>8, SpendFacts DEF CallMonitor, Goto
<1>9. ASSUME NEW t \in Ops, CallInteract(t)
      PROVE  LockOK'
  <2>1. Enters(t, None, "claim", "done") /\ pc[t] = "idle" /\ UNCHANGED cl
    BY <1>9, EnterFacts DEF CallInteract, IInv, ShapesOK
  <2>2. t \in Clients
    BY DEF Clients
  <2>3. /\ "claim" \in InMutation /\ "idle" \notin InMutation /\ "done" \notin InMutation
        /\ "claim" \notin Owning /\ "done" \notin Owning /\ "idle" \notin Owning
    BY DEF InMutation, Owning, Registered, Watching
  <2> QED
    BY <2>1, <2>2, <2>3, EntersLock
<1>10. ASSUME NEW t \in Ops, ClaimOwner(t)
       PROVE  LockOK'
  BY <1>10 DEF ClaimOwner, LeftMutation, Goto
<1>11. ASSUME NEW t \in Ops, Start(t)
       PROVE  LockOK'
  <2>1. HasStarted(t)
    BY <1>11, StartFacts DEF IInv
  <2> QED
    BY <2>1 DEF HasStarted, Fresh, GoesOn
<1>12. ASSUME NEW t \in Ops, StartRefused(t)
       PROVE  LockOK'
  BY <1>12 DEF StartRefused, Leaves, Goto
<1>13. ASSUME NEW t \in Ops, EnterSend(t)
       PROVE  LockOK'
  <2>1. Enters(t, t, "attempt", "raised") /\ pc[t] = "act" /\ UNCHANGED cl
    BY <1>13, EnterFacts DEF EnterSend, IInv, ShapesOK
  <2>2. t \in Clients
    BY DEF Clients
  <2>3. /\ "attempt" \in InMutation /\ "act" \notin InMutation /\ "raised" \notin InMutation
        /\ "attempt" \in Owning /\ "act" \in Owning /\ "raised" \in Owning
    BY DEF InMutation, Owning, Registered, Watching
  <2> QED
    BY <2>1, <2>2, <2>3, EntersLock
<1>14. ASSUME NEW t \in Ops, CheckState(t)
       PROVE  LockOK'
  BY <1>14 DEF CheckState, Decide, Goto
<1>15. ASSUME NEW t \in Ops, CheckDeadline(t)
       PROVE  LockOK'
  BY <1>15 DEF CheckDeadline, Decide, Goto
<1>16. ASSUME NEW t \in Ops, WaitTimesOut(t)
       PROVE  LockOK'
  BY <1>16 DEF WaitTimesOut, Goto
<1>17. ASSUME NEW t \in Ops, ReadEvidence(t)
       PROVE  LockOK'
  BY <1>17 DEF ReadEvidence, Matcher, Goto
<1>18. ASSUME NEW t \in Ops, Complete(t)
       PROVE  LockOK'
  <2>1. HasCompleted(t)
    BY <1>18, CompleteFacts DEF IInv
  <2> QED
    BY <2>1 DEF HasCompleted, GoesOn
<1>19. ASSUME NEW t \in Ops, CompleteError(t)
       PROVE  LockOK'
  <2>1. HasFailed(t)
    BY <1>19, CompleteErrorFacts DEF IInv
  <2> QED
    BY <2>1 DEF HasFailed, GoesOn
<1>20. ASSUME NEW t \in Ops, Finally(t)
       PROVE  LockOK'
  BY <1>20 DEF Finally, NewOp, NoSend, Leaves, Goto
<1>21. ASSUME NEW t \in Ops, Return(t)
       PROVE  LockOK'
  BY <1>21 DEF Return, Goto
<1>22. ASSUME NEW t \in Ops, Cancel(t)
       PROVE  LockOK'
  BY <1>22, SpendFacts DEF Cancel, threadVars
<1>23. ASSUME NEW t \in Ops, Expire(t)
       PROVE  LockOK'
  BY <1>23 DEF Expire, threadVars
<1>24. ASSUME NEW t \in Clients, SendAttempt(t)
       PROVE  LockOK'
  <2>1. pc[t] = "attempt" /\ UNCHANGED cl
    BY <1>24 DEF SendAttempt
  <2>2. CASE Goto(t, "send") /\ UNCHANGED mut
    BY <2>1, <2>2 DEF Goto, SendAttempt, LeaveMutation, LeftMutation, Goto, Finish
  <2>3. CASE LeaveMutation(t, "raised", "raised")
    BY <2>1, <2>3, LeavesLock
  <2> QED
    BY <1>24, <2>2, <2>3 DEF SendAttempt
<1>25. ASSUME NEW t \in Clients, SendReturns(t)
       PROVE  LockOK'
  BY <1>25, SpendFaultFacts DEF SendReturns, Goto
<1>26. ASSUME NEW t \in Clients, SendResult(t)
       PROVE  LockOK'
  <2>1. pc[t] = "result" /\ UNCHANGED cl
    BY <1>26 DEF SendResult
  <2>2. \/ \E what : LeaveMutation(t, "loop", what)
        \/ LeaveMutation(t, "raised", "raised")
    BY <1>26 DEF SendResult
  <2> QED
    BY <2>1, <2>2, LeavesLock
<1>27. ASSUME NEW t \in Clients, SendInputFailed(t)
       PROVE  LockOK'
  BY <1>27 DEF SendInputFailed, LeaveMutation, LeftMutation, Goto, Finish
<1>28. ASSUME NEW kind \in {"release", "reacquire"}, BeginOwnership(kind)
       PROVE  LockOK'
  BY <1>28, SpendFacts DEF BeginOwnership, OwnerAllows, clientVars, threadVars
<1>29. ASSUME TryMutation
       PROVE  LockOK'
  BY <1>29 DEF TryMutation, LifecycleGoto, clientVars, threadVars
<1>30. ASSUME BeginReacquire \/ Reacquired
       PROVE  LockOK'
  BY <1>30 DEF BeginReacquire, LifecycleGoto, clientVars, threadVars, Reacquired
<1>31. ASSUME EndOwnership
       PROVE  LockOK'
  BY <1>31 DEF EndOwnership, clientVars, threadVars
<1>32. ASSUME CloseBegin
       PROVE  LockOK'
  BY <1>32, SpendFacts DEF CloseBegin, threadVars
<1>33. ASSUME CloseWaited
       PROVE  LockOK'
  BY <1>33 DEF CloseWaited, threadVars
<1>34. ASSUME CloseRecorder
       PROVE  LockOK'
  BY <1>34 DEF CloseRecorder, threadVars
<1>35. ASSUME NEW t \in Clients, SendRefused(t)
       PROVE  LockOK'
  <2>1. pc[t] = "attempt" /\ UNCHANGED cl /\ LeaveMutation(t, "raised", "raised")
    BY <1>35 DEF SendRefused
  <2> QED
    BY <2>1, LeavesLock
<1>36. ASSUME UNCHANGED vars
       PROVE  LockOK'
  BY <1>36 DEF vars, threadVars
<1> QED
  BY <1>1, <1>2, <1>3, <1>4, <1>5, <1>6, <1>7, <1>8, <1>9, <1>10, <1>11, <1>12, <1>13, <1>14,
     <1>15, <1>16, <1>17, <1>18, <1>19, <1>20, <1>21, <1>22, <1>23, <1>24, <1>25, <1>26, <1>27,
     <1>28, <1>29, <1>30, <1>31, <1>32, <1>33, <1>34, <1>35, <1>36 DEF Next, Operation, Send,
     Lifecycle, Recorder, Finished

(* Whoever waits for the operations waits for all of them.                 *)
LEMMA WaitsStep ==
  ASSUME IInv, [Next]_vars
  PROVE  WaitsOK'
<1> USE OpsAssumption, NamesAssumption DEF IInv, ShapesOK, ThreadShape, OtherShape, LockOK,
     WaitsOK, InMutation, Registered, Watching, Clients, Ops
<1>1. ASSUME Receive
      PROVE  WaitsOK'
  <2>1. Received
    BY <1>1, ReceiveFacts DEF IInv
  <2> QED
    BY <2>1 DEF Received, GoesOn, threadVars
<1>2. ASSUME Disconnect
      PROVE  WaitsOK'
  BY <1>2, SpendFacts DEF Disconnect, threadVars
<1>3. ASSUME Fatal
      PROVE  WaitsOK'
  BY <1>3, SpendFaultFacts DEF Fatal, threadVars
<1>4. ASSUME Reconnected
      PROVE  WaitsOK'
  BY <1>4 DEF Reconnected, threadVars
<1>5. ASSUME ReconnectTimedOut
      PROVE  WaitsOK'
  <2>1. TimedOut
    BY <1>5, TimedOutFacts DEF IInv
  <2> QED
    BY <2>1 DEF TimedOut, Elsewhere, Ends
<1>6. ASSUME ReconnectGivenUp
      PROVE  WaitsOK'
  BY <1>6 DEF ReconnectGivenUp, threadVars
<1>7. ASSUME FatalEnd
      PROVE  WaitsOK'
  <2>1. FatalEnded
    BY <1>7, FatalEndFacts DEF IInv
  <2> QED
    BY <2>1 DEF FatalEnded, Elsewhere, Ends
<1>8. ASSUME CallSend
      PROVE  WaitsOK'
  BY <1>8, SpendFacts DEF CallSend, EnterMutation, OwnerAllows, Goto, Finish
<1>9. ASSUME NEW t \in Ops, CallMonitor(t)
      PROVE  WaitsOK'
  BY <1>9, SpendFacts DEF CallMonitor, Goto
<1>10. ASSUME NEW t \in Ops, CallInteract(t)
       PROVE  WaitsOK'
  BY <1>10, SpendFacts DEF CallInteract, EnterMutation, OwnerAllows, Goto, Finish
<1>11. ASSUME NEW t \in Ops, ClaimOwner(t)
       PROVE  WaitsOK'
  BY <1>11 DEF ClaimOwner, LeftMutation, Goto
<1>12. ASSUME NEW t \in Ops, Start(t)
       PROVE  WaitsOK'
  <2>1. HasStarted(t)
    BY <1>12, StartFacts DEF IInv
  <2> QED
    BY <2>1 DEF HasStarted, Fresh, GoesOn
<1>13. ASSUME NEW t \in Ops, StartRefused(t)
       PROVE  WaitsOK'
  BY <1>13 DEF StartRefused, Leaves, Goto
<1>14. ASSUME NEW t \in Ops, EnterSend(t)
       PROVE  WaitsOK'
  BY <1>14 DEF EnterSend, EnterMutation, OwnerAllows, Goto, Finish
<1>15. ASSUME NEW t \in Ops, CheckState(t)
       PROVE  WaitsOK'
  BY <1>15 DEF CheckState, Decide, Goto
<1>16. ASSUME NEW t \in Ops, CheckDeadline(t)
       PROVE  WaitsOK'
  BY <1>16 DEF CheckDeadline, Decide, Goto
<1>17. ASSUME NEW t \in Ops, WaitTimesOut(t)
       PROVE  WaitsOK'
  BY <1>17 DEF WaitTimesOut, Goto
<1>18. ASSUME NEW t \in Ops, ReadEvidence(t)
       PROVE  WaitsOK'
  BY <1>18 DEF ReadEvidence, Matcher, Goto
<1>19. ASSUME NEW t \in Ops, Complete(t)
       PROVE  WaitsOK'
  <2>1. HasCompleted(t)
    BY <1>19, CompleteFacts DEF IInv
  <2> QED
    BY <2>1 DEF HasCompleted, GoesOn
<1>20. ASSUME NEW t \in Ops, CompleteError(t)
       PROVE  WaitsOK'
  <2>1. HasFailed(t)
    BY <1>20, CompleteErrorFacts DEF IInv
  <2> QED
    BY <2>1 DEF HasFailed, GoesOn
<1>21. ASSUME NEW t \in Ops, Finally(t)
       PROVE  WaitsOK'
  BY <1>21 DEF Finally, NewOp, NoSend, Leaves, Goto
<1>22. ASSUME NEW t \in Ops, Return(t)
       PROVE  WaitsOK'
  BY <1>22 DEF Return, Goto
<1>23. ASSUME NEW t \in Ops, Cancel(t)
       PROVE  WaitsOK'
  BY <1>23, SpendFacts DEF Cancel, threadVars
<1>24. ASSUME NEW t \in Ops, Expire(t)
       PROVE  WaitsOK'
  BY <1>24 DEF Expire, threadVars
<1>25. ASSUME NEW t \in Clients, SendAttempt(t)
       PROVE  WaitsOK'
  BY <1>25 DEF SendAttempt, LeaveMutation, LeftMutation, Goto, Finish
<1>26. ASSUME NEW t \in Clients, SendReturns(t)
       PROVE  WaitsOK'
  BY <1>26, SpendFaultFacts DEF SendReturns, Goto
<1>27. ASSUME NEW t \in Clients, SendResult(t)
       PROVE  WaitsOK'
  BY <1>27 DEF SendResult, LeaveMutation, LeftMutation, Goto, Finish
<1>28. ASSUME NEW t \in Clients, SendInputFailed(t)
       PROVE  WaitsOK'
  BY <1>28 DEF SendInputFailed, LeaveMutation, LeftMutation, Goto, Finish
<1>29. ASSUME NEW kind \in {"release", "reacquire"}, BeginOwnership(kind)
       PROVE  WaitsOK'
  BY <1>29, SpendFacts DEF BeginOwnership, OwnerAllows, clientVars, threadVars
<1>30. ASSUME TryMutation
       PROVE  WaitsOK'
  BY <1>30 DEF TryMutation, LifecycleGoto, clientVars, threadVars
<1>31. ASSUME Release
       PROVE  WaitsOK'
  BY <1>31 DEF Release, LifecycleGoto, clientVars, threadVars
<1>32. ASSUME CollectMonitors
       PROVE  WaitsOK'
  BY <1>32 DEF CollectMonitors, clientVars, threadVars
<1>33. ASSUME MonitorsCompleted
       PROVE  WaitsOK'
  BY <1>33 DEF MonitorsCompleted, LifecycleGoto, clientVars, threadVars
<1>34. ASSUME BeginReacquire
       PROVE  WaitsOK'
  BY <1>34 DEF BeginReacquire, LifecycleGoto, clientVars, threadVars
<1>35. ASSUME Reacquired
       PROVE  WaitsOK'
  BY <1>35 DEF Reacquired, LifecycleGoto, clientVars, threadVars
<1>36. ASSUME EndOwnership
       PROVE  WaitsOK'
  BY <1>36 DEF EndOwnership, clientVars, threadVars
<1>37. ASSUME CloseBegin
       PROVE  WaitsOK'
  BY <1>37, SpendFacts DEF CloseBegin, threadVars
<1>38. ASSUME CloseWaited
       PROVE  WaitsOK'
  BY <1>38 DEF CloseWaited, threadVars
<1>39. ASSUME CloseRecorder
       PROVE  WaitsOK'
  BY <1>39 DEF CloseRecorder, threadVars
<1>40. ASSUME NEW t \in Clients, SendRefused(t)
       PROVE  WaitsOK'
  <2>1. IsRefused(t)
    BY <1>40, RefusedFacts DEF IInv
  <2> QED
    BY <2>1 DEF IsRefused, LeftMutation
<1>41. ASSUME UNCHANGED vars
       PROVE  WaitsOK'
  BY <1>41 DEF vars, threadVars
<1> QED
  BY <1>1, <1>2, <1>3, <1>4, <1>5, <1>6, <1>7, <1>8, <1>9, <1>10, <1>11, <1>12, <1>13, <1>14,
     <1>15, <1>16, <1>17, <1>18, <1>19, <1>20, <1>21, <1>22, <1>23, <1>24, <1>25, <1>26, <1>27,
     <1>28, <1>29, <1>30, <1>31, <1>32, <1>33, <1>34, <1>35, <1>36, <1>37, <1>38, <1>39, <1>40,
     <1>41 DEF Next, Operation, Send, Lifecycle, Recorder, Finished

(* A session that has ended has no operations, and a fault is counted.     *)
LEMMA RecorderStep ==
  ASSUME IInv, [Next]_vars
  PROVE  RecorderOK'
<1> USE OpsAssumption, NamesAssumption DEF IInv, ShapesOK, RecShape, ThreadShape, OtherShape,
     RecorderOK, WaitsOK, Faulted, Watching, Clients, Ops
<1>1. ASSUME Receive
      PROVE  RecorderOK'
  <2>1. Received
    BY <1>1, ReceiveFacts DEF IInv
  <2> QED
    BY <2>1 DEF Received, GoesOn, threadVars
<1>2. ASSUME Disconnect
      PROVE  RecorderOK'
  BY <1>2, SpendFacts DEF Disconnect, threadVars
<1>3. ASSUME Fatal
      PROVE  RecorderOK'
  BY <1>3, SpendFaultFacts DEF Fatal, threadVars
<1>4. ASSUME Reconnected
      PROVE  RecorderOK'
  BY <1>4 DEF Reconnected, threadVars
<1>5. ASSUME ReconnectTimedOut
      PROVE  RecorderOK'
  <2>1. TimedOut
    BY <1>5, TimedOutFacts DEF IInv
  <2> QED
    BY <2>1 DEF TimedOut, Elsewhere, Ends
<1>6. ASSUME ReconnectGivenUp
      PROVE  RecorderOK'
  BY <1>6 DEF ReconnectGivenUp, threadVars
<1>7. ASSUME FatalEnd
      PROVE  RecorderOK'
  <2>1. FatalEnded
    BY <1>7, FatalEndFacts DEF IInv
  <2> QED
    BY <2>1 DEF FatalEnded, Elsewhere, Ends
<1>8. ASSUME CallSend
      PROVE  RecorderOK'
  BY <1>8, SpendFacts DEF CallSend, EnterMutation, OwnerAllows, Goto, Finish
<1>9. ASSUME NEW t \in Ops, CallMonitor(t)
      PROVE  RecorderOK'
  BY <1>9, SpendFacts DEF CallMonitor, Goto
<1>10. ASSUME NEW t \in Ops, CallInteract(t)
       PROVE  RecorderOK'
  BY <1>10, SpendFacts DEF CallInteract, EnterMutation, OwnerAllows, Goto, Finish
<1>11. ASSUME NEW t \in Ops, ClaimOwner(t)
       PROVE  RecorderOK'
  BY <1>11 DEF ClaimOwner, LeftMutation, Goto
<1>12. ASSUME NEW t \in Ops, Start(t)
       PROVE  RecorderOK'
  <2>1. HasStarted(t)
    BY <1>12, StartFacts DEF IInv
  <2> QED
    BY <2>1 DEF HasStarted, Fresh, GoesOn
<1>13. ASSUME NEW t \in Ops, StartRefused(t)
       PROVE  RecorderOK'
  BY <1>13 DEF StartRefused, Leaves, Goto
<1>14. ASSUME NEW t \in Ops, EnterSend(t)
       PROVE  RecorderOK'
  BY <1>14 DEF EnterSend, EnterMutation, OwnerAllows, Goto, Finish
<1>15. ASSUME NEW t \in Ops, CheckState(t)
       PROVE  RecorderOK'
  BY <1>15 DEF CheckState, Decide, Goto
<1>16. ASSUME NEW t \in Ops, CheckDeadline(t)
       PROVE  RecorderOK'
  BY <1>16 DEF CheckDeadline, Decide, Goto
<1>17. ASSUME NEW t \in Ops, WaitTimesOut(t)
       PROVE  RecorderOK'
  BY <1>17 DEF WaitTimesOut, Goto
<1>18. ASSUME NEW t \in Ops, ReadEvidence(t)
       PROVE  RecorderOK'
  BY <1>18 DEF ReadEvidence, Matcher, Goto
<1>19. ASSUME NEW t \in Ops, Complete(t)
       PROVE  RecorderOK'
  <2>1. HasCompleted(t)
    BY <1>19, CompleteFacts DEF IInv
  <2> QED
    BY <2>1 DEF HasCompleted, GoesOn
<1>20. ASSUME NEW t \in Ops, CompleteError(t)
       PROVE  RecorderOK'
  <2>1. HasFailed(t)
    BY <1>20, CompleteErrorFacts DEF IInv
  <2> QED
    BY <2>1 DEF HasFailed, GoesOn
<1>21. ASSUME NEW t \in Ops, Finally(t)
       PROVE  RecorderOK'
  BY <1>21 DEF Finally, NewOp, NoSend, Leaves, Goto
<1>22. ASSUME NEW t \in Ops, Return(t)
       PROVE  RecorderOK'
  BY <1>22 DEF Return, Goto
<1>23. ASSUME NEW t \in Ops, Cancel(t)
       PROVE  RecorderOK'
  BY <1>23, SpendFacts DEF Cancel, threadVars
<1>24. ASSUME NEW t \in Ops, Expire(t)
       PROVE  RecorderOK'
  BY <1>24 DEF Expire, threadVars
<1>25. ASSUME NEW t \in Clients, SendAttempt(t)
       PROVE  RecorderOK'
  BY <1>25 DEF SendAttempt, LeaveMutation, LeftMutation, Goto, Finish
<1>26. ASSUME NEW t \in Clients, SendReturns(t)
       PROVE  RecorderOK'
  BY <1>26, SpendFaultFacts DEF SendReturns, Goto
<1>27. ASSUME NEW t \in Clients, SendResult(t)
       PROVE  RecorderOK'
  BY <1>27 DEF SendResult, LeaveMutation, LeftMutation, Goto, Finish
<1>28. ASSUME NEW t \in Clients, SendInputFailed(t)
       PROVE  RecorderOK'
  BY <1>28 DEF SendInputFailed, LeaveMutation, LeftMutation, Goto, Finish
<1>29. ASSUME NEW kind \in {"release", "reacquire"}, BeginOwnership(kind)
       PROVE  RecorderOK'
  BY <1>29, SpendFacts DEF BeginOwnership, OwnerAllows, clientVars, threadVars
<1>30. ASSUME TryMutation
       PROVE  RecorderOK'
  BY <1>30 DEF TryMutation, LifecycleGoto, clientVars, threadVars
<1>31. ASSUME Release
       PROVE  RecorderOK'
  BY <1>31 DEF Release, LifecycleGoto, clientVars, threadVars
<1>32. ASSUME CollectMonitors
       PROVE  RecorderOK'
  BY <1>32 DEF CollectMonitors, clientVars, threadVars
<1>33. ASSUME MonitorsCompleted
       PROVE  RecorderOK'
  BY <1>33 DEF MonitorsCompleted, LifecycleGoto, clientVars, threadVars
<1>34. ASSUME BeginReacquire
       PROVE  RecorderOK'
  BY <1>34 DEF BeginReacquire, LifecycleGoto, clientVars, threadVars
<1>35. ASSUME Reacquired
       PROVE  RecorderOK'
  <2>1. Reopened /\ lc.pc = "opening" /\ rec.state = "reacquiring"
    BY <1>35, ReacquiredFacts DEF IInv, ShapesOK, Reacquired
  <2>2. UNCHANGED <<active, mon, spent, tx, pc>>
    BY <1>35 DEF Reacquired, clientVars, threadVars
  <2> QED
    BY <2>1, <2>2 DEF Reopened, Reacquired, LifecycleGoto, clientVars, threadVars
<1>36. ASSUME EndOwnership
       PROVE  RecorderOK'
  BY <1>36 DEF EndOwnership, clientVars, threadVars
<1>37. ASSUME CloseBegin
       PROVE  RecorderOK'
  BY <1>37, SpendFacts DEF CloseBegin, threadVars
<1>38. ASSUME CloseWaited
       PROVE  RecorderOK'
  BY <1>38 DEF CloseWaited, threadVars
<1>39. ASSUME CloseRecorder
       PROVE  RecorderOK'
  BY <1>39 DEF CloseRecorder, threadVars
<1>40. ASSUME NEW t \in Clients, SendRefused(t)
       PROVE  RecorderOK'
  <2>1. IsRefused(t)
    BY <1>40, RefusedFacts DEF IInv
  <2> QED
    BY <2>1 DEF IsRefused, LeftMutation
<1>41. ASSUME UNCHANGED vars
       PROVE  RecorderOK'
  BY <1>41 DEF vars, threadVars
<1> QED
  BY <1>1, <1>2, <1>3, <1>4, <1>5, <1>6, <1>7, <1>8, <1>9, <1>10, <1>11, <1>12, <1>13, <1>14,
     <1>15, <1>16, <1>17, <1>18, <1>19, <1>20, <1>21, <1>22, <1>23, <1>24, <1>25, <1>26, <1>27,
     <1>28, <1>29, <1>30, <1>31, <1>32, <1>33, <1>34, <1>35, <1>36, <1>37, <1>38, <1>39, <1>40,
     <1>41 DEF Next, Operation, Send, Lifecycle, Recorder, Finished

(* An operation ended by the recorder has its record where Complete looks  *)
(* for it, unless a fault or a split session kept it from there.           *)
LEMMA EndedStep ==
  ASSUME IInv, [Next]_vars
  PROVE  EndedOK'
<1> USE OpsAssumption, NamesAssumption DEF IInv, ShapesOK, RecShape, ThreadShape, OpShape,
     RecorderOK, WaitsOK, EndedOK, EndedBy, Faulted, Watching, Registered, Clients, Ops
<1>1. ASSUME Receive
      PROVE  EndedOK'
  <2>1. Received
    BY <1>1, ReceiveFacts DEF IInv
  <2> QED
    BY <2>1 DEF Received, GoesOn, threadVars
<1>2. ASSUME Disconnect
      PROVE  EndedOK'
  BY <1>2, SpendFacts DEF Disconnect, threadVars
<1>3. ASSUME Fatal
      PROVE  EndedOK'
  BY <1>3, SpendFaultFacts DEF Fatal, threadVars
<1>4. ASSUME Reconnected
      PROVE  EndedOK'
  BY <1>4 DEF Reconnected, threadVars
<1>5. ASSUME ReconnectTimedOut
      PROVE  EndedOK'
  <2>1. TimedOut
    BY <1>5, TimedOutFacts DEF IInv
  <2> QED
    BY <2>1 DEF TimedOut, Elsewhere, Ends
<1>6. ASSUME ReconnectGivenUp
      PROVE  EndedOK'
  BY <1>6 DEF ReconnectGivenUp, threadVars
<1>7. ASSUME FatalEnd
      PROVE  EndedOK'
  <2>1. FatalEnded
    BY <1>7, FatalEndFacts DEF IInv
  <2> QED
    BY <2>1 DEF FatalEnded, Elsewhere, Ends
<1>8. ASSUME CallSend
      PROVE  EndedOK'
  BY <1>8, SpendFacts DEF CallSend, EnterMutation, OwnerAllows, Goto, Finish
<1>9. ASSUME NEW t \in Ops, CallMonitor(t)
      PROVE  EndedOK'
  BY <1>9, SpendFacts DEF CallMonitor, Goto
<1>10. ASSUME NEW t \in Ops, CallInteract(t)
       PROVE  EndedOK'
  BY <1>10, SpendFacts DEF CallInteract, EnterMutation, OwnerAllows, Goto, Finish
<1>11. ASSUME NEW t \in Ops, ClaimOwner(t)
       PROVE  EndedOK'
  BY <1>11 DEF ClaimOwner, LeftMutation, Goto
<1>12. ASSUME NEW t \in Ops, Start(t)
       PROVE  EndedOK'
  <2>1. HasStarted(t)
    BY <1>12, StartFacts DEF IInv
  <2> QED
    BY <2>1 DEF HasStarted, Fresh, GoesOn
<1>13. ASSUME NEW t \in Ops, StartRefused(t)
       PROVE  EndedOK'
  BY <1>13 DEF StartRefused, Leaves, Goto
<1>14. ASSUME NEW t \in Ops, EnterSend(t)
       PROVE  EndedOK'
  <2>1. Enters(t, t, "attempt", "raised")
    BY <1>14, EnterFacts DEF EnterSend, IInv, ShapesOK
  <2>2. \E l \in {"attempt", "raised"} : pc' = [pc EXCEPT ![t] = l]
    BY <2>1 DEF Enters
  <2>3. pc[t] = "act" /\ UNCHANGED <<rec, active, term, op, spent>>
    BY <1>14 DEF EnterSend
  <2> QED
    BY <2>2, <2>3, ActingEnded DEF Clients
<1>15. ASSUME NEW t \in Ops, CheckState(t)
       PROVE  EndedOK'
  BY <1>15 DEF CheckState, Decide, Goto
<1>16. ASSUME NEW t \in Ops, CheckDeadline(t)
       PROVE  EndedOK'
  BY <1>16 DEF CheckDeadline, Decide, Goto
<1>17. ASSUME NEW t \in Ops, WaitTimesOut(t)
       PROVE  EndedOK'
  BY <1>17 DEF WaitTimesOut, Goto
<1>18. ASSUME NEW t \in Ops, ReadEvidence(t)
       PROVE  EndedOK'
  BY <1>18 DEF ReadEvidence, Matcher, Goto
<1>19. ASSUME NEW t \in Ops, Complete(t)
       PROVE  EndedOK'
  <2>1. HasCompleted(t)
    BY <1>19, CompleteFacts DEF IInv
  <2> QED
    BY <2>1 DEF HasCompleted, GoesOn
<1>20. ASSUME NEW t \in Ops, CompleteError(t)
       PROVE  EndedOK'
  <2>1. HasFailed(t)
    BY <1>20, CompleteErrorFacts DEF IInv
  <2> QED
    BY <2>1 DEF HasFailed, GoesOn
<1>21. ASSUME NEW t \in Ops, Finally(t)
       PROVE  EndedOK'
  BY <1>21 DEF Finally, NewOp, NoSend, Leaves, Goto
<1>22. ASSUME NEW t \in Ops, Return(t)
       PROVE  EndedOK'
  BY <1>22 DEF Return, Goto
<1>23. ASSUME NEW t \in Ops, Cancel(t)
       PROVE  EndedOK'
  BY <1>23, SpendFacts DEF Cancel, threadVars
<1>24. ASSUME NEW t \in Ops, Expire(t)
       PROVE  EndedOK'
  BY <1>24 DEF Expire, threadVars
<1>25. ASSUME NEW t \in Clients, SendAttempt(t)
       PROVE  EndedOK'
  <2>1. pc[t] = "attempt" /\ UNCHANGED <<rec, active, term, op, spent>>
    BY <1>25 DEF SendAttempt
  <2>2. \E l \in {"send", "raised", "done"} :
           pc' = [pc EXCEPT ![t] = l] /\ (t \in Ops => l # "done")
    BY <1>25 DEF SendAttempt, LeaveMutation, Goto, Finish
  <2> QED
    BY <2>1, <2>2, ActingEnded
<1>26. ASSUME NEW t \in Clients, SendReturns(t)
       PROVE  EndedOK'
  BY <1>26, SpendFaultFacts DEF SendReturns, Goto
<1>27. ASSUME NEW t \in Clients, SendResult(t)
       PROVE  EndedOK'
  <2>1. pc[t] = "result" /\ UNCHANGED <<rec, active, term, op, spent>>
    BY <1>27 DEF SendResult
  <2>2. \E l \in {"loop", "raised", "done"} :
           pc' = [pc EXCEPT ![t] = l] /\ (t \in Ops => l # "done")
    BY <1>27 DEF SendResult, LeaveMutation, Goto, Finish
  <2> QED
    BY <2>1, <2>2, ActingEnded
<1>28. ASSUME NEW t \in Clients, SendInputFailed(t)
       PROVE  EndedOK'
  BY <1>28 DEF SendInputFailed, LeaveMutation, LeftMutation, Goto, Finish
<1>29. ASSUME NEW kind \in {"release", "reacquire"}, BeginOwnership(kind)
       PROVE  EndedOK'
  BY <1>29, SpendFacts DEF BeginOwnership, OwnerAllows, clientVars, threadVars
<1>30. ASSUME TryMutation
       PROVE  EndedOK'
  BY <1>30 DEF TryMutation, LifecycleGoto, clientVars, threadVars
<1>31. ASSUME Release
       PROVE  EndedOK'
  BY <1>31 DEF Release, LifecycleGoto, clientVars, threadVars
<1>32. ASSUME CollectMonitors
       PROVE  EndedOK'
  BY <1>32 DEF CollectMonitors, clientVars, threadVars
<1>33. ASSUME MonitorsCompleted
       PROVE  EndedOK'
  BY <1>33 DEF MonitorsCompleted, LifecycleGoto, clientVars, threadVars
<1>34. ASSUME BeginReacquire
       PROVE  EndedOK'
  BY <1>34 DEF BeginReacquire, LifecycleGoto, clientVars, threadVars
<1>35. ASSUME Reacquired
       PROVE  EndedOK'
  BY <1>35 DEF Reacquired, LifecycleGoto, clientVars, threadVars
<1>36. ASSUME EndOwnership
       PROVE  EndedOK'
  BY <1>36 DEF EndOwnership, clientVars, threadVars
<1>37. ASSUME CloseBegin
       PROVE  EndedOK'
  BY <1>37, SpendFacts DEF CloseBegin, threadVars
<1>38. ASSUME CloseWaited
       PROVE  EndedOK'
  BY <1>38 DEF CloseWaited, threadVars
<1>39. ASSUME CloseRecorder
       PROVE  EndedOK'
  BY <1>39 DEF CloseRecorder, threadVars
<1>40. ASSUME NEW t \in Clients, SendRefused(t)
       PROVE  EndedOK'
  <2>1. pc[t] = "attempt" /\ UNCHANGED <<rec, active, term, op, spent>>
    BY <1>40 DEF SendRefused
  <2>2. \E l \in {"raised", "done"} :
           pc' = [pc EXCEPT ![t] = l] /\ (t \in Ops => l # "done")
    BY <1>40 DEF SendRefused, LeaveMutation, Goto, Finish
  <2> QED
    BY <2>1, <2>2, ActingEnded
<1>41. ASSUME UNCHANGED vars
       PROVE  EndedOK'
  BY <1>41 DEF vars, threadVars
<1> QED
  BY <1>1, <1>2, <1>3, <1>4, <1>5, <1>6, <1>7, <1>8, <1>9, <1>10, <1>11, <1>12, <1>13, <1>14,
     <1>15, <1>16, <1>17, <1>18, <1>19, <1>20, <1>21, <1>22, <1>23, <1>24, <1>25, <1>26, <1>27,
     <1>28, <1>29, <1>30, <1>31, <1>32, <1>33, <1>34, <1>35, <1>36, <1>37, <1>38, <1>39, <1>40,
     <1>41 DEF Next, Operation, Send, Lifecycle, Recorder, Finished

(* An operation has decided on an outcome when it completes, and not       *)
(* before; a match is decided with the match.                              *)
LEMMA DecidedStep ==
  ASSUME IInv, [Next]_vars
  PROVE  DecidedOK'
<1> USE OpsAssumption, NamesAssumption DEF IInv, ShapesOK, ThreadShape, OpShape, LogShape,
     DecidedOK, Outcomes, Ops, Clients, NewOp
<1>1. ASSUME Receive
      PROVE  DecidedOK'
  <2>1. Received
    BY <1>1, ReceiveFacts DEF IInv
  <2> QED
    BY <2>1 DEF Received, GoesOn, threadVars
<1>2. ASSUME Disconnect
      PROVE  DecidedOK'
  BY <1>2, SpendFacts DEF Disconnect, threadVars
<1>3. ASSUME Fatal
      PROVE  DecidedOK'
  BY <1>3, SpendFaultFacts DEF Fatal, threadVars
<1>4. ASSUME Reconnected
      PROVE  DecidedOK'
  BY <1>4 DEF Reconnected, threadVars
<1>5. ASSUME ReconnectTimedOut
      PROVE  DecidedOK'
  <2>1. TimedOut
    BY <1>5, TimedOutFacts DEF IInv
  <2> QED
    BY <2>1 DEF TimedOut, Elsewhere, Ends
<1>6. ASSUME ReconnectGivenUp
      PROVE  DecidedOK'
  BY <1>6 DEF ReconnectGivenUp, threadVars
<1>7. ASSUME FatalEnd
      PROVE  DecidedOK'
  <2>1. FatalEnded
    BY <1>7, FatalEndFacts DEF IInv
  <2> QED
    BY <2>1 DEF FatalEnded, Elsewhere, Ends
<1>8. ASSUME CallSend
      PROVE  DecidedOK'
  BY <1>8, SpendFacts DEF CallSend, EnterMutation, OwnerAllows, Goto, Finish
<1>9. ASSUME NEW t \in Ops, CallMonitor(t)
      PROVE  DecidedOK'
  BY <1>9, SpendFacts DEF CallMonitor, Goto
<1>10. ASSUME NEW t \in Ops, CallInteract(t)
       PROVE  DecidedOK'
  BY <1>10, SpendFacts DEF CallInteract, EnterMutation, OwnerAllows, Goto, Finish
<1>11. ASSUME NEW t \in Ops, ClaimOwner(t)
       PROVE  DecidedOK'
  BY <1>11 DEF ClaimOwner, LeftMutation, Goto
<1>12. ASSUME NEW t \in Ops, Start(t)
       PROVE  DecidedOK'
  <2>1. HasStarted(t)
    BY <1>12, StartFacts DEF IInv
  <2> QED
    BY <2>1 DEF HasStarted, Fresh, GoesOn
<1>13. ASSUME NEW t \in Ops, StartRefused(t)
       PROVE  DecidedOK'
  BY <1>13 DEF StartRefused, Leaves, Goto
<1>14. ASSUME NEW t \in Ops, EnterSend(t)
       PROVE  DecidedOK'
  BY <1>14 DEF EnterSend, EnterMutation, OwnerAllows, Goto, Finish
<1>15. ASSUME NEW t \in Ops, CheckState(t)
       PROVE  DecidedOK'
  BY <1>15 DEF CheckState, Decide, Goto
<1>16. ASSUME NEW t \in Ops, CheckDeadline(t)
       PROVE  DecidedOK'
  BY <1>16 DEF CheckDeadline, Decide, Goto
<1>17. ASSUME NEW t \in Ops, WaitTimesOut(t)
       PROVE  DecidedOK'
  BY <1>17 DEF WaitTimesOut, Goto
<1>18. ASSUME NEW t \in Ops, ReadEvidence(t)
       PROVE  DecidedOK'
  <2> DEFINE p == Process(op[t], Len(log))
             o == [Matcher(op[t], p) EXCEPT !.cursor = Len(log), !.outcome =
                                              IF p.match # None THEN "matched" ELSE @]
  <2>1. /\ op' = [op EXCEPT ![t] = o]
        /\ pc' = [pc EXCEPT ![t] = IF p.match # None THEN "complete" ELSE "loop"]
    BY <1>18, Zenon DEF ReadEvidence, Goto
  <2>8. /\ o.start = op[t].start /\ o.cursor = Len(log) /\ o.match = p.match
        /\ o.outcome = IF p.match # None THEN "matched" ELSE op[t].outcome
    <3>1. DOMAIN op[t] = DOMAIN NewOp
      BY DEF IInv, ShapesOK, OpShape
    <3> QED
      BY <3>1 DEF Matcher, NewOp
  <2> HIDE DEF o, p
  <2>2. pc[t] = "wait" /\ op[t].cursor < Len(log) /\ UNCHANGED <<log, term>>
    BY <1>18 DEF ReadEvidence
  <2>3. op[t].start <= Len(log) /\ Len(log) \in Nat /\ op[t].outcome = None
    BY <2>2 DEF IInv, ShapesOK, LogShape, DecidedOK
  <2>4. \A u \in Ops : u # t => op'[u] = op[u] /\ pc'[u] = pc[u]
    BY <2>1 DEF IInv, ShapesOK, OpShape, ThreadShape, Clients
  <2>5. op'[t].start = op[t].start /\ op'[t].cursor = Len(log)
    BY <2>1, <2>8 DEF IInv, ShapesOK, OpShape
  <2>6. \/ op'[t].match # None /\ op'[t].outcome = "matched" /\ pc'[t] = "complete"
        \/ op'[t].outcome = None /\ pc'[t] = "loop"
    BY <2>1, <2>3, <2>8 DEF IInv, ShapesOK, OpShape, ThreadShape, Clients
  <2>7. "matched" \in Outcomes /\ "matched" # None
    BY NamesAssumption DEF Outcomes
  <2> QED
    BY <2>2, <2>3, <2>4, <2>5, <2>6, <2>7, NamesAssumption DEF IInv, DecidedOK
<1>19. ASSUME NEW t \in Ops, Complete(t)
       PROVE  DecidedOK'
  <2>1. HasCompleted(t)
    BY <1>19, CompleteFacts DEF IInv
  <2> QED
    BY <2>1 DEF HasCompleted, GoesOn
<1>20. ASSUME NEW t \in Ops, CompleteError(t)
       PROVE  DecidedOK'
  <2>1. HasFailed(t)
    BY <1>20, CompleteErrorFacts DEF IInv
  <2> QED
    BY <2>1 DEF HasFailed, GoesOn
<1>21. ASSUME NEW t \in Ops, Finally(t)
       PROVE  DecidedOK'
  BY <1>21 DEF Finally, NoSend, Leaves, Goto
<1>22. ASSUME NEW t \in Ops, Return(t)
       PROVE  DecidedOK'
  BY <1>22 DEF Return, Goto
<1>23. ASSUME NEW t \in Ops, Cancel(t)
       PROVE  DecidedOK'
  BY <1>23, SpendFacts DEF Cancel, threadVars
<1>24. ASSUME NEW t \in Ops, Expire(t)
       PROVE  DecidedOK'
  BY <1>24 DEF Expire, threadVars
<1>25. ASSUME NEW t \in Clients, SendAttempt(t)
       PROVE  DecidedOK'
  BY <1>25 DEF SendAttempt, LeaveMutation, LeftMutation, Goto, Finish
<1>26. ASSUME NEW t \in Clients, SendReturns(t)
       PROVE  DecidedOK'
  BY <1>26, SpendFaultFacts DEF SendReturns, Goto
<1>27. ASSUME NEW t \in Clients, SendResult(t)
       PROVE  DecidedOK'
  BY <1>27 DEF SendResult, LeaveMutation, LeftMutation, Goto, Finish
<1>28. ASSUME NEW t \in Clients, SendInputFailed(t)
       PROVE  DecidedOK'
  BY <1>28 DEF SendInputFailed, LeaveMutation, LeftMutation, Goto, Finish
<1>29. ASSUME NEW kind \in {"release", "reacquire"}, BeginOwnership(kind)
       PROVE  DecidedOK'
  BY <1>29, SpendFacts DEF BeginOwnership, OwnerAllows, clientVars, threadVars
<1>30. ASSUME TryMutation
       PROVE  DecidedOK'
  BY <1>30 DEF TryMutation, LifecycleGoto, clientVars, threadVars
<1>31. ASSUME Release
       PROVE  DecidedOK'
  BY <1>31 DEF Release, LifecycleGoto, clientVars, threadVars
<1>32. ASSUME CollectMonitors
       PROVE  DecidedOK'
  BY <1>32 DEF CollectMonitors, clientVars, threadVars
<1>33. ASSUME MonitorsCompleted
       PROVE  DecidedOK'
  BY <1>33 DEF MonitorsCompleted, LifecycleGoto, clientVars, threadVars
<1>34. ASSUME BeginReacquire
       PROVE  DecidedOK'
  BY <1>34 DEF BeginReacquire, LifecycleGoto, clientVars, threadVars
<1>35. ASSUME Reacquired
       PROVE  DecidedOK'
  BY <1>35 DEF Reacquired, LifecycleGoto, clientVars, threadVars
<1>36. ASSUME EndOwnership
       PROVE  DecidedOK'
  BY <1>36 DEF EndOwnership, clientVars, threadVars
<1>37. ASSUME CloseBegin
       PROVE  DecidedOK'
  BY <1>37, SpendFacts DEF CloseBegin, threadVars
<1>38. ASSUME CloseWaited
       PROVE  DecidedOK'
  BY <1>38 DEF CloseWaited, threadVars
<1>39. ASSUME CloseRecorder
       PROVE  DecidedOK'
  BY <1>39 DEF CloseRecorder, threadVars
<1>40. ASSUME NEW t \in Clients, SendRefused(t)
       PROVE  DecidedOK'
  <2>1. IsRefused(t)
    BY <1>40, RefusedFacts DEF IInv
  <2> QED
    BY <2>1 DEF IsRefused, LeftMutation
<1>41. ASSUME UNCHANGED vars
       PROVE  DecidedOK'
  BY <1>41 DEF vars, threadVars
<1> QED
  BY <1>1, <1>2, <1>3, <1>4, <1>5, <1>6, <1>7, <1>8, <1>9, <1>10, <1>11, <1>12, <1>13, <1>14,
     <1>15, <1>16, <1>17, <1>18, <1>19, <1>20, <1>21, <1>22, <1>23, <1>24, <1>25, <1>26, <1>27,
     <1>28, <1>29, <1>30, <1>31, <1>32, <1>33, <1>34, <1>35, <1>36, <1>37, <1>38, <1>39, <1>40,
     <1>41 DEF Next, Operation, Send, Lifecycle, Recorder, Finished

(* A call returns an outcome only once its operation is over.              *)
LEMMA ReturnedStep ==
  ASSUME IInv, [Next]_vars
  PROVE  ReturnedOK'
<1> USE OpsAssumption, NamesAssumption DEF IInv, ShapesOK, RecShape, ThreadShape, OtherShape,
     RecorderOK, EndedOK, DecidedOK, ReturnedOK, Outcomes, Faulted, Clients, Ops
<1>1. ASSUME Receive
      PROVE  ReturnedOK'
  <2>1. Received
    BY <1>1, ReceiveFacts DEF IInv
  <2> QED
    BY <2>1 DEF Received, GoesOn, threadVars
<1>2. ASSUME Disconnect
      PROVE  ReturnedOK'
  BY <1>2, SpendFacts DEF Disconnect, threadVars
<1>3. ASSUME Fatal
      PROVE  ReturnedOK'
  BY <1>3, SpendFaultFacts DEF Fatal, threadVars
<1>4. ASSUME Reconnected
      PROVE  ReturnedOK'
  BY <1>4 DEF Reconnected, threadVars
<1>5. ASSUME ReconnectTimedOut
      PROVE  ReturnedOK'
  <2>1. TimedOut
    BY <1>5, TimedOutFacts DEF IInv
  <2> QED
    BY <2>1 DEF TimedOut, Elsewhere, Ends
<1>6. ASSUME ReconnectGivenUp
      PROVE  ReturnedOK'
  BY <1>6 DEF ReconnectGivenUp, threadVars
<1>7. ASSUME FatalEnd
      PROVE  ReturnedOK'
  <2>1. FatalEnded
    BY <1>7, FatalEndFacts DEF IInv
  <2> QED
    BY <2>1 DEF FatalEnded, Elsewhere, Ends
<1>8. ASSUME CallSend
      PROVE  ReturnedOK'
  BY <1>8, SpendFacts DEF CallSend, EnterMutation, OwnerAllows, Goto, Finish
<1>9. ASSUME NEW t \in Ops, CallMonitor(t)
      PROVE  ReturnedOK'
  BY <1>9, SpendFacts DEF CallMonitor, Goto
<1>10. ASSUME NEW t \in Ops, CallInteract(t)
       PROVE  ReturnedOK'
  BY <1>10, SpendFacts DEF CallInteract, EnterMutation, OwnerAllows, Goto, Finish
<1>11. ASSUME NEW t \in Ops, ClaimOwner(t)
       PROVE  ReturnedOK'
  BY <1>11 DEF ClaimOwner, LeftMutation, Goto
<1>12. ASSUME NEW t \in Ops, Start(t)
       PROVE  ReturnedOK'
  <2>1. HasStarted(t)
    BY <1>12, StartFacts DEF IInv
  <2> QED
    BY <2>1 DEF HasStarted, Fresh, GoesOn
<1>13. ASSUME NEW t \in Ops, StartRefused(t)
       PROVE  ReturnedOK'
  BY <1>13 DEF StartRefused, Leaves, Goto
<1>14. ASSUME NEW t \in Ops, EnterSend(t)
       PROVE  ReturnedOK'
  BY <1>14 DEF EnterSend, EnterMutation, OwnerAllows, Goto, Finish
<1>15. ASSUME NEW t \in Ops, CheckState(t)
       PROVE  ReturnedOK'
  BY <1>15 DEF CheckState, Decide, Goto
<1>16. ASSUME NEW t \in Ops, CheckDeadline(t)
       PROVE  ReturnedOK'
  BY <1>16 DEF CheckDeadline, Decide, Goto
<1>17. ASSUME NEW t \in Ops, WaitTimesOut(t)
       PROVE  ReturnedOK'
  BY <1>17 DEF WaitTimesOut, Goto
<1>18. ASSUME NEW t \in Ops, ReadEvidence(t)
       PROVE  ReturnedOK'
  BY <1>18 DEF ReadEvidence, Matcher, Goto
<1>19. ASSUME NEW t \in Ops, Complete(t)
       PROVE  ReturnedOK'
  <2>1. HasCompleted(t)
    BY <1>19, CompleteFacts DEF IInv
  <2> QED
    BY <2>1 DEF HasCompleted, GoesOn
<1>20. ASSUME NEW t \in Ops, CompleteError(t)
       PROVE  ReturnedOK'
  <2>1. HasFailed(t)
    BY <1>20, CompleteErrorFacts DEF IInv
  <2> QED
    BY <2>1 DEF HasFailed, GoesOn
<1>21. ASSUME NEW t \in Ops, Finally(t)
       PROVE  ReturnedOK'
  BY <1>21 DEF Finally, NewOp, NoSend, Leaves, Goto
<1>22. ASSUME NEW t \in Ops, Return(t)
       PROVE  ReturnedOK'
  BY <1>22 DEF Return, Goto
<1>23. ASSUME NEW t \in Ops, Cancel(t)
       PROVE  ReturnedOK'
  BY <1>23, SpendFacts DEF Cancel, threadVars
<1>24. ASSUME NEW t \in Ops, Expire(t)
       PROVE  ReturnedOK'
  BY <1>24 DEF Expire, threadVars
<1>25. ASSUME NEW t \in Clients, SendAttempt(t)
       PROVE  ReturnedOK'
  BY <1>25 DEF SendAttempt, LeaveMutation, LeftMutation, Goto, Finish
<1>26. ASSUME NEW t \in Clients, SendReturns(t)
       PROVE  ReturnedOK'
  BY <1>26, SpendFaultFacts DEF SendReturns, Goto
<1>27. ASSUME NEW t \in Clients, SendResult(t)
       PROVE  ReturnedOK'
  BY <1>27 DEF SendResult, LeaveMutation, LeftMutation, Goto, Finish
<1>28. ASSUME NEW t \in Clients, SendInputFailed(t)
       PROVE  ReturnedOK'
  BY <1>28 DEF SendInputFailed, LeaveMutation, LeftMutation, Goto, Finish
<1>29. ASSUME NEW kind \in {"release", "reacquire"}, BeginOwnership(kind)
       PROVE  ReturnedOK'
  BY <1>29, SpendFacts DEF BeginOwnership, OwnerAllows, clientVars, threadVars
<1>30. ASSUME TryMutation
       PROVE  ReturnedOK'
  BY <1>30 DEF TryMutation, LifecycleGoto, clientVars, threadVars
<1>31. ASSUME Release
       PROVE  ReturnedOK'
  BY <1>31 DEF Release, LifecycleGoto, clientVars, threadVars
<1>32. ASSUME CollectMonitors
       PROVE  ReturnedOK'
  BY <1>32 DEF CollectMonitors, clientVars, threadVars
<1>33. ASSUME MonitorsCompleted
       PROVE  ReturnedOK'
  BY <1>33 DEF MonitorsCompleted, LifecycleGoto, clientVars, threadVars
<1>34. ASSUME BeginReacquire
       PROVE  ReturnedOK'
  BY <1>34 DEF BeginReacquire, LifecycleGoto, clientVars, threadVars
<1>35. ASSUME Reacquired
       PROVE  ReturnedOK'
  BY <1>35 DEF Reacquired, LifecycleGoto, clientVars, threadVars
<1>36. ASSUME EndOwnership
       PROVE  ReturnedOK'
  BY <1>36 DEF EndOwnership, clientVars, threadVars
<1>37. ASSUME CloseBegin
       PROVE  ReturnedOK'
  BY <1>37, SpendFacts DEF CloseBegin, threadVars
<1>38. ASSUME CloseWaited
       PROVE  ReturnedOK'
  BY <1>38 DEF CloseWaited, threadVars
<1>39. ASSUME CloseRecorder
       PROVE  ReturnedOK'
  BY <1>39 DEF CloseRecorder, threadVars
<1>40. ASSUME NEW t \in Clients, SendRefused(t)
       PROVE  ReturnedOK'
  <2>1. IsRefused(t)
    BY <1>40, RefusedFacts DEF IInv
  <2> QED
    BY <2>1 DEF IsRefused, LeftMutation
<1>41. ASSUME UNCHANGED vars
       PROVE  ReturnedOK'
  BY <1>41 DEF vars, threadVars
<1> QED
  BY <1>1, <1>2, <1>3, <1>4, <1>5, <1>6, <1>7, <1>8, <1>9, <1>10, <1>11, <1>12, <1>13, <1>14,
     <1>15, <1>16, <1>17, <1>18, <1>19, <1>20, <1>21, <1>22, <1>23, <1>24, <1>25, <1>26, <1>27,
     <1>28, <1>29, <1>30, <1>31, <1>32, <1>33, <1>34, <1>35, <1>36, <1>37, <1>38, <1>39, <1>40,
     <1>41 DEF Next, Operation, Send, Lifecycle, Recorder, Finished

(* What a call returns is what the journal's record says.                  *)
LEMMA ResultStep ==
  ASSUME IInv, [Next]_vars
  PROVE  ResultIsRecord'
<1> USE OpsAssumption, NamesAssumption DEF IInv, ShapesOK, RecShape, ThreadShape, OpShape,
     OtherShape, RecorderOK, WaitsOK, EndedOK, DecidedOK, ReturnedOK, ResultIsRecord, Outcomes,
     Faulted, EndedBy, Watching, Registered, Clients, Ops
<1>1. ASSUME Receive
      PROVE  ResultIsRecord'
  <2>1. Received
    BY <1>1, ReceiveFacts DEF IInv
  <2> QED
    BY <2>1 DEF Received, GoesOn, threadVars
<1>2. ASSUME Disconnect
      PROVE  ResultIsRecord'
  BY <1>2, SpendFacts DEF Disconnect, threadVars
<1>3. ASSUME Fatal
      PROVE  ResultIsRecord'
  BY <1>3, SpendFaultFacts DEF Fatal, threadVars
<1>4. ASSUME Reconnected
      PROVE  ResultIsRecord'
  BY <1>4 DEF Reconnected, threadVars
<1>5. ASSUME ReconnectTimedOut
      PROVE  ResultIsRecord'
  <2>1. TimedOut
    BY <1>5, TimedOutFacts DEF IInv
  <2> QED
    BY <2>1 DEF TimedOut, Elsewhere, Ends
<1>6. ASSUME ReconnectGivenUp
      PROVE  ResultIsRecord'
  BY <1>6 DEF ReconnectGivenUp, threadVars
<1>7. ASSUME FatalEnd
      PROVE  ResultIsRecord'
  <2>1. FatalEnded
    BY <1>7, FatalEndFacts DEF IInv
  <2> QED
    BY <2>1 DEF FatalEnded, Elsewhere, Ends
<1>8. ASSUME CallSend
      PROVE  ResultIsRecord'
  BY <1>8, SpendFacts DEF CallSend, EnterMutation, OwnerAllows, Goto, Finish
<1>9. ASSUME NEW t \in Ops, CallMonitor(t)
      PROVE  ResultIsRecord'
  BY <1>9, SpendFacts DEF CallMonitor, Goto
<1>10. ASSUME NEW t \in Ops, CallInteract(t)
       PROVE  ResultIsRecord'
  BY <1>10, SpendFacts DEF CallInteract, EnterMutation, OwnerAllows, Goto, Finish
<1>11. ASSUME NEW t \in Ops, ClaimOwner(t)
       PROVE  ResultIsRecord'
  BY <1>11 DEF ClaimOwner, LeftMutation, Goto
<1>12. ASSUME NEW t \in Ops, Start(t)
       PROVE  ResultIsRecord'
  <2>1. HasStarted(t)
    BY <1>12, StartFacts DEF IInv
  <2> QED
    BY <2>1 DEF HasStarted, Fresh, GoesOn
<1>13. ASSUME NEW t \in Ops, StartRefused(t)
       PROVE  ResultIsRecord'
  BY <1>13 DEF StartRefused, Leaves, Goto
<1>14. ASSUME NEW t \in Ops, EnterSend(t)
       PROVE  ResultIsRecord'
  BY <1>14 DEF EnterSend, EnterMutation, OwnerAllows, Goto, Finish
<1>15. ASSUME NEW t \in Ops, CheckState(t)
       PROVE  ResultIsRecord'
  BY <1>15 DEF CheckState, Decide, Goto
<1>16. ASSUME NEW t \in Ops, CheckDeadline(t)
       PROVE  ResultIsRecord'
  BY <1>16 DEF CheckDeadline, Decide, Goto
<1>17. ASSUME NEW t \in Ops, WaitTimesOut(t)
       PROVE  ResultIsRecord'
  BY <1>17 DEF WaitTimesOut, Goto
<1>18. ASSUME NEW t \in Ops, ReadEvidence(t)
       PROVE  ResultIsRecord'
  BY <1>18 DEF ReadEvidence, Matcher, Goto
<1>19. ASSUME NEW t \in Ops, Complete(t)
       PROVE  ResultIsRecord'
  <2>1. HasCompleted(t) /\ ShapesOK
    BY <1>19, CompleteFacts DEF IInv
  <2>2. ASSUME NEW u \in Ops, pc'[u] = "finally", u # t PROVE Told(u)'
    <3>1. /\ pc[u] = "finally" /\ res'[u] = res[u] /\ term'[u] = term[u] /\ op'[u] = op[u]
          /\ u \in active' <=> u \in active
      BY <2>1, <2>2 DEF HasCompleted, ShapesOK, ThreadShape, Clients
    <3>2. Told(u)
      BY <3>1 DEF IInv, ResultIsRecord, Told, Faulted
    <3> QED
      BY <2>1, <3>1, <3>2 DEF HasCompleted, GoesOn, Told, Faulted
  <2>3. CASE t \in active /\ active' = active \ {t}
    <3>1. /\ term' = [term EXCEPT ![t] = [outcome |-> op[t].outcome, ses |-> rec'.ses]]
          /\ res' = [res EXCEPT ![t] = op[t].outcome] /\ rec'.ses \in Nat /\ UNCHANGED op
      BY <2>1, <2>3 DEF HasCompleted, GoesOn
    <3>2. op[t].outcome \in Outcomes /\ (op[t].outcome = "matched" => op[t].match # None)
      BY <2>1 DEF IInv, DecidedOK, HasCompleted
    <3>3. [outcome |-> op[t].outcome, ses |-> rec'.ses] \in TerminalRecords
      BY <3>1, <3>2 DEF TerminalRecords
    <3>4. term'[t] # None /\ term'[t].outcome = op[t].outcome /\ res'[t] = op[t].outcome
      BY <2>1, <3>1, <3>3, NamesAssumption DEF ShapesOK, ThreadShape, Clients
    <3>5. "raised" \notin Outcomes
      BY DEF Outcomes
    <3>6. Told(t)'
      BY <2>3, <3>1, <3>2, <3>4, <3>5 DEF Told
    <3> QED
      BY <2>2, <3>6 DEF ResultIsRecord, Told, Faulted
  <2>4. CASE /\ t \notin active /\ term[t] # None
             /\ res' = [res EXCEPT ![t] = term[t].outcome]
             /\ UNCHANGED <<spent, rec, term, active>>
    <3>1. term[t].outcome \in {"disconnected", "error"}
      BY <2>1, <2>4 DEF IInv, EndedOK, HasCompleted
    <3>2. res'[t] = term[t].outcome
      BY <2>1, <2>4 DEF ShapesOK, ThreadShape, Clients
    <3>3. Told(t)'
      BY <2>4, <3>1, <3>2 DEF Told
    <3> QED
      BY <2>2, <3>3 DEF ResultIsRecord, Told, Faulted
  <2>5. CASE pc' = [pc EXCEPT ![t] = "raised"]
    <3>1. pc'[t] = "raised"
      BY <2>1, <2>5 DEF ShapesOK, ThreadShape, Clients
    <3> QED
      BY <2>2, <3>1 DEF ResultIsRecord, Told, Faulted
  <2> QED
    BY <2>1, <2>3, <2>4, <2>5 DEF HasCompleted
<1>20. ASSUME NEW t \in Ops, CompleteError(t)
       PROVE  ResultIsRecord'
  <2>1. HasFailed(t) /\ ShapesOK
    BY <1>20, CompleteErrorFacts DEF IInv
  <2>2. ASSUME NEW u \in Ops, pc'[u] = "finally", u # t PROVE Told(u)'
    <3>1. /\ pc[u] = "finally" /\ res'[u] = res[u] /\ term'[u] = term[u] /\ op'[u] = op[u]
          /\ u \in active' <=> u \in active
      BY <2>1, <2>2 DEF HasFailed, ShapesOK, ThreadShape, Clients
    <3>2. Told(u)
      BY <3>1 DEF IInv, ResultIsRecord, Told, Faulted
    <3> QED
      BY <2>1, <3>1, <3>2 DEF HasFailed, GoesOn, Told, Faulted
  <2>3. res'[t] = "raised" /\ "raised" \notin Outcomes
    BY <2>1 DEF HasFailed, ShapesOK, ThreadShape, Clients, Outcomes
  <2>4. CASE t \in active /\ active' = active \ {t}
    <3>1. term' = [term EXCEPT ![t] = [outcome |-> "error", ses |-> rec'.ses]] /\ rec'.ses \in Nat
      BY <2>1, <2>4 DEF HasFailed, GoesOn
    <3>2. [outcome |-> "error", ses |-> rec'.ses] \in TerminalRecords
      BY <3>1 DEF TerminalRecords, Outcomes
    <3>3. term'[t] # None /\ term'[t].outcome = "error"
      BY <2>1, <3>1, <3>2, NamesAssumption DEF ShapesOK, ThreadShape
    <3>4. Told(t)'
      BY <2>3, <2>4, <3>3 DEF Told
    <3> QED
      BY <2>2, <3>4 DEF ResultIsRecord, Told, Faulted
  <2>5. CASE /\ rec.state = "faulted" \/ t \notin active
             /\ UNCHANGED <<spent, rec, term, active>>
    <3>1. pc[t] = "raised" /\ UNCHANGED op
      BY <2>1 DEF HasFailed
    <3>2. rec.live /\ ~rec.ending => t \notin active
      BY <2>5 DEF IInv, RecorderOK
    <3>3. Faulted \/ (t \notin active /\ EndedBy(t) /\ (op[t].outcome = None \/ spent.split))
      BY <2>5, <3>1 DEF IInv, RecorderOK, EndedOK, Watching
    <3>4. Told(t)'
      BY <2>3, <2>5, <3>1, <3>2, <3>3 DEF Told, EndedBy, Faulted
    <3> QED
      BY <2>2, <3>4 DEF ResultIsRecord, Told, Faulted
  <2> QED
    BY <2>1, <2>4, <2>5 DEF HasFailed
<1>21. ASSUME NEW t \in Ops, Finally(t)
       PROVE  ResultIsRecord'
  BY <1>21 DEF Finally, NewOp, NoSend, Leaves, Goto
<1>22. ASSUME NEW t \in Ops, Return(t)
       PROVE  ResultIsRecord'
  BY <1>22 DEF Return, Goto
<1>23. ASSUME NEW t \in Ops, Cancel(t)
       PROVE  ResultIsRecord'
  BY <1>23, SpendFacts DEF Cancel, threadVars
<1>24. ASSUME NEW t \in Ops, Expire(t)
       PROVE  ResultIsRecord'
  BY <1>24 DEF Expire, threadVars
<1>25. ASSUME NEW t \in Clients, SendAttempt(t)
       PROVE  ResultIsRecord'
  BY <1>25 DEF SendAttempt, LeaveMutation, LeftMutation, Goto, Finish
<1>26. ASSUME NEW t \in Clients, SendReturns(t)
       PROVE  ResultIsRecord'
  BY <1>26, SpendFaultFacts DEF SendReturns, Goto
<1>27. ASSUME NEW t \in Clients, SendResult(t)
       PROVE  ResultIsRecord'
  BY <1>27 DEF SendResult, LeaveMutation, LeftMutation, Goto, Finish
<1>28. ASSUME NEW t \in Clients, SendInputFailed(t)
       PROVE  ResultIsRecord'
  BY <1>28 DEF SendInputFailed, LeaveMutation, LeftMutation, Goto, Finish
<1>29. ASSUME NEW kind \in {"release", "reacquire"}, BeginOwnership(kind)
       PROVE  ResultIsRecord'
  BY <1>29, SpendFacts DEF BeginOwnership, OwnerAllows, clientVars, threadVars
<1>30. ASSUME TryMutation
       PROVE  ResultIsRecord'
  BY <1>30 DEF TryMutation, LifecycleGoto, clientVars, threadVars
<1>31. ASSUME Release
       PROVE  ResultIsRecord'
  <2>1. /\ UNCHANGED <<active, pc, res, op, term, spent>>
        /\ rec'.live = rec.live /\ rec'.ending = rec.ending
    BY <1>31 DEF Release, clientVars, threadVars, IInv, ShapesOK, RecShape
  <2> QED
    BY <2>1 DEF IInv, ResultIsRecord
<1>32. ASSUME CollectMonitors
       PROVE  ResultIsRecord'
  BY <1>32 DEF CollectMonitors, clientVars, threadVars
<1>33. ASSUME MonitorsCompleted
       PROVE  ResultIsRecord'
  BY <1>33 DEF MonitorsCompleted, LifecycleGoto, clientVars, threadVars
<1>34. ASSUME BeginReacquire
       PROVE  ResultIsRecord'
  BY <1>34 DEF BeginReacquire, LifecycleGoto, clientVars, threadVars
<1>35. ASSUME Reacquired
       PROVE  ResultIsRecord'
  BY <1>35 DEF Reacquired, LifecycleGoto, clientVars, threadVars
<1>36. ASSUME EndOwnership
       PROVE  ResultIsRecord'
  BY <1>36 DEF EndOwnership, clientVars, threadVars
<1>37. ASSUME CloseBegin
       PROVE  ResultIsRecord'
  BY <1>37, SpendFacts DEF CloseBegin, threadVars
<1>38. ASSUME CloseWaited
       PROVE  ResultIsRecord'
  BY <1>38 DEF CloseWaited, threadVars
<1>39. ASSUME CloseRecorder
       PROVE  ResultIsRecord'
  BY <1>39 DEF CloseRecorder, threadVars
<1>40. ASSUME NEW t \in Clients, SendRefused(t)
       PROVE  ResultIsRecord'
  <2>1. IsRefused(t)
    BY <1>40, RefusedFacts DEF IInv
  <2> QED
    BY <2>1 DEF IsRefused, LeftMutation
<1>41. ASSUME UNCHANGED vars
       PROVE  ResultIsRecord'
  BY <1>41 DEF vars, threadVars
<1> QED
  BY <1>1, <1>2, <1>3, <1>4, <1>5, <1>6, <1>7, <1>8, <1>9, <1>10, <1>11, <1>12, <1>13, <1>14,
     <1>15, <1>16, <1>17, <1>18, <1>19, <1>20, <1>21, <1>22, <1>23, <1>24, <1>25, <1>26, <1>27,
     <1>28, <1>29, <1>30, <1>31, <1>32, <1>33, <1>34, <1>35, <1>36, <1>37, <1>38, <1>39, <1>40,
     <1>41 DEF Next, Operation, Send, Lifecycle, Recorder, Finished

(* An Interact goes on to observe only after its send.                     *)
LEMMA AnsweredStep ==
  ASSUME IInv, [Next]_vars
  PROVE  AnsweredOK'
<1> USE OpsAssumption, NamesAssumption DEF IInv, ShapesOK, RecShape, ThreadShape, OpShape,
     RecorderOK, WaitsOK, DecidedOK, ReturnedOK, EndedOK, AnsweredOK, Answered, Outcomes,
     Watching, Registered, Clients, Ops
<1>1. ASSUME Receive
      PROVE  AnsweredOK'
  <2>1. Received
    BY <1>1, ReceiveFacts DEF IInv
  <2> QED
    BY <2>1 DEF Received, GoesOn, threadVars
<1>2. ASSUME Disconnect
      PROVE  AnsweredOK'
  BY <1>2, SpendFacts DEF Disconnect, threadVars
<1>3. ASSUME Fatal
      PROVE  AnsweredOK'
  BY <1>3, SpendFaultFacts DEF Fatal, threadVars
<1>4. ASSUME Reconnected
      PROVE  AnsweredOK'
  BY <1>4 DEF Reconnected, threadVars
<1>5. ASSUME ReconnectTimedOut
      PROVE  AnsweredOK'
  <2>1. TimedOut
    BY <1>5, TimedOutFacts DEF IInv
  <2> QED
    BY <2>1 DEF TimedOut, Elsewhere, Ends
<1>6. ASSUME ReconnectGivenUp
      PROVE  AnsweredOK'
  BY <1>6 DEF ReconnectGivenUp, threadVars
<1>7. ASSUME FatalEnd
      PROVE  AnsweredOK'
  <2>1. FatalEnded
    BY <1>7, FatalEndFacts DEF IInv
  <2> QED
    BY <2>1 DEF FatalEnded, Elsewhere, Ends
<1>8. ASSUME CallSend
      PROVE  AnsweredOK'
  BY <1>8, SpendFacts DEF CallSend, EnterMutation, OwnerAllows, Goto, Finish
<1>9. ASSUME NEW t \in Ops, CallMonitor(t)
      PROVE  AnsweredOK'
  BY <1>9, SpendFacts DEF CallMonitor, Goto
<1>10. ASSUME NEW t \in Ops, CallInteract(t)
       PROVE  AnsweredOK'
  BY <1>10, SpendFacts DEF CallInteract, EnterMutation, OwnerAllows, Goto, Finish
<1>11. ASSUME NEW t \in Ops, ClaimOwner(t)
       PROVE  AnsweredOK'
  BY <1>11 DEF ClaimOwner, LeftMutation, Goto
<1>12. ASSUME NEW t \in Ops, Start(t)
       PROVE  AnsweredOK'
  <2>1. HasStarted(t)
    BY <1>12, StartFacts DEF IInv
  <2> QED
    BY <2>1 DEF HasStarted, Fresh, GoesOn
<1>13. ASSUME NEW t \in Ops, StartRefused(t)
       PROVE  AnsweredOK'
  BY <1>13 DEF StartRefused, Leaves, Goto
<1>14. ASSUME NEW t \in Ops, EnterSend(t)
       PROVE  AnsweredOK'
  BY <1>14 DEF EnterSend, EnterMutation, OwnerAllows, Goto, Finish
<1>15. ASSUME NEW t \in Ops, CheckState(t)
       PROVE  AnsweredOK'
  <2>1. pc[t] = "loop" /\ UNCHANGED <<rec, res, tx, cancel>> /\ op[t].outcome = None
    BY <1>15 DEF CheckState, IInv, DecidedOK
  <2>2. ASSUME NEW u \in Ops, u # t PROVE op'[u] = op[u] /\ pc'[u] = pc[u]
    BY <1>15, <2>2 DEF CheckState, Decide, Goto, IInv, ShapesOK, OpShape, ThreadShape, Clients
  <2>3. ASSUME t \in Interacts
        PROVE  \/ op'[t].outcome \in {"cancelled", "disconnected"} /\ pc'[t] = "complete"
               \/ Answered(t) /\ op'[t].outcome = "released" /\ pc'[t] = "complete"
               \/ op'[t].outcome = None /\ pc'[t] = "raised"
               \/ Answered(t) /\ op'[t].outcome = None /\ pc'[t] = "clock"
    <3>1. Answered(t) \/ t \in cancel \/ rec.state = "disconnected"
      BY <2>1, <2>3 DEF IInv, AnsweredOK
    <3>2. CASE t \in cancel
      <4>1. op' = [op EXCEPT ![t].outcome = "cancelled"] /\ pc' = [pc EXCEPT ![t] = "complete"]
        BY <1>15, <3>2 DEF CheckState, Decide, Goto
      <4>2. op'[t].outcome = "cancelled" /\ pc'[t] = "complete"
        BY <4>1 DEF IInv, ShapesOK, OpShape, ThreadShape, Clients, NewOp
      <4> QED
        BY <3>2, <4>2
    <3>3. CASE t \notin cancel /\ rec.state = "disconnected"
      <4>1. op' = [op EXCEPT ![t].outcome = "disconnected"] /\ pc' = [pc EXCEPT ![t] = "complete"]
        BY <1>15, <3>3 DEF CheckState, Decide, Goto
      <4>2. op'[t].outcome = "disconnected" /\ pc'[t] = "complete"
        BY <4>1 DEF IInv, ShapesOK, OpShape, ThreadShape, Clients, NewOp
      <4> QED
        BY <3>3, <4>2
    <3>4. CASE t \notin cancel /\ rec.state \in {"released", "reacquiring"}
      <4>1. op' = [op EXCEPT ![t].outcome = "released"] /\ pc' = [pc EXCEPT ![t] = "complete"]
        BY <1>15, <3>4 DEF CheckState, Decide, Goto
      <4>2. op'[t].outcome = "released" /\ pc'[t] = "complete"
        BY <4>1 DEF IInv, ShapesOK, OpShape, ThreadShape, Clients, NewOp
      <4> QED
        BY <3>1, <3>4, <4>2
    <3>5. CASE t \notin cancel /\ rec.state = "faulted"
      BY <1>15, <2>1, <3>5 DEF CheckState, Goto, IInv, ShapesOK, ThreadShape, Clients
    <3>6. CASE /\ t \notin cancel
               /\ rec.state \notin {"disconnected", "released", "reacquiring", "faulted"}
      <4>1. op' = [op EXCEPT ![t].seen = rec.state] /\ pc' = [pc EXCEPT ![t] = "clock"]
        BY <1>15, <3>6 DEF CheckState, Goto
      <4> QED
        BY <2>1, <3>1, <3>6, <4>1 DEF IInv, ShapesOK, OpShape, ThreadShape, Clients
    <3> QED
      BY <3>2, <3>3, <3>4, <3>5, <3>6
  <2>4. None \notin {"matched", "timeout", "released"}
    BY NamesAssumption DEF Outcomes
  <2>5. Interacts \subseteq Ops
    BY DEF Ops
  <2> QED
    BY <2>1, <2>2, <2>3, <2>4, <2>5 DEF IInv, AnsweredOK, Answered
<1>16. ASSUME NEW t \in Ops, CheckDeadline(t)
       PROVE  AnsweredOK'
  BY <1>16 DEF CheckDeadline, Decide, Goto
<1>17. ASSUME NEW t \in Ops, WaitTimesOut(t)
       PROVE  AnsweredOK'
  BY <1>17 DEF WaitTimesOut, Goto
<1>18. ASSUME NEW t \in Ops, ReadEvidence(t)
       PROVE  AnsweredOK'
  BY <1>18 DEF ReadEvidence, Matcher, Goto
<1>19. ASSUME NEW t \in Ops, Complete(t)
       PROVE  AnsweredOK'
  <2>1. HasCompleted(t)
    BY <1>19, CompleteFacts DEF IInv
  <2> QED
    BY <2>1 DEF HasCompleted, GoesOn
<1>20. ASSUME NEW t \in Ops, CompleteError(t)
       PROVE  AnsweredOK'
  <2>1. HasFailed(t)
    BY <1>20, CompleteErrorFacts DEF IInv
  <2> QED
    BY <2>1 DEF HasFailed, GoesOn
<1>21. ASSUME NEW t \in Ops, Finally(t)
       PROVE  AnsweredOK'
  BY <1>21 DEF Finally, NewOp, NoSend, Leaves, Goto
<1>22. ASSUME NEW t \in Ops, Return(t)
       PROVE  AnsweredOK'
  BY <1>22 DEF Return, Goto
<1>23. ASSUME NEW t \in Ops, Cancel(t)
       PROVE  AnsweredOK'
  BY <1>23, SpendFacts DEF Cancel, threadVars
<1>24. ASSUME NEW t \in Ops, Expire(t)
       PROVE  AnsweredOK'
  BY <1>24 DEF Expire, threadVars
<1>25. ASSUME NEW t \in Clients, SendAttempt(t)
       PROVE  AnsweredOK'
  BY <1>25 DEF SendAttempt, LeaveMutation, LeftMutation, Goto, Finish
<1>26. ASSUME NEW t \in Clients, SendReturns(t)
       PROVE  AnsweredOK'
  BY <1>26, SpendFaultFacts DEF SendReturns, Goto
<1>27. ASSUME NEW t \in Clients, SendResult(t)
       PROVE  AnsweredOK'
  <2>1. pc[t] = "result" /\ UNCHANGED <<rec, op, cancel>>
    BY <1>27 DEF SendResult
  <2>2. Interacts \subseteq Ops /\ Interacts \subseteq Clients
    BY DEF Ops, Clients
  <2>3. ASSUME NEW u \in Interacts PROVE res'[u] = res[u]
    BY <1>27, <2>2 DEF SendResult, LeaveMutation, Finish, IInv, ShapesOK, ThreadShape
  <2>4. ASSUME NEW u \in Interacts, u # t PROVE pc'[u] = pc[u] /\ tx'[u] = tx[u]
    BY <1>27, <2>2, <2>4 DEF SendResult, LeaveMutation, Goto, Finish, IInv, ShapesOK,
       ThreadShape
  <2>5. ASSUME t \in Interacts
        PROVE  /\ pc'[t] \in {"loop", "raised"}
               /\ pc'[t] = "loop" => Answered(t)' \/ rec.state = "disconnected"
    <3> DEFINE sent == tx[t].st = "ok" /\ Recording
    <3>1. /\ tx' = [tx EXCEPT ![t].st = IF sent THEN "sent" ELSE "failed"]
          /\ IF sent \/ Swallows(t)
             THEN pc' = [pc EXCEPT ![t] = "loop"] ELSE pc' = [pc EXCEPT ![t] = "raised"]
      BY <1>27, <2>2, <2>5 DEF SendResult, LeaveMutation, Goto
    <3>2. /\ tx'[t].st = IF sent THEN "sent" ELSE "failed"
          /\ tx'[t].cut = tx[t].cut
      BY <3>1 DEF IInv, ShapesOK, ThreadShape
    <3>3. pc'[t] = IF sent \/ Swallows(t) THEN "loop" ELSE "raised"
      BY <3>1 DEF IInv, ShapesOK, ThreadShape
    <3> QED
      BY <3>2, <3>3 DEF Answered, Swallows
  <2>6. ASSUME t \in Interacts
        PROVE  /\ op[t].outcome \notin {"matched", "timeout", "released"}
               /\ res[t] \notin {"matched", "timeout", "released"}
    BY <2>1, <2>2, <2>6, NamesAssumption DEF IInv, DecidedOK, ReturnedOK, Outcomes
  <2> QED
    BY <2>1, <2>3, <2>4, <2>5, <2>6 DEF IInv, AnsweredOK, Answered
<1>28. ASSUME NEW t \in Clients, SendInputFailed(t)
       PROVE  AnsweredOK'
  <2>1. pc[t] = "result" /\ UNCHANGED <<op, cancel>> /\ rec.state # "disconnected"
    BY <1>28 DEF SendInputFailed, Recording, IInv, RecorderOK
  <2>2. Interacts \subseteq Ops /\ Interacts \subseteq Clients
    BY DEF Ops, Clients
  <2>3. ASSUME NEW u \in Interacts PROVE res'[u] = res[u]
    BY <1>28, <2>2 DEF SendInputFailed, LeaveMutation, Finish, IInv, ShapesOK, ThreadShape
  <2>4. ASSUME NEW u \in Interacts, u # t PROVE pc'[u] = pc[u] /\ tx'[u] = tx[u]
    BY <1>28, <2>2, <2>4 DEF SendInputFailed, LeaveMutation, Goto, Finish, IInv, ShapesOK,
       ThreadShape
  <2>5. t \in Interacts => pc'[t] = "raised"
    BY <1>28, <2>2 DEF SendInputFailed, LeaveMutation, Goto, IInv, ShapesOK, ThreadShape
  <2>6. ASSUME t \in Interacts
        PROVE  /\ op[t].outcome \notin {"matched", "timeout", "released"}
               /\ res[t] \notin {"matched", "timeout", "released"}
    BY <2>1, <2>2, <2>6, NamesAssumption DEF IInv, DecidedOK, ReturnedOK, Outcomes
  <2> QED
    BY <2>1, <2>3, <2>4, <2>5, <2>6 DEF IInv, AnsweredOK, Answered
<1>29. ASSUME NEW kind \in {"release", "reacquire"}, BeginOwnership(kind)
       PROVE  AnsweredOK'
  BY <1>29, SpendFacts DEF BeginOwnership, OwnerAllows, clientVars, threadVars
<1>30. ASSUME TryMutation
       PROVE  AnsweredOK'
  BY <1>30 DEF TryMutation, LifecycleGoto, clientVars, threadVars
<1>31. ASSUME Release
       PROVE  AnsweredOK'
  BY <1>31 DEF Release, LifecycleGoto, clientVars, threadVars
<1>32. ASSUME CollectMonitors
       PROVE  AnsweredOK'
  BY <1>32 DEF CollectMonitors, clientVars, threadVars
<1>33. ASSUME MonitorsCompleted
       PROVE  AnsweredOK'
  BY <1>33 DEF MonitorsCompleted, LifecycleGoto, clientVars, threadVars
<1>34. ASSUME BeginReacquire
       PROVE  AnsweredOK'
  BY <1>34 DEF BeginReacquire, LifecycleGoto, clientVars, threadVars
<1>35. ASSUME Reacquired
       PROVE  AnsweredOK'
  BY <1>35 DEF Reacquired, LifecycleGoto, clientVars, threadVars
<1>36. ASSUME EndOwnership
       PROVE  AnsweredOK'
  BY <1>36 DEF EndOwnership, clientVars, threadVars
<1>37. ASSUME CloseBegin
       PROVE  AnsweredOK'
  BY <1>37, SpendFacts DEF CloseBegin, threadVars
<1>38. ASSUME CloseWaited
       PROVE  AnsweredOK'
  BY <1>38 DEF CloseWaited, threadVars
<1>39. ASSUME CloseRecorder
       PROVE  AnsweredOK'
  BY <1>39 DEF CloseRecorder, threadVars
<1>40. ASSUME NEW t \in Clients, SendRefused(t)
       PROVE  AnsweredOK'
  <2>1. IsRefused(t)
    BY <1>40, RefusedFacts DEF IInv
  <2> QED
    BY <2>1 DEF IsRefused, LeftMutation
<1>41. ASSUME UNCHANGED vars
       PROVE  AnsweredOK'
  BY <1>41 DEF vars, threadVars
<1> QED
  BY <1>1, <1>2, <1>3, <1>4, <1>5, <1>6, <1>7, <1>8, <1>9, <1>10, <1>11, <1>12, <1>13, <1>14,
     <1>15, <1>16, <1>17, <1>18, <1>19, <1>20, <1>21, <1>22, <1>23, <1>24, <1>25, <1>26, <1>27,
     <1>28, <1>29, <1>30, <1>31, <1>32, <1>33, <1>34, <1>35, <1>36, <1>37, <1>38, <1>39, <1>40,
     <1>41 DEF Next, Operation, Send, Lifecycle, Recorder, Finished

(* While an Interact owns the right to act, no step of another thread makes*)
(* an attempt durable or changes the owner of the connection.              *)
LEMMA ExclusiveStep ==
  ASSUME IInv, [Next]_vars
  PROVE  Exclusive
<1>1. ASSUME Receive
      PROVE  Exclusive
  <2>1. Received
    BY <1>1, ReceiveFacts DEF IInv
  <2> QED
    BY <2>1 DEF IInv, Exclusive, Received, GoesOn, threadVars
<1>2. ASSUME Disconnect
      PROVE  Exclusive
  BY <1>2, SpendFacts DEF IInv, Exclusive, Disconnect, threadVars
<1>3. ASSUME Fatal
      PROVE  Exclusive
  BY <1>3, SpendFaultFacts DEF IInv, Exclusive, Fatal, threadVars
<1>4. ASSUME Reconnected
      PROVE  Exclusive
  BY <1>4 DEF IInv, Exclusive, Reconnected, threadVars
<1>5. ASSUME ReconnectTimedOut
      PROVE  Exclusive
  <2>1. TimedOut
    BY <1>5, TimedOutFacts DEF IInv
  <2> QED
    BY <2>1 DEF IInv, Exclusive, TimedOut, Elsewhere, Ends
<1>6. ASSUME ReconnectGivenUp
      PROVE  Exclusive
  BY <1>6 DEF IInv, Exclusive, ReconnectGivenUp, threadVars
<1>7. ASSUME FatalEnd
      PROVE  Exclusive
  <2>1. FatalEnded
    BY <1>7, FatalEndFacts DEF IInv
  <2> QED
    BY <2>1 DEF IInv, Exclusive, FatalEnded, Elsewhere, Ends
<1>8. ASSUME CallSend
      PROVE  Exclusive
  BY <1>8, SpendFacts DEF IInv, Exclusive, CallSend, EnterMutation, OwnerAllows, Goto, Finish
<1>9. ASSUME NEW t \in Ops, CallMonitor(t)
      PROVE  Exclusive
  BY <1>9, SpendFacts DEF IInv, Exclusive, CallMonitor, Goto
<1>10. ASSUME NEW t \in Ops, CallInteract(t)
       PROVE  Exclusive
  BY <1>10, SpendFacts DEF IInv, Exclusive, CallInteract, EnterMutation, OwnerAllows, Goto,
     Finish
<1>11. ASSUME NEW t \in Ops, ClaimOwner(t)
       PROVE  Exclusive
  BY <1>11 DEF IInv, Exclusive, ClaimOwner, LeftMutation, Goto
<1>12. ASSUME NEW t \in Ops, Start(t)
       PROVE  Exclusive
  <2>1. HasStarted(t)
    BY <1>12, StartFacts DEF IInv
  <2> QED
    BY <2>1 DEF IInv, Exclusive, HasStarted, Fresh, GoesOn
<1>13. ASSUME NEW t \in Ops, StartRefused(t)
       PROVE  Exclusive
  BY <1>13 DEF IInv, Exclusive, StartRefused, Leaves, Goto
<1>14. ASSUME NEW t \in Ops, EnterSend(t)
       PROVE  Exclusive
  BY <1>14 DEF IInv, Exclusive, EnterSend, EnterMutation, OwnerAllows, Goto, Finish
<1>15. ASSUME NEW t \in Ops, CheckState(t)
       PROVE  Exclusive
  BY <1>15 DEF IInv, Exclusive, CheckState, Decide, Goto
<1>16. ASSUME NEW t \in Ops, CheckDeadline(t)
       PROVE  Exclusive
  BY <1>16 DEF IInv, Exclusive, CheckDeadline, Decide, Goto
<1>17. ASSUME NEW t \in Ops, WaitTimesOut(t)
       PROVE  Exclusive
  BY <1>17 DEF IInv, Exclusive, WaitTimesOut, Goto
<1>18. ASSUME NEW t \in Ops, ReadEvidence(t)
       PROVE  Exclusive
  BY <1>18 DEF IInv, Exclusive, ReadEvidence, Matcher, Goto
<1>19. ASSUME NEW t \in Ops, Complete(t)
       PROVE  Exclusive
  <2>1. HasCompleted(t)
    BY <1>19, CompleteFacts DEF IInv
  <2> QED
    BY <2>1 DEF IInv, Exclusive, HasCompleted, GoesOn
<1>20. ASSUME NEW t \in Ops, CompleteError(t)
       PROVE  Exclusive
  <2>1. HasFailed(t)
    BY <1>20, CompleteErrorFacts DEF IInv
  <2> QED
    BY <2>1 DEF IInv, Exclusive, HasFailed, GoesOn
<1>21. ASSUME NEW t \in Ops, Finally(t)
       PROVE  Exclusive
  BY <1>21 DEF IInv, Exclusive, Finally, NewOp, NoSend, Leaves, Goto
<1>22. ASSUME NEW t \in Ops, Return(t)
       PROVE  Exclusive
  BY <1>22 DEF IInv, Exclusive, Return, Goto
<1>23. ASSUME NEW t \in Ops, Cancel(t)
       PROVE  Exclusive
  BY <1>23, SpendFacts DEF IInv, Exclusive, Cancel, threadVars
<1>24. ASSUME NEW t \in Ops, Expire(t)
       PROVE  Exclusive
  BY <1>24 DEF IInv, Exclusive, Expire, threadVars
<1>25. ASSUME NEW t \in Clients, SendAttempt(t)
       PROVE  Exclusive
  BY <1>25, OpsAssumption, NamesAssumption DEF IInv, ShapesOK, RecShape, ThreadShape,
     OtherShape, LockOK, WaitsOK, Exclusive, InMutation, SendAttempt, LeaveMutation,
     LeftMutation, Goto, Finish
<1>26. ASSUME NEW t \in Clients, SendReturns(t)
       PROVE  Exclusive
  BY <1>26, SpendFaultFacts DEF IInv, ShapesOK, RecShape, ThreadShape, OtherShape, LockOK,
     WaitsOK, Exclusive, SendReturns, Goto
<1>27. ASSUME NEW t \in Clients, SendResult(t)
       PROVE  Exclusive
  BY <1>27 DEF IInv, Exclusive, SendResult, LeaveMutation, LeftMutation, Goto, Finish
<1>28. ASSUME NEW t \in Clients, SendInputFailed(t)
       PROVE  Exclusive
  BY <1>28 DEF IInv, Exclusive, SendInputFailed, LeaveMutation, LeftMutation, Goto, Finish
<1>29. ASSUME NEW kind \in {"release", "reacquire"}, BeginOwnership(kind)
       PROVE  Exclusive
  BY <1>29, SpendFacts DEF IInv, Exclusive, BeginOwnership, OwnerAllows, clientVars, threadVars
<1>30. ASSUME TryMutation
       PROVE  Exclusive
  BY <1>30 DEF IInv, Exclusive, TryMutation, LifecycleGoto, clientVars, threadVars
<1>31. ASSUME Release
       PROVE  Exclusive
  BY <1>31 DEF IInv, ShapesOK, RecShape, ThreadShape, OtherShape, LockOK, WaitsOK, Exclusive,
     Release, LifecycleGoto, clientVars, threadVars
<1>32. ASSUME CollectMonitors
       PROVE  Exclusive
  BY <1>32 DEF IInv, Exclusive, CollectMonitors, clientVars, threadVars
<1>33. ASSUME MonitorsCompleted
       PROVE  Exclusive
  BY <1>33 DEF IInv, Exclusive, MonitorsCompleted, LifecycleGoto, clientVars, threadVars
<1>34. ASSUME BeginReacquire
       PROVE  Exclusive
  BY <1>34 DEF IInv, ShapesOK, RecShape, ThreadShape, OtherShape, LockOK, WaitsOK, Exclusive,
     BeginReacquire, LifecycleGoto, clientVars, threadVars
<1>35. ASSUME Reacquired
       PROVE  Exclusive
  BY <1>35 DEF IInv, ShapesOK, RecShape, ThreadShape, OtherShape, LockOK, WaitsOK, Exclusive,
     Reacquired, LifecycleGoto, clientVars, threadVars
<1>36. ASSUME EndOwnership
       PROVE  Exclusive
  BY <1>36 DEF IInv, Exclusive, EndOwnership, clientVars, threadVars
<1>37. ASSUME CloseBegin
       PROVE  Exclusive
  BY <1>37, SpendFacts DEF IInv, Exclusive, CloseBegin, threadVars
<1>38. ASSUME CloseWaited
       PROVE  Exclusive
  BY <1>38 DEF IInv, Exclusive, CloseWaited, threadVars
<1>39. ASSUME CloseRecorder
       PROVE  Exclusive
  BY <1>39 DEF IInv, Exclusive, CloseRecorder, threadVars
<1>40. ASSUME NEW t \in Clients, SendRefused(t)
       PROVE  Exclusive
  <2>1. IsRefused(t)
    BY <1>40, RefusedFacts DEF IInv
  <2> QED
    BY <2>1 DEF IInv, ShapesOK, RecShape, ThreadShape, OtherShape, LockOK, WaitsOK, Exclusive,
       IsRefused, LeftMutation
<1>41. ASSUME UNCHANGED vars
       PROVE  Exclusive
  BY <1>41 DEF IInv, Exclusive, vars, threadVars
<1> QED
  BY <1>1, <1>2, <1>3, <1>4, <1>5, <1>6, <1>7, <1>8, <1>9, <1>10, <1>11, <1>12, <1>13, <1>14,
     <1>15, <1>16, <1>17, <1>18, <1>19, <1>20, <1>21, <1>22, <1>23, <1>24, <1>25, <1>26, <1>27,
     <1>28, <1>29, <1>30, <1>31, <1>32, <1>33, <1>34, <1>35, <1>36, <1>37, <1>38, <1>39, <1>40,
     <1>41 DEF Next, Operation, Send, Lifecycle, Recorder, Finished

(* A new owner of the connection, and the end of recording, find no        *)
(* operation registered.                                                   *)
LEMMA WaitedStep ==
  ASSUME IInv, [Next]_vars
  PROVE  Waited
<1>1. ASSUME Receive
      PROVE  Waited
  <2>1. Received
    BY <1>1, ReceiveFacts DEF IInv
  <2> QED
    BY <2>1 DEF IInv, Waited, Received, GoesOn, threadVars
<1>2. ASSUME Disconnect
      PROVE  Waited
  BY <1>2, SpendFacts DEF IInv, Waited, Disconnect, threadVars
<1>3. ASSUME Fatal
      PROVE  Waited
  BY <1>3, SpendFaultFacts DEF IInv, Waited, Fatal, threadVars
<1>4. ASSUME Reconnected
      PROVE  Waited
  BY <1>4 DEF IInv, Waited, Reconnected, threadVars
<1>5. ASSUME ReconnectTimedOut
      PROVE  Waited
  <2>1. TimedOut
    BY <1>5, TimedOutFacts DEF IInv
  <2> QED
    BY <2>1 DEF IInv, Waited, TimedOut, Elsewhere, Ends
<1>6. ASSUME ReconnectGivenUp
      PROVE  Waited
  BY <1>6 DEF IInv, Waited, ReconnectGivenUp, threadVars
<1>7. ASSUME FatalEnd
      PROVE  Waited
  <2>1. FatalEnded
    BY <1>7, FatalEndFacts DEF IInv
  <2> QED
    BY <2>1 DEF IInv, Waited, FatalEnded, Elsewhere, Ends
<1>8. ASSUME CallSend
      PROVE  Waited
  BY <1>8, SpendFacts DEF IInv, Waited, CallSend, EnterMutation, OwnerAllows, Goto, Finish
<1>9. ASSUME NEW t \in Ops, CallMonitor(t)
      PROVE  Waited
  BY <1>9, SpendFacts DEF IInv, Waited, CallMonitor, Goto
<1>10. ASSUME NEW t \in Ops, CallInteract(t)
       PROVE  Waited
  BY <1>10, SpendFacts DEF IInv, Waited, CallInteract, EnterMutation, OwnerAllows, Goto, Finish
<1>11. ASSUME NEW t \in Ops, ClaimOwner(t)
       PROVE  Waited
  BY <1>11 DEF IInv, Waited, ClaimOwner, LeftMutation, Goto
<1>12. ASSUME NEW t \in Ops, Start(t)
       PROVE  Waited
  <2>1. HasStarted(t)
    BY <1>12, StartFacts DEF IInv
  <2> QED
    BY <2>1 DEF IInv, Waited, HasStarted, Fresh, GoesOn
<1>13. ASSUME NEW t \in Ops, StartRefused(t)
       PROVE  Waited
  BY <1>13 DEF IInv, Waited, StartRefused, Leaves, Goto
<1>14. ASSUME NEW t \in Ops, EnterSend(t)
       PROVE  Waited
  BY <1>14 DEF IInv, Waited, EnterSend, EnterMutation, OwnerAllows, Goto, Finish
<1>15. ASSUME NEW t \in Ops, CheckState(t)
       PROVE  Waited
  BY <1>15 DEF IInv, Waited, CheckState, Decide, Goto
<1>16. ASSUME NEW t \in Ops, CheckDeadline(t)
       PROVE  Waited
  BY <1>16 DEF IInv, Waited, CheckDeadline, Decide, Goto
<1>17. ASSUME NEW t \in Ops, WaitTimesOut(t)
       PROVE  Waited
  BY <1>17 DEF IInv, Waited, WaitTimesOut, Goto
<1>18. ASSUME NEW t \in Ops, ReadEvidence(t)
       PROVE  Waited
  BY <1>18 DEF IInv, Waited, ReadEvidence, Matcher, Goto
<1>19. ASSUME NEW t \in Ops, Complete(t)
       PROVE  Waited
  <2>1. HasCompleted(t)
    BY <1>19, CompleteFacts DEF IInv
  <2> QED
    BY <2>1 DEF IInv, Waited, HasCompleted, GoesOn
<1>20. ASSUME NEW t \in Ops, CompleteError(t)
       PROVE  Waited
  <2>1. HasFailed(t)
    BY <1>20, CompleteErrorFacts DEF IInv
  <2> QED
    BY <2>1 DEF IInv, Waited, HasFailed, GoesOn
<1>21. ASSUME NEW t \in Ops, Finally(t)
       PROVE  Waited
  BY <1>21 DEF IInv, Waited, Finally, NewOp, NoSend, Leaves, Goto
<1>22. ASSUME NEW t \in Ops, Return(t)
       PROVE  Waited
  BY <1>22 DEF IInv, Waited, Return, Goto
<1>23. ASSUME NEW t \in Ops, Cancel(t)
       PROVE  Waited
  BY <1>23, SpendFacts DEF IInv, Waited, Cancel, threadVars
<1>24. ASSUME NEW t \in Ops, Expire(t)
       PROVE  Waited
  BY <1>24 DEF IInv, Waited, Expire, threadVars
<1>25. ASSUME NEW t \in Clients, SendAttempt(t)
       PROVE  Waited
  BY <1>25 DEF IInv, Waited, SendAttempt, LeaveMutation, LeftMutation, Goto, Finish
<1>26. ASSUME NEW t \in Clients, SendReturns(t)
       PROVE  Waited
  BY <1>26, SpendFaultFacts DEF IInv, Waited, SendReturns, Goto
<1>27. ASSUME NEW t \in Clients, SendResult(t)
       PROVE  Waited
  BY <1>27 DEF IInv, Waited, SendResult, LeaveMutation, LeftMutation, Goto, Finish
<1>28. ASSUME NEW t \in Clients, SendInputFailed(t)
       PROVE  Waited
  BY <1>28 DEF IInv, Waited, SendInputFailed, LeaveMutation, LeftMutation, Goto, Finish
<1>29. ASSUME NEW kind \in {"release", "reacquire"}, BeginOwnership(kind)
       PROVE  Waited
  BY <1>29, SpendFacts DEF IInv, Waited, BeginOwnership, OwnerAllows, clientVars, threadVars
<1>30. ASSUME TryMutation
       PROVE  Waited
  BY <1>30 DEF IInv, Waited, TryMutation, LifecycleGoto, clientVars, threadVars
<1>31. ASSUME Release
       PROVE  Waited
  BY <1>31 DEF IInv, ShapesOK, RecShape, WaitsOK, Waited, Release, LifecycleGoto, clientVars,
     threadVars
<1>32. ASSUME CollectMonitors
       PROVE  Waited
  BY <1>32 DEF IInv, Waited, CollectMonitors, clientVars, threadVars
<1>33. ASSUME MonitorsCompleted
       PROVE  Waited
  BY <1>33 DEF IInv, Waited, MonitorsCompleted, LifecycleGoto, clientVars, threadVars
<1>34. ASSUME BeginReacquire
       PROVE  Waited
  BY <1>34 DEF IInv, ShapesOK, RecShape, WaitsOK, Waited, BeginReacquire, LifecycleGoto,
     clientVars, threadVars
<1>35. ASSUME Reacquired
       PROVE  Waited
  BY <1>35 DEF IInv, ShapesOK, RecShape, WaitsOK, Waited, Reacquired, LifecycleGoto, clientVars,
     threadVars
<1>36. ASSUME EndOwnership
       PROVE  Waited
  BY <1>36 DEF IInv, Waited, EndOwnership, clientVars, threadVars
<1>37. ASSUME CloseBegin
       PROVE  Waited
  BY <1>37, SpendFacts DEF IInv, Waited, CloseBegin, threadVars
<1>38. ASSUME CloseWaited
       PROVE  Waited
  BY <1>38 DEF IInv, Waited, CloseWaited, threadVars
<1>39. ASSUME CloseRecorder
       PROVE  Waited
  BY <1>39 DEF IInv, ShapesOK, RecShape, WaitsOK, Waited, CloseRecorder, threadVars
<1>40. ASSUME NEW t \in Clients, SendRefused(t)
       PROVE  Waited
  <2>1. IsRefused(t)
    BY <1>40, RefusedFacts DEF IInv
  <2> QED
    BY <2>1 DEF IInv, ShapesOK, RecShape, WaitsOK, Waited, IsRefused, LeftMutation
<1>41. ASSUME UNCHANGED vars
       PROVE  Waited
  BY <1>41 DEF IInv, Waited, vars, threadVars
<1> QED
  BY <1>1, <1>2, <1>3, <1>4, <1>5, <1>6, <1>7, <1>8, <1>9, <1>10, <1>11, <1>12, <1>13, <1>14,
     <1>15, <1>16, <1>17, <1>18, <1>19, <1>20, <1>21, <1>22, <1>23, <1>24, <1>25, <1>26, <1>27,
     <1>28, <1>29, <1>30, <1>31, <1>32, <1>33, <1>34, <1>35, <1>36, <1>37, <1>38, <1>39, <1>40,
     <1>41 DEF Next, Operation, Send, Lifecycle, Recorder, Finished

-----------------------------------------------------------------------------
(***************************************************************************)
(* The theorems.                                                           *)
(***************************************************************************)
(* Nothing is under way at first.                                          *)
LEMMA InitHolds ==
  ASSUME Init
  PROVE  IInv
<1>1. Sender \notin Ops /\ None \notin Ops /\ Sender # None /\ Interacts \subseteq Ops
  BY OpsAssumption DEF Ops
<1>2. RecShape /\ OpShape /\ OtherShape /\ LogShape
  BY DEF Init, RecShape, States, OpShape, OtherShape, LogShape
<1>3. ThreadShape
  BY <1>1 DEF Init, ThreadShape, LabelsOf, Labels, NoSend, Clients
<1>4. LockOK
  BY <1>1, NamesAssumption DEF Init, LockOK, InMutation, Owning, Registered, Watching, Clients
<1>5. WaitsOK
  BY DEF Init, WaitsOK, Registered, Watching, Clients
<1>6. RecorderOK
  BY DEF Init, RecorderOK, Faulted, NoSend
<1>7. EndedOK
  BY DEF Init, EndedOK, Watching, Clients
<1>8. DecidedOK
  BY NamesAssumption DEF Init, DecidedOK, NewOp, Outcomes, Clients
<1>9. ReturnedOK
  BY NamesAssumption DEF Init, ReturnedOK, Outcomes, Clients
<1>10. ResultIsRecord
  BY <1>1 DEF Init, ResultIsRecord, Clients
<1>11. AnsweredOK
  BY <1>1, NamesAssumption DEF Init, AnsweredOK, NewOp, Outcomes, Clients
<1> QED
  BY <1>2, <1>3, <1>4, <1>5, <1>6, <1>7, <1>8, <1>9, <1>10, <1>11 DEF IInv, ShapesOK

(* Every step keeps the invariant.                                         *)
LEMMA StepHolds ==
  ASSUME IInv, [Next]_vars
  PROVE  IInv'
<1>1. ShapesOK'
  BY RecStep, ThreadStep, OpStep, LogStep, OtherStep DEF ShapesOK
<1> QED
  BY <1>1, LockStep, WaitsStep, RecorderStep, EndedStep, DecidedStep, ReturnedStep,
     ResultStep, AnsweredStep DEF IInv

(* The invariant says what the results promise.                            *)
LEMMA InvariantTells ==
  ASSUME IInv
  PROVE  ResultsAreTrue
<1>1. TypeOK
  BY DEF IInv, ShapesOK, RecShape, States, OtherShape, DecidedOK, ReturnedOK, LockOK, TypeOK
<1>2. ObservedWhatWasSent
  BY DEF IInv, AnsweredOK, Answered, ObservedWhatWasSent
<1> QED
  BY <1>1, <1>2 DEF IInv, ResultsAreTrue

(* For every set of operations and every bound, in every interleaving of    *)
(* clients, recorder, ownership changes and shutdown: a call that returned  *)
(* an outcome returned the journal's, one that raised left an error record  *)
(* unless a fault or a split session kept it from that, and an Interact     *)
(* reports on what it sent (runtime.py _run_bounded_operation against       *)
(* reconnect_timed_out and _record_fatal).                                  *)
THEOREM ResultsStayTrue == Spec => []ResultsAreTrue
<1>1. Init => IInv
  BY InitHolds
<1>2. IInv /\ [Next]_vars => IInv'
  BY StepHolds
<1>3. IInv => ResultsAreTrue
  BY InvariantTells
<1> QED
  BY <1>1, <1>2, <1>3, PTL DEF Spec

(* For every set of operations and every bound: while an Interact owns the  *)
(* right to act nobody else makes an attempt durable and the connection is  *)
(* not released, and a new owner of the connection, or the end of           *)
(* recording, comes only after every bounded operation (runtime.py          *)
(* _mutation, _ownership_change and close).                                 *)
THEOREM OperationsStayExclusive == Spec => OperationsExclude
<1>1. Init => IInv
  BY InitHolds
<1>2. IInv /\ [Next]_vars => IInv'
  BY StepHolds
<1>3. IInv /\ [Next]_vars => Exclusive
  BY ExclusiveStep
<1>4. IInv /\ [Next]_vars => Waited
  BY WaitedStep
<1>5. Spec => [][Exclusive]_vars
  BY <1>1, <1>2, <1>3, PTL DEF Spec
<1>6. Spec => [][Waited]_vars
  BY <1>1, <1>2, <1>4, PTL DEF Spec
<1>7. Spec => InteractIsExclusive
  BY <1>5 DEF Exclusive, InteractIsExclusive
<1>8. Spec => ChangesWaitForOperations
  BY <1>6 DEF Waited, ChangesWaitForOperations
<1> QED
  BY <1>7, <1>8 DEF OperationsExclude
=============================================================================
