------------------------- MODULE ParkedCalls_proofs -------------------------
(* The shape of the parked calls' state, and what becomes of a decision,   *)
(* for any runs, calls, batches and people, and any number of Stops and    *)
(* faults.                                                                 *)
EXTENDS ParkedCalls, TLAPS

(* A run's position is one of its batch, if it asks for anything at all;   *)
(* a run that is at a call has asked for one.                              *)
Placed == \A r \in Run :
  /\ batch[r] # <<>> => next[r] <= Len(batch[r])
  /\ at[r] \in {"asked", "claim", "turn", "parked", "tool", "joining"} => batch[r] # <<>>

LEMMA BatchType ==
  ASSUME TypeOK, NEW r \in Run
  PROVE  batch[r] \in Seq(Call)
BY BatchesAssumption DEF TypeOK

LEMMA HereInCall ==
  ASSUME TypeOK, Placed, NEW r \in Run,
         at[r] \in {"asked", "claim", "turn", "parked", "tool", "joining"}
  PROVE  /\ Here(r) \in Call
         /\ next[r] \in 1 .. Len(batch[r])
         /\ Len(batch[r]) \in Nat
<1>1. batch[r] \in Seq(Call) /\ batch[r] # <<>>
  BY BatchType DEF Placed
<1>2. next[r] \in Nat \ {0} /\ next[r] <= Len(batch[r])
  BY <1>1 DEF TypeOK, Placed
<1> QED BY <1>1, <1>2 DEF Here

LEMMA InitType == Init => TypeOK /\ Placed
<1>1. Init => TypeOK
  BY RunsAssumption, CallsAssumption
     DEF Init, TypeOK, Run, Where, Outcome, Status, Settlement, Reply, Decision
<1>2. ASSUME Init PROVE Placed
  <2>1. \A r \in Run : batch[r] # <<>> => 1 <= Len(batch[r])
    BY <1>1, <1>2, BatchType
  <2> QED BY <1>2, <2>1 DEF Init, Placed
<1> QED BY <1>1, <1>2

(* A waiter is settled by one of the settlements there are. *)
LEMMA ResolvedType ==
  ASSUME TypeOK, NEW C, NEW reply \in Settlement
  PROVE  Resolved(C, reply) \in [Call -> Settlement]
BY DEF TypeOK, Resolved

(* What a request had asked for is kept when the request is lost. *)
LEMMA LostType ==
  ASSUME TypeOK
  PROVE  [p \in Person |-> IF decision[p].stage \in {"checked", "active", "dead"}
                          THEN [decision[p] EXCEPT !.stage = "lost"] ELSE decision[p]]
           \in [Person -> Decision]
<1>1. ASSUME NEW p \in Person
      PROVE  decision[p] \in Decision /\ [decision[p] EXCEPT !.stage = "lost"] \in Decision
  BY DEF TypeOK, Decision
<1> QED BY <1>1

LEMMA FailedUnsettledType ==
  ASSUME TypeOK, NEW r
  PROVE  FailedUnsettled(r) \in [Call -> Status]
BY DEF TypeOK, FailedUnsettled, Status

(* After a call its run takes the next one, or its last step. *)
LEMMA ProceedsType ==
  ASSUME TypeOK, Placed, NEW r \in Run, Proceeds(r), UNCHANGED batch,
         at[r] \in {"turn", "parked", "tool", "joining"}
  PROVE  at' \in [Run -> Where] /\ next' \in [Run -> Nat \ {0}] /\ Placed'
<1>1. next[r] \in 1 .. Len(batch[r]) /\ Len(batch[r]) \in Nat
  BY HereInCall
<1>2. next[r] + 1 \in Nat \ {0}
  BY <1>1
<1>3. at' \in [Run -> Where] /\ next' \in [Run -> Nat \ {0}]
  <2>1. CASE next[r] = Len(batch[r])
    BY <2>1 DEF TypeOK, Proceeds, Goes, Where
  <2>2. CASE next[r] # Len(batch[r])
    BY <1>2, <2>2 DEF TypeOK, Proceeds, Goes, Where
  <2> QED BY <2>1, <2>2
<1>4. Placed'
  BY <1>1 DEF TypeOK, Placed, Proceeds, Goes
<1> QED BY <1>3, <1>4

(* The loop of a run takes it from one place of the loop to another. *)
LEMMA LoopType ==
  ASSUME TypeOK, Placed, NEW r \in Run, Loop(r)
  PROVE  TypeOK' /\ Placed'
<1> USE DEF TypeOK, Placed, Goes, Records, store, waits, people
<1>1. ASSUME Calls(r) \/ Answered(r) PROVE TypeOK' /\ Placed'
  BY <1>1 DEF Calls, Answered, Where
<1>2. ASSUME Dispatch(r) PROVE TypeOK' /\ Placed'
  BY <1>2 DEF Dispatch, Where
<1>3. ASSUME Claim(r) PROVE TypeOK' /\ Placed'
  <2>1. next[r] \in 1 .. Len(batch[r]) /\ Len(batch[r]) \in Nat
    BY <1>3, HereInCall DEF Claim
  <2>2. at' \in [Run -> Where] /\ next' \in [Run -> Nat \ {0}]
    <3>1. next[r] + 1 \in Nat \ {0}
      BY <2>1
    <3>2. CASE next[r] = Len(batch[r])
      <4>1. at' = [at EXCEPT ![r] = "turn"] /\ next' = [next EXCEPT ![r] = 1]
        BY <1>3, <3>2 DEF Claim
      <4>2. 1 \in Nat \ {0} /\ "turn" \in Where
        BY DEF Where
      <4> QED BY <4>1, <4>2
    <3>3. CASE next[r] # Len(batch[r])
      BY <1>3, <3>1, <3>3 DEF Claim, Where
    <3> QED BY <3>2, <3>3
  <2>3. Placed'
    BY <1>3, <2>1 DEF Claim
  <2>4. row' \in [Call -> Status]
    BY <1>3 DEF Claim, Status
  <2> QED BY <1>3, <2>2, <2>3, <2>4 DEF Claim
<1>4. ASSUME Park(r) PROVE TypeOK' /\ Placed'
  BY <1>4, HereInCall DEF Park, Where
<1>5. ASSUME Delegate(r) PROVE TypeOK' /\ Placed'
  BY <1>5 DEF Delegate, Where, Run
<1>6. ASSUME Detach(r) PROVE TypeOK' /\ Placed'
  <2>1. next[r] \in 1 .. Len(batch[r]) /\ Len(batch[r]) \in Nat
    BY <1>6, HereInCall DEF Detach
  <2>2. at' \in [Run -> Where] /\ next' \in [Run -> Nat \ {0}]
    <3>1. next[r] + 1 \in Nat \ {0}
      BY <2>1
    <3>2. CASE next[r] = Len(batch[r])
      BY <1>6, <3>2 DEF Detach, Where
    <3>3. CASE next[r] # Len(batch[r])
      BY <1>6, <3>1, <3>3 DEF Detach, Where
    <3> QED BY <3>2, <3>3
  <2>3. Placed'
    BY <1>6, <2>1 DEF Detach
  <2>4. row' \in [Call -> Status] /\ held' \subseteq Run
    BY <1>6 DEF Detach, Status, Run
  <2> QED BY <1>6, <2>2, <2>3, <2>4 DEF Detach
<1>7. ASSUME Join(r) PROVE TypeOK' /\ Placed'
  <2>1. row' \in [Call -> Status]
    BY <1>7 DEF Join, Status
  <2>2. at' \in [Run -> Where] /\ next' \in [Run -> Nat \ {0}] /\ Placed'
    <3>1. CASE Proceeds(r)
      BY <1>7, <3>1, ProceedsType DEF Join
    <3>2. CASE UNCHANGED next /\ \E place \in {"unwinding", "failing"} : Goes(r, place)
      BY <1>7, <3>2 DEF Join, Where
    <3> QED BY <1>7, <3>1, <3>2 DEF Join
  <2> QED BY <1>7, <2>1, <2>2 DEF Join
<1>8. ASSUME Wake(r) PROVE TypeOK' /\ Placed'
  <2>1. row' \in [Call -> Status]
    BY <1>8 DEF Wake, Status
  <2>2. at' \in [Run -> Where] /\ next' \in [Run -> Nat \ {0}] /\ Placed'
    <3>1. CASE Proceeds(r)
      BY <1>8, <3>1, ProceedsType DEF Wake
    <3>2. CASE UNCHANGED next /\ \E place \in {"tool", "unwinding"} : Goes(r, place)
      BY <1>8, <3>2 DEF Wake, Where
    <3> QED BY <1>8, <3>1, <3>2 DEF Wake
  <2> QED BY <1>8, <2>1, <2>2 DEF Wake
<1>9. ASSUME Execute(r) PROVE TypeOK' /\ Placed'
  <2>1. row' \in [Call -> Status]
    BY <1>9 DEF Execute, Status
  <2>2. at' \in [Run -> Where] /\ next' \in [Run -> Nat \ {0}] /\ Placed'
    BY <1>9, ProceedsType DEF Execute
  <2> QED BY <1>9, <2>1, <2>2 DEF Execute
<1>10. ASSUME Completes(r) PROVE TypeOK' /\ Placed'
  BY <1>10 DEF Completes, HandsOver, TurnOutcome, Where, Outcome
<1>11. ASSUME Unwinds(r) PROVE TypeOK' /\ Placed'
  BY <1>11, FailedUnsettledType DEF Unwinds, HandsOver, Where, Outcome
<1>12. ASSUME Fails(r) PROVE TypeOK' /\ Placed'
  BY <1>12, FailedUnsettledType DEF Fails, Where
<1>13. ASSUME FailureSettles(r) PROVE TypeOK' /\ Placed'
  BY <1>13 DEF FailureSettles, HandsOver, Where, Outcome
<1>14. ASSUME Closes(r) PROVE TypeOK' /\ Placed'
  BY <1>14 DEF Closes, Where
<1> QED BY <1>1, <1>2, <1>3, <1>4, <1>5, <1>6, <1>7, <1>8, <1>9, <1>10, <1>11, <1>12, <1>13,
           <1>14 DEF Loop

(* People, timers, a Stop, and the end of the process. *)
LEMMA OutsideType ==
  ASSUME TypeOK, Placed, Next, ~\E r \in Run : Loop(r)
  PROVE  TypeOK' /\ Placed'
<1> USE DEF TypeOK, Placed, Goes, store, waits, people
<1>1. ASSUME NEW r \in Run, ModelFails(r) PROVE TypeOK' /\ Placed'
  BY <1>1 DEF ModelFails, Where
<1>2. ASSUME NEW r \in Run, AskStop(r) PROVE TypeOK' /\ Placed'
  BY <1>2 DEF AskStop
<1>3. ASSUME NEW p \in Person, Check(p) PROVE TypeOK' /\ Placed'
  BY <1>3 DEF Check, Human, Decision, Lapsed, IsOver
<1>4. ASSUME NEW p \in Person, Probe(p) PROVE TypeOK' /\ Placed'
  BY <1>4 DEF Probe, Reaches, Decision
<1>5. ASSUME NEW p \in Person, Bury(p) PROVE TypeOK' /\ Placed'
  BY <1>5, FailedUnsettledType DEF Bury, Reaches, Decision
<1>6. ASSUME NEW p \in Person, Deliver(p) PROVE TypeOK' /\ Placed'
  <2>1. decision[p].reply \in Settlement
    BY <1>6 DEF Deliver, Decision, Settlement
  <2>2. Resolved({decision[p].call}, decision[p].reply) \in [Call -> Settlement]
    BY <2>1, ResolvedType
  <2>3. decision' \in [Person -> Decision]
    <3>1. CASE Reaches(p, "delivered")
      BY <3>1 DEF Reaches, Decision
    <3>2. CASE Reaches(p, "dropped")
      BY <3>2 DEF Reaches, Decision
    <3> QED BY <1>6, <3>1, <3>2 DEF Deliver
  <2>4. pending' \subseteq Call /\ taken' \in [Call -> Settlement]
    BY <1>6, <2>2 DEF Deliver, Signals
  <2>5. UNCHANGED <<batch, at, next, outcome, row, late, live, cancelled, held, stop, stops, faults>>
    BY <1>6 DEF Deliver
  <2> QED BY <2>3, <2>4, <2>5
<1>7. ASSUME NEW c \in Call, Expire(c) PROVE TypeOK' /\ Placed'
  BY <1>7 DEF Expire
<1>8. ASSUME NEW c \in Call, Timer(c) PROVE TypeOK' /\ Placed'
  <2>1. Resolved({c}, "lapse") \in [Call -> Settlement]
    BY ResolvedType DEF Settlement
  <2> QED BY <1>8, <2>1 DEF Timer, Signals
<1>9. ASSUME Cancel PROVE TypeOK' /\ Placed'
  <2>1. \A C : Resolved(C, "stop") \in [Call -> Settlement]
    BY ResolvedType DEF Settlement
  <2> QED BY <1>9, <2>1 DEF Cancel
<1>10. ASSUME Crash PROVE TypeOK' /\ Placed'
  <2>1. decision' \in [Person -> Decision]
    BY <1>10, LostType DEF Crash
  <2>2. at' \in [Run -> Where]
    BY <1>10 DEF Crash, Where
  <2>3. Placed'
    BY <1>10 DEF Crash
  <2> QED BY <1>10, <2>1, <2>2, <2>3 DEF Crash
<1> QED BY <1>1, <1>2, <1>3, <1>4, <1>5, <1>6, <1>7, <1>8, <1>9, <1>10 DEF Next

(* The state of runs, cards, waiters and decisions keeps its shape in      *)
(* every behaviour of the inline runner and its callers.                   *)
THEOREM TypeCorrect == Spec => []TypeOK
<1>1. TypeOK /\ Placed /\ [Next]_vars => TypeOK' /\ Placed'
  <2> SUFFICES ASSUME TypeOK, Placed, [Next]_vars PROVE TypeOK' /\ Placed'
    OBVIOUS
  <2>1. CASE \E r \in Run : Loop(r)
    BY <2>1, LoopType
  <2>2. CASE Next /\ ~\E r \in Run : Loop(r)
    BY <2>2, OutsideType
  <2>3. CASE UNCHANGED vars
    BY <2>3 DEF vars, TypeOK, Placed
  <2> QED BY <2>1, <2>2, <2>3
<1> QED BY InitType, <1>1, PTL DEF Spec

(***************************************************************************)
(* One call at a time: what a run's place says of each call of its batch.  *)
(***************************************************************************)

(* The loop has yet to come to the i-th call of r; it has left it behind,  *)
(* settled.                                                                *)
Ahead(r, i) ==
  \/ at[r] \in {"off", "model", "calling", "asked", "claim"}
  \/ at[r] = "turn" /\ i >= next[r]
  \/ at[r] \in {"parked", "tool", "joining"} /\ i > next[r]
Behind(r, i) ==
  \/ at[r] \in {"turn", "parked", "tool", "joining"} /\ i < next[r]
  \/ at[r] \in {"last", "answering", "ending"}
  \/ at[r] = "failed" /\ r \notin Awaited
  \/ /\ at[r] \in {"closing", "over"}
     /\ r \in Detached \/ outcome[r] = "completed" \/ (r = Top /\ outcome[r] = "failed")

(* A call the loop has not come to was settled by nobody, and the run it   *)
(* is to start has not started; only the call a run is parked on has a     *)
(* waiter; what settled a waiter is on the row once the run has moved on.  *)
CallInv(r, i) ==
  LET c == batch[r][i]
  IN  /\ Ahead(r, i) => /\ taken[c] = "none"
                        /\ To[c] # NoRun => at[To[c]] = "off"
      /\ c \in pending => taken[c] = "none" /\ at[r] = "parked" /\ i = next[r]
      /\ i = next[r] => /\ at[r] \in {"parked", "tool"} => To[c] = NoRun
                        /\ at[r] = "tool" => taken[c] = "approve"
                        /\ at[r] = "joining" => To[c] # NoRun
      /\ taken[c] # "none" => To[c] = NoRun
      /\ taken[c] = "approve" => \/ at[r] = "gone"
                                 \/ (i = next[r] /\ at[r] \in {"parked", "tool"})
                                 \/ row[c] \in {"executed", "failed"}
      /\ taken[c] = "reject" => \/ at[r] = "gone"
                                \/ (i = next[r] /\ at[r] = "parked")
                                \/ row[c] = "rejected"
      /\ To[c] = NoRun => /\ row[c] = "executed" => taken[c] = "approve"
                          /\ row[c] = "rejected" => taken[c] = "reject"
                          /\ row[c] = "expired"  => taken[c] = "lapse"
      /\ Behind(r, i) => row[c] # "pending_approval"

CallsInv == \A r \in Run : \A i \in 1 .. Len(batch[r]) : CallInv(r, i)

(* A call that is recorded or waited for is one some run asked for.        *)
Asked == \A c \in Call : (row[c] # "none" \/ c \in pending) => \E r \in Run : Asks(r, c)

(* A call is one run's, at one place of its batch. *)
LEMMA Distinct ==
  ASSUME TypeOK, NEW r \in Run, NEW s \in Run,
         NEW i \in 1 .. Len(batch[r]), NEW j \in 1 .. Len(batch[s]),
         batch[r][i] = batch[s][j]
  PROVE  r = s /\ i = j
BY BatchesAssumption DEF TypeOK

LEMMA CallAt ==
  ASSUME TypeOK, NEW r \in Run, NEW i \in 1 .. Len(batch[r])
  PROVE  batch[r][i] \in Call /\ Len(batch[r]) \in Nat /\ i \in Nat
<1>1. batch[r] \in Seq(Call)
  BY BatchType
<1> QED BY <1>1

(* What a step leaves alone. *)
LEMMA Untouched ==
  ASSUME TypeOK, NEW s \in Run, NEW j \in 1 .. Len(batch[s]), CallInv(s, j),
         at'[s] = at[s] \/ (at[s] = "off" /\ at'[s] = "model"),
         next'[s] = next[s], outcome'[s] = outcome[s], UNCHANGED batch,
         row'[batch[s][j]] = row[batch[s][j]] \/ (/\ row[batch[s][j]] = "pending_approval"
                                                 /\ row'[batch[s][j]] = "failed"),
         taken'[batch[s][j]] = taken[batch[s][j]],
         batch[s][j] \in pending' => batch[s][j] \in pending,
         Ahead(s, j) /\ To[batch[s][j]] # NoRun /\ at[To[batch[s][j]]] = "off" =>
           at'[To[batch[s][j]]] = "off"
  PROVE  CallInv(s, j)'
BY DEF CallInv, Ahead, Behind

(* A step of a run's loop is in its own batch: it settles no waiter, and   *)
(* of another run it may only start it.                                    *)
OthersStay(r) == \A s \in Run \ {r} :
  /\ next'[s] = next[s] /\ outcome'[s] = outcome[s]
  /\ \/ at'[s] = at[s]
     \/ /\ at[s] = "off" /\ at'[s] = "model"
        /\ at[r] = "turn" /\ s = To[Here(r)]
OtherRowsStay(r) == \A c \in Call : ~Asks(r, c) =>
  row'[c] = row[c] /\ (c \in pending' => c \in pending)

LEMMA LoopFrame ==
  ASSUME TypeOK, Placed, CallsInv, NEW r \in Run, Loop(r)
  PROVE  /\ UNCHANGED <<taken, batch, decision, late>> /\ at[r] # "off"
         /\ OthersStay(r) /\ OtherRowsStay(r)
<1> USE DEF OthersStay, OtherRowsStay
<1> USE DEF store, waits, people
<1>1. ASSUME at[r] \in {"asked", "claim", "turn", "parked", "tool", "joining"}
      PROVE  Here(r) \in Call /\ Asks(r, Here(r)) /\ next[r] \in 1 .. Len(batch[r])
  BY <1>1, HereInCall DEF Asks, Here
<1>2. ASSUME NEW status, Records(r, status), Asks(r, Here(r))
      PROVE  \A c \in Call : ~Asks(r, c) => row'[c] = row[c]
  BY <1>2 DEF Records, TypeOK
<1>3. \A c \in Call : ~Asks(r, c) => FailedUnsettled(r)[c] = row[c]
  BY DEF FailedUnsettled
<1>4. ASSUME NEW place, Goes(r, place)
      PROVE  \A s \in Run \ {r} : at'[s] = at[s]
  BY <1>4 DEF Goes, TypeOK
<1>5. ASSUME Proceeds(r)
      PROVE  \A s \in Run \ {r} : at'[s] = at[s] /\ next'[s] = next[s]
  BY <1>4, <1>5 DEF Proceeds, TypeOK
<1>6. ASSUME NEW how, HandsOver(r, how)
      PROVE  /\ UNCHANGED <<taken, pending, batch, decision, late>>
             /\ \A s \in Run \ {r} : at'[s] = at[s] /\ next'[s] = next[s] /\ outcome'[s] = outcome[s]
  BY <1>4, <1>6 DEF HandsOver, TypeOK
<1>7. CASE Calls(r) \/ Answered(r)
  BY <1>4, <1>7 DEF Calls, Answered
<1>8. CASE Dispatch(r)
  BY <1>4, <1>8 DEF Dispatch
<1>9. CASE Claim(r)
  <2>1. \A s \in Run \ {r} : at'[s] = at[s] /\ next'[s] = next[s]
    BY <1>4, <1>9 DEF Claim, TypeOK
  <2> QED BY <1>1, <1>2, <1>9, <2>1 DEF Claim
<1>10. CASE Park(r)
  BY <1>1, <1>4, <1>10 DEF Park
<1>11. ASSUME at[r] = "turn", To[Here(r)] # NoRun
       PROVE  at[To[Here(r)]] = "off"
  <2>1. CallInv(r, next[r])
    BY <1>1, <1>11 DEF CallsInv
  <2>2. next[r] \in Nat
    BY DEF TypeOK
  <2> QED BY <1>11, <2>1, <2>2 DEF CallInv, Ahead, Here
<1>12. CASE Delegate(r)
  <2>1. at[To[Here(r)]] = "off" /\ To[Here(r)] \in Run
    BY <1>11, <1>12, RunsAssumption DEF Delegate, Run
  <2> QED BY <1>12, <2>1 DEF Delegate, TypeOK
<1>13. CASE Detach(r)
  <2>1. at[To[Here(r)]] = "off" /\ To[Here(r)] \in Run
    BY <1>11, <1>13, RunsAssumption DEF Detach, Run
  <2>2. \A s \in Run \ {r} : next'[s] = next[s]
    BY <1>13 DEF Detach, TypeOK
  <2>3. \A s \in Run \ {r} : at'[s] = at[s] \/ (/\ at[s] = "off" /\ at'[s] = "model"
                                               /\ s = To[Here(r)])
    BY <1>13, <2>1 DEF Detach, TypeOK
  <2> QED BY <1>1, <1>2, <1>13, <2>2, <2>3 DEF Detach
<1>14. CASE Join(r)
  BY <1>1, <1>2, <1>4, <1>5, <1>14 DEF Join
<1>15. CASE Wake(r)
  BY <1>1, <1>2, <1>4, <1>5, <1>15 DEF Wake
<1>16. CASE Execute(r)
  BY <1>1, <1>2, <1>5, <1>16 DEF Execute
<1>17. CASE Completes(r) \/ FailureSettles(r)
  BY <1>6, <1>17 DEF Completes, FailureSettles
<1>18. CASE Unwinds(r)
  BY <1>3, <1>6, <1>18 DEF Unwinds
<1>19. CASE Fails(r)
  BY <1>3, <1>4, <1>19 DEF Fails
<1>20. CASE Closes(r)
  BY <1>4, <1>20 DEF Closes
<1> QED BY <1>7, <1>8, <1>9, <1>10, <1>12, <1>13, <1>14, <1>15, <1>16, <1>17, <1>18, <1>19,
           <1>20 DEF Loop

(* Another run's calls are as they were: it has not started, or it goes on *)
(* where it is.                                                            *)
LEMMA LoopOthers ==
  ASSUME TypeOK, Placed, CallsInv, NEW r \in Run, Loop(r),
         NEW s \in Run \ {r}, NEW j \in 1 .. Len(batch[s])
  PROVE  CallInv(s, j)'
<1> DEFINE c == batch[s][j]
<1>1. c \in Call /\ ~Asks(r, c) /\ CallInv(s, j)
  BY CallAt, Distinct DEF Asks, CallsInv
<1>2. UNCHANGED <<taken, batch>> /\ at[r] # "off" /\ OthersStay(r) /\ OtherRowsStay(r)
  BY LoopFrame
<1>3. ASSUME Ahead(s, j), To[c] # NoRun, at[To[c]] = "off"
      PROVE  at'[To[c]] = "off"
  <2>1. To[c] \in Run \ {r}
    BY <1>1, <1>2, <1>3, CallsAssumption DEF Run
  <2>2. CASE at'[To[c]] = at[To[c]]
    BY <1>3, <2>2
  <2>3. CASE at[r] = "turn" /\ To[c] = To[Here(r)]
    <3>1. Here(r) \in Call /\ next[r] \in 1 .. Len(batch[r]) /\ Here(r) = batch[r][next[r]]
      BY <2>3, HereInCall DEF Here
    <3>2. c = Here(r)
      BY <1>1, <1>3, <2>3, <3>1, DelegationAssumption
    <3> QED BY <3>1, <3>2, <1>1 DEF Asks
  <2> QED BY <1>2, <2>1, <2>2, <2>3 DEF OthersStay
<1>4. /\ at'[s] = at[s] \/ (at[s] = "off" /\ at'[s] = "model")
      /\ next'[s] = next[s] /\ outcome'[s] = outcome[s]
  BY <1>2 DEF OthersStay
<1>5. row'[c] = row[c] /\ (c \in pending' => c \in pending)
  <2> HIDE DEF c
  <2> QED BY <1>1, <1>2 DEF OtherRowsStay
<1>6. taken'[c] = taken[c]
  BY <1>2
<1> QED BY <1>1, <1>2, <1>3, <1>4, <1>5, <1>6, Untouched

(* The runs its later calls are to start stay off while a run goes on. *)
LEMMA StillOff ==
  ASSUME TypeOK, Placed, CallsInv, NEW r \in Run, Loop(r), NEW i \in 1 .. Len(batch[r]),
         Ahead(r, i), at[r] = "turn" => i > next[r], To[batch[r][i]] # NoRun
  PROVE  at'[To[batch[r][i]]] = "off"
<1> DEFINE c == batch[r][i]
<1>1. c \in Call /\ i \in Nat /\ at[To[c]] = "off"
  BY CallAt DEF CallsInv, CallInv
<1>2. at[r] # "off" /\ OthersStay(r)
  BY LoopFrame
<1>3. To[c] \in Run \ {r}
  BY <1>1, <1>2, CallsAssumption DEF Run
<1>4. CASE at[r] = "turn" /\ To[c] = To[Here(r)]
  <2>1. Here(r) \in Call /\ next[r] \in 1 .. Len(batch[r]) /\ Here(r) = batch[r][next[r]]
    BY <1>4, HereInCall DEF Here
  <2>2. c = Here(r)
    BY <1>1, <1>4, <2>1, DelegationAssumption
  <2>3. i = next[r]
    BY <2>1, <2>2, Distinct
  <2> QED BY <1>1, <1>4, <2>1, <2>3
<1> QED BY <1>1, <1>2, <1>3, <1>4 DEF OthersStay

(* What a run's own call keeps while its row and its waiter are as they    *)
(* were: the run is elsewhere, and not behind the call if it was not.      *)
LEMMA SameRow ==
  ASSUME TypeOK, Placed, CallsInv, NEW r \in Run, Loop(r), NEW i \in 1 .. Len(batch[r]),
         row'[batch[r][i]] = row[batch[r][i]],
         batch[r][i] \in pending' => batch[r][i] \in pending,
         at[r] # "parked" \/ i # next[r] \/ taken[batch[r][i]] = "stop",
         at[r] # "tool" \/ i # next[r], at[r] # "gone",
         at'[r] \notin {"parked", "tool", "joining"},
         Ahead(r, i)' => Ahead(r, i) /\ (at[r] = "turn" => i > next[r]),
         Behind(r, i)' => Behind(r, i)
  PROVE  CallInv(r, i)'
<1>1. CallInv(r, i) /\ i \in Nat /\ next[r] \in Nat
  BY CallAt DEF CallsInv, TypeOK
<1>2. taken' = taken /\ batch' = batch
  BY LoopFrame
<1>3. Ahead(r, i)' /\ To[batch[r][i]] # NoRun => at'[To[batch[r][i]]] = "off"
  BY StillOff
<1> QED BY <1>1, <1>2, <1>3 DEF CallInv

(* A run that is at a call is at one of its own, which nobody else has. *)
LEMMA AtHere ==
  ASSUME TypeOK, Placed, CallsInv, NEW r \in Run, NEW i \in 1 .. Len(batch[r]),
         at[r] \in {"asked", "claim", "turn", "parked", "tool", "joining"}
  PROVE  /\ Here(r) \in Call /\ next[r] \in 1 .. Len(batch[r]) /\ Here(r) = batch[r][next[r]]
         /\ CallInv(r, next[r])
         /\ i # next[r] => batch[r][i] # Here(r)
         /\ batch[r][i] \in Call /\ i \in Nat /\ next[r] \in Nat
         /\ Len(batch[r]) \in Nat /\ i <= Len(batch[r])
<1>1. Here(r) \in Call /\ next[r] \in 1 .. Len(batch[r]) /\ Here(r) = batch[r][next[r]]
  BY HereInCall DEF Here
<1>2. i # next[r] => batch[r][i] # Here(r)
  BY <1>1, Distinct
<1> QED BY <1>1, <1>2, CallAt DEF CallsInv, TypeOK

(* A run that settles the call it is at goes on to the next one, or to its *)
(* last step: the others of its batch are where they were.                 *)
LEMMA SettlesOne ==
  ASSUME TypeOK, Placed, CallsInv, NEW r \in Run, Loop(r), NEW i \in 1 .. Len(batch[r]),
         at[r] \in {"turn", "parked", "tool", "joining"},
         next[r] = Len(batch[r]) => at'[r] = "last" /\ next'[r] = next[r],
         next[r] # Len(batch[r]) => at'[r] = "turn" /\ next'[r] = next[r] + 1,
         pending' = pending, Here(r) \notin pending,
         \A c \in Call : c # Here(r) => row'[c] = row[c],
         row'[Here(r)] # "pending_approval",
         taken[Here(r)] = "approve" => row'[Here(r)] \in {"executed", "failed"},
         taken[Here(r)] = "reject"  => row'[Here(r)] = "rejected",
         To[Here(r)] = NoRun => /\ row'[Here(r)] = "executed" => taken[Here(r)] = "approve"
                                /\ row'[Here(r)] = "rejected" => taken[Here(r)] = "reject"
                                /\ row'[Here(r)] = "expired"  => taken[Here(r)] = "lapse"
  PROVE  CallInv(r, i)'
<1>1. /\ Here(r) \in Call /\ next[r] \in 1 .. Len(batch[r]) /\ Here(r) = batch[r][next[r]]
      /\ CallInv(r, next[r])
      /\ i # next[r] => batch[r][i] # Here(r)
      /\ batch[r][i] \in Call /\ i \in Nat /\ next[r] \in Nat
      /\ Len(batch[r]) \in Nat /\ i <= Len(batch[r])
  BY AtHere
<1>2. taken' = taken /\ batch' = batch
  BY LoopFrame
<1>3. CASE i # next[r]
  <2>1. row'[batch[r][i]] = row[batch[r][i]]
    BY <1>1, <1>3
  <2>2. Ahead(r, i)' => Ahead(r, i) /\ (at[r] = "turn" => i > next[r])
    BY <1>1, <1>3 DEF Ahead
  <2>3. Behind(r, i)' => Behind(r, i)
    BY <1>1, <1>3 DEF Behind
  <2>4. at'[r] \notin {"parked", "tool", "joining"}
    OBVIOUS
  <2> QED BY <1>3, <2>1, <2>2, <2>3, <2>4, SameRow
<1>4. CASE i = next[r]
  <2>1. ~Ahead(r, i)'
    BY <1>1, <1>4 DEF Ahead
  <2>2. at'[r] \in {"last", "turn"} /\ (at'[r] = "turn" => next'[r] = i + 1)
    BY <1>4
  <2> QED BY <1>1, <1>2, <1>4, <2>1, <2>2 DEF CallInv, Here
<1> QED BY <1>3, <1>4

(* The steps of a run's loop, as its own calls see them. *)
LEMMA LoopOwn ==
  ASSUME TypeOK, Placed, CallsInv, NEW r \in Run, Loop(r), NEW i \in 1 .. Len(batch[r])
  PROVE  CallInv(r, i)'
<1> DEFINE c == batch[r][i]
<1> USE DEF store, waits, people
<1>1. c \in Call /\ i \in Nat /\ CallInv(r, i) /\ batch[r] # <<>> /\ Asks(r, c)
      /\ next[r] \in Nat
  <2>1. c \in Call /\ i \in Nat /\ CallInv(r, i) /\ next[r] \in Nat
    BY CallAt DEF CallsInv, TypeOK
  <2>2. batch[r] # <<>>
    BY BatchType
  <2> QED BY <2>1, <2>2 DEF Asks
<1>2. taken' = taken /\ batch' = batch
  BY LoopFrame
<1>3. at[r] \in {"asked", "claim", "turn", "parked", "tool", "joining"}
        => /\ Here(r) \in Call /\ next[r] \in 1 .. Len(batch[r]) /\ Here(r) = batch[r][next[r]]
           /\ CallInv(r, next[r])
           /\ i # next[r] => c # Here(r)
           /\ Len(batch[r]) \in Nat /\ i <= Len(batch[r])
  BY AtHere
<1>4. \A place : Goes(r, place) => at'[r] = place
  BY DEF Goes, TypeOK
<1>5. CASE Calls(r) \/ Answered(r)
  <2>1. /\ at[r] \in {"model", "calling", "last", "answering"}
        /\ UNCHANGED <<row, next, outcome, pending>>
    BY <1>5 DEF Calls, Answered
  <2>2. \/ at'[r] = "unwinding"
        \/ at'[r] = "calling" /\ at[r] = "model"
        \/ at'[r] = "answering" /\ at[r] = "last"
        \/ at'[r] = "ending" /\ at[r] = "answering"
        \/ at'[r] = "asked" /\ at[r] = "calling"
    BY <1>1, <1>4, <1>5 DEF Calls, Answered
  <2>3. /\ Ahead(r, i)' => Ahead(r, i) /\ (at[r] = "turn" => i > next[r])
        /\ Behind(r, i)' => Behind(r, i)
    BY <2>1, <2>2 DEF Ahead, Behind
  <2> QED BY <2>1, <2>2, <2>3, SameRow
<1>6. CASE Dispatch(r)
  <2>1. /\ at[r] = "asked" /\ at'[r] \in {"unwinding", "claim"}
        /\ UNCHANGED <<row, next, outcome, pending>>
    BY <1>4, <1>6 DEF Dispatch
  <2>2. /\ Ahead(r, i)' => Ahead(r, i) /\ (at[r] = "turn" => i > next[r])
        /\ Behind(r, i)' => Behind(r, i)
    BY <2>1 DEF Ahead, Behind
  <2> QED BY <2>1, <2>2, SameRow
<1>7. CASE Claim(r)
  <2>1. /\ at[r] = "claim" /\ UNCHANGED <<outcome, pending>> /\ at'[r] \in {"claim", "turn"}
        /\ at'[r] = "turn" => next'[r] = 1
    BY <1>4, <1>7 DEF Claim, TypeOK
  <2>2. Ahead(r, i) /\ ~Behind(r, i)'
    BY <1>1, <2>1 DEF Ahead, Behind
  <2>3. CASE i # next[r]
    <3>1. row'[c] = row[c]
      BY <1>1, <1>3, <1>7, <2>1, <2>3 DEF Claim, Records, TypeOK
    <3> QED BY <2>1, <2>2, <3>1, SameRow
  <2>4. CASE i = next[r]
    <3>1. row'[c] \in {"pending_approval", "auto_executed"}
      BY <1>1, <1>7, <2>4 DEF Claim, Records, TypeOK, Here
    <3>2. To[c] # NoRun => at'[To[c]] = "off"
      BY <2>1, <2>2, StillOff
    <3> QED BY <1>1, <1>2, <2>1, <2>2, <3>1, <3>2 DEF CallInv
  <2> QED BY <2>3, <2>4
<1>8. CASE Park(r)
  <2>1. /\ at[r] = "turn" /\ at'[r] = "parked" /\ UNCHANGED <<row, next, outcome>>
        /\ pending' = pending \cup {Here(r)} /\ To[Here(r)] = NoRun
    BY <1>4, <1>8 DEF Park
  <2>2. Ahead(r, i)' => Ahead(r, i) /\ i > next[r]
    BY <1>1, <2>1 DEF Ahead
  <2>3. Behind(r, i)' => Behind(r, i)
    BY <2>1 DEF Behind
  <2>4. Ahead(r, i)' /\ To[c] # NoRun => at'[To[c]] = "off"
    BY <2>2, StillOff
  <2>5. i = next[r] => Ahead(r, i)
    BY <1>1, <2>1 DEF Ahead
  <2> QED BY <1>1, <1>2, <1>3, <2>1, <2>2, <2>3, <2>4, <2>5 DEF CallInv, Here
<1>9. ASSUME at[r] = "turn", To[Here(r)] # NoRun
      PROVE  /\ To[Here(r)] \in Run \ {r} /\ taken[Here(r)] = "none" /\ Here(r) \notin pending
  <2>1. Ahead(r, next[r])
    BY <1>1, <1>9 DEF Ahead
  <2>2. at[To[Here(r)]] = "off" /\ taken[Here(r)] = "none" /\ Here(r) \notin pending
    BY <1>3, <1>9, <2>1 DEF CallInv
  <2> QED BY <1>3, <1>9, <2>2, CallsAssumption DEF Run
<1>10. CASE Delegate(r)
  <2>1. /\ at[r] = "turn" /\ UNCHANGED <<row, next, outcome, pending>>
        /\ To[Here(r)] # NoRun
    BY <1>10, RunsAssumption DEF Delegate, Run
  <2>2. at'[r] = "joining"
    BY <1>9, <1>10, <2>1 DEF Delegate, TypeOK
  <2>3. Ahead(r, i)' => Ahead(r, i) /\ i > next[r]
    BY <1>1, <2>1, <2>2 DEF Ahead
  <2>4. Behind(r, i)' => Behind(r, i)
    BY <2>1, <2>2 DEF Behind
  <2>5. Ahead(r, i)' /\ To[c] # NoRun => at'[To[c]] = "off"
    BY <2>3, StillOff
  <2>6. i = next[r] => c = Here(r)
    BY DEF Here
  <2> QED BY <1>1, <1>2, <1>9, <2>1, <2>2, <2>3, <2>4, <2>5, <2>6 DEF CallInv
<1>11. CASE Detach(r)
  <2>1. /\ at[r] = "turn" /\ UNCHANGED <<outcome, pending>> /\ Records(r, "executed")
        /\ To[Here(r)] # NoRun
    BY <1>11, RunsAssumption DEF Detach, Run
  <2>2. /\ next[r] = Len(batch[r]) => at'[r] = "last" /\ next'[r] = next[r]
        /\ next[r] # Len(batch[r]) => at'[r] = "turn" /\ next'[r] = next[r] + 1
    BY <1>9, <1>11, <2>1 DEF Detach, TypeOK
  <2>3. /\ row'[Here(r)] = "executed"
        /\ \A d \in Call : d # Here(r) => row'[d] = row[d]
    BY <1>3, <2>1 DEF Records, TypeOK
  <2> QED BY <1>9, <2>1, <2>2, <2>3, SettlesOne
<1>12. ASSUME Proceeds(r)
       PROVE  /\ next[r] = Len(batch[r]) => at'[r] = "last" /\ next'[r] = next[r]
              /\ next[r] # Len(batch[r]) => at'[r] = "turn" /\ next'[r] = next[r] + 1
  BY <1>4, <1>12 DEF Proceeds, TypeOK
<1>13. ASSUME NEW status, Records(r, status), Here(r) \in Call
       PROVE  /\ row'[Here(r)] = status
              /\ \A d \in Call : d # Here(r) => row'[d] = row[d]
  BY <1>13 DEF Records, TypeOK
<1>14. CASE Join(r)
  <2>1. at[r] = "joining" /\ UNCHANGED <<outcome, pending>>
    BY <1>14 DEF Join
  <2>2. To[Here(r)] # NoRun /\ taken[Here(r)] = "none" /\ Here(r) \notin pending
    BY <1>3, <2>1 DEF CallInv
  <2>3. CASE Records(r, "executed") /\ Proceeds(r)
    <3>1. /\ row'[Here(r)] = "executed"
          /\ \A d \in Call : d # Here(r) => row'[d] = row[d]
      BY <1>3, <1>13, <2>1, <2>3
    <3> QED BY <1>12, <2>1, <2>2, <2>3, <3>1, SettlesOne
  <2>4. CASE UNCHANGED <<row, next>> /\ at'[r] \in {"unwinding", "failing"}
    <3>1. ~Ahead(r, i)' /\ ~Behind(r, i)'
      BY <2>4 DEF Ahead, Behind
    <3> QED BY <2>1, <2>4, <3>1, SameRow
  <2> QED BY <1>4, <1>14, <2>3, <2>4 DEF Join
<1>15. CASE Wake(r)
  <2>1. at[r] = "parked" /\ UNCHANGED <<outcome, pending>> /\ taken[Here(r)] # "none"
    BY <1>15 DEF Wake
  <2>2. Here(r) \notin pending /\ To[Here(r)] = NoRun
    BY <1>3, <2>1 DEF CallInv
  <2>3. CASE taken[Here(r)] = "approve"
    <3>1. at'[r] = "tool" /\ UNCHANGED <<row, next>>
      BY <1>4, <1>15, <2>3 DEF Wake
    <3>2. /\ Ahead(r, i)' => Ahead(r, i) /\ (at[r] = "turn" => i > next[r])
          /\ Behind(r, i)' => Behind(r, i)
      BY <2>1, <3>1 DEF Ahead, Behind
    <3>3. Ahead(r, i)' /\ To[c] # NoRun => at'[To[c]] = "off"
      BY <3>2, StillOff
    <3>4. i = next[r] => c = Here(r)
      BY DEF Here
    <3> QED BY <1>1, <1>2, <2>1, <2>2, <2>3, <3>1, <3>2, <3>3, <3>4 DEF CallInv
  <2>4. CASE taken[Here(r)] = "stop"
    <3>1. at'[r] = "unwinding" /\ UNCHANGED <<row, next>>
      BY <1>4, <1>15, <2>4 DEF Wake
    <3>2. ~Ahead(r, i)' /\ ~Behind(r, i)'
      BY <3>1 DEF Ahead, Behind
    <3>3. i = next[r] => taken[batch[r][i]] = "stop"
      BY <2>4 DEF Here
    <3> QED BY <2>1, <3>1, <3>2, <3>3, SameRow
  <2>5. CASE taken[Here(r)] = "lapse"
    <3>1. Records(r, "expired") /\ Proceeds(r)
      BY <1>15, <2>5 DEF Wake
    <3>2. /\ row'[Here(r)] = "expired"
          /\ \A d \in Call : d # Here(r) => row'[d] = row[d]
      BY <1>3, <1>13, <2>1, <3>1
    <3> QED BY <1>12, <2>1, <2>2, <2>5, <3>1, <3>2, SettlesOne
  <2>6. CASE taken[Here(r)] = "reject"
    <3>1. Records(r, "rejected") /\ Proceeds(r)
      BY <1>15, <2>6 DEF Wake
    <3>2. /\ row'[Here(r)] = "rejected"
          /\ \A d \in Call : d # Here(r) => row'[d] = row[d]
      BY <1>3, <1>13, <2>1, <3>1
    <3> QED BY <1>12, <2>1, <2>2, <2>6, <3>1, <3>2, SettlesOne
  <2> QED BY <1>3, <2>1, <2>3, <2>4, <2>5, <2>6 DEF TypeOK, Settlement, Reply
<1>16. CASE Execute(r)
  <2>1. at[r] = "tool" /\ UNCHANGED <<outcome, pending>> /\ Proceeds(r)
    BY <1>16 DEF Execute
  <2>2. taken[Here(r)] = "approve" /\ Here(r) \notin pending
    BY <1>3, <2>1 DEF CallInv
  <2>3. PICK status \in {"executed", "failed"} : Records(r, status)
    BY <1>16 DEF Execute
  <2>4. /\ row'[Here(r)] = status
        /\ \A d \in Call : d # Here(r) => row'[d] = row[d]
    BY <1>3, <1>13, <2>1, <2>3
  <2> QED BY <1>12, <2>1, <2>2, <2>4, SettlesOne
<1>17. ASSUME NEW how, HandsOver(r, how)
       PROVE  /\ at'[r] \in {"closing", "over"} /\ outcome'[r] = how
              /\ UNCHANGED <<next, pending>>
  BY <1>4, <1>17 DEF HandsOver, TypeOK
<1>18. CASE Completes(r)
  <2>1. /\ at[r] = "ending" /\ at'[r] \in {"closing", "over"}
        /\ UNCHANGED <<row, next, pending>>
    BY <1>17, <1>18 DEF Completes
  <2>2. ~Ahead(r, i)' /\ Behind(r, i)
    BY <2>1 DEF Ahead, Behind
  <2> QED BY <2>1, <2>2, SameRow
<1>19. CASE Unwinds(r)
  <2>1. /\ at[r] = "unwinding" /\ at'[r] \in {"closing", "over"} /\ outcome'[r] = "cancelled"
        /\ UNCHANGED <<next, pending>>
    BY <1>17, <1>19 DEF Unwinds
  <2>2. /\ row'[c] = row[c] \/ (row[c] = "pending_approval" /\ row'[c] = "failed")
        /\ r \in Detached => row'[c] # "pending_approval"
    BY <1>1, <1>19 DEF Unwinds, FailedUnsettled
  <2>3. ~Ahead(r, i)' /\ (Behind(r, i)' => r \in Detached)
    BY <2>1 DEF Ahead, Behind
  <2> QED BY <1>1, <1>2, <2>1, <2>2, <2>3 DEF CallInv
<1>20. CASE Fails(r)
  <2>1. /\ at[r] = "failing" /\ at'[r] = "failed" /\ UNCHANGED <<next, pending>>
    BY <1>4, <1>20 DEF Fails
  <2>2. /\ row'[c] = row[c] \/ (row[c] = "pending_approval" /\ row'[c] = "failed")
        /\ r \notin Awaited => row'[c] # "pending_approval"
    BY <1>1, <1>20 DEF Fails, FailedUnsettled
  <2>3. ~Ahead(r, i)' /\ (Behind(r, i)' => r \notin Awaited)
    BY <2>1 DEF Ahead, Behind
  <2> QED BY <1>1, <1>2, <2>1, <2>2, <2>3 DEF CallInv
<1>21. CASE FailureSettles(r)
  <2>1. /\ at[r] = "failed" /\ at'[r] \in {"closing", "over"} /\ outcome'[r] = "failed"
        /\ UNCHANGED <<row, next, pending>>
    BY <1>17, <1>21 DEF FailureSettles
  <2>2. ~Ahead(r, i)' /\ (Behind(r, i)' => Behind(r, i))
    BY <2>1, RunsAssumption DEF Ahead, Behind
  <2> QED BY <2>1, <2>2, SameRow
<1>22. CASE Closes(r)
  <2>1. /\ at[r] = "closing" /\ at'[r] = "over" /\ UNCHANGED <<row, next, outcome, pending>>
    BY <1>4, <1>22 DEF Closes
  <2>2. ~Ahead(r, i)' /\ (Behind(r, i)' => Behind(r, i))
    BY <2>1 DEF Ahead, Behind
  <2> QED BY <2>1, <2>2, SameRow
<1> QED BY <1>5, <1>6, <1>7, <1>8, <1>10, <1>11, <1>14, <1>15, <1>16, <1>18, <1>19, <1>20,
           <1>21, <1>22 DEF Loop

(* People, timers, and the end of the process: a waiter that is settled    *)
(* while it waits was settled by nothing before.                           *)
LEMMA Answering ==
  ASSUME TypeOK, NEW s \in Run, NEW j \in 1 .. Len(batch[s]), CallInv(s, j),
         UNCHANGED <<batch, at, next, outcome, row>>,
         batch[s][j] \in pending' => batch[s][j] \in pending,
         \/ taken'[batch[s][j]] = taken[batch[s][j]]
         \/ /\ batch[s][j] \in pending /\ batch[s][j] \notin pending'
            /\ taken'[batch[s][j]] # "none"
  PROVE  CallInv(s, j)'
BY DEF CallInv, Ahead, Behind

LEMMA OutsideCalls ==
  ASSUME TypeOK, Placed, CallsInv, Next, ~\E r \in Run : Loop(r)
  PROVE  CallsInv'
<1> USE DEF store, waits, people
<1>1. batch' = batch
  BY DEF Next, ModelFails, AskStop, Check, Probe, Bury, Deliver, Expire, Timer, Cancel, Crash
<1> SUFFICES ASSUME NEW s \in Run, NEW j \in 1 .. Len(batch[s]) PROVE CallInv(s, j)'
  BY <1>1 DEF CallsInv
<1> DEFINE c == batch[s][j]
<1>2. c \in Call /\ Asks(s, c) /\ CallInv(s, j)
  BY CallAt DEF CallsInv, Asks
<1>3. ASSUME NEW r \in Run, ModelFails(r) PROVE CallInv(s, j)'
  <2>1. UNCHANGED <<next, outcome, row, pending, taken>>
    BY <1>3 DEF ModelFails
  <2>2. /\ at[r] \in {"calling", "answering"} /\ at'[r] = "failing"
        /\ \A q \in Run \ {r} : at'[q] = at[q]
    BY <1>3 DEF ModelFails, Goes, TypeOK
  <2>3. ASSUME To[c] # NoRun, at[To[c]] = "off" PROVE at'[To[c]] = "off"
    <3>1. To[c] \in Run \ {r}
      BY <1>2, <2>2, <2>3, CallsAssumption DEF Run
    <3> QED BY <2>2, <2>3, <3>1
  <2>4. CASE s = r
    <3>1. ~Ahead(s, j)' /\ ~Behind(s, j)'
      BY <2>2, <2>4 DEF Ahead, Behind
    <3> QED BY <1>1, <1>2, <2>1, <2>2, <2>4, <3>1 DEF CallInv
  <2>5. CASE s # r
    <3>1. at'[s] = at[s]
      BY <2>2, <2>5
    <3> QED BY <1>1, <1>2, <2>1, <2>3, <3>1, Untouched
  <2> QED BY <2>4, <2>5
<1>4. CASE UNCHANGED <<at, next, outcome, row, pending, taken>>
  BY <1>1, <1>2, <1>4 DEF CallInv, Ahead, Behind
<1>5. ASSUME NEW p \in Person, Bury(p) PROVE CallInv(s, j)'
  <2>1. UNCHANGED <<at, next, outcome, pending, taken>>
    BY <1>5 DEF Bury
  <2>2. row'[c] = row[c] \/ (row[c] = "pending_approval" /\ row'[c] = "failed")
    BY <1>2, <1>5 DEF Bury, FailedUnsettled
  <2> QED BY <1>1, <1>2, <2>1, <2>2, Untouched
<1>6. ASSUME NEW C \in SUBSET pending, NEW reply \in Settlement \ {"none"},
             pending' = pending \ C, taken' = Resolved(C, reply),
             UNCHANGED <<at, next, outcome, row>>
      PROVE  CallInv(s, j)'
  <2>1. \/ taken'[c] = taken[c]
        \/ c \in pending /\ c \notin pending' /\ taken'[c] # "none"
    BY <1>2, <1>6 DEF Resolved
  <2> QED BY <1>1, <1>2, <1>6, <2>1, Answering
<1>7. ASSUME NEW p \in Person, Deliver(p) PROVE CallInv(s, j)'
  <2>1. UNCHANGED <<at, next, outcome, row>>
    BY <1>7 DEF Deliver
  <2>2. CASE decision[p].call \in pending
    <3>1. Signals(decision[p].call, decision[p].reply)
      BY <1>7, <2>2 DEF Deliver
    <3>2. decision[p].reply \in Settlement \ {"none"}
      BY DEF TypeOK, Decision, Settlement, Reply
    <3> QED BY <1>6, <2>1, <2>2, <3>1, <3>2 DEF Signals
  <2>3. CASE decision[p].call \notin pending
    BY <1>4, <1>7, <2>1, <2>3 DEF Deliver
  <2> QED BY <2>2, <2>3
<1>8. ASSUME NEW d \in Call, Timer(d) PROVE CallInv(s, j)'
  BY <1>6, <1>8 DEF Timer, Signals, Settlement
<1>9. CASE Cancel
  <2>1. UNCHANGED <<at, next, outcome, row>>
    BY <1>9 DEF Cancel
  <2>2. PICK C \in SUBSET pending : pending' = pending \ C /\ taken' = Resolved(C, "stop")
    BY <1>9 DEF Cancel
  <2> QED BY <1>6, <2>1, <2>2 DEF Settlement
<1>10. CASE Crash
  <2>1. /\ \A q \in Run : at'[q] = IF at[q] \in {"off", "over"} THEN at[q] ELSE "gone"
        /\ pending' = {} /\ UNCHANGED <<next, outcome, row, taken>>
    BY <1>10 DEF Crash
  <2>2. Ahead(s, j)' => at[s] = "off"
    BY <2>1 DEF Ahead
  <2>3. Behind(s, j)' => at[s] = "over" /\ Behind(s, j)
    BY <2>1 DEF Behind
  <2>4. To[c] # NoRun /\ at[To[c]] = "off" => at'[To[c]] = "off"
    BY <1>2, <2>1, CallsAssumption DEF Run
  <2> QED BY <1>1, <1>2, <2>1, <2>2, <2>3, <2>4 DEF CallInv, Ahead
<1>11. ASSUME NEW r \in Run, AskStop(r) PROVE CallInv(s, j)'
  BY <1>4, <1>11 DEF AskStop
<1>12. ASSUME NEW p \in Person, Check(p) \/ Probe(p) PROVE CallInv(s, j)'
  BY <1>4, <1>12 DEF Check, Probe
<1>13. ASSUME NEW d \in Call, Expire(d) PROVE CallInv(s, j)'
  BY <1>4, <1>13 DEF Expire
<1> QED BY <1>3, <1>5, <1>7, <1>8, <1>9, <1>10, <1>11, <1>12, <1>13 DEF Next

(***************************************************************************)
(* The people, and what their requests were told.                          *)
(***************************************************************************)

(* A request names a call on record; one that goes on came in time, and    *)
(* one that was let through, to a run that was waiting; the one that       *)
(* reached the call's waiter settled it.                                   *)
Request(p) ==
  LET d == decision[p]
  IN  /\ d.stage # "idle" => d.call \in Human /\ row[d.call] # "none"
      /\ d.stage \in {"checked", "active", "dead", "delivered", "dropped"} => ~d.late
      /\ d.stage \in {"active", "delivered", "dropped"} => ~d.over
      /\ d.stage = "checked" /\ d.over => IsOver(Owner(d.call))
      /\ d.stage = "delivered" => taken[d.call] = d.reply
Requests == \A p \in Person : Request(p)

(* Only the turn is registered, and not once it is over. *)
Lives == live \subseteq {Top} /\ (IsOver(Top) => live = {})

ParkedInv == TypeOK /\ Placed /\ CallsInv /\ Asked /\ Requests /\ Lives

LEMMA OwnerAsks ==
  ASSUME TypeOK, NEW c \in Call, NEW r \in Run, Asks(r, c)
  PROVE  Owner(c) = r
<1>1. \A s \in Run : Asks(s, c) => s = r
  BY Distinct DEF Asks
<1> QED BY <1>1 DEF Owner

(* A run's batch is asked for once: so is the run that asks for a call. *)
LEMMA SameOwner ==
  ASSUME UNCHANGED batch, NEW c
  PROVE  /\ Owner(c)' = Owner(c)
         /\ \A r : Asks(r, c)' <=> Asks(r, c)
BY DEF Owner, Asks

LEMMA Recorded ==
  ASSUME ParkedInv, NEW c \in Call, row[c] # "none" \/ c \in pending
  PROVE  /\ Owner(c) \in Run /\ Asks(Owner(c), c)
         /\ \E i \in 1 .. Len(batch[Owner(c)]) : batch[Owner(c)][i] = c /\ CallInv(Owner(c), i)
<1>1. PICK r \in Run : Asks(r, c)
  BY DEF ParkedInv, Asked
<1>2. Owner(c) = r
  BY <1>1, OwnerAsks DEF ParkedInv
<1> QED BY <1>1, <1>2 DEF ParkedInv, CallsInv, Asks

(* The loop of a run that is over takes no step, and leaves no row blank   *)
(* that was not; only a run that closes is over after a step.              *)
LEMMA LoopForward ==
  ASSUME TypeOK, Placed, CallsInv, NEW r \in Run, Loop(r)
  PROVE  /\ at[r] \notin {"over", "gone"}
         /\ \A c \in Call : row[c] # "none" => row'[c] # "none"
         /\ live' = live \/ (live' = live \ {r} /\ at[r] = "closing")
         /\ r = Top /\ at'[r] \in {"over", "gone"} => live' = live \ {r}
<1> USE DEF store, waits, people
<1>1. \A place : Goes(r, place) => at'[r] = place
  BY DEF Goes, TypeOK
<1>2. \A status : status # "none" /\ Records(r, status) =>
        \A c \in Call : row[c] # "none" => row'[c] # "none"
  BY DEF Records, TypeOK
<1>3. \A c \in Call : row[c] # "none" => FailedUnsettled(r)[c] # "none"
  BY DEF FailedUnsettled
<1>4. Proceeds(r) => at'[r] \in {"last", "turn"}
  BY <1>1 DEF Proceeds
<1>5. \A how : HandsOver(r, how) => at'[r] = IF r = Top THEN "closing" ELSE "over"
  BY <1>1 DEF HandsOver
<1>6. CASE Calls(r) \/ Answered(r) \/ Dispatch(r) \/ Park(r)
  BY <1>1, <1>6 DEF Calls, Answered, Dispatch, Park
<1>7. CASE Claim(r)
  BY <1>1, <1>2, <1>7 DEF Claim
<1>8. CASE Delegate(r)
  BY <1>8 DEF Delegate, TypeOK
<1>9. CASE Detach(r)
  BY <1>2, <1>9 DEF Detach, TypeOK
<1>10. CASE Join(r)
  BY <1>1, <1>2, <1>4, <1>10 DEF Join
<1>11. CASE Wake(r)
  BY <1>1, <1>2, <1>4, <1>11 DEF Wake
<1>12. CASE Execute(r)
  BY <1>2, <1>4, <1>12 DEF Execute
<1>13. CASE Completes(r)
  BY <1>5, <1>13 DEF Completes, HandsOver
<1>14. CASE Unwinds(r)
  <2>1. \A c \in Call : row[c] # "none" => row'[c] # "none"
    BY <1>3, <1>14 DEF Unwinds
  <2> QED BY <1>5, <1>14, <2>1 DEF Unwinds, HandsOver
<1>15. CASE Fails(r)
  <2>1. \A c \in Call : row[c] # "none" => row'[c] # "none"
    BY <1>3, <1>15 DEF Fails
  <2> QED BY <1>1, <1>15, <2>1 DEF Fails
<1>16. CASE FailureSettles(r)
  BY <1>5, <1>16 DEF FailureSettles, HandsOver
<1>17. CASE Closes(r)
  BY <1>1, <1>17 DEF Closes
<1> QED BY <1>6, <1>7, <1>8, <1>9, <1>10, <1>11, <1>12, <1>13, <1>14, <1>15, <1>16, <1>17
        DEF Loop

(* A request goes on as it was: its call's row and waiter still say what   *)
(* they said of it, and its run is over if it was.                         *)
LEMMA SameRequest ==
  ASSUME ParkedInv, NEW p \in Person, decision'[p] = decision[p], UNCHANGED batch,
         row[decision[p].call] # "none" => row'[decision[p].call] # "none",
         taken'[decision[p].call] = taken[decision[p].call]
           \/ taken[decision[p].call] \notin Reply,
         \A r \in Run : IsOver(r) => IsOver(r)'
  PROVE  Request(p)'
<1> DEFINE c == decision[p].call
<1>1. Request(p) /\ c \in Call /\ decision[p].reply \in Reply
  BY DEF ParkedInv, Requests, TypeOK, Decision
<1>2. Owner(c)' = Owner(c)
  BY SameOwner
<1>3. ASSUME decision[p].stage = "checked", decision[p].over PROVE IsOver(Owner(c))'
  <2>1. Owner(c) \in Run /\ IsOver(Owner(c))
    BY <1>1, <1>3, Recorded DEF Request
  <2> QED BY <1>2, <2>1 DEF IsOver
<1>4. Owner(decision[p].call)' = Owner(c)
  BY DEF Owner, Asks
<1> QED BY <1>1, <1>2, <1>3, <1>4 DEF Request, Reply

LEMMA InitParked == Init => ParkedInv
<1> SUFFICES ASSUME Init PROVE CallsInv /\ Asked /\ Requests /\ Lives
  BY InitType DEF ParkedInv
<1>1. TypeOK
  BY InitType
<1>2. CallsInv
  <2> SUFFICES ASSUME NEW r \in Run, NEW i \in 1 .. Len(batch[r]) PROVE CallInv(r, i)
    BY DEF CallsInv
  <2>1. batch[r][i] \in Call
    BY <1>1, CallAt
  <2>2. row[batch[r][i]] = "none" /\ taken[batch[r][i]] = "none" /\ pending = {}
    BY <2>1 DEF Init
  <2>3. at[r] \in {"model", "off"} /\ outcome[r] = "none"
    BY DEF Init
  <2>4. To[batch[r][i]] # NoRun => at[To[batch[r][i]]] = "off"
    BY <2>1, CallsAssumption, RunsAssumption DEF Init, Run
  <2> QED BY <2>2, <2>3, <2>4 DEF CallInv, Behind
<1>3. Asked /\ Requests /\ Lives
  BY DEF Init, Asked, Requests, Request, Lives, IsOver, Run
<1> QED BY <1>2, <1>3

LEMMA LoopKeepsParked ==
  ASSUME ParkedInv, NEW r \in Run, Loop(r)
  PROVE  ParkedInv'
<1>1. TypeOK /\ Placed /\ CallsInv /\ Asked /\ Requests /\ Lives
  BY DEF ParkedInv
<1>2. TypeOK' /\ Placed'
  BY <1>1, LoopType
<1>3. UNCHANGED <<taken, batch, decision, late>> /\ at[r] # "off"
      /\ OthersStay(r) /\ OtherRowsStay(r)
  BY <1>1, LoopFrame
<1>4. /\ at[r] \notin {"over", "gone"}
      /\ \A c \in Call : row[c] # "none" => row'[c] # "none"
      /\ live' = live \/ (live' = live \ {r} /\ at[r] = "closing")
      /\ r = Top /\ at'[r] \in {"over", "gone"} => live' = live \ {r}
  BY <1>1, LoopForward
<1>5. CallsInv'
  <2> SUFFICES ASSUME NEW s \in Run, NEW j \in 1 .. Len(batch[s]) PROVE CallInv(s, j)'
    BY <1>3 DEF CallsInv
  <2>1. CASE s = r
    BY <1>1, <2>1, LoopOwn
  <2>2. CASE s # r
    BY <1>1, <2>2, LoopOthers
  <2> QED BY <2>1, <2>2
<1>6. Asked'
  <2> SUFFICES ASSUME NEW c \in Call, (row[c] # "none" \/ c \in pending)'
               PROVE  \E s \in Run : Asks(s, c)'
    BY DEF Asked
  <2>1. CASE Asks(r, c)
    BY <1>3, <2>1, SameOwner
  <2>2. CASE ~Asks(r, c)
    <3>1. row[c] # "none" \/ c \in pending
      BY <1>3, <2>2 DEF OtherRowsStay
    <3>2. PICK s \in Run : Asks(s, c)
      BY <1>1, <3>1 DEF Asked
    <3> QED BY <1>3, <3>2, SameOwner
  <2> QED BY <2>1, <2>2
<1>7. \A s \in Run : IsOver(s) => IsOver(s)'
  BY <1>3, <1>4 DEF IsOver, OthersStay
<1>8. Requests'
  <2> SUFFICES ASSUME NEW p \in Person PROVE Request(p)'
    BY DEF Requests
  <2>1. decision[p].call \in Call
    BY <1>1 DEF TypeOK, Decision
  <2> QED BY <1>3, <1>4, <1>7, <2>1, SameRequest
<1>9. Lives'
  <2>1. Top \in Run
    BY DEF Run
  <2>2. CASE r = Top
    BY <1>1, <1>4, <2>2 DEF Lives, IsOver
  <2>3. CASE r # Top
    <3>1. IsOver(Top)' => IsOver(Top)
      BY <1>3, <2>1, <2>3 DEF OthersStay, IsOver
    <3> QED BY <1>1, <1>4, <3>1 DEF Lives
  <2> QED BY <2>2, <2>3
<1> QED BY <1>2, <1>5, <1>6, <1>8, <1>9 DEF ParkedInv

(* A decision is one of a call on record, and goes through one request. *)
LEMMA OutsideKeepsParked ==
  ASSUME ParkedInv, Next, ~\E r \in Run : Loop(r)
  PROVE  ParkedInv'
<1> USE DEF store, waits, people
<1>1. TypeOK /\ Placed /\ CallsInv /\ Asked /\ Requests /\ Lives
  BY DEF ParkedInv
<1>2. TypeOK' /\ Placed' /\ CallsInv'
  BY <1>1, OutsideType, OutsideCalls
<1>3. /\ UNCHANGED batch
      /\ \A c \in Call : row[c] # "none" <=> row'[c] # "none"
      /\ pending' \subseteq pending
  <2>1. \A r : \A c \in Call : row[c] # "none" <=> FailedUnsettled(r)[c] # "none"
    BY DEF FailedUnsettled
  <2>2. ASSUME NEW p \in Person, Bury(p)
        PROVE  \A c \in Call : row[c] # "none" <=> row'[c] # "none"
    BY <2>1, <2>2 DEF Bury
  <2> QED BY <2>2 DEF Next, ModelFails, AskStop, Check, Probe, Bury, Deliver, Signals, Expire,
                      Timer, Cancel, Crash
<1>4. Asked'
  BY <1>1, <1>3, SameOwner DEF Asked
<1>5. \A r \in Run : IsOver(r) => IsOver(r)'
  <2>1. ASSUME NEW q \in Run, ModelFails(q) PROVE \A r \in Run : IsOver(r) => IsOver(r)'
    BY <1>1, <2>1 DEF ModelFails, Goes, TypeOK, IsOver
  <2>2. CASE Crash
    BY <2>2 DEF Crash, IsOver
  <2>3. CASE UNCHANGED at
    BY <2>3 DEF IsOver
  <2> QED BY <2>1, <2>2, <2>3 DEF Next, AskStop, Check, Probe, Bury, Deliver, Expire, Timer, Cancel
<1>6. Lives'
  <2>1. CASE Crash
    BY <2>1 DEF Crash, Lives
  <2>2. ASSUME NEW q \in Run, ModelFails(q) PROVE Lives'
    <3>1. IsOver(Top)' => IsOver(Top)
      BY <1>1, <2>2 DEF ModelFails, Goes, TypeOK, IsOver, Run
    <3> QED BY <1>1, <2>2, <3>1 DEF ModelFails, Lives
  <2>3. CASE UNCHANGED <<at, live>>
    BY <1>1, <2>3 DEF Lives, IsOver
  <2> QED BY <2>1, <2>2, <2>3 DEF Next, AskStop, Check, Probe, Bury, Deliver, Expire, Timer, Cancel
<1>7. Requests'
  <2> SUFFICES ASSUME NEW p \in Person PROVE Request(p)'
    BY DEF Requests
  <2>1. Request(p) /\ decision[p] \in Decision
    BY <1>1 DEF Requests, TypeOK
  <2>2. ASSUME decision'[p] = decision[p], UNCHANGED taken PROVE Request(p)'
    <3>1. decision[p].call \in Call
      BY <2>1 DEF Decision
    <3> QED BY <1>3, <1>5, <2>2, <3>1, SameRequest
  <2>3. ASSUME NEW C \in SUBSET pending, NEW reply, taken' = Resolved(C, reply),
               decision'[p] = decision[p]
        PROVE  Request(p)'
    <3>1. decision[p].call \in Call
      BY <2>1 DEF Decision
    <3>2. taken'[decision[p].call] = taken[decision[p].call] \/ taken[decision[p].call] = "none"
      BY <2>3, <3>1 DEF Resolved
    <3> QED BY <1>3, <1>5, <2>3, <3>1, <3>2, SameRequest DEF Reply
  <2>4. ASSUME NEW q \in Person, Check(q) PROVE Request(p)'
    <3>1. CASE q # p
      BY <1>1, <2>2, <2>4, <3>1 DEF Check, TypeOK
    <3>2. CASE q = p
      <4>1. PICK c \in Human, reply \in Reply :
              /\ row[c] # "none"
              /\ decision' = [decision EXCEPT ![p] =
                   [stage |-> IF Lapsed(c) THEN "refused" ELSE "checked", call |-> c,
                    reply |-> reply,
                    late |-> row[c] = "expired" \/ (c \in late /\ row[c] = "pending_approval"),
                    over |-> IsOver(Owner(c))]]
        BY <2>4, <3>2 DEF Check
      <4>2. decision'[p] = [stage |-> IF Lapsed(c) THEN "refused" ELSE "checked", call |-> c,
                            reply |-> reply,
                            late |-> row[c] = "expired" \/ (c \in late /\ row[c] = "pending_approval"),
                            over |-> IsOver(Owner(c))]
        BY <1>1, <4>1 DEF TypeOK
      <4>3. c \in Call /\ Owner(c) \in Run
        BY <4>1, Recorded DEF Human
      <4>4. UNCHANGED <<at, batch, row, taken>>
        BY <1>3, <2>4 DEF Check
      <4>5. /\ decision'[p].stage = IF Lapsed(c) THEN "refused" ELSE "checked"
            /\ decision'[p].call = c
            /\ decision'[p].late
                 = (row[c] = "expired" \/ (c \in late /\ row[c] = "pending_approval"))
            /\ decision'[p].over = IsOver(Owner(c))
        <5> HIDE DEF Lapsed, IsOver
        <5> QED BY <4>2
      <4>6. decision'[p].stage = "checked" => ~decision'[p].late
        BY <4>5 DEF Lapsed
      <4>7. Owner(decision[p].call)' = Owner(c)
        BY <4>4, <4>5 DEF Owner, Asks
      <4>8. decision'[p].over => IsOver(Owner(decision[p].call))'
        <5>1. at[Owner(decision[p].call)]' = at[Owner(c)]
          BY <4>4, <4>7
        <5> QED BY <4>5, <5>1 DEF IsOver
      <4> QED BY <4>1, <4>4, <4>5, <4>6, <4>8 DEF Request
    <3> QED BY <3>1, <3>2
  <2>5. ASSUME NEW q \in Person, NEW stage, Reaches(q, stage), q # p
        PROVE  decision'[p] = decision[p]
    BY <1>1, <2>5 DEF Reaches, TypeOK
  <2>6. ASSUME NEW stage, Reaches(p, stage)
        PROVE  /\ decision'[p].stage = stage /\ decision'[p].call = decision[p].call
               /\ decision'[p].reply = decision[p].reply
               /\ decision'[p].late = decision[p].late /\ decision'[p].over = decision[p].over
    BY <1>1, <2>1, <2>6 DEF Reaches, TypeOK, Decision
  <2>7. ASSUME NEW q \in Person, Probe(q) PROVE Request(p)'
    <3>1. CASE q # p
      BY <2>2, <2>5, <2>7, <3>1 DEF Probe
    <3>2. CASE q = p
      <4> DEFINE c == decision[p].call
      <4>1. decision[p].stage = "checked" /\ c \in Human /\ row[c] # "none" /\ ~decision[p].late
        BY <2>1, <2>7, <3>2 DEF Probe, Request
      <4>2. IsRunActive(Owner(c)) => ~IsOver(Owner(c))
        <5>1. Owner(c) \in Run
          BY <4>1, Recorded DEF Human
        <5>2. Owner(c) \in live => ~IsOver(Owner(c))
          BY <1>1 DEF Lives
        <5>3. ASSUME NEW d \in pending, Asks(Owner(c), d) PROVE at[Owner(c)] = "parked"
          <6>1. d \in Call
            BY <1>1 DEF TypeOK
          <6> QED BY <1>1, <5>1, <5>3, <6>1 DEF Asks, CallsInv, CallInv
        <5> QED BY <5>2, <5>3 DEF IsRunActive, IsOver
      <4>3. CASE IsRunActive(Owner(c))
        <5>1. Reaches(p, "active")
          BY <2>7, <3>2, <4>3 DEF Probe
        <5>2. ~decision[p].over
          BY <2>1, <4>1, <4>2, <4>3 DEF Request
        <5> QED BY <1>3, <2>6, <4>1, <5>1, <5>2 DEF Request, Human
      <4>4. CASE ~IsRunActive(Owner(c))
        <5>1. Reaches(p, "dead")
          BY <2>7, <3>2, <4>4 DEF Probe
        <5> QED BY <1>3, <2>6, <4>1, <5>1 DEF Request, Human
      <4> QED BY <4>3, <4>4
    <3> QED BY <3>1, <3>2
  <2>8. ASSUME NEW q \in Person, Bury(q) PROVE Request(p)'
    <3>1. CASE q # p
      BY <2>2, <2>5, <2>8, <3>1 DEF Bury
    <3>2. CASE q = p
      BY <1>3, <2>1, <2>6, <2>8, <3>2 DEF Bury, Request, Human
    <3> QED BY <3>1, <3>2
  <2>9. ASSUME NEW q \in Person, Deliver(q) PROVE Request(p)'
    <3> DEFINE c == decision[q].call
    <3>1. CASE q # p /\ c \in pending
      <4>1. Reaches(q, "delivered") /\ taken' = Resolved({c}, decision[q].reply)
        BY <2>9, <3>1 DEF Deliver, Signals
      <4> QED BY <2>3, <2>5, <3>1, <4>1
    <3>2. CASE q # p /\ c \notin pending
      <4>1. Reaches(q, "dropped") /\ UNCHANGED taken
        BY <2>9, <3>2 DEF Deliver
      <4> QED BY <2>2, <2>5, <3>2, <4>1
    <3>3. CASE q = p
      <4>1. /\ decision[p].stage = "active" /\ c \in Human /\ row[c] # "none"
            /\ ~decision[p].late /\ ~decision[p].over
        BY <2>1, <2>9, <3>3 DEF Deliver, Request
      <4>2. CASE c \in pending
        <5>1. Reaches(p, "delivered") /\ taken' = Resolved({c}, decision[p].reply)
          BY <2>9, <3>3, <4>2 DEF Deliver, Signals
        <5>2. taken[c] = "none"
          <6>1. c \in Call
            BY <4>1 DEF Human
          <6> QED BY <4>2, <6>1, Recorded DEF CallInv
        <5>3. taken'[c] = decision[p].reply
          BY <4>1, <5>1, <5>2 DEF Resolved, Human
        <5> QED BY <1>3, <2>6, <3>3, <4>1, <5>1, <5>3 DEF Request, Human
      <4>3. CASE c \notin pending
        <5>1. Reaches(p, "dropped") /\ UNCHANGED taken
          BY <2>9, <3>3, <4>3 DEF Deliver
        <5> QED BY <1>3, <2>6, <3>3, <4>1, <5>1 DEF Request, Human
      <4> QED BY <4>2, <4>3
    <3> QED BY <3>1, <3>2, <3>3
  <2>10. ASSUME NEW d \in Call, Timer(d) PROVE Request(p)'
    BY <2>3, <2>10 DEF Timer, Signals
  <2>11. CASE Cancel
    BY <2>3, <2>11 DEF Cancel
  <2>12. CASE Crash
    <3>1. UNCHANGED <<row, taken>>
      BY <2>12 DEF Crash
    <3>2. decision'[p] = IF decision[p].stage \in {"checked", "active", "dead"}
                         THEN [decision[p] EXCEPT !.stage = "lost"] ELSE decision[p]
      BY <2>12 DEF Crash
    <3>3. CASE decision'[p] = decision[p]
      BY <2>2, <3>1, <3>3
    <3>4. CASE decision'[p] = [decision[p] EXCEPT !.stage = "lost"]
                 /\ decision[p].stage \in {"checked", "active", "dead"}
      <4>1. decision'[p].stage = "lost" /\ decision'[p].call = decision[p].call
        BY <2>1, <3>4 DEF Decision
      <4> QED BY <2>1, <3>1, <3>4, <4>1 DEF Request
    <3> QED BY <3>2, <3>3, <3>4
  <2>13. ASSUME NEW r \in Run, ModelFails(r) \/ AskStop(r) PROVE Request(p)'
    BY <2>2, <2>13 DEF ModelFails, AskStop
  <2>14. ASSUME NEW d \in Call, Expire(d) PROVE Request(p)'
    BY <2>2, <2>14 DEF Expire
  <2> QED BY <2>4, <2>7, <2>8, <2>9, <2>10, <2>11, <2>12, <2>13, <2>14 DEF Next
<1> QED BY <1>2, <1>4, <1>6, <1>7 DEF ParkedInv

LEMMA ParkedInvariant == Spec => []ParkedInv
<1>1. ParkedInv /\ [Next]_vars => ParkedInv'
  <2> SUFFICES ASSUME ParkedInv, [Next]_vars PROVE ParkedInv'
    OBVIOUS
  <2>1. CASE \E r \in Run : Loop(r)
    BY <2>1, LoopKeepsParked
  <2>2. CASE Next /\ ~\E r \in Run : Loop(r)
    BY <2>2, OutsideKeepsParked
  <2>3. CASE UNCHANGED vars
    <3>1. TypeOK' /\ Placed' /\ Asked' /\ Lives'
      BY <2>3 DEF vars, ParkedInv, TypeOK, Placed, Asked, Asks, Lives, IsOver
    <3>2. CallsInv'
      BY <2>3 DEF vars, ParkedInv, CallsInv, CallInv, Ahead, Behind
    <3>3. ASSUME NEW p \in Person PROVE Request(p)'
      BY <2>3, SameRequest DEF vars, IsOver
    <3> QED BY <3>1, <3>2, <3>3 DEF ParkedInv, Requests
  <2> QED BY <2>1, <2>2, <2>3
<1> QED BY InitParked, <1>1, PTL DEF Spec

(* Whatever order a decision, its timer, a Stop and a restart come in, a   *)
(* call's row says what settled the call, and a decision that reached the  *)
(* waiter is what settled it: for any batches, any nesting of sub-agents   *)
(* and any number of people, Stops and faults.                             *)
THEOREM RecordedRight == Spec => []RecordedAsDecided
<1>1. ASSUME ParkedInv PROVE RecordedAsDecided
  <2>1. ASSUME NEW c \in Human
        PROVE  /\ row[c] = "executed" => taken[c] = "approve"
               /\ row[c] = "rejected" => taken[c] = "reject"
               /\ row[c] = "expired"  => taken[c] = "lapse"
    <3>1. c \in Call /\ To[c] = NoRun
      BY DEF Human
    <3>2. CASE row[c] = "none"
      BY <3>2
    <3>3. CASE row[c] # "none"
      BY <1>1, <3>1, <3>3, Recorded DEF CallInv
    <3> QED BY <3>2, <3>3
  <2>2. ASSUME NEW p \in Person, decision[p].stage = "delivered"
        PROVE  taken[decision[p].call] = decision[p].reply
    BY <1>1, <2>2 DEF ParkedInv, Requests, Request
  <2> QED BY <2>1, <2>2 DEF RecordedAsDecided
<1> QED BY <1>1, ParkedInvariant, PTL

(* A decision that was taken is on the row of its call once the run of the *)
(* call is over: another request that found a run dead, and failed the     *)
(* calls it left, took none that was decided.                              *)
THEOREM DecisionKept == Spec => []DecisionIsKept
<1>1. ASSUME ParkedInv PROVE DecisionIsKept
  <2> SUFFICES ASSUME NEW p \in Person, decision[p].stage = "delivered",
                      at[Owner(decision[p].call)] = "over"
               PROVE  row[decision[p].call] \in
                        (IF decision[p].reply = "approve" THEN {"executed", "failed"}
                         ELSE {"rejected"})
    BY DEF DecisionIsKept
  <2>1. /\ decision[p].call \in Call /\ decision[p].reply \in Reply
        /\ row[decision[p].call] # "none"
        /\ taken[decision[p].call] = decision[p].reply
    BY <1>1 DEF ParkedInv, TypeOK, Decision, Requests, Request
  <2> QED BY <1>1, <2>1, Recorded DEF CallInv, Reply
<1> QED BY <1>1, ParkedInvariant, PTL

(* No request that came after the approval lapsed, or when the run was     *)
(* over or lost, is let through to a waiter.                               *)
THEOREM LateRefused == Spec => []TooLateIsRefused
<1>1. ParkedInv => TooLateIsRefused
  BY DEF ParkedInv, Requests, Request, TooLateIsRefused
<1> QED BY <1>1, ParkedInvariant, PTL

(* No card waits on a run that completed, on a turn or a detached run that *)
(* failed, or on a detached run that was stopped.                          *)
THEOREM NoCardWaits == Spec => []CardsClose
<1>1. ASSUME ParkedInv PROVE CardsClose
  <2> SUFFICES ASSUME NEW r \in Run, at[r] = "over",
                      r \in Detached \/ outcome[r] = "completed"
                                     \/ (r = Top /\ outcome[r] = "failed"),
                      NEW c \in Call, Asks(r, c)
               PROVE  row[c] # "pending_approval"
    BY DEF CardsClose
  <2>1. PICK i \in 1 .. Len(batch[r]) : batch[r][i] = c
    BY DEF Asks
  <2> QED BY <1>1, <2>1 DEF ParkedInv, CallsInv, CallInv, Behind
<1> QED BY <1>1, ParkedInvariant, PTL
=============================================================================
