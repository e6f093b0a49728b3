---------------------------- MODULE ChannelTurns ----------------------------
(***************************************************************************)
(* One conversation of a text channel under the durable executor: the      *)
(* provider's webhooks, the jobs they become, run one at a time and phase  *)
(* by phase (act, then read), the timers of the questions the turns ask,   *)
(* and the channel store whose keys make each of them happen once. An end  *)
(* of the process loses what is in memory; a phase that did not end runs   *)
(* again. A call that throws may have had its effect: a post that timed    *)
(* out was perhaps delivered, a send that failed perhaps started a turn.   *)
(* Left out: files, presses and text decisions, components, cards of       *)
(* proposals, the turn's own deadline while its run is working; and a run  *)
(* says something before it asks.                                          *)
(***************************************************************************)
EXTENDS Naturals, Sequences, FiniteSets

CONSTANTS Message,
          NoQuestion,
          Scripts      \* the messages the person sends, how many questions the turn
                       \* of each asks, and which are no valid answer to one. Bounds:
                       \* ends of the process; outages, in which one call of a store,
                       \* an engine, a service or a provider throws, and perhaps the
                       \* call that undoes what came before it

ASSUME ScriptsAssumption ==
  Scripts \subseteq [sends : SUBSET Message, questions : [Message -> Nat],
                     unclear : SUBSET Message, crashes : Nat, errors : Nat]
ASSUME NamesAssumption ==
  Message \cap {"free", "taken", "timeout", "nothing", "none"} = {}

VARIABLES script,   \* what the person sends, what the turns ask, what may fail
          hook,     \* each message's webhook
          line,     \* the jobs of the conversation that have not ended, in order
          outcome,  \* how each job ended
          work,     \* the phase the first of them is in: its place, and its locals
          key,      \* store: what each message came to
          question, \* store: the question in front of the person
          settled,  \* store: what settled each question set
          slots,    \* store: the numbered sends that were taken
          run,      \* where the run of each message's turn is
          timer,    \* the timer job of each run's question set
          sent,     \* how often each piece reached the person
          torn,     \* pieces whose number is taken by a send that did not return
          stray,    \* how often of those by a send that threw
          starts,   \* how many turns were started for each message
          orphans,  \* how many of those by a call that threw
          crashes, errors

outside == <<script, hook>>
jobs == <<line, outcome>>
store == <<key, question, settled, slots>>
person == <<sent, torn, stray>>
turns == <<starts, orphans>>
bounds == <<crashes, errors>>
vars == <<outside, jobs, work, store, run, timer, person, turns, bounds>>

Jobs == [kind : {"message", "resume"}, of : Message]

\* What a phase may send: a run's text up to its question, the question, the
\* text after it; or, in the handling of a message, the question that follows
\* the one it answers, or a refusal and the same question again.
Pieces == [by : {"run"}, of : Message, part : {"opening", "question", "rest"}]
          \cup [by : {"message"}, of : Message, part : {"next", "unclear", "again"}]
Piece(b, m, p) == [by |-> b, of |-> m, part |-> p]
Slots == [by : {"run", "message"}, of : Message, n : Nat]

\* The record under questionKey. `last` is the message whose answer came last.
Asked(r, i, m) == [run |-> r, index |-> i, last |-> m]
NoMessage == "none"
Records == [run : Message, index : Nat, last : Message \cup {NoMessage}]

Idle == [at |-> "idle", todo |-> <<>>, next |-> 0, then |-> "idle",
         got |-> NoQuestion, applied |-> FALSE]

Init == /\ script \in Scripts
        /\ hook = [m \in Message |-> IF m \in script.sends THEN "due" ELSE "unsent"]
        /\ line = <<>>
        /\ outcome = [j \in Jobs |-> "none"]
        /\ work = Idle
        /\ key = [m \in Message |-> "free"]
        /\ question = NoQuestion
        /\ settled = [m \in Message |-> "free"]
        /\ slots = {}
        /\ run = [m \in Message |-> "none"]
        /\ timer = [m \in Message |-> "none"]
        /\ sent = [p \in Pieces |-> 0]
        /\ torn = {}
        /\ starts = [m \in Message |-> 0]
        /\ stray = [p \in Pieces |-> 0]
        /\ orphans = [m \in Message |-> 0]
        /\ crashes = 0 /\ errors = 0

Throws == errors < script.errors /\ errors' = errors + 1 /\ UNCHANGED crashes

(***************************************************************************)
(* The webhook: the message id is claimed, the job is enqueued, and only   *)
(* then the provider gets its 200. It sends again until it does. A job is  *)
(* started once under its id, and the claim of one that could not be       *)
(* enqueued is given back, if that does not throw too.                     *)
(***************************************************************************)
Take(m) ==
  /\ hook[m] \in {"due", "orphan"}
  /\ hook' = [hook EXCEPT ![m] = CASE hook[m] = "due"    -> "claimed"
                                   [] hook[m] = "orphan" -> "dropped"]
  /\ UNCHANGED <<script, jobs, work, store, run, timer, person, turns, bounds>>

Enqueued(j) == line' = IF outcome[j] # "none" \/ j \in {line[i] : i \in DOMAIN line}
                       THEN line ELSE Append(line, j)

Enqueue(m) ==
  /\ hook[m] = "claimed"
  /\ \/ /\ hook' = [hook EXCEPT ![m] = "accepted"]
        /\ Enqueued([kind |-> "message", of |-> m])
        /\ UNCHANGED bounds
     \/ /\ Throws
        /\ \E given \in {"due", "orphan"} : hook' = [hook EXCEPT ![m] = given]
        /\ Enqueued([kind |-> "message", of |-> m]) \/ UNCHANGED line
  /\ UNCHANGED <<script, outcome, work, store, run, timer, person, turns>>

(***************************************************************************)
(* The phases of the job that holds the conversation.                      *)
(***************************************************************************)
Job == Head(line)
Result(m) == key[m] \in Message
Phase == IF Job.kind = "resume" \/ Result(Job.of) THEN "read" ELSE "act"
Reading == IF Job.kind = "resume" THEN Job.of ELSE key[Job.of]
At(place) == line # <<>> /\ work.at = place
Goes(place) == work' = [work EXCEPT !.at = place]
Restart(phase) == [Idle EXCEPT !.at = phase]
Sends(pieces, place) == work' = [work EXCEPT !.at = "send", !.todo = pieces, !.then = place]

Ends(o) == /\ outcome' = [outcome EXCEPT ![Job] = o]
           /\ line' = Tail(line)
           /\ work' = Idle

\* A retried phase starts over; an error that is not worth a retry fails the job.
Errs == Throws /\ \/ work' = Restart(Phase) /\ UNCHANGED jobs
                  \/ Ends("failed")

\* A call of a phase throws. (That it had its effect is the step that has it,
\* and the next call throwing; where what follows is different, the step says so.)
Calling == {"act", "answer", "settle", "mark", "clear", "begin", "nothing", "done",
            "read", "post", "follow", "send"}
Fails == /\ line # <<>> /\ work.at \in Calling
         /\ Errs
         /\ UNCHANGED <<outside, store, run, timer, person, turns>>

Begin == /\ At("idle")
         /\ work' = Restart(Phase)
         /\ UNCHANGED <<outside, jobs, store, run, timer, person, turns, bounds>>

\* act: is a question in front of the person?
Look ==
  /\ At("act")
  /\ IF question = NoQuestion THEN Goes("begin")
     ELSE work' = [work EXCEPT !.got = question,
                               !.applied = question.last = Job.of,
                               !.at = IF question.last = Job.of THEN "asked" ELSE "answer"]
  /\ UNCHANGED <<outside, jobs, store, run, timer, person, turns, bounds>>

\* answerQuestion: what the message answers is written to the record.
Answer ==
  /\ At("answer")
  /\ LET q == work.got
         r == Asked(q.run, q.index + 1, Job.of)
     IN \/ /\ q.index >= script.questions[q.run]
           /\ Goes("nothing")
           /\ UNCHANGED question
        \/ /\ q.index < script.questions[q.run] /\ Job.of \in script.unclear
           /\ Sends(<<Piece("message", Job.of, "unclear"),
                      Piece("message", Job.of, "again")>>, "nothing")
           /\ UNCHANGED question
        \/ /\ q.index < script.questions[q.run] /\ Job.of \notin script.unclear
           /\ question' = r
           /\ work' = [work EXCEPT !.at = "asked", !.got = r]
  /\ UNCHANGED <<outside, jobs, key, settled, slots, run, timer, person, turns, bounds>>

AskNext ==
  /\ At("asked")
  /\ IF work.got.index < script.questions[work.got.run]
     THEN Sends(<<Piece("message", Job.of, "next")>>, "nothing")
     ELSE Goes("settle")
  /\ UNCHANGED <<outside, jobs, store, run, timer, person, turns, bounds>>

\* Mutant: whoever settled it first, the answer goes on.
SettleAnyway ==
  /\ At("settle")
  /\ settled' = [settled EXCEPT ![work.got.run] = IF @ = "free" THEN "taken" ELSE @]
  /\ Goes(IF settled[work.got.run] = "free" THEN "mark" ELSE "tell")
  /\ UNCHANGED <<outside, jobs, key, question, slots, run, timer, person, turns, bounds>>

\* settleQuestion: a claim, and then the owner under the same key.
Settle ==
  /\ At("settle")
  /\ LET r == work.got.run IN
     \/ /\ settled[r] = "free"
        /\ settled' = [settled EXCEPT ![r] = "taken"]
        /\ Goes("mark")
        /\ UNCHANGED question
     \/ /\ settled[r] = Job.of
        /\ Goes("tell")
        /\ UNCHANGED <<settled, question>>
     \/ /\ settled[r] \notin {"free", Job.of}
        /\ question' = NoQuestion
        /\ Goes("begin")
        /\ UNCHANGED settled
  /\ UNCHANGED <<outside, jobs, key, slots, run, timer, person, turns, bounds>>

Mark ==
  /\ At("mark")
  /\ settled' = [settled EXCEPT ![work.got.run] = Job.of]
  /\ Goes("tell")
  /\ UNCHANGED <<outside, jobs, key, question, slots, run, timer, person, turns, bounds>>

\* service.answer: taken by a run that waits, lost on one that does not any
\* more, refused by one that is over. An error counts only the first time, and
\* the run may have the answer all the same.
Tell ==
  /\ At("tell")
  /\ LET r == work.got.run
         answered == [run EXCEPT ![r] = IF run[r] = "asks" THEN "answered" ELSE run[r]]
     IN
     \/ /\ run' = answered
        /\ Goes("clear")
        /\ UNCHANGED <<jobs, bounds>>
     \/ /\ run[r] # "asks"
        /\ IF work.applied THEN Goes("clear") /\ UNCHANGED jobs ELSE Ends("failed")
        /\ UNCHANGED <<run, bounds>>
     \/ /\ IF work.applied THEN Throws /\ Goes("clear") /\ UNCHANGED jobs ELSE Errs
        /\ run' \in {run, answered}
  /\ UNCHANGED <<outside, store, timer, person, turns>>

Clear ==
  /\ At("clear")
  /\ question' = NoQuestion
  /\ Goes("done")
  /\ UNCHANGED <<outside, jobs, key, settled, slots, run, timer, person, turns, bounds>>

\* Mutant: the turn is started whether or not the message has one.
ClaimNothing ==
  /\ At("begin")
  /\ key' = [key EXCEPT ![Job.of] = "taken"]
  /\ Goes("start")
  /\ UNCHANGED <<outside, jobs, question, settled, slots, run, timer, person, turns, bounds>>

\* The turn is claimed for the message: a second attempt does not start another.
Claim ==
  /\ At("begin")
  /\ \/ /\ key[Job.of] = "free"
        /\ key' = [key EXCEPT ![Job.of] = "taken"]
        /\ Goes("start")
        /\ UNCHANGED jobs
     \/ /\ key[Job.of] = "taken"
        /\ Ends("failed")
        /\ UNCHANGED key
  /\ UNCHANGED <<outside, question, settled, slots, run, timer, person, turns, bounds>>

\* service.send. One that throws is taken to have started nothing: the message is
\* given back for the retry (if that does not throw too). It may have started the
\* run before it threw, or queued it: a turn nobody of the conversation reads.
Start ==
  /\ At("start")
  /\ \/ /\ run' = [run EXCEPT ![Job.of] =
                       IF script.questions[Job.of] > 0 THEN "asks" ELSE "plain"]
        /\ starts' = [starts EXCEPT ![Job.of] = @ + 1]
        /\ work' = [work EXCEPT !.at = "done", !.got = Asked(Job.of, 0, NoMessage)]
        /\ UNCHANGED <<jobs, key, orphans, bounds>>
     \/ /\ Errs
        /\ \/ UNCHANGED turns
           \/ /\ starts' = [starts EXCEPT ![Job.of] = @ + 1]
              /\ orphans' = [orphans EXCEPT ![Job.of] = @ + 1]
        /\ key' = [key EXCEPT ![Job.of] = "free"] \/ UNCHANGED key
        /\ UNCHANGED run
  /\ UNCHANGED <<outside, question, settled, slots, timer, person>>

\* done: what the message came to is recorded, and the phase is checkpointed.
Done ==
  /\ \/ /\ At("nothing")
        /\ key' = [key EXCEPT ![Job.of] = "nothing"]
        /\ Ends("handled")
     \/ /\ At("done")
        /\ key' = [key EXCEPT ![Job.of] = work.got.run]
        /\ work' = Restart("read")
        /\ UNCHANGED jobs
  /\ UNCHANGED <<outside, question, settled, slots, run, timer, person, turns, bounds>>

\* readTurn, from the start of the run's stream to its question, or past it.
\* A key that is only claimed reads as null.
Known(r) == settled[r] \in Message \cup {"timeout"}
Opening(r) == <<Piece("run", r, "opening"), Piece("run", r, "question")>>

\* Mutant: what was sent around a settled question is not walked again.
ReadPast ==
  /\ At("read")
  /\ IF script.questions[Reading] = 0 THEN Sends(<<Piece("run", Reading, "rest")>>, "read_out")
     ELSE IF Known(Reading) THEN Goes("follow")
     ELSE Sends(<<Piece("run", Reading, "opening")>>, "post")
  /\ UNCHANGED <<outside, jobs, store, run, timer, person, turns, bounds>>

Read ==
  /\ At("read")
  /\ IF script.questions[Reading] = 0 THEN Sends(<<Piece("run", Reading, "rest")>>, "read_out")
     ELSE IF Known(Reading) THEN Sends(Opening(Reading), "follow")
     ELSE Sends(<<Piece("run", Reading, "opening")>>, "post")
  /\ UNCHANGED <<outside, jobs, store, run, timer, person, turns, bounds>>

\* The question is put in front of the person, unless it is already.
Post ==
  /\ At("post")
  /\ question' = IF question # NoQuestion /\ question.run = Reading THEN question
                 ELSE Asked(Reading, 0, NoMessage)
  /\ Sends(<<Piece("run", Reading, "question")>>, "arm")
  /\ UNCHANGED <<outside, jobs, key, settled, slots, run, timer, person, turns, bounds>>

\* Its timeout is a job of its own, started once under its id.
Arm ==
  LET armed == [timer EXCEPT ![Reading] = IF @ = "none" THEN "set" ELSE @] IN
  /\ At("arm")
  /\ \/ timer' = armed /\ Goes("parked") /\ UNCHANGED <<jobs, bounds>>
     \/ Errs /\ timer' \in {timer, armed}
  /\ UNCHANGED <<outside, store, run, person, turns>>

\* The rest of the stream comes once the run goes on; a read that waits too
\* long stops the run, unless that throws, which is swallowed. (It says that the
\* turn failed only if it read nothing, and there was an opening.)
Follow ==
  /\ At("follow")
  /\ \/ /\ run[Reading] # "asks"
        /\ Sends(IF run[Reading] = "stopped" THEN <<>> ELSE <<Piece("run", Reading, "rest")>>,
                 "read_out")
        /\ UNCHANGED <<jobs, run>>
        /\ UNCHANGED bounds
     \/ /\ run[Reading] = "asks"
        /\ \/ run' = [run EXCEPT ![Reading] = "stopped"] /\ UNCHANGED bounds
           \/ Throws /\ UNCHANGED run
        /\ Ends("timeout")
  /\ UNCHANGED <<outside, store, timer, person, turns>>

ReadOut ==
  /\ \/ At("read_out") /\ Ends("replied")
     \/ At("parked") /\ Ends("parked")
  /\ UNCHANGED <<outside, store, run, timer, person, turns, bounds>>

(***************************************************************************)
(* The outbox: each send takes the next number under the phase's key, and  *)
(* is made only by the one that took it; one that fails gives it back, if  *)
(* that does not throw too.                                                *)
(***************************************************************************)
Slot == [by |-> Head(work.todo).by, of |-> Head(work.todo).of, n |-> work.next]
NextPiece == [work EXCEPT !.at = "send", !.todo = Tail(@), !.next = @ + 1]

\* Mutant: the number is taken, and nobody looks whether it was.
TakeAnySlot ==
  /\ At("send")
  /\ IF work.todo = <<>> THEN Goes(work.then) /\ UNCHANGED slots
     ELSE slots' = slots \cup {Slot} /\ Goes("sending")
  /\ UNCHANGED <<outside, jobs, key, question, settled, run, timer, person, turns, bounds>>

TakeSlot ==
  /\ At("send")
  /\ IF work.todo = <<>> THEN Goes(work.then) /\ UNCHANGED slots
     ELSE IF Slot \in slots THEN work' = NextPiece /\ UNCHANGED slots
     ELSE slots' = slots \cup {Slot} /\ Goes("sending")
  /\ UNCHANGED <<outside, jobs, key, question, settled, run, timer, person, turns, bounds>>

Send ==
  /\ At("sending")
  /\ \/ /\ sent' = [sent EXCEPT ![Head(work.todo)] = @ + 1]
        /\ work' = NextPiece
        /\ UNCHANGED <<jobs, slots, torn, stray, bounds>>
     \/ /\ Errs
        /\ \/ UNCHANGED <<sent, stray>>
           \/ /\ sent' = [sent EXCEPT ![Head(work.todo)] = @ + 1]
              /\ stray' = [stray EXCEPT ![Head(work.todo)] = @ + 1]
        /\ \/ slots' = slots \ {Slot} /\ UNCHANGED torn
           \/ torn' = torn \cup {Head(work.todo)} /\ UNCHANGED slots
  /\ UNCHANGED <<outside, key, question, settled, run, timer, turns>>

(***************************************************************************)
(* A question's timeout, outside the order of the conversation. When one   *)
(* of its calls throws it is run again from its start, or given up.        *)
(***************************************************************************)
TimerGoes(r, place) == timer' = [timer EXCEPT ![r] = place]
TimerErrs(r) == Throws /\ \E place \in {"set", "failed"} : TimerGoes(r, place)

TimerFails(r) ==
  /\ timer[r] \in {"set", "mark", "look", "drop"}
  /\ TimerErrs(r)
  /\ UNCHANGED <<outside, jobs, work, store, run, person, turns>>

\* Mutant: a timeout that runs again takes its own claim for another's.
ExpireOnce(r) ==
  /\ timer[r] = "set"
  /\ settled' = [settled EXCEPT ![r] = IF @ = "free" THEN "taken" ELSE @]
  /\ TimerGoes(r, IF settled[r] = "free" THEN "mark" ELSE "over")
  /\ UNCHANGED <<outside, jobs, work, key, question, slots, run, person, turns, bounds>>

Expire(r) ==
  /\ timer[r] = "set"
  /\ \/ /\ settled[r] = "free"
        /\ settled' = [settled EXCEPT ![r] = "taken"]
        /\ TimerGoes(r, "mark")
     \/ /\ settled[r] = "timeout"
        /\ TimerGoes(r, "look")
        /\ UNCHANGED settled
     \/ /\ settled[r] \notin {"free", "timeout"}
        /\ TimerGoes(r, "over")
        /\ UNCHANGED settled
  /\ UNCHANGED <<outside, jobs, work, key, question, slots, run, person, turns, bounds>>

ExpireMark(r) ==
  /\ timer[r] = "mark"
  /\ settled' = [settled EXCEPT ![r] = "timeout"]
  /\ TimerGoes(r, "look")
  /\ UNCHANGED <<outside, jobs, work, key, question, slots, run, person, turns, bounds>>

\* Read in one step, deleted in another.
ExpireLook(r) ==
  /\ timer[r] = "look"
  /\ TimerGoes(r, IF question # NoQuestion /\ question.run = r THEN "drop" ELSE "skip")
  /\ UNCHANGED <<outside, jobs, work, store, run, person, turns, bounds>>

ExpireDrop(r) ==
  /\ timer[r] = "drop"
  /\ question' = NoQuestion
  /\ TimerGoes(r, "skip")
  /\ UNCHANGED <<outside, jobs, work, key, settled, slots, run, person, turns, bounds>>

\* The run goes on without an answer; an error of the skip is swallowed.
Skip(r) ==
  /\ timer[r] = "skip"
  /\ \/ run' = [run EXCEPT ![r] = IF @ = "asks" THEN "skipped" ELSE @] /\ UNCHANGED bounds
     \/ Throws /\ UNCHANGED run
  /\ TimerGoes(r, "resume")
  /\ UNCHANGED <<outside, jobs, work, store, person, turns>>

\* Mutant: the resume has the id of the message's job, which started already.
ResumeAsMessage(r) ==
  /\ timer[r] = "resume"
  /\ TimerGoes(r, "over")
  /\ UNCHANGED <<outside, jobs, work, store, run, person, turns, bounds>>

Resume(r) ==
  LET j == [kind |-> "resume", of |-> r] IN
  /\ timer[r] = "resume"
  /\ \/ Enqueued(j) /\ TimerGoes(r, "over") /\ UNCHANGED bounds
     \/ TimerErrs(r) /\ (Enqueued(j) \/ UNCHANGED line)
  /\ UNCHANGED <<outside, outcome, work, store, run, person, turns>>

(***************************************************************************)
(* Around them: another surface answers a question, the process ends.      *)
(***************************************************************************)
AnswerElsewhere(r) ==
  /\ run[r] = "asks"
  /\ run' = [run EXCEPT ![r] = "elsewhere"]
  /\ UNCHANGED <<outside, jobs, work, store, timer, person, turns, bounds>>

Crash ==
  /\ crashes < script.crashes
  /\ crashes' = crashes + 1
  /\ hook' = [m \in Message |-> IF hook[m] = "claimed" THEN "orphan" ELSE hook[m]]
  /\ timer' = [r \in Message |-> IF timer[r] \in {"mark", "look", "drop", "skip", "resume"}
                                 THEN "set" ELSE timer[r]]
  /\ torn' = IF At("sending") THEN torn \cup {Head(work.todo)} ELSE torn
  /\ work' = Idle
  /\ UNCHANGED <<script, jobs, store, run, sent, stray, turns, errors>>

Webhook(m) == Take(m) \/ Enqueue(m)
Handling == \/ Begin \/ Look \/ Answer \/ AskNext \/ Settle \/ Mark \/ Tell \/ Clear
            \/ Claim \/ Start \/ Done \/ Read \/ Post \/ Arm \/ Follow \/ ReadOut
            \/ TakeSlot \/ Send \/ Fails
Timeout(r) == \/ TimerFails(r) \/ Expire(r) \/ ExpireMark(r) \/ ExpireLook(r) \/ ExpireDrop(r)
              \/ Skip(r) \/ Resume(r)

Next == \/ \E m \in Message : Webhook(m) \/ Timeout(m) \/ AnswerElsewhere(m)
        \/ Handling \/ Crash

Spec == /\ Init /\ [][Next]_vars
        /\ WF_vars(Handling)
        /\ \A m \in Message : WF_vars(Timeout(m))
-----------------------------------------------------------------------------
(* Properties *)

\* What the numbered sends are for: each piece reaches the person at most once,
\* though its phase was retried, or resumed by another process, or though the
\* run's stream was read from its start again. It comes once more only for a send
\* of it that threw, which the phase takes for one that was not delivered.
SentOnce == \A p \in Pieces : sent[p] <= 1 + stray[p]

\* A message starts at most one turn, however often its phase runs, and one more
\* for a send of it that threw when it had started one.
OneTurn == \A m \in Message : starts[m] <= 1 + orphans[m]

\* What a read that ends as `replied` has told the person: everything the run
\* said, but for a send that was cut short, by the end of the process or by an
\* error that kept its number taken.
SaidBy(r) == {Piece("run", r, "rest")} \cup
             (IF script.questions[r] = 0 THEN {}
              ELSE {Piece("run", r, "opening"), Piece("run", r, "question")})
Stopped(r) == IF run[r] = "stopped" THEN {Piece("run", r, "rest")} ELSE {}
ReadBy(j) == IF j.kind = "resume" THEN j.of ELSE key[j.of]
WholeReply == \A j \in Jobs : outcome[j] = "replied" =>
                \A p \in SaidBy(ReadBy(j)) \ Stopped(ReadBy(j)) : sent[p] > 0 \/ p \in torn

\* The answer of a message and the timeout of its question race: the run gets
\* the one that settled it.
SettledByOne == \A r \in Message : /\ run[r] = "answered" => settled[r] \in Message
                                   /\ run[r] = "skipped" => settled[r] = "timeout"

\* A question that was put to the person with its timeout does not hold its run
\* for ever: unless settling it was cut short, by the end of the process or an
\* error, between the claim and the owner; or a job of the conversation was given
\* up; or a read that waited for the run could not stop it.
GaveUp == \/ \E j \in Jobs : outcome[j] = "failed"
          \/ \E r \in Message : timer[r] = "failed"
ReadGaveUp == \E j \in Jobs : outcome[j] = "timeout"
QuestionEnds == \A r \in Message : \/ []<>(timer[r] = "none" \/ run[r] # "asks")
                                   \/ <>[](settled[r] = "taken" \/ GaveUp \/ ReadGaveUp)

\* What a run says after its question was skipped reaches the person, unless a
\* job of the conversation was given up.
RestIsTold == \A r \in Message :
  LET rest == Piece("run", r, "rest") IN
  run[r] = "skipped" ~> sent[rest] > 0 \/ rest \in torn \/ GaveUp
=============================================================================
