--------------------------- MODULE MCTokenStream ---------------------------
(* One run's stream over the transport the host configured: the same       *)
(* writers, replicas and readers over the SQL sink or over the Redis sink. *)
EXTENDS StreamRun

CONSTANTS Transport, Attempts, ReadPage, Faulty

VARIABLES transport, rows, cursor, lapsed, picked, chunks, terminal, sub

(* The turn writes two frames, a delegate one. *)
Writes == [a \in Writer |-> IF a = Turn THEN 2 ELSE 1]

Sql   == INSTANCE SqlTokenSink
Redis == INSTANCE RedisTokenSink

sqlVars   == <<rows, cursor, lapsed, picked>>
redisVars == <<chunks, terminal, sub>>
vars == <<transport, runVars, sqlVars, redisVars>>

Init ==
  /\ transport \in Transport
  /\ \/ /\ transport = "sql" /\ Sql!SqlInit
        /\ chunks = <<>> /\ terminal = "none" /\ sub = <<>>
     \/ /\ transport = "redis" /\ Redis!RedisInit
        /\ rows = <<>> /\ cursor = <<>> /\ lapsed = FALSE /\ picked = FALSE
  /\ home[Turn] = CHOOSE p \in Replica : TRUE   \* replicas are alike

SqlStep   == transport = "sql" /\ Sql!SqlNext /\ UNCHANGED <<transport, redisVars>>
RedisStep == transport = "redis" /\ Redis!RedisNext /\ UNCHANGED <<transport, sqlVars>>
Next == SqlStep \/ RedisStep

Read(r) == \/ transport = "sql" /\ Sql!Poll(r) /\ UNCHANGED <<transport, redisVars>>
           \/ transport = "redis" /\ Redis!RedisRead(r) /\ UNCHANGED <<transport, sqlVars>>
Send == transport = "redis" /\ UNCHANGED <<transport, sqlVars>>
        /\ \E p \in Replica : Redis!RedisSend(p)
Leave == transport = "redis" /\ UNCHANGED <<transport, sqlVars>>
         /\ \/ \E a \in Writer : Redis!Close(a) \/ Redis!RaiseFirst(a)
            \/ \E c \in Delegate : Join(c) /\ UNCHANGED redisVars

(* A reader whose poll or wake is due reads on.  A Redis reader whose wake *)
(* was lost also needs the run to go quiet: Redis answers what it is       *)
(* asked, and a writer does not stay in the run for ever.                  *)
Fairness == (\A r \in Reader : WF_vars(Read(r))) /\ WF_vars(Send) /\ WF_vars(Leave)

Spec == Init /\ [][Next]_vars /\ Fairness

(* What a reader could still be given is gone. *)
Expired == transport = "redis" /\ Settled /\ Redis!Expired

Stream == INSTANCE TokenStream
            WITH Token <- Frame, given <- got,
                 abandoned <- Expired \/ (Settled /\ over = "open")

(* The sink keeps the promises of a stream: one order, in which no frame   *)
(* comes before one its writer knew of though delegates write from other   *)
(* replicas; every reader gets a prefix of it, replayed from the start     *)
(* when it attaches late, and the end only after the last frame; a reader  *)
(* stops without an end only when the run was left without one or its      *)
(* keys have expired, and only then is an end seen with frames missing.    *)
ImplementsStream == Stream!Spec

(* Once the end of the run is stored, every reader following it gets to    *)
(* it although a wake may be lost, unless the keys expired first; even     *)
(* then it does not follow the run for ever.                               *)
EndReaches ==
  \A r \in Reader : over # "open" /\ reader[r] = "following"
     ~> reader[r] \in {"end", "fail"} \/ (Expired /\ reader[r] = "gone")

NothingStranded == transport = "redis" => Redis!NothingStranded
=============================================================================
