---------------------------- MODULE TokenStream ----------------------------
(***************************************************************************)
(* What a TokenStreamSink promises of one run, whichever transport the     *)
(* host configured: the run's tokens form one stream, in an order no       *)
(* writer can contradict, and every reader is given that same stream from  *)
(* its first token, however late it attaches, and its end only after the   *)
(* last token.                                                             *)
(***************************************************************************)
EXTENDS Naturals, Sequences, SequencesExt, VectorClocks

CONSTANTS Reader, Token

VARIABLES stream,     \* the run's tokens, in the order every reader gets them
          over,       \* "open", or the terminal: "end" or "fail"
          abandoned,  \* nobody is left to end the stream, or to keep it
          given,      \* what each reader has been given
          reader      \* "away", "following", "gone", or the terminal it saw

streamVars == <<stream, over, abandoned, given, reader>>

(* A token carries how many tokens of each writer its own writer knew of.  *)
At(token) == token.at

Init == /\ stream = <<>>
        /\ over = "open"
        /\ abandoned = FALSE
        /\ given = [r \in Reader |-> <<>>]
        /\ reader = [r \in Reader |-> "away"]

(* New tokens come last, after every token their writer knew of. *)
Extend == /\ over = "open"
          /\ stream' \in Seq(Token) /\ stream' # stream /\ IsPrefix(stream, stream')
          /\ IsCausalOrder(stream', At)
          /\ UNCHANGED <<over, abandoned, given, reader>>

(* An end whose writer was told that it failed may become a failure. *)
Terminate == /\ over = "open" \/ (over = "end" /\ ~abandoned)
             /\ over' \in {"end", "fail"}
             /\ abandoned' = FALSE
             /\ UNCHANGED <<stream, given, reader>>

(* The stream is left without an end, or what was kept of it expires. *)
Abandon == /\ abandoned' = TRUE
           /\ UNCHANGED <<stream, over, given, reader>>

Attach(r) == /\ reader[r] = "away"
             /\ reader' = [reader EXCEPT ![r] = "following"]
             /\ UNCHANGED <<stream, over, abandoned, given>>

(* A reader is given more of the stream, its end when nothing is left of   *)
(* it; an end it has seen may have become a failure since.                 *)
Read(r) == /\ reader[r] = "following"
           /\ given' = [given EXCEPT ![r] = given'[r]]
           /\ given'[r] \in Seq(Token)
           /\ IsPrefix(given[r], given'[r]) /\ IsPrefix(given'[r], stream)
           /\ \/ UNCHANGED reader
              \/ /\ over # "open" /\ (given'[r] = stream \/ abandoned)
                 /\ reader' \in {[reader EXCEPT ![r] = seen] : seen \in {"end", over}}
           /\ UNCHANGED <<stream, over, abandoned>>

(* There is no end to read any more: a reader may stop following. *)
GiveUp(r) == /\ reader[r] = "following"
             /\ abandoned
             /\ reader' = [reader EXCEPT ![r] = "gone"]
             /\ UNCHANGED <<stream, over, abandoned, given>>

Next == \/ Extend \/ Terminate \/ Abandon
        \/ \E r \in Reader : Attach(r) \/ Read(r) \/ GiveUp(r)

Spec == Init /\ [][Next]_streamVars

TypeOK == /\ stream \in Seq(Token)
          /\ over \in {"open", "end", "fail"}
          /\ abandoned \in BOOLEAN
          /\ given \in [Reader -> Seq(Token)]
          /\ reader \in [Reader -> {"away", "following", "gone", "end", "fail"}]

(* Two readers never see different streams: what one was given starts what *)
(* the other was given, or the other way round, so a frame's position is   *)
(* its number on every replica and for every `?after=` cursor.             *)
ReadersAgree ==
  \A r, s \in Reader : IsPrefix(given[r], given[s]) \/ IsPrefix(given[s], given[r])

(* A reader that saw the end was given every frame the transport took, as  *)
(* long as the transport still holds them.                                 *)
EndIsComplete ==
  \A r \in Reader : reader[r] \in {"end", "fail"}
                      => over # "open" /\ (given[r] = stream \/ abandoned)
=============================================================================
