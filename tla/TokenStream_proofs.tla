------------------------- MODULE TokenStream_proofs -------------------------
(* What a stream's promises give its readers, for every set of readers and *)
(* of tokens: they agree on the stream, and an end they see is complete.   *)
EXTENDS TokenStream, TLAPS

SeenPrefixes == \A r \in Reader : IsPrefix(given[r], stream)

(* The inductive invariant: what a reader holds is a prefix of a stream    *)
(* that only grows, and the whole of it once the reader saw its end, while *)
(* the transport keeps it.                                                 *)
Inv == TypeOK /\ SeenPrefixes /\ EndIsComplete

LEMMA PrefixIsReflexive ==
  ASSUME NEW S, NEW s \in Seq(S)
  PROVE  IsPrefix(s, s)
BY DEF IsPrefix

LEMMA EmptyIsAPrefix ==
  ASSUME NEW S, NEW s \in Seq(S)
  PROVE  IsPrefix(<<>>, s)
BY DEF IsPrefix

LEMMA PrefixElements ==
  ASSUME NEW S, NEW s \in Seq(S), NEW t \in Seq(S)
  PROVE  IsPrefix(s, t) <=> Len(s) <= Len(t) /\ \A i \in 1..Len(s) : s[i] = t[i]
<1>1. ASSUME Len(s) <= Len(t)
      PROVE  /\ SubSeq(s, 1, Len(s)) = s
             /\ SubSeq(t, 1, Len(s)) \in Seq(S)
             /\ Len(SubSeq(t, 1, Len(s))) = Len(s)
             /\ \A i \in 1..Len(s) : SubSeq(t, 1, Len(s))[i] = t[i]
  BY <1>1
<1>2. ASSUME Len(s) <= Len(t), SubSeq(s, 1, Len(s)) = SubSeq(t, 1, Len(s))
      PROVE  \A i \in 1..Len(s) : s[i] = t[i]
  BY <1>1, <1>2
<1>3. ASSUME Len(s) <= Len(t), \A i \in 1..Len(s) : s[i] = t[i]
      PROVE  s = SubSeq(t, 1, Len(s))
  BY <1>1, <1>3
<1> QED BY <1>1, <1>2, <1>3 DEF IsPrefix

LEMMA PrefixIsTransitive ==
  ASSUME NEW S, NEW s \in Seq(S), NEW t \in Seq(S), NEW u \in Seq(S),
         IsPrefix(s, t), IsPrefix(t, u)
  PROVE  IsPrefix(s, u)
BY PrefixElements

(* Two prefixes of one sequence: the shorter is a prefix of the longer. *)
LEMMA PrefixesCompare ==
  ASSUME NEW S, NEW s \in Seq(S), NEW t \in Seq(S), NEW u \in Seq(S),
         IsPrefix(s, u), IsPrefix(t, u)
  PROVE  IsPrefix(s, t) \/ IsPrefix(t, s)
<1>1. CASE Len(s) <= Len(t)
  BY <1>1, PrefixElements
<1>2. CASE Len(t) <= Len(s)
  BY <1>2, PrefixElements
<1> QED BY <1>1, <1>2

LEMMA InitHolds == Init => Inv
<1> SUFFICES ASSUME Init PROVE Inv
  OBVIOUS
<1>1. <<>> \in Seq(Token)
  OBVIOUS
<1>2. TypeOK
  BY <1>1 DEF Init, TypeOK
<1>3. SeenPrefixes
  BY <1>1, EmptyIsAPrefix DEF Init, SeenPrefixes
<1> QED BY <1>2, <1>3 DEF Init, Inv, EndIsComplete

LEMMA StepKeepsInv == Inv /\ [Next]_streamVars => Inv'
<1> SUFFICES ASSUME Inv, [Next]_streamVars PROVE Inv'
  OBVIOUS
<1> USE DEF Inv
<1>1. CASE Extend
  <2>1. TypeOK'
    BY <1>1 DEF Extend, TypeOK
  <2>2. SeenPrefixes'
    BY <1>1, <2>1, PrefixIsTransitive DEF Extend, TypeOK, SeenPrefixes
  <2>3. EndIsComplete'
    BY <1>1 DEF Extend, EndIsComplete
  <2> QED BY <2>1, <2>2, <2>3
<1>2. CASE Terminate
  BY <1>2 DEF Terminate, TypeOK, SeenPrefixes, EndIsComplete
<1>3. CASE Abandon
  BY <1>3 DEF Abandon, TypeOK, SeenPrefixes, EndIsComplete
<1>4. ASSUME NEW r \in Reader, Attach(r) \/ GiveUp(r) PROVE Inv'
  BY <1>4 DEF Attach, GiveUp, TypeOK, SeenPrefixes, EndIsComplete
<1>5. ASSUME NEW r \in Reader, Read(r) PROVE Inv'
  <2>1. /\ given' \in [Reader -> Seq(Token)]
        /\ \A s \in Reader \ {r} : given'[s] = given[s]
    BY <1>5 DEF Read, TypeOK
  <2>2. TypeOK'
    BY <1>5, <2>1 DEF Read, TypeOK
  <2>3. SeenPrefixes'
    BY <1>5, <2>1 DEF Read, SeenPrefixes
  <2>4. ASSUME NEW s \in Reader, reader'[s] \in {"end", "fail"}
        PROVE  over' # "open" /\ (given'[s] = stream' \/ abandoned')
    <3>1. CASE s = r
      BY <1>5, <2>4, <3>1 DEF Read, TypeOK
    <3>2. CASE s # r
      BY <1>5, <2>1, <2>4, <3>2 DEF Read, TypeOK, EndIsComplete
    <3> QED BY <3>1, <3>2
  <2> QED BY <2>2, <2>3, <2>4 DEF EndIsComplete
<1>6. CASE UNCHANGED streamVars
  BY <1>6 DEF streamVars, TypeOK, SeenPrefixes, EndIsComplete
<1> QED BY <1>1, <1>2, <1>3, <1>4, <1>5, <1>6 DEF Next

LEMMA InvHolds == Spec => []Inv
BY InitHolds, StepKeepsInv, PTL DEF Spec

(* However many replicas serve the run, its readers see one stream.        *)
THEOREM ReadersAlwaysAgree == Spec => []ReadersAgree
<1>1. Inv => ReadersAgree
  BY PrefixesCompare DEF Inv, TypeOK, SeenPrefixes, ReadersAgree
<1> QED BY <1>1, InvHolds, PTL

(* An end that a reader sees has nothing of the stream missing before it,  *)
(* as long as the transport keeps the stream.                              *)
THEOREM AnEndIsComplete == Spec => []EndIsComplete
<1>1. Inv => EndIsComplete
  BY DEF Inv
<1> QED BY <1>1, InvHolds, PTL
=============================================================================
