--------------------------- MODULE OneShotProofs ---------------------------
(***************************************************************************)
(* Proofs about OneShot for any channel capacities and any number and      *)
(* contents of log frames.                                                 *)
(***************************************************************************)
EXTENDS OneShot, SequenceTheorems, TLAPS

\* Taking the head of a channel keeps what was received followed by the rest.
LEMMA ReceiveConcat ==
  ASSUME NEW S, NEW g \in Seq(S), NEW b \in Seq(S), b # <<>>
  PROVE  Append(g, Head(b)) \o Tail(b) = g \o b
  <1>1. /\ Append(g, Head(b)) \in Seq(S)
        /\ Tail(b) \in Seq(S)
        /\ Len(Tail(b)) = Len(b) - 1
        /\ \A i \in 1..Len(Tail(b)) : Tail(b)[i] = b[i+1]
        /\ Head(b) = b[1]
    BY HeadTailProperties
  <1> DEFINE l == Append(g, Head(b)) \o Tail(b)
             r == g \o b
  <1>2. l \in Seq(S) /\ r \in Seq(S) /\ Len(l) = Len(r)
    BY <1>1
  <1>3. ASSUME NEW i \in 1..Len(r) PROVE l[i] = r[i]
    <2>1. Len(r) = Len(g) + Len(b) /\ Len(Append(g, Head(b))) = Len(g) + 1
      BY <1>1
    <2>2. CASE i <= Len(g)
      BY <1>1, <2>1, <2>2
    <2>3. CASE i = Len(g) + 1
      BY <1>1, <2>1, <2>3
    <2>4. CASE i > Len(g) + 1
      BY <1>1, <2>1, <2>4
    <2> QED BY <2>1, <2>2, <2>3, <2>4
  <1> QED BY <1>2, <1>3, SeqEqual

\* A frame sent into a channel is the last of those sent and of those in it.
LEMMA SendConcat ==
  \A g, b \in Seq(Frames), f \in Frames : Append(g \o b, f) = g \o Append(b, f)
  <1> SUFFICES ASSUME NEW g \in Seq(Frames), NEW b \in Seq(Frames), NEW f \in Frames
               PROVE  Append(g \o b, f) = g \o Append(b, f)
    OBVIOUS
  <1>1. g \o b \in Seq(Frames) /\ Append(b, f) = b \o <<f>>
    BY AppendIsConcat
  <1>2. Append(g \o b, f) = (g \o b) \o <<f>>
    BY <1>1, AppendIsConcat
  <1> QED BY <1>1, <1>2, ConcatAssociative

\* Before the call nothing is sent, received or open.
LEMMA InitInv == Init => Inv
  <1> SUFFICES ASSUME Init PROVE Inv
    OBVIOUS
  <1>1. <<>> \in Seq(Frames) /\ <<>> \in Seq({"nil", "err"})
    OBVIOUS
  <1>2. <<>> \o <<>> = <<>>
    BY <1>1, ConcatEmptySeq
  <1>3. TypeOK
    BY <1>1 DEF Init, TypeOK, Unset
  <1>4. InTransit
    BY <1>2 DEF Init, InTransit
  <1>5. LoggerOrder /\ result # "ok"
    BY DEF Init, LoggerOrder, Streams, Unset
  <1> QED BY <1>3, <1>4, <1>5 DEF Inv, OkIsComplete

\* Every step of either goroutine keeps what the two know of each other.
LEMMA NextInv == Inv /\ [Next]_vars => Inv'
  <1> SUFFICES ASSUME Inv, [Next]_vars PROVE Inv'
    OBVIOUS
  <1> USE DEF Inv
  <1>1. CASE CreateHelper
    BY <1>1 DEF CreateHelper, chans, TypeOK, InTransit, LoggerOrder, OkIsComplete, Unset
  <1>2. CASE StartHelper
    BY <1>2 DEF StartHelper, chans, TypeOK, InTransit, LoggerOrder, OkIsComplete, Unset
  <1>3. CASE WaitHelper
    BY <1>3 DEF WaitHelper, chans, TypeOK, InTransit, LoggerOrder, OkIsComplete, Unset
  <1>4. ASSUME NEW c \in Streams, Receive(c) PROVE Inv'
    <2> USE <1>4 DEF Receive
    <2>1. buf[c] \in Seq(Frames) /\ got[c] \in Seq(Frames) /\ buf[c] # <<>>
      BY DEF TypeOK
    <2>2. Head(buf[c]) \in Frames /\ Tail(buf[c]) \in Seq(Frames)
      BY <2>1, HeadTailProperties
    <2>3. TypeOK'
      BY <2>1, <2>2 DEF TypeOK
    <2>4. InTransit'
      <3>1. got'[c] \o buf'[c] = got[c] \o buf[c]
        BY <2>1, ReceiveConcat DEF TypeOK
      <3> QED BY <3>1, <2>1 DEF InTransit, TypeOK
    <2>5. LoggerOrder'
      BY DEF LoggerOrder
    <2>6. OkIsComplete' /\ (result = "ok" => main \in {"remove", "end"})'
      BY DEF OkIsComplete
    <2> QED BY <2>3, <2>4, <2>5, <2>6
  <1>5. ASSUME NEW c \in Streams, SeeClosed(c) PROVE Inv'
    BY <1>5 DEF SeeClosed, TypeOK, InTransit, LoggerOrder, OkIsComplete
  <1>6. CASE TakeError
    <2> USE <1>6 DEF TakeError
    <2>1. \A c \in Streams : closed[c] /\ buf[c] = <<>>
      BY DEF InTransit
    <2>2. logger = "gone" /\ done = << IF logErr THEN "err" ELSE "nil" >>
      BY <2>1 DEF LoggerOrder, Streams
    <2>3. done' = <<>> /\ Head(done) = IF logErr THEN "err" ELSE "nil"
      BY <2>2
    <2>4. <<>> \in Seq({"nil", "err"})
      OBVIOUS
    <2>5. TypeOK'
      BY <2>3, <2>4 DEF TypeOK
    <2>6. InTransit' /\ LoggerOrder'
      BY <2>2, <2>3 DEF InTransit, LoggerOrder
    <2>7. ASSUME NEW c \in Streams PROVE got[c] = sent[c]
      <3>1. sent[c] = got[c] \o <<>> /\ got[c] \in Seq(Frames)
        BY <2>1 DEF InTransit, TypeOK
      <3>2. \A g \in Seq(Frames) : g \o <<>> = g
        BY ConcatEmptySeq
      <3> QED BY <3>1, <3>2
    <2>8. OkIsComplete'
      BY <2>1, <2>3, <2>7 DEF OkIsComplete
    <2> QED BY <2>5, <2>6, <2>8
  <1>7. CASE RemoveHelper
    BY <1>7 DEF RemoveHelper, chans, TypeOK, InTransit, LoggerOrder, OkIsComplete
  <1>8. ASSUME NEW c \in Streams, SendFrame(c) PROVE Inv'
    <2> USE <1>8 DEF SendFrame
    <2>1. PICK f \in Frames : /\ buf' = [buf EXCEPT ![c] = Append(@, f)]
                              /\ sent' = [sent EXCEPT ![c] = Append(@, f)]
      OBVIOUS
    <2>2. TypeOK'
      <3>1. Append(buf[c], f) \in Seq(Frames) /\ Append(sent[c], f) \in Seq(Frames)
        BY DEF TypeOK
      <3> QED BY <2>1, <3>1 DEF TypeOK
    <2>3. InTransit'
      <3>1. buf[c] \in Seq(Frames) /\ got[c] \in Seq(Frames)
        BY DEF TypeOK
      <3>2. sent'[c] = got[c] \o Append(buf[c], f)
        <4>1. sent'[c] = Append(sent[c], f) /\ sent[c] = got[c] \o buf[c]
          BY <2>1 DEF TypeOK, InTransit
        <4>2. Append(got[c] \o buf[c], f) = got[c] \o Append(buf[c], f)
          BY <3>1, SendConcat, Zenon
        <4> QED BY <4>1, <4>2
      <3>3. live[c]
        BY DEF InTransit, LoggerOrder, Streams
      <3> QED BY <2>1, <3>2, <3>3 DEF InTransit, TypeOK
    <2>4. main \notin {"remove", "end"} /\ result # "ok"
      BY DEF LoggerOrder
    <2>5. LoggerOrder' /\ OkIsComplete' /\ (result = "ok" => main \in {"remove", "end"})'
      BY <2>4 DEF LoggerOrder, OkIsComplete
    <2> QED BY <2>2, <2>3, <2>5
  <1>9. CASE EndLogs
    BY <1>9 DEF EndLogs, TypeOK, InTransit, LoggerOrder, OkIsComplete
  <1>10. CASE SendError
    <2>1. main = "select" /\ done = <<>>
      BY <1>10 DEF SendError, LoggerOrder, TypeOK
    <2> QED BY <1>10, <2>1 DEF SendError, TypeOK, InTransit, LoggerOrder, OkIsComplete
  <1>11. CASE CloseChannel
    BY <1>11 DEF CloseChannel, TypeOK, InTransit, LoggerOrder, OkIsComplete, Streams
  <1>12. CASE UNCHANGED vars
    BY <1>12 DEF vars, chans, TypeOK, InTransit, LoggerOrder, OkIsComplete
  <1> QED BY <1>1, <1>2, <1>3, <1>4, <1>5, <1>6, <1>7, <1>8, <1>9, <1>10, <1>11, <1>12
          DEF Next, Main, Logger

\* The two goroutines keep their agreement: nothing is lost on the way.
THEOREM HandOff == Spec => []Inv
  BY InitInv, NextInv, PTL DEF Spec

\* No line of output is lost, duplicated or reordered between the goroutines,
\* and none is left in a channel that is given up, for any capacity.
THEOREM NothingLost == Spec => []InTransit
  <1>1. Inv => InTransit
    BY DEF Inv
  <1> QED BY <1>1, HandOff, PTL

\* RunOneShotContainer returns no error only with the whole output of a helper
\* that exited with status 0, for any capacity of the channels.
THEOREM CompleteOutput == Spec => []OkIsComplete
  <1>1. Inv => OkIsComplete
    BY DEF Inv
  <1> QED BY <1>1, HandOff, PTL
=============================================================================
