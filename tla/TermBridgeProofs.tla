-------------------------- MODULE TermBridgeProofs --------------------------
(***************************************************************************)
(* Theorems about TermBridge, for any set of sizes, any capacity of the    *)
(* pseudo-terminal's buffers and any number of keys, chunks, fits and     *)
(* pasted sizes.                                                           *)
(***************************************************************************)
EXTENDS TermBridge, SequenceTheorems, TLAPS

LEMMA BoundFacts == MaxKeys \in Nat /\ MaxOutput \in Nat /\ MaxFits \in Nat /\ MaxPastes \in Nat /\ BufCap \in Nat /\ BufCap >= 1
BY TermBridgeAssumption

LEMMA FrameFacts ==
  /\ \A n \in 1..MaxKeys : Key(n) \in Frame /\ IsKey(Key(n)) /\ Key(n).n = n
  /\ \A s \in Sizes : Size(s) \in Frame /\ ~IsKey(Size(s)) /\ Size(s).size = s
  /\ \A f \in Frame : IF IsKey(f) THEN f.n \in 1..MaxKeys ELSE f.size \in Sizes
<1>1. ASSUME NEW n \in 1..MaxKeys
      PROVE  Key(n) \in Frame /\ IsKey(Key(n)) /\ Key(n).n = n
  BY DEF Frame, Key, IsKey
<1>2. ASSUME NEW s \in Sizes
      PROVE  Size(s) \in Frame /\ ~IsKey(Size(s)) /\ Size(s).size = s
  BY DEF Frame, Size, IsKey
<1>3. ASSUME NEW f \in Frame
      PROVE  IF IsKey(f) THEN f.n \in 1..MaxKeys ELSE f.size \in Sizes
  <2>1. (\E n \in 1..MaxKeys : f = Key(n)) \/ (\E s \in Sizes : f = Size(s))
    BY DEF Frame
  <2> QED
    BY <1>1, <1>2, <2>1
<1> QED
  BY <1>1, <1>2, <1>3

\* Taking the head of a sequence.
LEMMA TakeHead ==
  ASSUME NEW S, NEW s \in Seq(S), s # <<>>
  PROVE  /\ Head(s) \in S /\ Tail(s) \in Seq(S) /\ Head(s) = s[1]
         /\ Len(s) \in Nat /\ Len(s) >= 1 /\ Len(Tail(s)) = Len(s) - 1
         /\ DOMAIN s = 1..Len(s) /\ DOMAIN Tail(s) = 1..(Len(s) - 1)
         /\ \A i \in 1..(Len(s) - 1) : Tail(s)[i] = s[i + 1]
<1>1. Len(s) \in Nat \ {0}
  BY EmptySeq
<1>2. /\ Head(s) \in S /\ Tail(s) \in Seq(S) /\ Len(Tail(s)) = Len(s) - 1
      /\ \A i \in 1 .. Len(Tail(s)) : Tail(s)[i] = s[i+1]
  BY HeadTailProperties
<1>3. DOMAIN s = 1..Len(s) /\ DOMAIN Tail(s) = 1..Len(Tail(s))
  BY <1>2, LenProperties
<1>4. Head(s) = s[1]
  OBVIOUS
<1> QED
  BY <1>1, <1>2, <1>3, <1>4

\* Adding at the end of one.
LEMMA AddLast ==
  ASSUME NEW S, NEW s \in Seq(S), NEW e \in S
  PROVE  /\ Append(s, e) \in Seq(S) /\ Len(s) \in Nat /\ Len(Append(s, e)) = Len(s) + 1
         /\ DOMAIN s = 1..Len(s) /\ DOMAIN Append(s, e) = 1..(Len(s) + 1)
         /\ \A i \in 1..Len(s) : Append(s, e)[i] = s[i]
         /\ Append(s, e)[Len(s) + 1] = e
<1>1. /\ Append(s, e) \in Seq(S) /\ Len(Append(s, e)) = Len(s) + 1
      /\ \A i \in 1..Len(s) : Append(s, e)[i] = s[i] /\ Append(s, e)[Len(s) + 1] = e
  BY AppendProperties
<1>2. Append(s, e)[Len(s) + 1] = e
  BY AppendProperties
<1>3. Len(s) \in Nat /\ DOMAIN s = 1..Len(s) /\ DOMAIN Append(s, e) = 1..Len(Append(s, e))
  BY <1>1, LenProperties
<1> QED
  BY <1>1, <1>2, <1>3

-----------------------------------------------------------------------------
\* Type correctness.

\* The reader starts with the client, and a key that is being typed was sent.
Stages ==
  /\ hpc = "start" => rpc = "off"
  /\ hpc = "type" => key > 0

TypeInv == TypeOK /\ Stages

LEMMA TermTypeInit == Init => TypeInv
<1> SUFFICES ASSUME Init PROVE TypeInv
  OBVIOUS
<1>1. \A S : <<>> \in Seq(S) /\ Len(<<>>) = 0
  BY EmptySeq
<1>2. toServer \in Seq(Frame) /\ toPage \in Seq(1..MaxOutput) /\ hand \in Seq(1..MaxOutput)
      /\ Len(hand) = 0 /\ ptyIn \in Seq(1..MaxKeys) /\ Len(ptyIn) = 0
      /\ ptyOut \in Seq(1..MaxOutput) /\ Len(ptyOut) = 0
  BY <1>1 DEF Init
<1>3. /\ ws \in {"connecting", "open", "closed"} /\ size \in Sizes /\ asked \in Sizes
      /\ hpc \in {"start", "read", "type", "close", "wait", "closed"}
      /\ rpc \in {"off", "read", "write", "exited"} /\ rpc # "write"
      /\ ptmx \in {"none", "open", "closed"} /\ ptySize \in Sizes
      /\ proc \in {"none", "alive", "exited"} /\ Stages
  BY TermBridgeAssumption DEF Init, Stages
<1>4. /\ fits \in 0..MaxFits /\ pastes \in 0..MaxPastes /\ sent \in 0..MaxKeys /\ shown \in 0..MaxOutput
      /\ key \in 0..MaxKeys /\ produced \in 0..MaxOutput /\ received \in 0..MaxKeys
  BY BoundFacts DEF Init
<1>5. TypeOK
  <2> HIDE DEF Init
  <2> QED
    BY <1>2, <1>3, <1>4, BoundFacts DEF TypeOK
<1> QED
  BY <1>3, <1>5 DEF TypeInv

LEMMA TypePage == TypeOK /\ Page => TypeOK'
<1> SUFFICES ASSUME TypeOK, Page PROVE TypeOK'
  OBVIOUS
<1> USE BoundFacts DEF wires, goVars, ptyVars, procVars
<1>1. CASE WsOpen \/ WsClose
  BY <1>1 DEF WsOpen, WsClose, TypeOK
<1>2. CASE Fit
  <2>1. PICK s \in Sizes : /\ size' = s /\ asked' = IF ws = "open" THEN s ELSE asked
                           /\ toServer' = IF ws = "open" THEN Append(toServer, Size(s))
                                                         ELSE toServer
    BY <1>2 DEF Fit
  <2>2. toServer' \in Seq(Frame) /\ size' \in Sizes /\ asked' \in Sizes
    BY <2>1, FrameFacts, AddLast DEF TypeOK
  <2>3. fits' \in 0..MaxFits
    BY <1>2 DEF Fit, TypeOK
  <2> QED
    BY <1>2, <2>2, <2>3 DEF Fit, TypeOK
<1>3. CASE Type
  <2>1. sent + 1 \in 1..MaxKeys
    BY <1>3 DEF Type, TypeOK
  <2>2. toServer' \in Seq(Frame) /\ sent' \in 0..MaxKeys
    BY <1>3, <2>1, FrameFacts, AddLast DEF Type, TypeOK
  <2> QED
    BY <1>3, <2>2 DEF Type, TypeOK
<1>4. CASE Receive
  <2>1. shown' \in 1..MaxOutput /\ toPage' \in Seq(1..MaxOutput)
    BY <1>4, TakeHead DEF Receive, TypeOK
  <2> QED
    BY <1>4, <2>1 DEF Receive, TypeOK
<1>5. CASE PasteSize
  <2>1. PICK s \in Sizes : asked' = s /\ toServer' = Append(toServer, Size(s))
    BY <1>5 DEF PasteSize
  <2>2. toServer' \in Seq(Frame) /\ asked' \in Sizes
    BY <2>1, FrameFacts, AddLast DEF TypeOK
  <2>3. pastes' \in 0..MaxPastes
    BY <1>5 DEF PasteSize, TypeOK
  <2> QED
    BY <1>5, <2>2, <2>3 DEF PasteSize, TypeOK
<1> QED
  BY <1>1, <1>2, <1>3, <1>4, <1>5 DEF Page

LEMMA TypeHandler == TypeInv /\ Handler => TypeOK'
<1> SUFFICES ASSUME TypeOK, Stages, Handler PROVE TypeOK'
  BY DEF TypeInv
<1> USE BoundFacts DEF pageVars, wires, goVars, ptyVars, procVars
<1>1. CASE OpenSlave
  <2>1. rpc = "off" /\ rpc' # "write"
    BY <1>1 DEF OpenSlave, Stages
  <2> QED
    BY <1>1, <2>1 DEF OpenSlave, TypeOK
<1>2. CASE TakeFrame
  <2>1. Head(toServer) \in Frame /\ toServer' \in Seq(Frame)
    BY <1>2, TakeHead DEF TakeFrame, TypeOK
  <2>2. /\ key' \in 0..MaxKeys /\ ptySize' \in Sizes
        /\ hpc' \in {"start", "read", "type", "close", "wait", "closed"}
    BY <1>2, <2>1, FrameFacts DEF TakeFrame, TypeOK
  <2> QED
    BY <1>2, <2>1, <2>2 DEF TakeFrame, TypeOK
<1>3. CASE WriteKey
  <2>1. CASE UNCHANGED ptyIn
    BY <1>3, <2>1 DEF WriteKey, TypeOK
  <2>2. CASE Len(ptyIn) < BufCap /\ ptyIn' = Append(ptyIn, key)
    <3>1. Len(ptyIn) \in Nat /\ key \in 1..MaxKeys
      BY <1>3, LenProperties DEF WriteKey, TypeOK, Stages
    <3>2. ptyIn' \in Seq(1..MaxKeys) /\ Len(ptyIn') = Len(ptyIn) + 1
      BY <2>2, <3>1, AddLast DEF TypeOK
    <3> QED
      BY <1>3, <2>2, <3>1, <3>2 DEF WriteKey, TypeOK
  <2> QED
    BY <1>3, <2>1, <2>2 DEF WriteKey
<1>4. CASE ReadError \/ CloseSlave \/ Return
  BY <1>4 DEF ReadError, CloseSlave, Return, TypeOK
<1> QED
  BY <1>1, <1>2, <1>3, <1>4 DEF Handler

LEMMA TypeReader == TypeOK /\ Reader => TypeOK'
<1> SUFFICES ASSUME TypeOK, Reader PROVE TypeOK'
  OBVIOUS
<1> USE BoundFacts DEF pageVars, wires, goVars, ptyVars, procVars
<1>1. CASE ReadChunk
  <2>1. /\ Head(ptyOut) \in 1..MaxOutput /\ ptyOut' \in Seq(1..MaxOutput)
        /\ Len(ptyOut') <= BufCap
    BY <1>1, TakeHead DEF ReadChunk, TypeOK
  <2>2. hand' \in Seq(1..MaxOutput) /\ Len(hand') = 1
    BY <1>1, <2>1 DEF ReadChunk
  <2> QED
    BY <1>1, <2>1, <2>2 DEF ReadChunk, TypeOK
<1>2. CASE ReadEnd
  BY <1>2 DEF ReadEnd, TypeOK
<1>3. CASE WriteChunk
  <2>1. toPage' \in Seq(1..MaxOutput)
    BY <1>3, ConcatProperties DEF WriteChunk, TypeOK
  <2> QED
    BY <1>3, <2>1, EmptySeq DEF WriteChunk, TypeOK
<1>4. CASE WriteError
  BY <1>4, EmptySeq DEF WriteError, TypeOK
<1> QED
  BY <1>1, <1>2, <1>3, <1>4 DEF Reader

LEMMA TypeClient == TypeOK /\ Client => TypeOK'
<1> SUFFICES ASSUME TypeOK, Client PROVE TypeOK'
  OBVIOUS
<1> USE BoundFacts DEF pageVars, wires, goVars, ptyVars, procVars
<1>1. CASE Produce
  <2>1. produced + 1 \in 1..MaxOutput /\ Len(ptyOut) \in Nat
    BY <1>1, LenProperties DEF Produce, TypeOK
  <2>2. ptyOut' \in Seq(1..MaxOutput) /\ Len(ptyOut') <= BufCap /\ produced' \in 0..MaxOutput
    BY <1>1, <2>1, AddLast DEF Produce, TypeOK
  <2> QED
    BY <1>1, <2>2 DEF Produce, TypeOK
<1>2. CASE Consume
  <2>1. received' \in 0..MaxKeys /\ ptyIn' \in Seq(1..MaxKeys) /\ Len(ptyIn') <= BufCap
    BY <1>2, TakeHead DEF Consume, TypeOK
  <2> QED
    BY <1>2, <2>1 DEF Consume, TypeOK
<1>3. CASE Exit
  BY <1>3 DEF Exit, TypeOK
<1> QED
  BY <1>1, <1>2, <1>3 DEF Client

LEMMA StagesStep == TypeInv /\ [Next]_vars => Stages'
<1> SUFFICES ASSUME TypeOK, Stages, [Next]_vars PROVE Stages'
  BY DEF TypeInv
<1> USE DEF pageVars, wires, goVars, ptyVars, procVars
<1>1. CASE Page
  BY <1>1 DEF Page, WsOpen, WsClose, Fit, Type, PasteSize, Receive, Stages
<1>2. CASE Handler
  <2>1. CASE TakeFrame
    <3>1. Head(toServer) \in Frame
      BY <2>1, TakeHead DEF TakeFrame, TypeOK
    <3> QED
      BY <2>1, <3>1, FrameFacts, BoundFacts DEF TakeFrame, Stages
  <2> QED
    BY <1>2, <2>1 DEF Handler, OpenSlave, WriteKey, ReadError, CloseSlave, Return, Stages
<1>3. CASE Reader
  BY <1>3 DEF Reader, ReadChunk, ReadEnd, WriteChunk, WriteError, Stages
<1>4. CASE Client
  BY <1>4 DEF Client, Produce, Consume, Exit, Stages
<1>5. CASE UNCHANGED vars
  BY <1>5 DEF vars, Stages
<1> QED
  BY <1>1, <1>2, <1>3, <1>4, <1>5 DEF Next

LEMMA TypeStep == TypeInv /\ [Next]_vars => TypeInv'
<1> SUFFICES ASSUME TypeInv, [Next]_vars PROVE TypeOK' /\ Stages'
  BY DEF TypeInv
<1>1. CASE UNCHANGED vars
  BY <1>1, StagesStep DEF vars, pageVars, wires, goVars, ptyVars, procVars, TypeInv, TypeOK
<1> QED
  BY <1>1, StagesStep, TypePage, TypeHandler, TypeReader, TypeClient DEF Next, TypeInv

\* Every variable keeps its type: the pseudo-terminal's buffers keep their
\* capacity, and the reader holds a chunk exactly while it is writing it.
THEOREM TermTypeCorrect == Spec => []TypeOK
<1>1. TypeInv => TypeOK
  BY DEF TypeInv
<1> QED
  BY <1>1, TermTypeInit, TypeStep, PTL DEF Spec

-----------------------------------------------------------------------------
\* Numbered sequences.

LEMMA CountingEmpty == \A n : Counting(<<>>, n)
BY DEF Counting

LEMMA CountingConcat ==
  ASSUME NEW S, NEW s \in Seq(S), NEW t \in Seq(S), NEW n \in Nat,
         Counting(s, n), Counting(t, n + Len(s))
  PROVE  Counting(s \o t, n) /\ Len(s \o t) = Len(s) + Len(t)
<1>1. /\ s \o t \in Seq(S) /\ Len(s \o t) = Len(s) + Len(t)
      /\ \A i \in 1 .. Len(s) + Len(t) : (s \o t)[i] = IF i <= Len(s) THEN s[i] ELSE t[i - Len(s)]
  BY ConcatProperties
<1>2. /\ Len(s) \in Nat /\ Len(t) \in Nat
      /\ DOMAIN s = 1..Len(s) /\ DOMAIN t = 1..Len(t) /\ DOMAIN (s \o t) = 1..Len(s \o t)
  BY <1>1, LenProperties
<1>3. ASSUME NEW i \in 1..(Len(s) + Len(t))
      PROVE  (s \o t)[i] = n + i
  <2>1. CASE i <= Len(s)
    BY <1>1, <1>2, <1>3, <2>1 DEF Counting
  <2>2. CASE ~(i <= Len(s))
    <3>1. i - Len(s) \in DOMAIN t /\ (s \o t)[i] = t[i - Len(s)]
      BY <1>1, <1>2, <2>2
    <3>2. t[i - Len(s)] = (n + Len(s)) + (i - Len(s))
      BY <3>1 DEF Counting
    <3> QED
      BY <1>2, <3>1, <3>2
  <2> QED
    BY <2>1, <2>2
<1> QED
  BY <1>1, <1>2, <1>3 DEF Counting

LEMMA CountingTail ==
  ASSUME NEW S, NEW s \in Seq(S), s # <<>>, NEW n \in Nat, Counting(s, n)
  PROVE  Head(s) = n + 1 /\ Counting(Tail(s), n + 1) /\ Len(Tail(s)) = Len(s) - 1
<1>1. /\ Head(s) = s[1] /\ Len(s) \in Nat /\ Len(s) >= 1 /\ Len(Tail(s)) = Len(s) - 1
      /\ DOMAIN s = 1..Len(s) /\ DOMAIN Tail(s) = 1..(Len(s) - 1)
      /\ \A i \in 1..(Len(s) - 1) : Tail(s)[i] = s[i + 1]
  BY TakeHead
<1>2. Head(s) = n + 1
  BY <1>1 DEF Counting
<1>3. ASSUME NEW i \in 1..(Len(s) - 1)
      PROVE  Tail(s)[i] = (n + 1) + i
  <2>1. i + 1 \in DOMAIN s /\ Tail(s)[i] = s[i + 1]
    BY <1>1
  <2>2. s[i + 1] = n + (i + 1)
    BY <2>1 DEF Counting
  <2> QED
    BY <2>1, <2>2
<1> QED
  BY <1>1, <1>2, <1>3 DEF Counting

LEMMA CountingAppend ==
  ASSUME NEW S, NEW s \in Seq(S), NEW n \in Nat, NEW e \in S, Counting(s, n),
         e = n + Len(s) + 1
  PROVE  Counting(Append(s, e), n) /\ Len(Append(s, e)) = Len(s) + 1
<1>1. /\ Len(s) \in Nat /\ Len(Append(s, e)) = Len(s) + 1
      /\ DOMAIN s = 1..Len(s) /\ DOMAIN Append(s, e) = 1..(Len(s) + 1)
      /\ \A i \in 1..Len(s) : Append(s, e)[i] = s[i]
      /\ Append(s, e)[Len(s) + 1] = e
  BY AddLast
<1>2. ASSUME NEW i \in 1..(Len(s) + 1)
      PROVE  Append(s, e)[i] = n + i
  <2>1. CASE i \in 1..Len(s)
    BY <1>1, <2>1 DEF Counting
  <2>2. CASE i = Len(s) + 1
    BY <1>1, <2>2
  <2> QED
    BY <1>1, <2>1, <2>2
<1> QED
  BY <1>1, <1>2 DEF Counting

-----------------------------------------------------------------------------
\* Output.

\* Wire, hand and buffer each go on where the one before ends, and together
\* they reach the last chunk produced, until the reader gives up.
PipeInv ==
  rpc # "exited" =>
    /\ Counting(hand, shown + Len(toPage))
    /\ Counting(ptyOut, shown + Len(toPage) + Len(hand))
    /\ shown + Len(toPage) + Len(hand) + Len(ptyOut) = produced

OutputInv == Counting(toPage, shown) /\ PipeInv

LEMMA OutputStep == TypeInv /\ OutputInv /\ [Next]_vars => OutputInv'
<1> SUFFICES ASSUME TypeInv, OutputInv, [Next]_vars PROVE OutputInv'
  OBVIOUS
<1> USE DEF pageVars, wires, goVars, ptyVars, procVars
<1>0. /\ toPage \in Seq(1..MaxOutput) /\ hand \in Seq(1..MaxOutput)
      /\ ptyOut \in Seq(1..MaxOutput) /\ shown \in Nat /\ produced \in Nat
      /\ Len(toPage) \in Nat /\ Len(hand) \in Nat /\ Len(ptyOut) \in Nat
      /\ rpc \in {"off", "read", "write", "exited"}
      /\ Len(hand) = (IF rpc = "write" THEN 1 ELSE 0)
      /\ \A S : <<>> \in Seq(S) /\ Len(<<>>) = 0
  BY BoundFacts, LenProperties, EmptySeq DEF TypeInv, TypeOK
<1>1. ASSUME shown' = shown, toPage' = toPage, hand' = hand, ptyOut' = ptyOut,
             produced' = produced, rpc' # "exited" => rpc # "exited"
      PROVE  OutputInv'
  BY <1>1 DEF OutputInv, PipeInv
<1>2. CASE Receive
  <2>1. /\ toPage # <<>> /\ shown' = Head(toPage) /\ toPage' = Tail(toPage)
        /\ hand' = hand /\ ptyOut' = ptyOut /\ produced' = produced /\ rpc' = rpc
    BY <1>2 DEF Receive
  <2>2. shown' = shown + 1 /\ Counting(toPage', shown') /\ Len(toPage') = Len(toPage) - 1
    BY <1>0, <2>1, CountingTail DEF OutputInv
  <2>3. shown' + Len(toPage') = shown + Len(toPage)
    BY <1>0, <2>2
  <2>4. PipeInv'
    BY <2>1, <2>3 DEF OutputInv, PipeInv
  <2> QED
    BY <2>2, <2>4 DEF OutputInv
<1>3. CASE ReadChunk
  <2>1. /\ rpc = "read" /\ ptyOut # <<>> /\ hand' = <<Head(ptyOut)>> /\ ptyOut' = Tail(ptyOut)
        /\ shown' = shown /\ toPage' = toPage /\ produced' = produced /\ rpc' = "write"
    BY <1>3 DEF ReadChunk
  <2>2. Len(hand) = 0 /\ Len(hand') = 1
    BY <1>0, <2>1
  <2>3. Counting(ptyOut, shown + Len(toPage)) /\ shown + Len(toPage) \in Nat
    BY <1>0, <2>1, <2>2 DEF OutputInv, PipeInv
  <2>4. /\ Head(ptyOut) = shown + Len(toPage) + 1
        /\ Counting(ptyOut', shown + Len(toPage) + 1) /\ Len(ptyOut') = Len(ptyOut) - 1
    BY <1>0, <2>1, <2>3, CountingTail
  <2>5. Counting(hand', shown + Len(toPage))
    <3>1. DOMAIN hand' = {1} /\ hand'[1] = Head(ptyOut)
      BY <2>1
    <3> QED
      BY <3>1, <2>4 DEF Counting
  <2>6. shown + Len(toPage) + Len(hand) + Len(ptyOut) = produced
    BY <2>1 DEF OutputInv, PipeInv
  <2>7. shown + Len(toPage) + 1 + Len(ptyOut') = produced
    BY <1>0, <2>2, <2>4, <2>6
  <2>8. PipeInv'
    BY <2>1, <2>2, <2>4, <2>5, <2>7 DEF PipeInv
  <2> QED
    BY <2>1, <2>8 DEF OutputInv
<1>4. CASE WriteChunk
  <2>1. /\ rpc = "write" /\ toPage' = toPage \o hand /\ hand' = <<>> /\ rpc' = "read"
        /\ shown' = shown /\ ptyOut' = ptyOut /\ produced' = produced
    BY <1>4 DEF WriteChunk
  <2>2. Counting(toPage', shown) /\ Len(toPage') = Len(toPage) + Len(hand)
    BY <1>0, <2>1, CountingConcat DEF OutputInv, PipeInv
  <2>3. Counting(hand', shown + Len(toPage')) /\ Len(hand') = 0
    BY <1>0, <2>1, CountingEmpty
  <2>4. shown + Len(toPage') + Len(hand') = shown + Len(toPage) + Len(hand)
    BY <1>0, <2>2, <2>3
  <2>5. PipeInv'
    BY <2>1, <2>3, <2>4 DEF OutputInv, PipeInv
  <2> QED
    BY <2>1, <2>2, <2>5 DEF OutputInv
<1>5. CASE WriteError
  BY <1>5 DEF WriteError, OutputInv, PipeInv
<1>6. CASE Produce
  <2>1. /\ produced' = produced + 1 /\ ptyOut' = Append(ptyOut, produced + 1)
        /\ shown' = shown /\ toPage' = toPage /\ hand' = hand /\ rpc' = rpc
        /\ produced < MaxOutput
    BY <1>6 DEF Produce
  <2>5. produced + 1 \in 1..MaxOutput
    BY <1>0, <2>1, BoundFacts
  <2>2. ASSUME rpc # "exited"
        PROVE  /\ Counting(ptyOut', shown + Len(toPage) + Len(hand))
               /\ Len(ptyOut') = Len(ptyOut) + 1
               /\ shown + Len(toPage) + Len(hand) + Len(ptyOut) = produced
    <3>1. /\ Counting(ptyOut, shown + Len(toPage) + Len(hand))
          /\ shown + Len(toPage) + Len(hand) + Len(ptyOut) = produced
      BY <2>2 DEF OutputInv, PipeInv
    <3>2. shown + Len(toPage) + Len(hand) \in Nat
      BY <1>0
    <3>3. produced + 1 = (shown + Len(toPage) + Len(hand)) + Len(ptyOut) + 1
      BY <1>0, <3>1
    <3> QED
      BY <1>0, <2>1, <2>5, <3>1, <3>2, <3>3, CountingAppend
  <2>3. ASSUME rpc # "exited"
        PROVE  shown + Len(toPage) + Len(hand) + Len(ptyOut') = produced'
    <3>1. /\ Len(ptyOut') = Len(ptyOut) + 1 /\ produced' = produced + 1
          /\ shown + Len(toPage) + Len(hand) + Len(ptyOut) = produced
      BY <2>1, <2>2, <2>3
    <3> QED
      BY <1>0, <3>1
  <2>4. PipeInv'
    BY <2>1, <2>2, <2>3 DEF OutputInv, PipeInv
  <2> QED
    BY <2>1, <2>4 DEF OutputInv
<1>7. CASE Page
  BY <1>1, <1>2, <1>7 DEF Page, WsOpen, WsClose, Fit, Type, PasteSize
<1>8. CASE Handler
  <2>1. CASE OpenSlave
    BY <1>1, <2>1 DEF OpenSlave, TypeInv, Stages
  <2> QED
    BY <1>1, <1>8, <2>1 DEF Handler, TakeFrame, WriteKey, ReadError, CloseSlave, Return
<1>9. CASE Reader
  BY <1>1, <1>3, <1>4, <1>5, <1>9 DEF Reader, ReadEnd
<1>10. CASE Client
  BY <1>1, <1>6, <1>10 DEF Client, Consume, Exit
<1>11. CASE UNCHANGED vars
  BY <1>1, <1>11 DEF vars
<1> QED
  BY <1>7, <1>8, <1>9, <1>10, <1>11 DEF Next

\* The page shows the client's output in order, with no gap and nothing twice,
\* for buffers of any size (slave.go:85-110, ws_handler.go:61-79): whatever the
\* reader holds or has sent continues what the page has shown.
THEOREM OutputKeepsOrder == Spec => []OutputInOrder
<1>1. Init => OutputInv
  <2> SUFFICES ASSUME Init PROVE OutputInv
    OBVIOUS
  <2>1. /\ toPage = <<>> /\ hand = <<>> /\ ptyOut = <<>> /\ shown = 0 /\ produced = 0
        /\ Len(<<>>) = 0
    BY EmptySeq DEF Init
  <2> QED
    BY <2>1, CountingEmpty DEF OutputInv, PipeInv
<1>2. TypeInv /\ OutputInv /\ [Next]_vars => OutputInv'
  BY OutputStep
<1>3. TypeInv /\ OutputInv => OutputInOrder
  <2> SUFFICES ASSUME TypeInv, OutputInv, rpc # "exited"
               PROVE  /\ Counting(toPage \o hand \o ptyOut, shown)
                      /\ shown + Len(toPage \o hand \o ptyOut) = produced
    BY DEF OutputInOrder, OutputInv
  <2>1. /\ toPage \in Seq(1..MaxOutput) /\ hand \in Seq(1..MaxOutput)
        /\ ptyOut \in Seq(1..MaxOutput) /\ shown \in Nat
        /\ Len(toPage) \in Nat /\ Len(hand) \in Nat /\ Len(ptyOut) \in Nat
    BY BoundFacts, LenProperties DEF TypeInv, TypeOK
  <2>2. Counting(toPage \o hand, shown) /\ Len(toPage \o hand) = Len(toPage) + Len(hand)
    BY <2>1, CountingConcat DEF OutputInv, PipeInv
  <2>3. toPage \o hand \in Seq(1..MaxOutput)
    BY <2>1, ConcatProperties
  <2>4. Counting(ptyOut, shown + Len(toPage \o hand))
    <3>1. shown + Len(toPage \o hand) = shown + Len(toPage) + Len(hand)
      BY <2>1, <2>2
    <3> QED
      BY <3>1 DEF OutputInv, PipeInv
  <2>5. /\ Counting(toPage \o hand \o ptyOut, shown)
        /\ Len(toPage \o hand \o ptyOut) = Len(toPage \o hand) + Len(ptyOut)
    BY <2>1, <2>2, <2>3, <2>4, CountingConcat
  <2>6. shown + Len(toPage) + Len(hand) + Len(ptyOut) = produced
    BY DEF OutputInv, PipeInv
  <2> QED
    BY <2>1, <2>2, <2>5, <2>6
<1> QED
  BY <1>1, <1>2, <1>3, TermTypeInit, TypeStep, PTL DEF Spec

-----------------------------------------------------------------------------
\* Sizes.

\* No size is under way behind frame i.
LastSize(i) ==
  /\ i \in DOMAIN toServer /\ ~IsKey(toServer[i])
  /\ \A j \in DOMAIN toServer : j > i => IsKey(toServer[j])

\* The last size under way is the last asked for, and so is the terminal's when
\* none is under way.
SizeInv ==
  /\ (\A i \in DOMAIN toServer : IsKey(toServer[i])) => ptySize = asked
  /\ \A i \in DOMAIN toServer : LastSize(i) => toServer[i].size = asked

LEMMA SizeStep == TypeInv /\ SizeInv /\ [Next]_vars => SizeInv'
<1> SUFFICES ASSUME TypeInv, SizeInv, [Next]_vars PROVE SizeInv'
  OBVIOUS
<1> USE DEF pageVars, wires, goVars, ptyVars, procVars
<1>0. toServer \in Seq(Frame) /\ Len(toServer) \in Nat /\ DOMAIN toServer = 1..Len(toServer)
  BY LenProperties DEF TypeInv, TypeOK
<1>1. ASSUME asked' = asked, toServer' = toServer, ptySize' = ptySize
      PROVE  SizeInv'
  BY <1>1 DEF SizeInv, LastSize
<1>a. ASSUME NEW s \in Sizes, asked' = s, toServer' = Append(toServer, Size(s))
      PROVE  SizeInv'
  <2> SUFFICES /\ ~\A i \in DOMAIN toServer' : IsKey(toServer'[i])
               /\ \A i \in DOMAIN toServer' : LastSize(i)' => toServer'[i].size = s
    BY <1>a DEF SizeInv
  <2>2. /\ DOMAIN toServer' = 1..(Len(toServer) + 1)
        /\ toServer'[Len(toServer) + 1] = Size(s)
        /\ ~IsKey(Size(s)) /\ Size(s).size = s
    BY <1>0, <1>a, FrameFacts, AddLast
  <2>3. \A i \in DOMAIN toServer' : LastSize(i)' => i = Len(toServer) + 1
    BY <1>0, <2>2 DEF LastSize
  <2> QED
    BY <1>0, <2>2, <2>3
<1>2. CASE Fit
  <2>1. PICK s \in Sizes : /\ asked' = IF ws = "open" THEN s ELSE asked
                           /\ toServer' = IF ws = "open" THEN Append(toServer, Size(s))
                                                         ELSE toServer
    BY <1>2 DEF Fit
  <2>2. ptySize' = ptySize
    BY <1>2 DEF Fit
  <2>3. CASE ws = "open"
    BY <1>a, <2>1, <2>3
  <2>4. CASE ws # "open"
    BY <1>1, <2>1, <2>2, <2>4
  <2> QED
    BY <2>3, <2>4
<1>10. CASE PasteSize
  BY <1>a, <1>10 DEF PasteSize
<1>3. CASE Type
  <2>1. /\ asked' = asked /\ ptySize' = ptySize
        /\ toServer' = Append(toServer, Key(sent + 1))
        /\ sent < MaxKeys
    BY <1>3 DEF Type
  <2>2. sent \in Nat
    BY BoundFacts DEF TypeInv, TypeOK
  <2>3. sent + 1 \in 1..MaxKeys
    BY <2>1, <2>2, BoundFacts
  <2>4. /\ DOMAIN toServer' = 1..(Len(toServer) + 1)
        /\ \A i \in 1..Len(toServer) : toServer'[i] = toServer[i]
        /\ IsKey(toServer'[Len(toServer) + 1])
    BY <1>0, <2>1, <2>3, FrameFacts, AddLast
  <2>5. \A i \in DOMAIN toServer' : LastSize(i)' => i \in DOMAIN toServer /\ LastSize(i)
    BY <1>0, <2>4 DEF LastSize
  <2>6. (\A i \in DOMAIN toServer' : IsKey(toServer'[i])) => \A i \in DOMAIN toServer : IsKey(toServer[i])
    BY <1>0, <2>4
  <2> QED
    BY <1>0, <2>1, <2>4, <2>5, <2>6 DEF SizeInv
<1>4. CASE TakeFrame
  <2>1. /\ toServer # <<>> /\ toServer' = Tail(toServer) /\ asked' = asked
        /\ IsKey(Head(toServer)) => ptySize' = ptySize
        /\ ~IsKey(Head(toServer)) => ptySize' = Head(toServer).size
    BY <1>4 DEF TakeFrame
  <2>2. /\ Head(toServer) = toServer[1] /\ Len(toServer) >= 1
        /\ DOMAIN toServer' = 1..(Len(toServer) - 1)
        /\ \A i \in 1..(Len(toServer) - 1) : toServer'[i] = toServer[i + 1]
    BY <1>0, <2>1, TakeHead
  <2>3. \A j \in DOMAIN toServer : j > 1 => j - 1 \in DOMAIN toServer' /\ toServer[j] = toServer'[j - 1]
    <3> SUFFICES ASSUME NEW j \in 1..Len(toServer), j > 1
                 PROVE  j - 1 \in DOMAIN toServer' /\ toServer[j] = toServer'[j - 1]
      BY <1>0
    <3>1. j - 1 \in 1..(Len(toServer) - 1) /\ (j - 1) + 1 = j
      BY <1>0
    <3> QED
      BY <2>2, <3>1
  <2>4. ASSUME NEW i \in DOMAIN toServer', LastSize(i)'
        PROVE  i + 1 \in DOMAIN toServer /\ LastSize(i + 1) /\ toServer'[i] = toServer[i + 1]
    <3>1. i + 1 \in DOMAIN toServer /\ toServer'[i] = toServer[i + 1]
      BY <1>0, <2>2
    <3>2. ASSUME NEW j \in DOMAIN toServer, j > i + 1
          PROVE  IsKey(toServer[j])
      <4>1. j > 1 /\ j - 1 > i
        BY <1>0, <2>2, <3>2
      <4> QED
        BY <2>3, <2>4, <4>1 DEF LastSize
    <3> QED
      BY <2>4, <3>1, <3>2 DEF LastSize
  <2>5. ASSUME \A i \in DOMAIN toServer' : IsKey(toServer'[i])
        PROVE  ptySize' = asked
    <3>1. \A j \in DOMAIN toServer : j > 1 => IsKey(toServer[j])
      BY <2>3, <2>5
    <3>2. CASE IsKey(Head(toServer))
      <4>1. \A j \in DOMAIN toServer : j = 1 \/ j > 1
        BY <1>0
      <4>2. \A j \in DOMAIN toServer : IsKey(toServer[j])
        BY <2>2, <3>1, <3>2, <4>1
      <4> QED
        BY <2>1, <2>5, <3>2, <4>2 DEF SizeInv
    <3>3. CASE ~IsKey(Head(toServer))
      <4>1. 1 \in DOMAIN toServer
        BY <1>0, <2>2
      <4>2. LastSize(1)
        BY <2>2, <3>1, <3>3, <4>1 DEF LastSize
      <4> QED
        BY <2>1, <2>2, <2>5, <3>3, <4>1, <4>2 DEF SizeInv
    <3> QED
      BY <3>2, <3>3
  <2>6. ASSUME NEW i \in DOMAIN toServer', LastSize(i)'
        PROVE  toServer'[i].size = asked
    BY <2>4, <2>6 DEF SizeInv
  <2> QED
    BY <2>1, <2>5, <2>6 DEF SizeInv
<1>5. CASE Page
  BY <1>1, <1>2, <1>3, <1>5, <1>10 DEF Page, WsOpen, WsClose, Receive
<1>6. CASE Handler
  BY <1>1, <1>4, <1>6 DEF Handler, OpenSlave, WriteKey, ReadError, CloseSlave, Return
<1>7. CASE Reader
  BY <1>1, <1>7 DEF Reader, ReadChunk, ReadEnd, WriteChunk, WriteError
<1>8. CASE Client
  BY <1>1, <1>8 DEF Client, Produce, Consume, Exit
<1>9. CASE UNCHANGED vars
  BY <1>1, <1>9 DEF vars
<1> QED
  BY <1>5, <1>6, <1>7, <1>8, <1>9 DEF Next

\* Keys in between, fits in a row, pasted text that reads as a size, a socket
\* that opens late: when no frame is left to handle the terminal has the size it
\* was asked for last, by a fit that was sent or by such a text
\* (ws_handler.go:100-108, useTmuxWebSocket.ts:44).
THEOREM SizeDoesSettle == Spec => []SizeSettles
<1>1. Init => SizeInv
  <2> SUFFICES ASSUME Init PROVE SizeInv
    OBVIOUS
  <2>1. DOMAIN toServer = {} /\ ptySize = asked
    BY EmptySeq DEF Init
  <2> QED
    BY <2>1 DEF SizeInv
<1>2. TypeInv /\ SizeInv /\ [Next]_vars => SizeInv'
  BY SizeStep
<1>3. SizeInv => SizeSettles
  BY EmptySeq DEF SizeInv, SizeSettles
<1>4. Spec => []TypeInv
  BY TermTypeInit, TypeStep, PTL DEF Spec
<1> QED
  BY <1>1, <1>2, <1>3, <1>4, PTL DEF Spec

-----------------------------------------------------------------------------
\* Keys.

LEMMA KeyFacts ==
  /\ \A f \in Frame : IsKey(f) => f.n \in 1..MaxKeys /\ f = Key(f.n)
  /\ \A m, n \in 1..MaxKeys : Key(m) = Key(n) => m = n
<1>1. ASSUME NEW f \in Frame, IsKey(f)
      PROVE  f.n \in 1..MaxKeys /\ f = Key(f.n)
  <2>1. PICK n \in 1..MaxKeys : f = Key(n)
    BY <1>1, FrameFacts DEF Frame
  <2> QED
    BY <2>1, FrameFacts
<1>2. ASSUME NEW m \in 1..MaxKeys, NEW n \in 1..MaxKeys, Key(m) = Key(n)
      PROVE  m = n
  BY <1>2, FrameFacts
<1> QED
  BY <1>1, <1>2

\* A frame put on the wire.
LEMMA WireAppend ==
  ASSUME toServer \in Seq(Frame), NEW f \in Frame, toServer' = Append(toServer, f)
  PROVE  /\ \A n \in 1..MaxKeys : OnWire(n)' <=> OnWire(n) \/ f = Key(n)
         /\ WireInOrder /\ (IsKey(f) => \A n \in 1..MaxKeys : OnWire(n) => n < f.n) => WireInOrder'
<1>1. /\ Len(toServer) \in Nat /\ DOMAIN toServer = 1..Len(toServer)
      /\ DOMAIN toServer' = 1..(Len(toServer) + 1)
      /\ \A i \in 1..Len(toServer) : toServer'[i] = toServer[i]
      /\ toServer'[Len(toServer) + 1] = f
      /\ \A i \in DOMAIN toServer : toServer[i] \in Frame
  BY AddLast, ElementOfSeq, LenProperties
<1>2. \A n : OnWire(n)' <=> OnWire(n) \/ f = Key(n)
  <2>1. \A i \in DOMAIN toServer' : i \in DOMAIN toServer \/ i = Len(toServer) + 1
    BY <1>1
  <2>2. DOMAIN toServer \subseteq DOMAIN toServer' /\ Len(toServer) + 1 \in DOMAIN toServer'
    BY <1>1
  <2> QED
    BY <1>1, <2>1, <2>2 DEF OnWire, Key
<1>3. ASSUME WireInOrder, IsKey(f) => \A n \in 1..MaxKeys : OnWire(n) => n < f.n
      PROVE  WireInOrder'
  <2> SUFFICES ASSUME NEW i \in DOMAIN toServer', NEW j \in DOMAIN toServer', i < j,
                      IsKey(toServer'[i]), IsKey(toServer'[j])
               PROVE  toServer'[i].n < toServer'[j].n
    BY DEF WireInOrder, IsKey
  <2>1. i \in DOMAIN toServer /\ toServer'[i] = toServer[i]
    BY <1>1
  <2>2. CASE j \in DOMAIN toServer
    BY <1>1, <1>3, <2>1, <2>2 DEF WireInOrder
  <2>3. CASE j = Len(toServer) + 1
    <3>1. toServer[i].n \in 1..MaxKeys /\ toServer[i] = Key(toServer[i].n)
      BY <1>1, <2>1, KeyFacts
    <3>2. OnWire(toServer[i].n)
      BY <2>1, <3>1 DEF OnWire
    <3> QED
      BY <1>1, <1>3, <2>1, <2>3, <3>1, <3>2
  <2> QED
    BY <1>1, <2>2, <2>3
<1> QED
  BY <1>2, <1>3

\* A frame taken from the wire: when it is a key it is the least on the wire.
LEMMA WireTail ==
  ASSUME toServer \in Seq(Frame), toServer # <<>>, toServer' = Tail(toServer), WireInOrder
  PROVE  /\ Head(toServer) \in Frame /\ WireInOrder'
         /\ \A n \in 1..MaxKeys :
              /\ OnWire(n) <=> OnWire(n)' \/ Head(toServer) = Key(n)
              /\ OnWire(n)' /\ IsKey(Head(toServer)) => Head(toServer).n < n
<1>1. /\ Head(toServer) \in Frame /\ Head(toServer) = toServer[1] /\ Len(toServer) \in Nat
      /\ Len(toServer) >= 1 /\ DOMAIN toServer = 1..Len(toServer)
      /\ DOMAIN toServer' = 1..(Len(toServer) - 1)
      /\ \A i \in 1..(Len(toServer) - 1) : toServer'[i] = toServer[i + 1]
  BY TakeHead
<1>2. \A i \in DOMAIN toServer' : i \in Nat /\ i + 1 \in DOMAIN toServer /\ 1 < i + 1 /\ toServer'[i] = toServer[i + 1]
  BY <1>1
<1>3. \A i \in DOMAIN toServer : i = 1 \/ (i - 1 \in DOMAIN toServer' /\ toServer[i] = toServer'[i - 1])
  <2> SUFFICES ASSUME NEW i \in 1..Len(toServer), i # 1
               PROVE  i - 1 \in DOMAIN toServer' /\ toServer[i] = toServer'[i - 1]
    BY <1>1
  <2>1. i - 1 \in 1..(Len(toServer) - 1) /\ (i - 1) + 1 = i
    BY <1>1
  <2> QED
    BY <1>1, <2>1
<1>4. WireInOrder'
  <2> SUFFICES ASSUME NEW i \in DOMAIN toServer', NEW j \in DOMAIN toServer', i < j,
                      IsKey(toServer'[i]), IsKey(toServer'[j])
               PROVE  toServer'[i].n < toServer'[j].n
    BY DEF WireInOrder, IsKey
  <2>1. i + 1 < j + 1
    BY <1>2
  <2> QED
    BY <1>2, <2>1 DEF WireInOrder
<1>5. 1 \in DOMAIN toServer
  BY <1>1
<1>6. ASSUME NEW n \in 1..MaxKeys
      PROVE  /\ OnWire(n) <=> OnWire(n)' \/ Head(toServer) = Key(n)
             /\ OnWire(n)' /\ IsKey(Head(toServer)) => Head(toServer).n < n
  <2>1. OnWire(n) => OnWire(n)' \/ Head(toServer) = Key(n)
    BY <1>1, <1>3 DEF OnWire, Key
  <2>2. ASSUME OnWire(n)'
        PROVE  OnWire(n) /\ (IsKey(Head(toServer)) => Head(toServer).n < n)
    <3>1. PICK i \in DOMAIN toServer' : toServer'[i] = Key(n)
      BY <2>2 DEF OnWire, Key
    <3>2. i + 1 \in DOMAIN toServer /\ 1 < i + 1 /\ toServer[i + 1] = Key(n)
      BY <1>2, <3>1
    <3>3. IsKey(toServer[i + 1]) /\ toServer[i + 1].n = n
      BY <3>2, FrameFacts
    <3> QED
      BY <1>1, <1>5, <3>2, <3>3 DEF OnWire, WireInOrder
  <2>3. Head(toServer) = Key(n) => OnWire(n)
    BY <1>1, <1>5 DEF OnWire
  <2> QED
    BY <2>1, <2>2, <2>3
<1> QED
  BY <1>1, <1>4, <1>6

\* Before the client is started all that was typed is on the wire.
KeysOK ==
  /\ Counting(ptyIn, received)
  /\ hpc = "type" => key = Given
  /\ Given <= sent
  /\ \A n \in 1..MaxKeys : OnWire(n) <=> Given < n /\ n <= sent
  /\ WireInOrder

KeysInv ==
  /\ hpc = "start" => proc = "none"
  /\ proc # "exited" /\ hpc \in {"start", "read", "type"} => KeysOK

LEMMA KeysStep == TypeInv /\ KeysInv /\ [Next]_vars => KeysInv'
<1> SUFFICES ASSUME TypeInv, KeysInv, [Next]_vars PROVE KeysInv'
  OBVIOUS
<1> USE DEF pageVars, wires, goVars, ptyVars, procVars
<1>0. /\ toServer \in Seq(Frame) /\ ptyIn \in Seq(1..MaxKeys) /\ Len(ptyIn) \in Nat
      /\ received \in Nat /\ sent \in Nat /\ sent <= MaxKeys /\ MaxKeys \in Nat /\ key \in 0..MaxKeys
      /\ Given \in Nat /\ \A S : <<>> \in Seq(S) /\ Len(<<>>) = 0
  BY BoundFacts, LenProperties, EmptySeq DEF TypeInv, TypeOK, Given
<1>1. ASSUME ptyIn' = ptyIn, received' = received, key' = key, sent' = sent, toServer' = toServer,
             proc' = "exited" \/ proc' = proc \/ proc = "none", proc' = proc \/ hpc' # "start",
             hpc' = hpc \/ (hpc = "start" /\ hpc' = "read") \/ hpc' \notin {"start", "read", "type"}
      PROVE  KeysInv'
  <2>1. \/ (hpc' = "start" => hpc = "start") /\ (hpc' = "type" <=> hpc = "type")
        \/ hpc' \notin {"start", "read", "type"}
    BY <1>1
  <2>2. (hpc' = "type" <=> hpc = "type") => (KeysOK => KeysOK')
    BY <1>1 DEF KeysOK, Given, OnWire, WireInOrder, Counting, IsKey
  <2> QED
    BY <1>1, <2>1, <2>2 DEF KeysInv
<1>2. CASE Type
  <2>1. /\ sent' = sent + 1 /\ toServer' = Append(toServer, Key(sent + 1)) /\ sent < MaxKeys
        /\ UNCHANGED <<hpc, key, ptyIn, received, proc>>
    BY <1>2 DEF Type
  <2>2. sent + 1 \in 1..MaxKeys /\ Key(sent + 1) \in Frame /\ Key(sent + 1).n = sent + 1
    BY <1>0, <2>1, FrameFacts
  <2>3. KeysOK => KeysOK'
    <3> SUFFICES ASSUME KeysOK PROVE KeysOK'
      OBVIOUS
    <3>1. Given' = Given /\ Given <= sent /\ Counting(ptyIn, received)' /\ (hpc' = "type" => key' = Given')
      BY <2>1 DEF KeysOK, Given, Counting
    <3>2. \A n \in 1..MaxKeys : OnWire(n)' <=> OnWire(n) \/ Key(sent + 1) = Key(n)
      BY <1>0, <2>1, <2>2, WireAppend
    <3>3. \A n \in 1..MaxKeys : OnWire(n)' <=> Given < n /\ n <= sent + 1
      <4> SUFFICES ASSUME NEW n \in 1..MaxKeys PROVE OnWire(n)' <=> Given < n /\ n <= sent + 1
        OBVIOUS
      <4>1. Key(sent + 1) = Key(n) <=> n = sent + 1
        BY <2>2, KeyFacts
      <4>2. OnWire(n) <=> Given < n /\ n <= sent
        BY DEF KeysOK
      <4> QED
        BY <1>0, <3>1, <3>2, <4>1, <4>2
    <3>4. WireInOrder'
      <4>1. \A n \in 1..MaxKeys : OnWire(n) => n < sent + 1
        BY <1>0 DEF KeysOK
      <4> QED
        BY <1>0, <2>1, <2>2, <4>1, WireAppend DEF KeysOK
    <3> QED
      BY <1>0, <2>1, <3>1, <3>3, <3>4 DEF KeysOK
  <2> QED
    BY <2>1, <2>3 DEF KeysInv
<1>a. ASSUME NEW s \in Sizes, toServer' = Append(toServer, Size(s)),
             UNCHANGED <<hpc, key, ptyIn, received, proc, sent>>
      PROVE  KeysInv'
  <2>1. \A n \in 1..MaxKeys : OnWire(n)' <=> OnWire(n)
    <3>1. \A n \in 1..MaxKeys : Size(s) # Key(n)
      BY FrameFacts
    <3> QED
      BY <1>0, <1>a, <3>1, WireAppend, FrameFacts
  <2>2. WireInOrder => WireInOrder'
    BY <1>0, <1>a, WireAppend, FrameFacts
  <2>3. KeysOK => KeysOK'
    BY <1>a, <2>1, <2>2 DEF KeysOK, Given, Counting
  <2> QED
    BY <1>a, <2>3 DEF KeysInv
<1>3. CASE Fit
  <2>1. PICK s \in Sizes : toServer' = IF ws = "open" THEN Append(toServer, Size(s)) ELSE toServer
    BY <1>3 DEF Fit
  <2>2. UNCHANGED <<hpc, key, ptyIn, received, proc, sent>>
    BY <1>3 DEF Fit
  <2>3. CASE ws = "open"
    BY <1>a, <2>1, <2>2, <2>3
  <2>4. CASE ws # "open"
    BY <1>1, <2>1, <2>2, <2>4
  <2> QED
    BY <2>3, <2>4
<1>12. CASE PasteSize
  BY <1>a, <1>12 DEF PasteSize
<1>4. CASE TakeFrame
  <2>1. /\ hpc = "read" /\ toServer # <<>> /\ toServer' = Tail(toServer)
        /\ UNCHANGED <<ptyIn, received, proc, sent>>
        /\ IsKey(Head(toServer)) => hpc' = "type" /\ key' = Head(toServer).n
        /\ ~IsKey(Head(toServer)) => hpc' = "read"
    BY <1>4 DEF TakeFrame
  <2> SUFFICES ASSUME KeysOK PROVE KeysOK'
    BY <2>1 DEF KeysInv
  <2>2. /\ Head(toServer) \in Frame /\ WireInOrder'
        /\ \A n \in 1..MaxKeys :
             /\ OnWire(n) <=> OnWire(n)' \/ Head(toServer) = Key(n)
             /\ OnWire(n)' /\ IsKey(Head(toServer)) => Head(toServer).n < n
    BY <1>0, <2>1, WireTail DEF KeysOK
  <2>3. CASE IsKey(Head(toServer))
    <3>1. PICK h \in 1..MaxKeys : h = Head(toServer).n /\ Head(toServer) = Key(h)
      BY <2>2, <2>3, KeyFacts
    <3>2. \A n \in 1..MaxKeys : Head(toServer) = Key(n) <=> n = h
      BY <3>1, KeyFacts
    <3>3. Given < h /\ h <= sent
      BY <2>2, <3>1 DEF KeysOK
    <3>4. h = Given + 1
      <4>1. Given + 1 \in 1..MaxKeys /\ OnWire(Given + 1)
        <5>1. Given + 1 \in 1..MaxKeys /\ Given < Given + 1 /\ Given + 1 <= sent
          BY <1>0, <3>3
        <5> QED
          BY <5>1 DEF KeysOK
      <4> QED
        BY <1>0, <2>2, <2>3, <3>1, <3>2, <3>3, <4>1
    <3>5. Given' = Given + 1
      BY <1>0, <2>1, <2>3 DEF Given
    <3>6. \A n \in 1..MaxKeys : OnWire(n)' <=> Given' < n /\ n <= sent
      <4> SUFFICES ASSUME NEW n \in 1..MaxKeys PROVE OnWire(n)' <=> Given + 1 < n /\ n <= sent
        BY <3>5
      <4>1. OnWire(n) <=> Given < n /\ n <= sent
        BY DEF KeysOK
      <4>2. /\ OnWire(n) <=> OnWire(n)' \/ n = h
            /\ OnWire(n)' => h < n
        BY <2>2, <2>3, <3>1, <3>2
      <4> QED
        BY <1>0, <3>4, <4>1, <4>2
    <3> QED
      BY <1>0, <2>1, <2>2, <2>3, <3>1, <3>3, <3>4, <3>5, <3>6 DEF KeysOK, Counting
  <2>4. CASE ~IsKey(Head(toServer))
    <3>1. \A n \in 1..MaxKeys : Head(toServer) # Key(n)
      BY <2>4, FrameFacts
    <3>2. Given' = Given /\ hpc' = "read"
      BY <2>1, <2>4 DEF Given
    <3> QED
      BY <2>1, <2>2, <3>1, <3>2 DEF KeysOK, Counting
  <2> QED
    BY <2>3, <2>4
<1>5. CASE WriteKey
  <2>1. /\ hpc = "type" /\ hpc' = "read" /\ UNCHANGED <<received, proc, sent, toServer, key>>
        /\ (proc = "exited" \/ ptyIn' = Append(ptyIn, key))
    BY <1>5 DEF WriteKey
  <2> SUFFICES ASSUME KeysOK, ptyIn' = Append(ptyIn, key) PROVE KeysOK'
    BY <2>1 DEF KeysInv
  <2>2. key = received + Len(ptyIn) + 1 /\ key = Given
    BY <2>1 DEF KeysOK, Given
  <2>3. key \in 1..MaxKeys
    BY <1>0, <2>2
  <2>4. Counting(ptyIn', received) /\ Len(ptyIn') = Len(ptyIn) + 1
    BY <1>0, <2>2, <2>3, CountingAppend DEF KeysOK
  <2>5. Given' = Given
    BY <1>0, <2>1, <2>2, <2>4 DEF Given
  <2> QED
    BY <2>1, <2>4, <2>5 DEF KeysOK, OnWire, WireInOrder, IsKey
<1>6. CASE Consume
  <2>1. /\ ptyIn # <<>> /\ received' = Head(ptyIn) /\ ptyIn' = Tail(ptyIn)
        /\ UNCHANGED <<hpc, key, proc, sent, toServer>>
    BY <1>6 DEF Consume
  <2> SUFFICES ASSUME KeysOK PROVE KeysOK'
    BY <2>1 DEF KeysInv
  <2>2. received' = received + 1 /\ Counting(ptyIn', received') /\ Len(ptyIn') = Len(ptyIn) - 1
    BY <1>0, <2>1, CountingTail DEF KeysOK
  <2>3. Given' = Given
    <3>1. received' + Len(ptyIn') = received + Len(ptyIn) /\ hpc' = hpc
      BY <1>0, <2>1, <2>2
    <3> QED
      BY <3>1 DEF Given
  <2>4. /\ \A n \in 1..MaxKeys : OnWire(n)' <=> OnWire(n)
        /\ WireInOrder'
    <3>1. toServer' = toServer
      BY <2>1
    <3>2. \A n \in 1..MaxKeys : OnWire(n)' <=> OnWire(n)
      BY <3>1 DEF OnWire
    <3>3. WireInOrder'
      BY <3>1 DEF WireInOrder, KeysOK
    <3> QED
      BY <3>2, <3>3
  <2>5. (hpc = "type" => key = Given)' /\ Given' <= sent'
    BY <2>1, <2>3 DEF KeysOK
  <2>6. \A n \in 1..MaxKeys : OnWire(n)' <=> (Given' < n /\ n <= sent')
    BY <2>1, <2>3, <2>4 DEF KeysOK
  <2> QED
    BY <2>2, <2>4, <2>5, <2>6 DEF KeysOK
<1>7. CASE Page
  BY <1>1, <1>2, <1>3, <1>7, <1>12 DEF Page, WsOpen, WsClose, Receive
<1>8. CASE Handler
  <2>1. CASE OpenSlave
    <3>1. proc = "none"
      BY <2>1 DEF OpenSlave, KeysInv
    <3> QED
      BY <1>1, <2>1, <3>1 DEF OpenSlave
  <2>2. CASE ReadError \/ CloseSlave \/ Return
    BY <1>1, <2>2 DEF ReadError, CloseSlave, Return
  <2> QED
    BY <1>4, <1>5, <1>8, <2>1, <2>2 DEF Handler
<1>9. CASE Reader
  BY <1>1, <1>9 DEF Reader, ReadChunk, ReadEnd, WriteChunk, WriteError
<1>10. CASE Client
  <2>1. CASE Produce
    BY <1>1, <2>1 DEF Produce
  <2>2. CASE Exit
    <3>1. hpc # "start" /\ proc' = "exited" /\ hpc' = hpc
      BY <2>2 DEF Exit, KeysInv
    <3> QED
      BY <3>1 DEF KeysInv
  <2> QED
    BY <1>6, <1>10, <2>1, <2>2 DEF Client
<1>11. CASE UNCHANGED vars
  BY <1>1, <1>11 DEF vars
<1> QED
  BY <1>7, <1>8, <1>9, <1>10, <1>11 DEF Next

\* No input is lost, repeated or overtaken between the page and the client as
\* long as both are there, however small the terminal's buffer and however many
\* sizes travel in between, except the input that reads as a size, which never
\* reaches the client (ws_handler.go:93-111, slave.go:105-107).
THEOREM KeysKeepOrder == Spec => []KeysInOrder
<1>1. Init => KeysInv
  <2> SUFFICES ASSUME Init PROVE KeysInv
    OBVIOUS
  <2>1. /\ toServer = <<>> /\ ptyIn = <<>> /\ received = 0 /\ sent = 0 /\ hpc = "start" /\ proc = "none"
        /\ Len(<<>>) = 0 /\ DOMAIN toServer = {}
    BY EmptySeq DEF Init
  <2>2. Given = 0
    BY <2>1 DEF Given
  <2>3. \A n \in 1..MaxKeys : OnWire(n) <=> Given < n /\ n <= sent
    BY <2>1, <2>2, BoundFacts DEF OnWire
  <2> QED
    BY <2>1, <2>2, <2>3, CountingEmpty DEF KeysInv, KeysOK, WireInOrder
<1>2. TypeInv /\ KeysInv /\ [Next]_vars => KeysInv'
  BY KeysStep
<1>3. KeysInv => KeysInOrder
  BY DEF KeysInv, KeysOK, KeysInOrder
<1> QED
  BY <1>1, <1>2, <1>3, TermTypeInit, TypeStep, PTL DEF Spec

=============================================================================
