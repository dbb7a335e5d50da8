---------------------------- MODULE Broker_proofs ----------------------------
(* Machine-checked proofs about Broker, for every buffer size and any number *)
(* of messages: its type invariant, and that it implements LossyFifo.        *)
EXTENDS Broker, SequenceTheorems, TLAPS

Ids == 1 .. MaxMsgs

\* A message is in hand exactly between its removal from buf and the end of
\* the wait for a confirmation.
HandFull == pc \in {"publish", "await"} => hand \in Ids

TypeInv == TypeOK /\ HandFull

-----------------------------------------------------------------------------
(* Sets of sequence elements. *)

LEMMA ToSetEmpty == ToSet(<<>>) = {}
BY DEF ToSet

LEMMA ToSetOne == \A e : ToSet(<<e>>) = {e}
BY DEF ToSet

LEMMA ToSetAppend ==
  ASSUME NEW S, NEW s \in Seq(S), NEW e \in S
  PROVE  ToSet(Append(s, e)) = ToSet(s) \cup {e}
<1> DEFINE t == Append(s, e)
<1>1. /\ t \in Seq(S) /\ Len(t) = Len(s) + 1
      /\ \A i \in 1 .. Len(s) : t[i] = s[i]
      /\ t[Len(s) + 1] = e
  BY AppendProperties
<1>2. DOMAIN t = 1 .. Len(t) /\ DOMAIN s = 1 .. Len(s) /\ Len(s) \in Nat
  BY <1>1, LenProperties
<1>3. DOMAIN t = DOMAIN s \cup {Len(s) + 1}
  BY <1>1, <1>2
<1> HIDE DEF t
<1>4. ToSet(t) = ToSet(s) \cup {e}
  BY <1>1, <1>2, <1>3 DEF ToSet
<1> QED BY <1>4 DEF t

LEMMA ToSetHeadTail ==
  ASSUME NEW S, NEW s \in Seq(S), s # <<>>
  PROVE  ToSet(s) = {Head(s)} \cup ToSet(Tail(s))
<1> DEFINE t == Tail(s)
<1>1. /\ t \in Seq(S) /\ Len(t) = Len(s) - 1
      /\ \A i \in 1 .. Len(t) : t[i] = s[i + 1]
      /\ Head(s) = s[1]
  BY HeadTailProperties
<1>2. /\ DOMAIN t = 1 .. Len(t) /\ DOMAIN s = 1 .. Len(s)
      /\ Len(s) \in Nat /\ Len(s) > 0
  BY <1>1, LenProperties, EmptySeq
<1> HIDE DEF t
<1>3. ToSet(s) \subseteq {Head(s)} \cup ToSet(t)
  <2> SUFFICES ASSUME NEW i \in 1 .. Len(s), i # 1
               PROVE  s[i] \in ToSet(t)
    BY <1>1, <1>2 DEF ToSet
  <2>1. i - 1 \in 1 .. Len(t) /\ t[i - 1] = s[(i - 1) + 1]
    BY <1>1, <1>2
  <2>2. (i - 1) + 1 = i
    BY <1>2
  <2> QED BY <2>1, <2>2, <1>2 DEF ToSet
<1>4. {Head(s)} \cup ToSet(t) \subseteq ToSet(s)
  <2>1. \A i \in 1 .. Len(t) : i + 1 \in 1 .. Len(s)
    BY <1>1, <1>2
  <2>2. 1 \in 1 .. Len(s)
    BY <1>2
  <2> QED BY <1>1, <1>2, <2>1, <2>2 DEF ToSet
<1>5. ToSet(s) = {Head(s)} \cup ToSet(t)
  BY <1>3, <1>4
<1> QED BY <1>5 DEF t

-----------------------------------------------------------------------------
(* Typing. *)

LEMMA InitType == Init => TypeInv
<1> SUFFICES ASSUME Init PROVE TypeInv
  OBVIOUS
<1>1. /\ \A S : <<>> \in Seq(S)
      /\ Len(<<>>) = 0 /\ 0 <= BufSize
      /\ nextMsg \in 1 .. MaxMsgs + 1 /\ hand \in 0 .. MaxMsgs
  BY BufSizeAssumption, MaxMsgsAssumption, EmptySeq DEF Init, None
<1> QED BY <1>1 DEF Init, TypeInv, TypeOK, HandFull, Pcs

LEMMA NextType == TypeInv /\ [Next]_vars => TypeInv'
<1> SUFFICES ASSUME TypeInv, [Next]_vars PROVE TypeInv'
  OBVIOUS
<1> USE DEF TypeInv, TypeOK, HandFull, Ids, Pcs, callerVars, connVars
<1>0. /\ MaxMsgs \in Nat /\ BufSize \in Nat /\ 0 \in 0 .. MaxMsgs
      /\ Ids \subseteq 0 .. MaxMsgs
      /\ \A S : <<>> \in Seq(S)
  BY MaxMsgsAssumption, BufSizeAssumption
<1>1. CASE Publish
  <2>1. nextMsg' \in 1 .. MaxMsgs + 1 /\ nextMsg \in 1 .. MaxMsgs
    BY <1>0, <1>1 DEF Publish
  <2>2. buf' \in Seq(1 .. MaxMsgs) /\ Len(buf') <= BufSize
    <3>1. CASE closed \/ ~(Len(buf) < BufSize)
      BY <1>1, <3>1 DEF Publish
    <3>2. CASE ~closed /\ Len(buf) < BufSize
      <4>1. buf' = Append(buf, nextMsg)
        BY <1>1, <3>2 DEF Publish
      <4>2. /\ Append(buf, nextMsg) \in Seq(1 .. MaxMsgs)
            /\ Len(Append(buf, nextMsg)) = Len(buf) + 1
        BY <2>1, AppendProperties
      <4> QED BY <1>0, <3>2, <4>1, <4>2, LenProperties
    <3> QED BY <3>1, <3>2
  <2>3. panicked' \in BOOLEAN
    BY <1>1 DEF Publish
  <2> QED BY <1>1, <2>1, <2>2, <2>3 DEF Publish
<1>2. CASE Close
  BY <1>2 DEF Close
<1>3. CASE Dial
  BY <1>0, <1>3 DEF Dial
<1>4. CASE Hello
  <2>1. <<Up>> \in Seq(0 .. MaxMsgs)
    BY <1>0 DEF Up
  <2> QED BY <1>0, <1>4, <2>1 DEF Hello
<1>5. CASE Take
  <2>1. /\ Head(buf) \in Ids
        /\ Tail(buf) \in Seq(Ids)
        /\ Len(Tail(buf)) = Len(buf) - 1
    BY <1>5, HeadTailProperties DEF Take
  <2>2. Len(Tail(buf)) <= BufSize
    BY <1>0, <2>1, LenProperties
  <2> QED BY <1>0, <1>5, <2>1, <2>2 DEF Take
<1>6. CASE PublishHand
  <2>1. Append(wire, hand) \in Seq(0 .. MaxMsgs)
    BY AppendProperties
  <2> QED BY <1>0, <1>6, <2>1 DEF PublishHand, None
<1>7. CASE Await
  <2>1. acks' \in Seq(0 .. MaxMsgs)
    BY <1>7, HeadTailProperties DEF Await
  <2>2. believed' \in SUBSET Ids
    BY <1>7 DEF Await
  <2> QED BY <1>0, <1>7, <2>1, <2>2 DEF Await, None
<1>8. CASE Backoff \/ StartDrain \/ DrainDone
  BY <1>8 DEF Backoff, StartDrain, DrainDone
<1>9. CASE CloseConn
  BY <1>0, <1>9 DEF CloseConn
<1>10. CASE DrainOne
  <2>1. /\ Head(buf) \in Ids
        /\ Tail(buf) \in Seq(Ids)
        /\ Len(Tail(buf)) = Len(buf) - 1
    BY <1>10, HeadTailProperties DEF DrainOne
  <2>2. Len(Tail(buf)) <= BufSize
    BY <1>0, <2>1, LenProperties
  <2>3. Append(wire, Head(buf)) \in Seq(0 .. MaxMsgs)
    BY <1>0, <2>1, AppendProperties
  <2> QED BY <1>10, <2>1, <2>2, <2>3 DEF DrainOne
<1>11. CASE Receive
  <2>1. Head(wire) \in 0 .. MaxMsgs /\ Tail(wire) \in Seq(0 .. MaxMsgs)
    BY <1>11, HeadTailProperties DEF Receive
  <2>2. Append(acks, Head(wire)) \in Seq(0 .. MaxMsgs)
    BY <2>1, AppendProperties
  <2>3. delivered' \in Seq(Ids)
    <3>1. CASE Head(wire) = Up
      BY <1>11, <3>1 DEF Receive
    <3>2. CASE Head(wire) # Up
      <4>1. Head(wire) \in Ids
        BY <1>0, <2>1, <3>2 DEF Up
      <4> QED BY <1>11, <3>2, <4>1, AppendProperties DEF Receive
    <3> QED BY <3>1, <3>2
  <2> QED BY <1>11, <2>1, <2>2, <2>3 DEF Receive
<1>12. CASE Break
  <2>1. PICK n \in 0 .. Len(acks) : acks' = SubSeq(acks, 1, n)
    BY <1>12 DEF Break
  <2>2. \A i \in 1 .. n : acks[i] \in 0 .. MaxMsgs
    <3>1. \A i \in 1 .. n : i \in 1 .. Len(acks)
      BY <2>1, LenProperties
    <3>2. \A i \in 1 .. Len(acks) : acks[i] \in 0 .. MaxMsgs
      BY ElementOfSeq
    <3> QED BY <3>1, <3>2
  <2>3. SubSeq(acks, 1, n) \in Seq(0 .. MaxMsgs)
    <3>1. n \in Int /\ 1 \in Int
      BY <2>1, LenProperties
    <3> HIDE DEF TypeInv, TypeOK
    <3> QED BY <3>1, <2>2, SubSeqProperties
  <2> QED BY <1>0, <1>12, <2>1, <2>3 DEF Break
<1>13. CASE UNCHANGED vars
  BY <1>13 DEF vars
<1> QED BY <1>1, <1>2, <1>3, <1>4, <1>5, <1>6, <1>7, <1>8, <1>9, <1>10,
           <1>11, <1>12, <1>13 DEF Next, RunStep

\* Every variable of the publisher keeps its type: in particular the buffer
\* never holds more than BufSize messages.
THEOREM BrokerTypeCorrect == Spec => []TypeOK
<1>1. TypeInv => TypeOK
  BY DEF TypeInv
<1> QED BY <1>1, InitType, NextType, PTL DEF Spec
-----------------------------------------------------------------------------
(* Order: everything on the way is sorted, older messages further along.    *)

Sorted(s) == \A i, j \in 1 .. Len(s) : i < j => s[i] < s[j]
Below(S, T) == \A a \in S, b \in T : a < b

OrderInv ==
  /\ Sorted(wire) /\ Sorted(buf)
  /\ Below(ToSet(wire), InHand \cup ToSet(buf))
  /\ Below(InHand, ToSet(buf))
  /\ Below(ToSet(wire) \cup InHand \cup ToSet(buf), {nextMsg})

LEMMA SortedAppend ==
  ASSUME NEW s \in Seq(Nat), NEW e \in Nat, Sorted(s), Below(ToSet(s), {e})
  PROVE  Sorted(Append(s, e))
<1> DEFINE t == Append(s, e)
<1>1. /\ Len(t) = Len(s) + 1
      /\ \A i \in 1 .. Len(s) : t[i] = s[i]
      /\ t[Len(s) + 1] = e
      /\ Len(s) \in Nat /\ DOMAIN s = 1 .. Len(s)
  BY AppendProperties, LenProperties
<1>2. \A i \in 1 .. Len(s) : s[i] < e
  BY <1>1 DEF Below, ToSet
<1> HIDE DEF t
<1>3. SUFFICES ASSUME NEW i \in 1 .. Len(t), NEW j \in 1 .. Len(t), i < j
               PROVE  t[i] < t[j]
  BY DEF Sorted, t
<1>4. i \in 1 .. Len(s)
  BY <1>1, <1>3
<1>5. j \in 1 .. Len(s) \/ j = Len(s) + 1
  BY <1>1
<1> QED BY <1>1, <1>2, <1>3, <1>4, <1>5 DEF Sorted

LEMMA SortedTail ==
  ASSUME NEW s \in Seq(Nat), s # <<>>, Sorted(s)
  PROVE  Sorted(Tail(s)) /\ Below({Head(s)}, ToSet(Tail(s)))
<1> DEFINE t == Tail(s)
<1>1. /\ t \in Seq(Nat) /\ Len(t) = Len(s) - 1
      /\ \A i \in 1 .. Len(t) : t[i] = s[i + 1]
      /\ Head(s) = s[1]
  BY HeadTailProperties
<1>2. Len(s) \in Nat /\ Len(s) > 0 /\ DOMAIN t = 1 .. Len(t)
  BY <1>1, LenProperties, EmptySeq
<1>3. \A i \in 1 .. Len(t) : i + 1 \in 1 .. Len(s) /\ 1 < i + 1 /\ 1 \in 1 .. Len(s)
  BY <1>1, <1>2
<1>4. \A i, j \in 1 .. Len(t) : i < j => i + 1 < j + 1
  BY <1>1, <1>2
<1> HIDE DEF t
<1>5. Sorted(t)
  BY <1>1, <1>3, <1>4 DEF Sorted
<1>6. Below({Head(s)}, ToSet(t))
  BY <1>1, <1>2, <1>3 DEF Below, ToSet, Sorted
<1> QED BY <1>5, <1>6 DEF t

LEMMA InitOrder == Init => OrderInv
BY ToSetEmpty, EmptySeq DEF Init, OrderInv, Sorted, Below, InHand

\* What the typing invariant says of the elements under way.
LEMMA ElementTypes ==
  ASSUME TypeInv
  PROVE  /\ MaxMsgs \in Nat /\ nextMsg \in Nat \ {0}
         /\ wire \in Seq(Nat) /\ buf \in Seq(Nat)
         /\ wire \in Seq(0 .. MaxMsgs) /\ buf \in Seq(Ids)
         /\ ToSet(buf) \subseteq Nat \ {0} /\ ToSet(wire) \subseteq Nat
         /\ InHand \subseteq Nat \ {0}
<1> USE MaxMsgsAssumption DEF TypeInv, TypeOK, HandFull, Ids
<1>1. MaxMsgs \in Nat /\ nextMsg \in Nat \ {0}
  OBVIOUS
<1>2. Ids \subseteq Nat \ {0} /\ 0 .. MaxMsgs \subseteq Nat
  BY <1>1
<1>3. wire \in Seq(Nat) /\ buf \in Seq(Nat)
  BY <1>2, SeqMonotonic
<1>4. \A i \in 1 .. Len(buf) : buf[i] \in Ids
  BY ElementOfSeq
<1>5. \A i \in 1 .. Len(wire) : wire[i] \in 0 .. MaxMsgs
  BY ElementOfSeq
<1>6. DOMAIN buf = 1 .. Len(buf) /\ DOMAIN wire = 1 .. Len(wire)
  BY LenProperties
<1>7. ToSet(buf) \subseteq Nat \ {0} /\ ToSet(wire) \subseteq Nat
  BY <1>2, <1>4, <1>5, <1>6 DEF ToSet
<1>8. InHand \subseteq Nat \ {0}
  BY <1>2 DEF InHand
<1> QED BY <1>1, <1>3, <1>7, <1>8

\* A step that changes the position of no message keeps the order.
LEMMA OrderStep == TypeInv /\ OrderInv /\ [Next]_vars => OrderInv'
<1> SUFFICES ASSUME TypeInv, OrderInv, [Next]_vars PROVE OrderInv'
  OBVIOUS
<1> USE DEF callerVars, connVars
<1>0. /\ MaxMsgs \in Nat /\ nextMsg \in Nat \ {0}
      /\ wire \in Seq(Nat) /\ buf \in Seq(Nat)
      /\ ToSet(buf) \subseteq Nat \ {0} /\ ToSet(wire) \subseteq Nat
      /\ InHand \subseteq Nat \ {0}
  BY ElementTypes
<1>1. CASE Publish
  <2>1. /\ nextMsg' = nextMsg + 1 /\ wire' = wire /\ InHand' = InHand
    BY <1>1 DEF Publish, InHand
  <2>2. /\ \A a \in ToSet(wire) \cup InHand \cup ToSet(buf) :
               a \in Nat /\ a < nextMsg
        /\ nextMsg \in Nat
    BY <1>0 DEF OrderInv, Below
  <2>3. \A a \in ToSet(wire) \cup InHand \cup ToSet(buf) \cup {nextMsg} :
           a < nextMsg'
    BY <2>1, <2>2
  <2>4. CASE buf' = buf
    <3>1. Below(ToSet(wire') \cup InHand' \cup ToSet(buf'), {nextMsg'})
      BY <2>1, <2>3, <2>4 DEF Below
    <3> QED BY <2>1, <2>4, <3>1 DEF OrderInv, Below
  <2>5. CASE buf' = Append(buf, nextMsg)
    <3>1. ToSet(buf') = ToSet(buf) \cup {nextMsg}
      BY <1>0, <2>5, ToSetAppend
    <3>2. Sorted(buf')
      BY <1>0, <2>5, SortedAppend DEF OrderInv, Below
    <3>3. Below(ToSet(wire') \cup InHand' \cup ToSet(buf'), {nextMsg'})
      BY <2>1, <2>3, <3>1 DEF Below
    <3>4. /\ Below(ToSet(wire'), InHand' \cup ToSet(buf'))
          /\ Below(InHand', ToSet(buf'))
      BY <2>1, <2>2, <3>1 DEF OrderInv, Below
    <3> QED BY <2>1, <3>2, <3>3, <3>4 DEF OrderInv
  <2> QED BY <1>1, <2>4, <2>5 DEF Publish
<1>2. CASE Hello
  <2>1. buf' = buf /\ nextMsg' = nextMsg /\ InHand = {} /\ InHand' = {}
    BY <1>2 DEF Hello, InHand
  <2>2. wire' = <<>> \/ wire' = <<Up>>
    BY <1>2 DEF Hello
  <2>3. Sorted(<<>>) /\ Sorted(<<Up>>)
    BY DEF Sorted
  <2>4. ToSet(<<>>) = {} /\ ToSet(<<Up>>) = {0}
    BY ToSetEmpty, ToSetOne DEF Up
  <2>5. Sorted(wire') /\ ToSet(wire') \subseteq {0}
    BY <2>2, <2>3, <2>4
  <2> QED BY <1>0, <2>1, <2>5 DEF OrderInv, Below
<1>3. CASE Take
  <2>1. /\ buf # <<>> /\ buf' = Tail(buf) /\ wire' = wire /\ nextMsg' = nextMsg
        /\ InHand = {} /\ InHand' = {Head(buf)}
    BY <1>3 DEF Take, InHand
  <2>2. ToSet(buf) = {Head(buf)} \cup ToSet(buf')
    BY <1>0, <2>1, ToSetHeadTail
  <2>3. Sorted(buf') /\ Below(InHand', ToSet(buf'))
    BY <1>0, <2>1, SortedTail DEF OrderInv
  <2> QED BY <2>1, <2>2, <2>3 DEF OrderInv, Below
<1>4. CASE PublishHand
  <2>1. buf' = buf /\ nextMsg' = nextMsg /\ InHand = {hand} /\ InHand' = {}
    BY <1>4 DEF PublishHand, InHand
  <2>2. CASE wire' = wire
    BY <2>1, <2>2 DEF OrderInv, Below
  <2>3. CASE wire' = Append(wire, hand)
    <3>1. ToSet(wire') = ToSet(wire) \cup {hand}
      BY <1>0, <2>1, <2>3, ToSetAppend
    <3>2. Sorted(wire')
      BY <1>0, <2>1, <2>3, SortedAppend DEF OrderInv, Below
    <3> QED BY <2>1, <3>1, <3>2 DEF OrderInv, Below
  <2> QED BY <1>4, <2>2, <2>3 DEF PublishHand
<1>5. CASE DrainOne
  <2>1. /\ buf # <<>> /\ buf' = Tail(buf) /\ nextMsg' = nextMsg
        /\ InHand = {} /\ InHand' = {}
    BY <1>5 DEF DrainOne, InHand
  <2>2. ToSet(buf) = {Head(buf)} \cup ToSet(buf')
    BY <1>0, <2>1, ToSetHeadTail
  <2>3. Sorted(buf') /\ Below({Head(buf)}, ToSet(buf'))
    BY <1>0, <2>1, SortedTail DEF OrderInv
  <2>4. CASE wire' = wire
    BY <2>1, <2>2, <2>3, <2>4 DEF OrderInv, Below
  <2>5. CASE wire' = Append(wire, Head(buf))
    <3>1. Head(buf) \in Nat
      BY <1>0, <2>2
    <3>2. ToSet(wire') = ToSet(wire) \cup {Head(buf)}
      BY <1>0, <2>5, <3>1, ToSetAppend
    <3>3. Sorted(wire')
      BY <1>0, <2>2, <2>5, <3>1, SortedAppend DEF OrderInv, Below
    <3> QED BY <2>1, <2>2, <2>3, <3>2, <3>3 DEF OrderInv, Below
  <2> QED BY <1>5, <2>4, <2>5 DEF DrainOne
<1>6. CASE Receive
  <2>1. /\ wire # <<>> /\ wire' = Tail(wire) /\ buf' = buf /\ nextMsg' = nextMsg
        /\ InHand' = InHand
    BY <1>6 DEF Receive, InHand
  <2>2. ToSet(wire) = {Head(wire)} \cup ToSet(wire')
    BY <1>0, <2>1, ToSetHeadTail
  <2>3. Sorted(wire')
    BY <1>0, <2>1, SortedTail DEF OrderInv
  <2> QED BY <2>1, <2>2, <2>3 DEF OrderInv, Below
<1>7. CASE Dial \/ Break
  <2>1. /\ buf' = buf /\ nextMsg' = nextMsg /\ wire' = <<>>
        /\ InHand' = InHand
    BY <1>7 DEF Dial, Break, InHand
  <2>2. Sorted(wire') /\ ToSet(wire') = {}
    BY <2>1, ToSetEmpty, EmptySeq DEF Sorted
  <2> QED BY <2>1, <2>2 DEF OrderInv, Below
<1>8. CASE \/ Close \/ Await \/ Backoff \/ StartDrain \/ DrainDone \/ CloseConn
           \/ UNCHANGED vars
  <2>1. UNCHANGED <<wire, buf, nextMsg>> /\ InHand' = InHand
    BY <1>8 DEF Close, Await, Backoff, StartDrain, DrainDone, CloseConn, vars, InHand
  <2> QED BY <2>1 DEF OrderInv, Below
<1> QED BY <1>1, <1>2, <1>3, <1>4, <1>5, <1>6, <1>7, <1>8 DEF Next, RunStep

\* Whatever is on the way is in the order of the Publish calls.
THEOREM BrokerInOrder == Spec => []OrderInv
BY InitOrder, InitType, NextType, OrderStep, PTL DEF Spec

-----------------------------------------------------------------------------
(* Refinement.                                                             *)

LEMMA InitRefines == Init => Fifo!Init
BY ToSetEmpty DEF Init, Fifo!Init, Pending, InHand

LEMMA StepRefines ==
  TypeInv /\ OrderInv /\ [Next]_vars => [Fifo!Next]_(Fifo!vars)
<1> SUFFICES ASSUME TypeInv, OrderInv, [Next]_vars
             PROVE  Fifo!Next \/ UNCHANGED Fifo!vars
  OBVIOUS
<1> USE DEF callerVars, connVars
<1>0. /\ MaxMsgs \in Nat /\ nextMsg \in Nat \ {0}
      /\ wire \in Seq(Nat) /\ buf \in Seq(Nat)
      /\ ToSet(buf) \subseteq Nat \ {0} /\ ToSet(wire) \subseteq Nat
      /\ InHand \subseteq Nat \ {0}
  BY ElementTypes
<1>a. ASSUME Pending' \in SUBSET Pending, nextMsg' = nextMsg,
             delivered' = delivered
      PROVE  Fifo!Next
  BY <1>a DEF Fifo!Next, Fifo!Lose
<1>1. CASE Publish
  <2>1. /\ nextMsg' = nextMsg + 1 /\ wire' = wire /\ InHand' = InHand
        /\ delivered' = delivered
    BY <1>1 DEF Publish, InHand
  <2>2. CASE buf' = buf
    <3>1. Pending' = Pending
      BY <2>1, <2>2 DEF Pending
    <3> QED BY <2>1, <3>1 DEF Fifo!Next, Fifo!Send
  <2>3. CASE buf' = Append(buf, nextMsg)
    <3>1. ToSet(buf') = ToSet(buf) \cup {nextMsg}
      BY <1>0, <2>3, ToSetAppend
    <3>2. Pending' = Pending \cup {nextMsg}
      BY <2>1, <3>1 DEF Pending
    <3> QED BY <2>1, <3>2 DEF Fifo!Next, Fifo!Send
  <2> QED BY <1>1, <2>2, <2>3 DEF Publish
<1>2. CASE Hello
  <2>1. /\ buf' = buf /\ nextMsg' = nextMsg /\ InHand = {} /\ InHand' = {}
        /\ delivered' = delivered
    BY <1>2 DEF Hello, InHand
  <2>2. wire' = <<>> \/ wire' = <<Up>>
    BY <1>2 DEF Hello
  <2>3. ToSet(<<>>) = {} /\ ToSet(<<Up>>) = {Up}
    BY ToSetEmpty, ToSetOne
  <2>4. ToSet(wire') \ {Up} = {}
    BY <2>2, <2>3
  <2>5. Pending' \in SUBSET Pending
    BY <2>1, <2>4 DEF Pending
  <2> QED BY <1>a, <2>1, <2>5
<1>3. CASE Take
  <2>1. /\ buf # <<>> /\ buf' = Tail(buf) /\ wire' = wire /\ nextMsg' = nextMsg
        /\ InHand = {} /\ InHand' = {Head(buf)} /\ delivered' = delivered
    BY <1>3 DEF Take, InHand
  <2>2. ToSet(buf) = {Head(buf)} \cup ToSet(buf')
    BY <1>0, <2>1, ToSetHeadTail
  <2>3. Pending' \in SUBSET Pending
    BY <2>1, <2>2 DEF Pending
  <2> QED BY <1>a, <2>1, <2>3
<1>4. CASE PublishHand
  <2>1. /\ buf' = buf /\ nextMsg' = nextMsg /\ InHand = {hand} /\ InHand' = {}
        /\ delivered' = delivered
    BY <1>4 DEF PublishHand, InHand
  <2>2. ToSet(wire') \subseteq ToSet(wire) \cup {hand}
    <3>1. hand \in Nat
      BY <1>0, <2>1
    <3>2. ToSet(Append(wire, hand)) = ToSet(wire) \cup {hand}
      BY <1>0, <3>1, ToSetAppend
    <3> QED BY <1>4, <3>2 DEF PublishHand
  <2>3. Pending' \in SUBSET Pending
    BY <2>1, <2>2 DEF Pending
  <2> QED BY <1>a, <2>1, <2>3
<1>5. CASE DrainOne
  <2>1. /\ buf # <<>> /\ buf' = Tail(buf) /\ nextMsg' = nextMsg
        /\ InHand = {} /\ InHand' = {} /\ delivered' = delivered
    BY <1>5 DEF DrainOne, InHand
  <2>2. ToSet(buf) = {Head(buf)} \cup ToSet(buf')
    BY <1>0, <2>1, ToSetHeadTail
  <2>3. ToSet(wire') \subseteq ToSet(wire) \cup {Head(buf)}
    <3>1. Head(buf) \in Nat
      BY <1>0, <2>2
    <3>2. ToSet(Append(wire, Head(buf))) = ToSet(wire) \cup {Head(buf)}
      BY <1>0, <3>1, ToSetAppend
    <3> QED BY <1>5, <3>2 DEF DrainOne
  <2>4. Pending' \in SUBSET Pending
    BY <2>1, <2>2, <2>3 DEF Pending
  <2> QED BY <1>a, <2>1, <2>4
<1>6. CASE Receive
  <2>1. /\ wire # <<>> /\ wire' = Tail(wire) /\ buf' = buf /\ nextMsg' = nextMsg
        /\ InHand' = InHand
    BY <1>6 DEF Receive, InHand
  <2>2. ToSet(wire) = {Head(wire)} \cup ToSet(wire')
    BY <1>0, <2>1, ToSetHeadTail
  <2>3. CASE Head(wire) = Up
    <3>1. delivered' = delivered
      BY <1>6, <2>3 DEF Receive
    <3>2. Pending' \in SUBSET Pending
      BY <2>1, <2>2 DEF Pending
    <3> QED BY <1>a, <2>1, <3>1, <3>2
  <2>4. CASE Head(wire) # Up
    <3> DEFINE m == Head(wire)
    <3>1. m \in Nat /\ m \in Pending
      BY <1>0, <2>2, <2>4 DEF Pending
    <3>2. ToSet(delivered') = ToSet(delivered) \cup {m}
      <4>1. delivered' = Append(delivered, m)
        BY <1>6, <2>4 DEF Receive
      <4>2. delivered \in Seq(Nat)
        <5>1. delivered \in Seq(Ids) /\ Ids \subseteq Nat
          BY <1>0 DEF TypeInv, TypeOK, Ids
        <5> QED BY <5>1, SeqMonotonic
      <4> QED BY <3>1, <4>1, <4>2, ToSetAppend
    <3>3. Below({m}, ToSet(wire'))
      BY <1>0, <2>1, SortedTail DEF OrderInv
    <3>4. Below({m}, InHand \cup ToSet(buf))
      BY <2>2 DEF OrderInv, Below
    <3>5. \A k \in ToSet(wire') \cup InHand \cup ToSet(buf) : k \in Nat /\ k > m
      BY <1>0, <2>2, <3>1, <3>3, <3>4 DEF Below
    <3>6. Pending = {m} \cup ((ToSet(wire') \ {Up}) \cup InHand \cup ToSet(buf))
      BY <2>2, <2>4 DEF Pending
    <3>7. Pending' = (ToSet(wire') \ {Up}) \cup InHand \cup ToSet(buf)
      BY <2>1 DEF Pending
    <3>8. ~(m > m)
      BY <3>1
    <3>9. Pending' = {k \in Pending : k > m}
      BY <3>5, <3>6, <3>7, <3>8
    <3> HIDE DEF m
    <3> QED BY <2>1, <3>1, <3>2, <3>9 DEF Fifo!Next, Fifo!Deliver
  <2> QED BY <2>3, <2>4
<1>7. CASE Dial \/ Break
  <2>1. /\ buf' = buf /\ nextMsg' = nextMsg /\ wire' = <<>>
        /\ InHand' = InHand /\ delivered' = delivered
    BY <1>7 DEF Dial, Break, InHand
  <2>2. Pending' \in SUBSET Pending
    BY <2>1, ToSetEmpty DEF Pending
  <2> QED BY <1>a, <2>1, <2>2
<1>8. CASE \/ Close \/ Await \/ Backoff \/ StartDrain \/ DrainDone \/ CloseConn
           \/ UNCHANGED vars
  <2>1. UNCHANGED <<wire, buf, nextMsg, delivered>> /\ InHand' = InHand
    BY <1>8 DEF Close, Await, Backoff, StartDrain, DrainDone, CloseConn, vars, InHand
  <2> QED BY <2>1 DEF Fifo!vars, Pending
<1> QED BY <1>1, <1>2, <1>3, <1>4, <1>5, <1>6, <1>7, <1>8 DEF Next, RunStep

\* The publisher implements the lossy queue: over any number of reconnections
\* and whatever is dropped, no message is delivered twice or out of order.
THEOREM BrokerRefinesLossyFifo == Spec => FifoSpec
<1>1. TypeInv /\ OrderInv /\ [Next]_vars => [Fifo!Next]_(Fifo!vars)
  BY StepRefines
<1> QED BY <1>1, InitRefines, InitType, NextType, InitOrder, OrderStep, PTL
        DEF Spec, FifoSpec, Fifo!Spec
-----------------------------------------------------------------------------
(* What a failing connection takes with it.                                 *)

\* The goroutine has no connection between a failure and the next dial. While it
\* pumps, service_up and the last message can wait for their confirmations, and
\* one confirmation is read for each message: one message of lag.
WireInv ==
  /\ link # "open" => wire = <<>>
  /\ link = "down" <=> pc \in {"dial", "backoff", "exited"}
  /\ pc = "hello" => wire = <<>> /\ acks = <<>>
  /\ link = "open" /\ pc \in {"select", "publish"} => Len(wire) + Len(acks) <= 1
  /\ link = "open" /\ pc = "await" => Len(wire) + Len(acks) <= 2

LEMMA InitWire == Init => WireInv
BY DEF Init, WireInv

LEMMA WireStep == TypeInv /\ WireInv /\ [Next]_vars => WireInv'
<1> SUFFICES ASSUME TypeInv, WireInv, [Next]_vars
             PROVE  WireInv'
  OBVIOUS
<1> USE DEF callerVars, connVars
<1>0. /\ wire \in Seq(0 .. MaxMsgs) /\ acks \in Seq(0 .. MaxMsgs) /\ hand \in 0 .. MaxMsgs
      /\ Len(wire) \in Nat /\ Len(acks) \in Nat /\ Len(<<>>) = 0
      /\ pc \in Pcs /\ link \in {"down", "open", "broken"}
  BY LenProperties, EmptySeq DEF TypeInv, TypeOK
<1>1. CASE Publish \/ Close
  BY <1>1 DEF Publish, Close, WireInv
<1>2. CASE Dial
  BY <1>2 DEF Dial, WireInv
<1>3. CASE Hello
  <2>1. Len(<<Up>>) = 1
    OBVIOUS
  <2>2. CASE link = "open"
    BY <1>0, <1>3, <2>1, <2>2 DEF Hello, WireInv
  <2>3. CASE link # "open"
    BY <1>0, <1>3, <2>3 DEF Hello, WireInv
  <2> QED BY <2>2, <2>3
<1>4. CASE Take
  BY <1>4 DEF Take, WireInv
<1>5. CASE PublishHand
  <2>1. CASE link = "open"
    <3>1. Len(Append(wire, hand)) = Len(wire) + 1
      BY <1>0, AppendProperties
    <3>2. /\ wire' = Append(wire, hand) /\ pc' = "await" /\ pc = "publish"
          /\ UNCHANGED <<link, acks>>
      BY <1>5, <2>1 DEF PublishHand
    <3> HIDE DEF Pcs
    <3> QED BY <1>0, <2>1, <3>1, <3>2 DEF WireInv
  <2>2. CASE link # "open"
    BY <1>5, <2>2 DEF PublishHand, WireInv
  <2> QED BY <2>1, <2>2
<1>6. CASE Await
  <2>1. CASE acks # <<>>
    <3>1. pc = "await" /\ pc' = "select" /\ acks' = Tail(acks) /\ UNCHANGED <<link, wire>>
      BY <1>6, <2>1 DEF Await
    <3>2. Len(acks') = Len(acks) - 1
      BY <1>0, <2>1, <3>1, HeadTailProperties
    <3>3. link = "open" => Len(wire) + Len(acks') <= 1
      <4>1. link = "open" => Len(wire) + Len(acks) <= 2
        BY <3>1 DEF WireInv
      <4>2. Len(wire) \in Nat /\ Len(acks) \in Nat
        BY <1>0
      <4>3. \A m, n, k \in Nat : m + n <= 2 /\ k = n - 1 => m + k <= 1
        OBVIOUS
      <4>4. Len(acks') \in Nat
        BY <1>0, <2>1, <3>1, HeadTailProperties, LenProperties
      <4> QED BY <3>2, <4>1, <4>2, <4>3, <4>4
    <3> QED BY <3>1, <3>3 DEF WireInv
  <2>2. CASE acks = <<>>
    BY <1>6, <2>2 DEF Await, WireInv
  <2> QED BY <2>1, <2>2
<1>7. CASE Backoff \/ StartDrain \/ DrainDone \/ CloseConn
  BY <1>7 DEF Backoff, StartDrain, DrainDone, CloseConn, WireInv
<1>8. CASE DrainOne
  BY <1>8 DEF DrainOne, WireInv
<1>9. CASE Receive
  <2>1. /\ Len(Tail(wire)) = Len(wire) - 1 /\ wire # <<>>
        /\ Len(Append(acks, Head(wire))) = Len(acks) + 1
    BY <1>0, <1>9, HeadTailProperties, AppendProperties DEF Receive
  <2>2. /\ wire' = Tail(wire) /\ acks' = Append(acks, Head(wire)) /\ link = "open"
        /\ UNCHANGED <<link, pc>>
    BY <1>9 DEF Receive
  <2> QED BY <1>0, <2>1, <2>2 DEF WireInv
<1>10. CASE Break
  BY <1>10 DEF Break, WireInv
<1>11. CASE UNCHANGED vars
  BY <1>11 DEF vars, WireInv
<1> QED BY <1>1, <1>2, <1>3, <1>4, <1>5, <1>6, <1>7, <1>8, <1>9, <1>10, <1>11 DEF Next, RunStep

Gone == Pending \ (Pending' \cup ToSet(delivered'))

LEMMA GoneStep ==
  ASSUME TypeInv, WireInv, [Next]_vars
  PROVE  /\ link = "open" /\ link' = "open" => Gone = {}
         /\ Gone # {} => link # "down"
         /\ \A a, b, c \in Gone : pc # "drain" /\ pc # "close" => a = b \/ b = c \/ a = c
<1> USE DEF callerVars, connVars
<1>0. /\ MaxMsgs \in Nat /\ nextMsg \in Nat \ {0}
      /\ wire \in Seq(Nat) /\ buf \in Seq(Nat)
      /\ ToSet(buf) \subseteq Nat \ {0} /\ ToSet(wire) \subseteq Nat
      /\ InHand \subseteq Nat \ {0}
  BY ElementTypes
<1>a. Pending \subseteq Pending' \cup ToSet(delivered') => Gone = {}
  BY DEF Gone
<1>1. CASE Publish
  <2>1. InHand' = InHand /\ wire' = wire
    BY <1>1 DEF Publish, InHand
  <2>2. buf' = buf \/ buf' = Append(buf, nextMsg)
    BY <1>1 DEF Publish
  <2>3. ToSet(Append(buf, nextMsg)) = ToSet(buf) \cup {nextMsg}
    BY <1>0, ToSetAppend
  <2>4. ToSet(buf) \subseteq ToSet(buf')
    BY <2>2, <2>3
  <2> QED BY <1>a, <2>1, <2>4 DEF Pending
<1>2. CASE Take
  <2>1. /\ buf # <<>> /\ buf' = Tail(buf) /\ wire' = wire
        /\ InHand = {} /\ InHand' = {Head(buf)}
    BY <1>2 DEF Take, InHand
  <2>2. ToSet(buf) = {Head(buf)} \cup ToSet(buf')
    BY <1>0, <2>1, ToSetHeadTail
  <2> QED BY <1>a, <2>1, <2>2 DEF Pending
<1>3. CASE PublishHand
  <2>1. buf' = buf /\ InHand = {hand} /\ InHand' = {} /\ hand \in Nat \ {0} /\ pc = "publish"
    BY <1>0, <1>3 DEF PublishHand, InHand
  <2>2. CASE link = "open"
    <3>1. ToSet(wire') = ToSet(wire) \cup {hand}
      BY <1>0, <1>3, <2>1, <2>2, ToSetAppend DEF PublishHand
    <3> QED BY <1>a, <2>1, <3>1 DEF Pending, Up
  <2>3. CASE link # "open"
    <3>1. wire' = wire /\ link # "down"
      BY <1>3, <2>1, <2>3 DEF PublishHand, WireInv
    <3>2. Gone \subseteq {hand}
      BY <2>1, <3>1 DEF Gone, Pending
    <3> QED BY <2>3, <3>1, <3>2
  <2> QED BY <2>2, <2>3
<1>4. CASE DrainOne
  <2>1. /\ pc = "drain" /\ buf # <<>> /\ buf' = Tail(buf)
        /\ InHand = {} /\ InHand' = {} /\ link' = link /\ link # "down"
    BY <1>4 DEF DrainOne, InHand, WireInv
  <2>2. ToSet(buf) = {Head(buf)} \cup ToSet(buf')
    BY <1>0, <2>1, ToSetHeadTail
  <2>3. CASE link = "open"
    <3>1. Head(buf) \in Nat \ {0}
      BY <1>0, <2>2
    <3>2. ToSet(wire') = ToSet(wire) \cup {Head(buf)}
      BY <1>0, <1>4, <2>3, <3>1, ToSetAppend DEF DrainOne
    <3> QED BY <1>a, <2>1, <2>2, <3>1, <3>2 DEF Pending, Up
  <2>4. CASE link # "open"
    BY <2>1, <2>4
  <2> QED BY <2>3, <2>4
<1>5. CASE Receive
  <2>1. /\ wire # <<>> /\ wire' = Tail(wire) /\ buf' = buf /\ InHand' = InHand
    BY <1>5 DEF Receive, InHand
  <2>2. ToSet(wire) = {Head(wire)} \cup ToSet(wire')
    BY <1>0, <2>1, ToSetHeadTail
  <2>3. Head(wire) # Up => Head(wire) \in ToSet(delivered')
    <3>1. delivered \in Seq(Nat) /\ Head(wire) \in Nat
      <4>1. delivered \in Seq(Ids) /\ Ids \subseteq Nat
        BY <1>0 DEF TypeInv, TypeOK, Ids
      <4> QED BY <1>0, <2>2, <4>1, SeqMonotonic
    <3>2. ToSet(Append(delivered, Head(wire))) = ToSet(delivered) \cup {Head(wire)}
      BY <3>1, ToSetAppend
    <3> QED BY <1>5, <3>2 DEF Receive
  <2> QED BY <1>a, <2>1, <2>2, <2>3 DEF Pending
<1>6. CASE Break
  <2>1. buf' = buf /\ InHand' = InHand /\ link = "open" /\ link' = "broken"
    BY <1>6 DEF Break, InHand
  <2>2. Gone \subseteq ToSet(wire)
    BY <2>1 DEF Gone, Pending
  <2>3. ASSUME pc # "drain", pc # "close"
        PROVE  \A a, b, c \in ToSet(wire) : a = b \/ b = c \/ a = c
    <3>1. Len(wire) <= 2 /\ Len(wire) \in Nat
      <4>1. Len(wire) \in Nat /\ Len(acks) \in Nat
        BY LenProperties DEF TypeInv, TypeOK
      <4>2. pc \in {"hello", "select", "publish", "await"}
        BY <2>1, <2>3 DEF WireInv, TypeInv, TypeOK, Pcs
      <4> QED BY <2>1, <4>1, <4>2, EmptySeq DEF WireInv
    <3>2. \A a \in ToSet(wire) : \E i \in 1 .. 2 : a = wire[i]
      <4>1. DOMAIN wire = 1 .. Len(wire)
        BY <1>0, LenProperties
      <4> QED BY <3>1, <4>1 DEF ToSet
    <3>3. 1 .. 2 = {1, 2}
      OBVIOUS
    <3> QED BY <3>2, <3>3
  <2> QED BY <2>1, <2>2, <2>3
<1>7. CASE Dial \/ Hello
  <2>1. buf' = buf /\ wire = <<>> /\ InHand = {} /\ InHand' = {}
    BY <1>7 DEF Dial, Hello, WireInv, InHand
  <2> QED BY <1>a, <2>1, ToSetEmpty DEF Pending
<1>8. CASE \/ Close \/ Await \/ Backoff \/ StartDrain \/ DrainDone \/ CloseConn
           \/ UNCHANGED vars
  <2>1. UNCHANGED <<wire, buf>> /\ InHand' = InHand
    BY <1>8 DEF Close, Await, Backoff, StartDrain, DrainDone, CloseConn, vars, InHand
  <2> QED BY <1>a, <2>1 DEF Pending
<1> QED BY <1>1, <1>2, <1>3, <1>4, <1>5, <1>6, <1>7, <1>8 DEF Next, RunStep

\* Over any number of connections and for any buffer: what was accepted is lost
\* only when a connection fails, at most two messages at a time while the
\* goroutine pumps (connectAndPump, run).
THEOREM LossesAreFew == Spec => LossIsBounded
<1>1. TypeInv /\ WireInv /\ [Next]_vars =>
        [LET gone == Pending \ (Pending' \cup ToSet(delivered'))
         IN  /\ link = "open" /\ link' = "open" => gone = {}
             /\ gone # {} => link # "down"
             /\ \A a, b, c \in gone : pc # "drain" /\ pc # "close" =>
                  a = b \/ b = c \/ a = c]_vars
  BY GoneStep DEF Gone
<1> QED BY <1>1, InitType, NextType, InitWire, WireStep, PTL DEF Spec, LossIsBounded
=============================================================================
